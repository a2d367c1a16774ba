--------------------- MODULE CollectionContinuation_proofs ---------------------
(***************************************************************************)
(* Completion evidence of a collection, for every number of invocations,   *)
(* targets, database errors and edits of the collection file: rows are     *)
(* never lost to a concurrent invocation, and rows of a run without        *)
(* excerpts stand for retrieved targets.  At the end, the layout of the    *)
(* database the rows are kept in.                                          *)
(***************************************************************************)
EXTENDS CollectionContinuation, CollectionSchema, TLAPS

-----------------------------------------------------------------------------
\* Init is well typed.
LEMMA InitTypeOK == Init => TypeOK
<1> SUFFICES ASSUME Init PROVE TypeOK
  OBVIOUS
<1> USE RevisionAssumption, RunAssumption, ContinuationBoundAssumption DEF Init
<1>1. file \in File
  BY DEF File
<1>2. [mode |-> "continue", whole |-> TRUE] \in Option
  BY DEF Option
<1>3. "off" \in PC
  BY DEF PC
<1>4. file.targets \in Revision
  OBVIOUS
<1> QED
  BY <1>1, <1>2, <1>3, <1>4 DEF TypeOK

\* Whether the state database works or fails, the count of faults is typed.
LEMMA FaultsType ==
  ASSUME TypeOK, Works \/ Fails PROVE faults' \in 0..MaxFaults
  BY ContinuationBoundAssumption DEF TypeOK, Works, Fails

\* yt-dlp goes on to be a yt-dlp with fewer targets left.
LEMMA LeftType ==
  ASSUME TypeOK, NEW p \in Run, dl[p] # NoDownload, NEW t
  PROVE  [dl EXCEPT ![p].left = @ \ {t}] \in [Run -> Download \cup {NoDownload}]
<1>1. dl[p] \in Download
  BY DEF TypeOK
<1>2. [dl[p] EXCEPT !.left = @ \ {t}] \in Download
  BY <1>1 DEF Download
<1> QED
  BY <1>2 DEF TypeOK

\* The targets of a revision are targets.
LEMMA MembersAreTargets == \A r \in Revision : Members(r) \subseteq Target
<1> SUFFICES ASSUME NEW r \in Revision, NEW i \in DOMAIN r PROVE r[i] \in Target
  BY DEF Members
<1>1. r \in Seq(Target)
  BY RevisionAssumption
<1> QED
  BY <1>1

\* Every step keeps the state well typed.
LEMMA NextTypeOK ==
  ASSUME TypeOK, [Next]_vars PROVE TypeOK'
<1> USE RevisionAssumption, RunAssumption, ContinuationBoundAssumption
    DEF TypeOK, state, own, child, budget
<1>1. ASSUME NEW p \in Run, Start(p) PROVE TypeOK'
  BY <1>1 DEF Start, Goto, PC, File
<1>2. ASSUME NEW p \in Run, Enter(p) PROVE TypeOK'
  BY <1>2 DEF Enter, PC, Goto
<1>3. ASSUME NEW p \in Run, Reset(p) PROVE TypeOK'
  BY <1>3, FaultsType DEF Reset, Goto, PC
<1>4. ASSUME NEW p \in Run, ReadCompleted(p) PROVE TypeOK'
  BY <1>4, FaultsType DEF ReadCompleted, Goto, PC
<1>5. ASSUME NEW p \in Run, CompareObservation(p) PROVE TypeOK'
  BY <1>5, FaultsType DEF CompareObservation, Goto, PC
<1>6. ASSUME NEW p \in Run, RecordObservation(p) PROVE TypeOK'
  BY <1>6, FaultsType DEF RecordObservation, Goto, PC
<1>7. ASSUME NEW p \in Run, Launch(p) PROVE TypeOK'
  <2>1. Remaining(p) \in SUBSET Target
    BY MembersAreTargets DEF Remaining
  <2>2. [left |-> Remaining(p), tracked |-> tracked[p], whole |-> opt[p].whole] \in Download
    BY <2>1 DEF Download, Option
  <2> QED
    BY <1>7, <2>2 DEF Launch, Goto, PC
<1>8. ASSUME NEW p \in Run, Retrieve(p) PROVE TypeOK'
  <2>1. PICK t \in dl[p].left :
           /\ dl' = [dl EXCEPT ![p].left = @ \ {t}]
           /\ got' = IF dl[p].whole THEN got \cup {t} ELSE got
           /\ cb' = IF dl[p].tracked
                      THEN [cb EXCEPT ![p] = [step |-> "read", media |-> t]] ELSE cb
    BY <1>8 DEF Retrieve
  <2>2. dl[p] # NoDownload
    BY <1>8 DEF Retrieve
  <2>3. t \in Target
    BY <2>2 DEF Download
  <2>4. [step |-> "read", media |-> t] \in Callback
    BY <2>3 DEF Callback
  <2>5. dl' \in [Run -> Download \cup {NoDownload}]
    BY <2>1, <2>2, LeftType
  <2>6. got' \subseteq Target /\ cb' \in [Run -> Callback \cup {NoCallback}]
    BY <2>1, <2>3, <2>4
  <2> QED
    BY <1>8, <2>5, <2>6 DEF Retrieve
<1>9. ASSUME NEW p \in Run, PassOver(p) PROVE TypeOK'
  <2>1. PICK t : dl' = [dl EXCEPT ![p].left = @ \ {t}]
    BY <1>9 DEF PassOver
  <2>2. dl[p] # NoDownload
    BY <1>9 DEF PassOver
  <2>3. dl' \in [Run -> Download \cup {NoDownload}]
    BY <2>1, <2>2, LeftType
  <2> QED
    BY <1>9, <2>3 DEF PassOver
<1>10. ASSUME NEW p \in Run, Exit(p) PROVE TypeOK'
  BY <1>10 DEF Exit
<1>11. ASSUME NEW p \in Run, CallbackRead(p) PROVE TypeOK'
  <2>1. cb[p] \in Callback
    BY <1>11 DEF CallbackRead
  <2>2. [cb[p] EXCEPT !.step = "record"] \in Callback
    BY <2>1 DEF Callback
  <2>3. cb' = [cb EXCEPT ![p].step = "record"] \/ cb' = [cb EXCEPT ![p] = NoCallback]
    BY <1>11 DEF CallbackRead, Drop
  <2>4. cb' \in [Run -> Callback \cup {NoCallback}]
    BY <2>2, <2>3
  <2> QED
    BY <1>11, <2>4 DEF CallbackRead
<1>12. ASSUME NEW p \in Run, CallbackRecord(p) PROVE TypeOK'
  <2>1. cb[p] \in Callback /\ cb[p].media \in Target
    BY <1>12 DEF CallbackRecord, Callback
  <2>2. rows' \subseteq Target
    BY <1>12, <2>1 DEF CallbackRecord
  <2>3. cb' \in [Run -> Callback \cup {NoCallback}]
    BY <1>12 DEF CallbackRecord, Drop
  <2> QED
    BY <1>12, <2>2, <2>3, FaultsType DEF CallbackRecord
<1>13. ASSUME NEW p \in Run, Wait(p) PROVE TypeOK'
  BY <1>13 DEF Wait, PC, Finish, Goto, Release
<1>14. ASSUME NEW p \in Run, Check(p) PROVE TypeOK'
  BY <1>14, FaultsType DEF Check, Finish, Goto, Release, PC
<1>15. ASSUME NEW p \in Run, Clear(p) PROVE TypeOK'
  BY <1>15, FaultsType DEF Clear, Finish, Goto, Release, PC
<1>16. ASSUME NEW p \in Run, Interrupt(p) PROVE TypeOK'
  BY <1>16 DEF Interrupt
<1>17. ASSUME NEW p \in Run, Kill(p) PROVE TypeOK'
  BY <1>17 DEF Kill, PC, Finish, Goto, Release
<1>18. ASSUME EditFile \/ OtherRelease PROVE TypeOK'
  BY <1>18 DEF EditFile, OtherRelease
<1>19. ASSUME UNCHANGED vars PROVE TypeOK'
  BY <1>19 DEF vars
<1> QED
  BY <1>1, <1>2, <1>3, <1>4, <1>5, <1>6, <1>7, <1>8, <1>9, <1>10, <1>11, <1>12,
     <1>13, <1>14, <1>15, <1>16, <1>17, <1>18, <1>19
     DEF Next, Finished, Parent, Child

-----------------------------------------------------------------------------
\* Steps that need the lock, and steps that need it when the run is tracked.
Locked == {"reset", "read", "compare", "observe", "check", "clear"}

\* Who changes the state database of the collection holds its lock.
LockHeld ==
  \A p \in Run :
    /\ pc[p] \in Locked \/ (pc[p] \in {"launch", "wait"} /\ tracked[p]) => lock = p
    /\ pc[p] = "lock" => ~tracked[p]

\* What the final check found is still true when the rows are removed.
CheckedInv == \A p \in Run : pc[p] = "clear" => Members(targets[p]) \subseteq rows

LockInv == TypeOK /\ LockHeld /\ CheckedInv

\* Init establishes the lock invariant.
LEMMA InitLockInv == Init => LockInv
  BY InitTypeOK DEF Init, LockInv, LockHeld, CheckedInv, Locked

\* Rows disappear only at the hands of a run that resets or clears them.
LEMMA RowsGo ==
  ASSUME LockInv, [Next]_vars
  PROVE  \/ rows \subseteq rows'
         \/ \E p \in Run : /\ Reset(p) \/ Clear(p)
                           /\ pc[p] \in {"reset", "clear"} /\ lock = p
<1> DEFINE Gone == \E p \in Run : /\ Reset(p) \/ Clear(p)
                                /\ pc[p] \in {"reset", "clear"} /\ lock = p
<1>1. ASSUME NEW p \in Run, Reset(p) \/ Clear(p) PROVE Gone
  BY <1>1 DEF Reset, Clear, LockInv, LockHeld, Locked
<1>2. ASSUME NEW p \in Run, CallbackRecord(p) PROVE rows \subseteq rows'
  BY <1>2 DEF CallbackRecord
<1>3. ASSUME NEW p \in Run, Start(p) \/ Enter(p) \/ ReadCompleted(p)
                            \/ CompareObservation(p) \/ RecordObservation(p)
      PROVE  rows' = rows
  BY <1>3 DEF Start, Enter, ReadCompleted, CompareObservation, RecordObservation, state
<1>4. ASSUME NEW p \in Run, Launch(p) \/ Wait(p) \/ Check(p) \/ Interrupt(p) \/ Kill(p)
      PROVE  rows' = rows
  BY <1>4 DEF Launch, Wait, Check, Interrupt, Kill, state
<1>5. ASSUME NEW p \in Run, Retrieve(p) \/ PassOver(p) \/ Exit(p) \/ CallbackRead(p)
      PROVE  rows' = rows
  BY <1>5 DEF Retrieve, PassOver, Exit, CallbackRead, state
<1>6. EditFile \/ OtherRelease \/ UNCHANGED vars => rows' = rows
  BY DEF EditFile, OtherRelease, vars, state
<1> QED
  BY <1>1, <1>2, <1>3, <1>4, <1>5, <1>6 DEF Next, Finished, Parent, Child

\* Every step keeps the lock with the run that needs it.
LEMMA NextLockHeld ==
  ASSUME LockInv, [Next]_vars PROVE LockHeld'
<1> USE RunAssumption DEF LockInv, TypeOK, LockHeld, Locked, own, child
<1>1. ASSUME NEW p \in Run, Start(p) PROVE LockHeld'
  BY <1>1 DEF Start, Goto
<1>2. ASSUME NEW p \in Run, Enter(p) PROVE LockHeld'
  BY <1>2 DEF Enter, Goto
<1>3. ASSUME NEW p \in Run, Reset(p) PROVE LockHeld'
  BY <1>3 DEF Reset, Goto, Works, Fails
<1>4. ASSUME NEW p \in Run, ReadCompleted(p) PROVE LockHeld'
  BY <1>4 DEF ReadCompleted, Goto, Works, Fails
<1>5. ASSUME NEW p \in Run, CompareObservation(p) PROVE LockHeld'
  BY <1>5 DEF CompareObservation, Goto, Works, Fails
<1>6. ASSUME NEW p \in Run, RecordObservation(p) PROVE LockHeld'
  BY <1>6 DEF RecordObservation, Goto, Works, Fails
<1>7. ASSUME NEW p \in Run, Launch(p) PROVE LockHeld'
  BY <1>7 DEF Launch, Goto, Remaining
<1>8. ASSUME NEW p \in Run, Retrieve(p) PROVE LockHeld'
  BY <1>8 DEF Retrieve
<1>9. ASSUME NEW p \in Run, PassOver(p) PROVE LockHeld'
  BY <1>9 DEF PassOver
<1>10. ASSUME NEW p \in Run, Exit(p) PROVE LockHeld'
  BY <1>10 DEF Exit
<1>11. ASSUME NEW p \in Run, CallbackRead(p) PROVE LockHeld'
  BY <1>11 DEF CallbackRead, Drop
<1>12. ASSUME NEW p \in Run, CallbackRecord(p) PROVE LockHeld'
  BY <1>12 DEF CallbackRecord, Drop, Works, Fails
<1>13. ASSUME NEW p \in Run, Wait(p) PROVE LockHeld'
  BY <1>13 DEF Wait, Finish, Goto, Release
<1>14. ASSUME NEW p \in Run, Check(p) PROVE LockHeld'
  BY <1>14 DEF Check, Finish, Goto, Release, Works, Fails
<1>15. ASSUME NEW p \in Run, Clear(p) PROVE LockHeld'
  BY <1>15 DEF Clear, Finish, Goto, Release, Works, Fails
<1>16. ASSUME NEW p \in Run, Interrupt(p) PROVE LockHeld'
  BY <1>16 DEF Interrupt
<1>17. ASSUME NEW p \in Run, Kill(p) PROVE LockHeld'
  BY <1>17 DEF Kill, Finish, Goto, Release
<1>18. ASSUME EditFile \/ OtherRelease PROVE LockHeld'
  BY <1>18 DEF EditFile, OtherRelease
<1>19. ASSUME UNCHANGED vars PROVE LockHeld'
  BY <1>19 DEF vars
<1> QED
  BY <1>1, <1>2, <1>3, <1>4, <1>5, <1>6, <1>7, <1>8, <1>9, <1>10, <1>11, <1>12,
     <1>13, <1>14, <1>15, <1>16, <1>17, <1>18, <1>19
     DEF Next, Finished, Parent, Child

\* A run comes to remove rows from its final check, and with unchanged targets.
LEMMA NextClear ==
  ASSUME TypeOK, [Next]_vars, NEW q \in Run, pc'[q] = "clear"
  PROVE  /\ targets'[q] = targets[q]
         /\ pc[q] = "clear" \/ Members(targets[q]) \subseteq rows
<1> DEFINE Fine == /\ targets'[q] = targets[q]
                   /\ pc[q] = "clear" \/ Members(targets[q]) \subseteq rows
<1> USE DEF TypeOK, own, child
<1>1. ASSUME NEW p \in Run, Start(p) PROVE Fine
  BY <1>1 DEF Start, Goto
<1>2. ASSUME NEW p \in Run, Enter(p) PROVE Fine
  BY <1>2 DEF Enter, Goto
<1>3. ASSUME NEW p \in Run, Reset(p) PROVE Fine
  BY <1>3 DEF Reset, Goto, Works, Fails
<1>4. ASSUME NEW p \in Run, ReadCompleted(p) PROVE Fine
  BY <1>4 DEF ReadCompleted, Goto, Works, Fails
<1>5. ASSUME NEW p \in Run, CompareObservation(p) PROVE Fine
  BY <1>5 DEF CompareObservation, Goto, Works, Fails
<1>6. ASSUME NEW p \in Run, RecordObservation(p) PROVE Fine
  BY <1>6 DEF RecordObservation, Goto, Works, Fails
<1>7. ASSUME NEW p \in Run, Launch(p) PROVE Fine
  BY <1>7 DEF Launch, Goto, Remaining
<1>8. ASSUME NEW p \in Run, Retrieve(p) PROVE Fine
  BY <1>8 DEF Retrieve
<1>9. ASSUME NEW p \in Run, PassOver(p) PROVE Fine
  BY <1>9 DEF PassOver
<1>10. ASSUME NEW p \in Run, Exit(p) PROVE Fine
  BY <1>10 DEF Exit
<1>11. ASSUME NEW p \in Run, CallbackRead(p) PROVE Fine
  BY <1>11 DEF CallbackRead, Drop
<1>12. ASSUME NEW p \in Run, CallbackRecord(p) PROVE Fine
  BY <1>12 DEF CallbackRecord, Drop, Works, Fails
<1>13. ASSUME NEW p \in Run, Wait(p) PROVE Fine
  BY <1>13 DEF Wait, Finish, Goto, Release
<1>14. ASSUME NEW p \in Run, Check(p) PROVE Fine
  BY <1>14 DEF Check, Finish, Goto, Release, Works, Fails
<1>15. ASSUME NEW p \in Run, Clear(p) PROVE Fine
  BY <1>15 DEF Clear, Finish, Goto, Release, Works, Fails
<1>16. ASSUME NEW p \in Run, Interrupt(p) PROVE Fine
  BY <1>16 DEF Interrupt
<1>17. ASSUME NEW p \in Run, Kill(p) PROVE Fine
  BY <1>17 DEF Kill, Finish, Goto, Release
<1>18. ASSUME EditFile \/ OtherRelease PROVE Fine
  BY <1>18 DEF EditFile, OtherRelease
<1>19. ASSUME UNCHANGED vars PROVE Fine
  BY <1>19 DEF vars
<1> QED
  BY <1>1, <1>2, <1>3, <1>4, <1>5, <1>6, <1>7, <1>8, <1>9, <1>10, <1>11, <1>12,
     <1>13, <1>14, <1>15, <1>16, <1>17, <1>18, <1>19
     DEF Next, Finished, Parent, Child

\* Every step keeps what the final check found: no other run holds the lock,
\* and callbacks only add rows.
LEMMA NextCheckedInv ==
  ASSUME LockInv, [Next]_vars PROVE CheckedInv'
<1>0. TypeOK /\ LockHeld /\ CheckedInv
  BY DEF LockInv
<1>1. CASE rows \subseteq rows'
  <2>1. \A p \in Run : pc'[p] = "clear" =>
          targets'[p] = targets[p] /\ (pc[p] = "clear" \/ Members(targets[p]) \subseteq rows)
    BY <1>0, NextClear
  <2> QED
    BY <1>0, <1>1, <2>1 DEF CheckedInv, Members
<1>2. ASSUME NEW p \in Run, Reset(p) \/ Clear(p), pc[p] \in {"reset", "clear"}, lock = p
      PROVE  CheckedInv'
  <2>1. pc' = [pc EXCEPT ![p] = pc'[p]] /\ pc'[p] # "clear"
    BY <1>0, <1>2 DEF Reset, Clear, Finish, Goto, TypeOK
  <2>2. \A q \in Run : pc'[q] = "clear" => pc[q] = "clear" /\ q # p
    BY <1>0, <2>1 DEF TypeOK
  <2>3. \A q \in Run : pc'[q] # "clear"
    BY <1>0, <1>2, <2>2 DEF LockHeld, Locked
  <2> QED
    BY <2>3 DEF CheckedInv
<1> QED
  BY <1>1, <1>2, RowsGo

-----------------------------------------------------------------------------
\* Without excerpts, completion evidence and what runs know of it stand for
\* targets that were retrieved as whole items.
EvidenceInv ==
  /\ rows \subseteq got
  /\ \A p \in Run : /\ opt[p].whole
                    /\ done[p] \subseteq got
                    /\ dl[p] # NoDownload => dl[p].whole
                    /\ cb[p] # NoCallback => cb[p].media \in got

\* Init establishes the evidence invariant.
LEMMA InitEvidenceInv == Init => EvidenceInv
  BY DEF Init, EvidenceInv

\* Every step without excerpts keeps it.
LEMMA NextEvidenceInv ==
  ASSUME TypeOK, EvidenceInv, ~Excerpts, [Next]_vars PROVE EvidenceInv'
<1> USE NothingAssumption DEF TypeOK, EvidenceInv, state, own, child
<1>1. ASSUME NEW p \in Run, Start(p) PROVE EvidenceInv'
  BY <1>1 DEF Start, Goto
<1>2. ASSUME NEW p \in Run, Enter(p) PROVE EvidenceInv'
  BY <1>2 DEF Enter, Goto
<1>3. ASSUME NEW p \in Run, Reset(p) PROVE EvidenceInv'
  BY <1>3 DEF Reset, Goto, Works, Fails
<1>4. ASSUME NEW p \in Run, ReadCompleted(p) PROVE EvidenceInv'
  BY <1>4 DEF ReadCompleted, Goto, Works, Fails
<1>5. ASSUME NEW p \in Run, CompareObservation(p) PROVE EvidenceInv'
  BY <1>5 DEF CompareObservation, Goto, Works, Fails
<1>6. ASSUME NEW p \in Run, RecordObservation(p) PROVE EvidenceInv'
  BY <1>6 DEF RecordObservation, Goto, Works, Fails
<1>7. ASSUME NEW p \in Run, Launch(p) PROVE EvidenceInv'
  <2> DEFINE new == [left |-> Remaining(p), tracked |-> tracked[p], whole |-> opt[p].whole]
  <2>1. new.whole
    OBVIOUS
  <2> HIDE DEF new
  <2>2. dl' = dl \/ dl' = [dl EXCEPT ![p] = new]
    BY <1>7 DEF Launch, new
  <2> QED
    BY <1>7, <2>1, <2>2 DEF Launch
<1>8. ASSUME NEW p \in Run, Retrieve(p) PROVE EvidenceInv'
  <2>1. PICK t \in dl[p].left :
           /\ dl' = [dl EXCEPT ![p].left = @ \ {t}]
           /\ got' = IF dl[p].whole THEN got \cup {t} ELSE got
           /\ cb' = IF dl[p].tracked
                      THEN [cb EXCEPT ![p] = [step |-> "read", media |-> t]] ELSE cb
    BY <1>8 DEF Retrieve
  <2>2. dl[p] \in Download /\ dl[p].whole
    BY <1>8 DEF Retrieve
  <2>3. got' = got \cup {t}
    BY <2>1, <2>2
  <2>4. \A q \in Run : dl'[q] # NoDownload => dl'[q].whole
    BY <2>1, <2>2 DEF Download
  <2>5. \A q \in Run : cb'[q] # NoCallback => cb'[q].media \in got'
    BY <2>1, <2>3
  <2> QED
    BY <1>8, <2>3, <2>4, <2>5 DEF Retrieve
<1>9. ASSUME NEW p \in Run, PassOver(p) PROVE EvidenceInv'
  <2>1. PICK t \in dl[p].left : dl' = [dl EXCEPT ![p].left = @ \ {t}]
    BY <1>9 DEF PassOver
  <2>2. dl[p] \in Download /\ dl[p].whole
    BY <1>9 DEF PassOver
  <2>3. \A q \in Run : dl'[q] # NoDownload => dl'[q].whole
    BY <2>1, <2>2 DEF Download
  <2> QED
    BY <1>9, <2>3 DEF PassOver
<1>10. ASSUME NEW p \in Run, Exit(p) PROVE EvidenceInv'
  BY <1>10 DEF Exit
<1>11. ASSUME NEW p \in Run, CallbackRead(p) PROVE EvidenceInv'
  <2>1. cb[p] \in Callback
    BY <1>11 DEF CallbackRead
  <2>2. cb' = [cb EXCEPT ![p].step = "record"] \/ cb' = [cb EXCEPT ![p] = NoCallback]
    BY <1>11 DEF CallbackRead, Drop
  <2>3. \A q \in Run : cb'[q] # NoCallback =>
          cb[q] # NoCallback /\ cb'[q].media = cb[q].media
    BY <2>1, <2>2 DEF Callback
  <2> QED
    BY <1>11, <2>3 DEF CallbackRead
<1>12. ASSUME NEW p \in Run, CallbackRecord(p) PROVE EvidenceInv'
  BY <1>12 DEF CallbackRecord, Drop, Works, Fails
<1>13. ASSUME NEW p \in Run, Wait(p) PROVE EvidenceInv'
  BY <1>13 DEF Wait, Finish, Goto, Release
<1>14. ASSUME NEW p \in Run, Check(p) PROVE EvidenceInv'
  BY <1>14 DEF Check, Finish, Goto, Release, Works, Fails
<1>15. ASSUME NEW p \in Run, Clear(p) PROVE EvidenceInv'
  BY <1>15 DEF Clear, Finish, Goto, Release, Works, Fails
<1>16. ASSUME NEW p \in Run, Interrupt(p) PROVE EvidenceInv'
  BY <1>16 DEF Interrupt
<1>17. ASSUME NEW p \in Run, Kill(p) PROVE EvidenceInv'
  BY <1>17 DEF Kill, Finish, Goto, Release
<1>18. ASSUME EditFile \/ OtherRelease PROVE EvidenceInv'
  BY <1>18 DEF EditFile, OtherRelease
<1>19. ASSUME UNCHANGED vars PROVE EvidenceInv'
  BY <1>19 DEF vars
<1> QED
  BY <1>1, <1>2, <1>3, <1>4, <1>5, <1>6, <1>7, <1>8, <1>9, <1>10, <1>11, <1>12,
     <1>13, <1>14, <1>15, <1>16, <1>17, <1>18, <1>19
     DEF Next, Finished, Parent, Child

-----------------------------------------------------------------------------
\* Until an invocation is killed, yt-dlp works only under the eyes of the
\* invocation that started it.
AttendedInv ==
  kills = 0 =>
    \A p \in Run : dl[p] # NoDownload => pc[p] = "wait" /\ dl[p].tracked = tracked[p]

\* Init establishes it.
LEMMA InitAttendedInv == Init => AttendedInv
  BY DEF Init, AttendedInv

\* Every step keeps it; a kill ends its claim.
LEMMA NextAttendedInv ==
  ASSUME TypeOK, AttendedInv, [Next]_vars PROVE AttendedInv'
<1> USE NothingAssumption DEF TypeOK, AttendedInv, own, child, budget
<1>1. ASSUME NEW p \in Run, Start(p) PROVE AttendedInv'
  BY <1>1 DEF Start, Goto
<1>2. ASSUME NEW p \in Run, Enter(p) PROVE AttendedInv'
  BY <1>2 DEF Enter, Goto
<1>3. ASSUME NEW p \in Run, Reset(p) PROVE AttendedInv'
  BY <1>3 DEF Reset, Goto, Works, Fails
<1>4. ASSUME NEW p \in Run, ReadCompleted(p) PROVE AttendedInv'
  BY <1>4 DEF ReadCompleted, Goto, Works, Fails
<1>5. ASSUME NEW p \in Run, CompareObservation(p) PROVE AttendedInv'
  BY <1>5 DEF CompareObservation, Goto, Works, Fails
<1>6. ASSUME NEW p \in Run, RecordObservation(p) PROVE AttendedInv'
  BY <1>6 DEF RecordObservation, Goto, Works, Fails
<1>7. ASSUME NEW p \in Run, Launch(p) PROVE AttendedInv'
  <2> DEFINE new == [left |-> Remaining(p), tracked |-> tracked[p], whole |-> opt[p].whole]
  <2>1. new.tracked = tracked[p]
    OBVIOUS
  <2> HIDE DEF new
  <2>2. dl' = dl \/ dl' = [dl EXCEPT ![p] = new]
    BY <1>7 DEF Launch, new
  <2>3. /\ pc[p] = "launch" /\ pc' = [pc EXCEPT ![p] = "wait"]
        /\ tracked' = tracked
        /\ kills' = kills
    BY <1>7 DEF Launch, Goto
  <2> QED
    BY <2>1, <2>2, <2>3
<1>8. ASSUME NEW p \in Run, Retrieve(p) PROVE AttendedInv'
  <2>1. PICK t \in dl[p].left : dl' = [dl EXCEPT ![p].left = @ \ {t}]
    BY <1>8 DEF Retrieve
  <2>2. dl[p] \in Download
    BY <1>8 DEF Retrieve
  <2>3. \A q \in Run : dl'[q] # NoDownload =>
          dl[q] # NoDownload /\ dl'[q].tracked = dl[q].tracked
    BY <2>1, <2>2, <1>8 DEF Download, Retrieve
  <2> QED
    BY <1>8, <2>3 DEF Retrieve
<1>9. ASSUME NEW p \in Run, PassOver(p) PROVE AttendedInv'
  <2>1. PICK t \in dl[p].left : dl' = [dl EXCEPT ![p].left = @ \ {t}]
    BY <1>9 DEF PassOver
  <2>2. dl[p] \in Download
    BY <1>9 DEF PassOver
  <2>3. \A q \in Run : dl'[q] # NoDownload =>
          dl[q] # NoDownload /\ dl'[q].tracked = dl[q].tracked
    BY <2>1, <2>2, <1>9 DEF Download, PassOver
  <2> QED
    BY <1>9, <2>3 DEF PassOver
<1>10. ASSUME NEW p \in Run, Exit(p) PROVE AttendedInv'
  BY <1>10 DEF Exit
<1>11. ASSUME NEW p \in Run, CallbackRead(p) PROVE AttendedInv'
  BY <1>11 DEF CallbackRead, Drop
<1>12. ASSUME NEW p \in Run, CallbackRecord(p) PROVE AttendedInv'
  BY <1>12 DEF CallbackRecord, Drop, Works, Fails
<1>13. ASSUME NEW p \in Run, Wait(p) PROVE AttendedInv'
  BY <1>13 DEF Wait, Finish, Goto, Release
<1>14. ASSUME NEW p \in Run, Check(p) PROVE AttendedInv'
  BY <1>14 DEF Check, Finish, Goto, Release, Works, Fails
<1>15. ASSUME NEW p \in Run, Clear(p) PROVE AttendedInv'
  BY <1>15 DEF Clear, Finish, Goto, Release, Works, Fails
<1>16. ASSUME NEW p \in Run, Interrupt(p) PROVE AttendedInv'
  BY <1>16 DEF Interrupt
<1>17. ASSUME NEW p \in Run, Kill(p) PROVE AttendedInv'
  <2>1. kills' # 0
    BY <1>17, ContinuationBoundAssumption DEF Kill
  <2> QED
    BY <2>1
<1>18. ASSUME EditFile \/ OtherRelease PROVE AttendedInv'
  BY <1>18 DEF EditFile, OtherRelease
<1>19. ASSUME UNCHANGED vars PROVE AttendedInv'
  BY <1>19 DEF vars
<1> QED
  BY <1>1, <1>2, <1>3, <1>4, <1>5, <1>6, <1>7, <1>8, <1>9, <1>10, <1>11, <1>12,
     <1>13, <1>14, <1>15, <1>16, <1>17, <1>18, <1>19
     DEF Next, Finished, Parent, Child

-----------------------------------------------------------------------------
\* LockInv is an invariant, whatever the bounds and whoever is killed.
LEMMA LockInvariant == Spec => []LockInv
<1>1. LockInv /\ [Next]_vars => LockInv'
  BY NextTypeOK, NextLockHeld, NextCheckedInv DEF LockInv
<1> QED
  BY InitLockInv, <1>1, PTL DEF Spec

\* Every reachable state of collection continuation is well typed.
THEOREM TypeCorrect == Spec => []TypeOK
<1>1. LockInv => TypeOK
  BY DEF LockInv
<1> QED
  BY <1>1, LockInvariant, PTL

\* No invocation loses completion rows that another one has recorded: rows
\* go away by a reset, or all together when the collection is complete, even
\* when invocations are killed and their yt-dlp lives on.
THEOREM EvidenceIsKept == Spec => EvidenceKept
<1>1. LockInv /\ [Next]_vars =>
        [ rows \subseteq rows'
          \/ \E p \in Run : \/ pc[p] = "reset"
                            \/ pc[p] = "clear" /\ Members(targets[p]) \subseteq rows ]_vars
  BY RowsGo DEF LockInv, CheckedInv
<1> QED
  BY <1>1, LockInvariant, PTL DEF Spec, EvidenceKept

\* In a run without excerpts a target that is left out had been retrieved.
THEOREM OnlyRetrievedAreSkipped == ASSUME ~Excerpts PROVE Spec => []SkippedWereRetrieved
<1>1. TypeOK /\ EvidenceInv /\ [Next]_vars => EvidenceInv'
  BY NextEvidenceInv
<1>2. EvidenceInv => SkippedWereRetrieved
  BY DEF EvidenceInv, SkippedWereRetrieved
<1> QED
  BY <1>1, <1>2, InitEvidenceInv, TypeCorrect, PTL DEF Spec

\* Until an invocation is killed, the lock keeps tracked downloads of one
\* collection apart (CollectionState.collection_lock).
THEOREM DownloadsAreSerialised == Spec => []SerialisedUnlessKilled
<1>1. TypeOK /\ AttendedInv /\ [Next]_vars => AttendedInv'
  BY NextAttendedInv
<1>2. LockInv /\ AttendedInv => SerialisedUnlessKilled
  BY DEF LockInv, LockHeld, AttendedInv, SerialisedUnlessKilled, Serialised, Active
<1> QED
  BY <1>1, <1>2, InitAttendedInv, LockInvariant, TypeCorrect, PTL DEF Spec

-----------------------------------------------------------------------------
\* From the record of its observation to the end of yt-dlp, a tracked run finds
\* its own sequence in the state database.
ObservedInv ==
  faults = 0 =>
    \A p \in Run : pc[p] \in {"launch", "wait"} /\ tracked[p]
                      => observed \in {targets[p], OtherVersion}

\* Every step keeps it: only who holds the lock writes the observation, and a
\* failure of the database ends the claim.
LEMMA NextObservedInv ==
  ASSUME LockInv, ObservedInv, [Next]_vars PROVE ObservedInv'
<1> USE RunAssumption, ContinuationBoundAssumption
    DEF LockInv, TypeOK, LockHeld, Locked, ObservedInv, state, own, child, budget
<1>1. ASSUME NEW p \in Run, Start(p) PROVE ObservedInv'
  BY <1>1 DEF Start, Goto
<1>2. ASSUME NEW p \in Run, Enter(p) PROVE ObservedInv'
  BY <1>2 DEF Enter, Goto
<1>3. ASSUME NEW p \in Run, Reset(p) PROVE ObservedInv'
  BY <1>3 DEF Reset, Goto, Works, Fails
<1>4. ASSUME NEW p \in Run, ReadCompleted(p) PROVE ObservedInv'
  BY <1>4 DEF ReadCompleted, Goto, Works, Fails
<1>5. ASSUME NEW p \in Run, CompareObservation(p) PROVE ObservedInv'
  BY <1>5 DEF CompareObservation, Goto, Works, Fails
<1>6. ASSUME NEW p \in Run, RecordObservation(p) PROVE ObservedInv'
  BY <1>6 DEF RecordObservation, Goto, Works, Fails
<1>7. ASSUME NEW p \in Run, Launch(p) PROVE ObservedInv'
  BY <1>7 DEF Launch, Goto
<1>8. ASSUME NEW p \in Run, Retrieve(p) PROVE ObservedInv'
  BY <1>8 DEF Retrieve
<1>9. ASSUME NEW p \in Run, PassOver(p) PROVE ObservedInv'
  BY <1>9 DEF PassOver
<1>10. ASSUME NEW p \in Run, Exit(p) PROVE ObservedInv'
  BY <1>10 DEF Exit
<1>11. ASSUME NEW p \in Run, CallbackRead(p) PROVE ObservedInv'
  BY <1>11 DEF CallbackRead, Drop
<1>12. ASSUME NEW p \in Run, CallbackRecord(p) PROVE ObservedInv'
  BY <1>12 DEF CallbackRecord, Drop, Works, Fails
<1>13. ASSUME NEW p \in Run, Wait(p) PROVE ObservedInv'
  BY <1>13 DEF Wait, Finish, Goto, Release
<1>14. ASSUME NEW p \in Run, Check(p) PROVE ObservedInv'
  BY <1>14 DEF Check, Finish, Goto, Release, Works, Fails
<1>15. ASSUME NEW p \in Run, Clear(p) PROVE ObservedInv'
  BY <1>15 DEF Clear, Finish, Goto, Release, Works, Fails
<1>16. ASSUME NEW p \in Run, Interrupt(p) PROVE ObservedInv'
  BY <1>16 DEF Interrupt
<1>17. ASSUME NEW p \in Run, Kill(p) PROVE ObservedInv'
  BY <1>17 DEF Kill, Finish, Goto, Release
<1>18. ASSUME EditFile \/ OtherRelease PROVE ObservedInv'
  BY <1>18 DEF EditFile, OtherRelease
<1>19. ASSUME UNCHANGED vars PROVE ObservedInv'
  BY <1>19 DEF vars
<1> QED
  BY <1>1, <1>2, <1>3, <1>4, <1>5, <1>6, <1>7, <1>8, <1>9, <1>10, <1>11, <1>12,
     <1>13, <1>14, <1>15, <1>16, <1>17, <1>18, <1>19
     DEF Next, Finished, Parent, Child

\* What the state database says of the collection while a tracked yt-dlp works
\* is the sequence that this run was started with, whoever edits the file or
\* starts another run, until the database fails.
THEOREM ObservationIsCurrent == Spec => []ObservationCurrent
<1>1. Init => ObservedInv
  BY DEF Init, ObservedInv
<1>2. LockInv /\ ObservedInv /\ [Next]_vars => ObservedInv'
  BY NextObservedInv
<1>3. ObservedInv => ObservationCurrent
  BY DEF ObservedInv, ObservationCurrent
<1> QED
  BY <1>1, <1>2, <1>3, LockInvariant, PTL DEF Spec
-----------------------------------------------------------------------------
(* The database the rows are kept in: however many processes create or upgrade *)
(* it at once, and whichever of them die, nobody works on a partial layout.    *)

\* How far a process has come is visible in the file, for everybody.
LayoutProgress ==
  /\ version = 2 => tables = Table
  /\ \A p \in Proc :
       /\ at[p] = "tables" /\ seen[p] = 2 => version = 2
       /\ at[p] = "observations" => "completed_targets" \in tables
       /\ at[p] = "stamp" => tables = Table
       /\ at[p] = "use" => version = 2

LayoutInv == LayoutTypeOK /\ LayoutProgress

\* LayoutInit establishes the strengthening.
LEMMA InitLayoutInv == LayoutInit => LayoutInv
  BY SchemaBoundAssumption DEF LayoutInit, LayoutInv, LayoutTypeOK, LayoutProgress, Accepted

\* Every step keeps the state well typed.
LEMMA NextLayoutTypeOK ==
  ASSUME LayoutTypeOK, [LayoutNext]_layout PROVE LayoutTypeOK'
<1> USE SchemaBoundAssumption DEF LayoutTypeOK, Proceed
<1>1. ASSUME NEW p \in Proc, Connect(p) PROVE LayoutTypeOK'
  BY <1>1 DEF Connect
<1>2. ASSUME NEW p \in Proc, ReadVersion(p) PROVE LayoutTypeOK'
  BY <1>2 DEF ReadVersion
<1>3. ASSUME NEW p \in Proc, ReadTables(p) PROVE LayoutTypeOK'
  BY <1>3 DEF ReadTables
<1>4. ASSUME NEW p \in Proc, CreateCompleted(p) PROVE LayoutTypeOK'
  BY <1>4 DEF CreateCompleted, Create, Table
<1>5. ASSUME NEW p \in Proc, CreateObservations(p) PROVE LayoutTypeOK'
  BY <1>5 DEF CreateObservations, Create, Table
<1>6. ASSUME NEW p \in Proc, Stamp(p) PROVE LayoutTypeOK'
  BY <1>6 DEF Stamp
<1>7. ASSUME NEW p \in Proc, Close(p) \/ Die(p) PROVE LayoutTypeOK'
  BY <1>7 DEF Close, Die
<1>8. CASE UNCHANGED layout
  BY <1>8 DEF layout
<1> QED
  BY <1>1, <1>2, <1>3, <1>4, <1>5, <1>6, <1>7, <1>8 DEF LayoutNext, AllClosed

\* Every step keeps what the progress of a process says of the file: tables
\* are only added, and the version only becomes 2.
LEMMA NextLayoutProgress ==
  ASSUME LayoutInv, [LayoutNext]_layout PROVE LayoutProgress'
<1> USE DEF LayoutInv, LayoutTypeOK, LayoutProgress, Proceed
<1>1. ASSUME NEW p \in Proc, Connect(p) PROVE LayoutProgress'
  BY <1>1 DEF Connect
<1>2. ASSUME NEW p \in Proc, ReadVersion(p) PROVE LayoutProgress'
  BY <1>2 DEF ReadVersion
<1>3. ASSUME NEW p \in Proc, ReadTables(p) PROVE LayoutProgress'
  BY <1>3 DEF ReadTables, Accepted, Table
<1>4. ASSUME NEW p \in Proc, CreateCompleted(p) PROVE LayoutProgress'
  BY <1>4 DEF CreateCompleted, Create, Table
<1>5. ASSUME NEW p \in Proc, CreateObservations(p) PROVE LayoutProgress'
  BY <1>5 DEF CreateObservations, Create, Table
<1>6. ASSUME NEW p \in Proc, Stamp(p) PROVE LayoutProgress'
  BY <1>6 DEF Stamp
<1>7. ASSUME NEW p \in Proc, Close(p) \/ Die(p) PROVE LayoutProgress'
  BY <1>7 DEF Close, Die
<1>8. CASE UNCHANGED layout
  BY <1>8 DEF layout
<1> QED
  BY <1>1, <1>2, <1>3, <1>4, <1>5, <1>6, <1>7, <1>8 DEF LayoutNext, AllClosed

\* LayoutInv is an invariant, for every number of processes.
LEMMA LayoutInductive == LayoutSpec => []LayoutInv
<1>1. LayoutInv /\ [LayoutNext]_layout => LayoutInv'
  BY NextLayoutTypeOK, NextLayoutProgress DEF LayoutInv
<1> QED
  BY InitLayoutInv, <1>1, PTL DEF LayoutSpec

\* Every reachable state of the continuation database is well typed.
THEOREM LayoutTypeCorrect == LayoutSpec => []LayoutTypeOK
<1>1. LayoutInv => LayoutTypeOK
  BY DEF LayoutInv
<1> QED
  BY <1>1, LayoutInductive, PTL

\* A connection that connect() hands out works on the complete layout, even
\* though its statements are commits of their own and processes race.
THEOREM OnlyCompleteLayoutsAreUsed == LayoutSpec => []UsersSeeCurrent
<1>1. LayoutInv => UsersSeeCurrent
  BY DEF LayoutInv, LayoutProgress, UsersSeeCurrent
<1> QED
  BY <1>1, LayoutInductive, PTL

-----------------------------------------------------------------------------
\* Until a process dies, a layout that connect() would refuse is one that a
\* process at work is about to complete.
LayoutTorn ==
  losses = 0 =>
    \/ Accepted(version, tables)
    \/ /\ version = 0 /\ tables = {"completed_targets"}
       /\ \E p \in Proc : at[p] = "observations"
    \/ /\ version \in 0..1 /\ tables = Table
       /\ \E p \in Proc : at[p] = "stamp"

\* Every step keeps it: who finds a table made gives way to its maker.
LEMMA NextLayoutTorn ==
  ASSUME LayoutInv, LayoutTorn, [LayoutNext]_layout PROVE LayoutTorn'
<1> USE SchemaBoundAssumption DEF LayoutInv, LayoutTypeOK, LayoutProgress, LayoutTorn, Proceed
<1>1. ASSUME NEW p \in Proc, Connect(p) PROVE LayoutTorn'
  BY <1>1 DEF Connect
<1>2. ASSUME NEW p \in Proc, ReadVersion(p) PROVE LayoutTorn'
  BY <1>2 DEF ReadVersion
<1>3. ASSUME NEW p \in Proc, ReadTables(p) PROVE LayoutTorn'
  BY <1>3 DEF ReadTables
<1>4. ASSUME NEW p \in Proc, CreateCompleted(p) PROVE LayoutTorn'
  BY <1>4 DEF CreateCompleted, Create, Accepted, Table
<1>5. ASSUME NEW p \in Proc, CreateObservations(p) PROVE LayoutTorn'
  BY <1>5 DEF CreateObservations, Create, Accepted, Table
<1>6. ASSUME NEW p \in Proc, Stamp(p) PROVE LayoutTorn'
  BY <1>6 DEF Stamp, Accepted
<1>7. ASSUME NEW p \in Proc, Close(p) \/ Die(p) PROVE LayoutTorn'
  BY <1>7 DEF Close, Die
<1>8. CASE UNCHANGED layout
  BY <1>8 DEF layout
<1> QED
  BY <1>1, <1>2, <1>3, <1>4, <1>5, <1>6, <1>7, <1>8 DEF LayoutNext, AllClosed

\* However many first connections and upgrades race, statement by statement,
\* they leave a layout the next connection accepts, as long as none of them
\* dies between two statements; SchemaTorn.cfg shows what one death does.
THEOREM RacesLeaveNoTear == LayoutSpec => []RestsAcceptedUnlessTorn
<1>1. LayoutInit => LayoutTorn
  BY DEF LayoutInit, LayoutTorn
<1>2. LayoutInv /\ LayoutTorn /\ [LayoutNext]_layout => LayoutTorn'
  BY NextLayoutTorn
<1>3. LayoutTorn => RestsAcceptedUnlessTorn
  BY DEF LayoutTorn, RestsAcceptedUnlessTorn, RestsAccepted
<1> QED
  BY <1>1, <1>2, <1>3, LayoutInductive, PTL DEF LayoutSpec
================================================================================
