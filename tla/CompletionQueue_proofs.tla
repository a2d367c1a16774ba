------------------------ MODULE CompletionQueue_proofs ------------------------
(***************************************************************************)
(* However many runs and callbacks rewrite one queue file from snapshots   *)
(* of it, a rewrite drops lines of archived or retrieved targets only; and *)
(* a run that had the file to itself reports what happened.                *)
(***************************************************************************)
EXTENDS CompletionQueue, TLAPS

Reading(p) == rm[p] # NoRemoval /\ rm[p].read

\* A removal belongs to a run at work, and has a reason.
RemovalInv ==
  \A p \in Run :
    /\ todo[p] \subseteq archive
    /\ rm[p] # NoRemoval =>
         \/ pc[p] = "reconcile" /\ rm[p].id \in archive
         \/ pc[p] = "download" /\ rm[p].id \in moved[p]

\* Where file and snapshot differ the target is in the archive: somebody
\* removed it, or a stale rewrite put it back.
AgreeInv ==
  appends = 0 =>
    \A p \in Run, l \in Line :
      Reading(p) /\ (l \in queue <=> l \notin rm[p].snapshot) => l.names \in archive

\* Where two runs were never at work at once, at most one is now.
AloneInv == ~shared => \A p, q \in Run : p # q /\ pc[p] # "off" => pc[q] = "off"

\* What the archive gained since a run that is alone has read it was retrieved
\* by that run or archived elsewhere.
ArchiveInv ==
  /\ elsewhere \subseteq archive
  /\ \A p \in Run : before[p] \subseteq archive
  /\ ~shared => \A p \in Run : pc[p] \notin {"off", "before"} =>
                  archive \subseteq before[p] \cup moved[p] \cup elsewhere

\* What p took for queued and lines no longer name is in the archive.
Kept(p, lines) == requested[p] \ Targets(lines) \subseteq archive

KeptInv ==
  /\ appends = 0 \/ ~shared => \A p \in Run : pc[p] # "off" => Kept(p, queue)
  /\ ~shared => \A p \in Run : Reading(p) => Kept(p, rm[p].snapshot)

\* What was archived before p and lines still name is yet to remove, or was
\* added again.
Cleared(p, lines) ==
  \A t \in requested[p] \cap before[p] \cap Targets(lines) :
    \/ t \in added[p]
    \/ pc[p] = "archive"
    \/ pc[p] = "reconcile" /\ (t \in todo[p] \/ (rm[p] # NoRemoval /\ rm[p].id = t))

Sole(p) ==
  pc[p] # "off" =>
    /\ pc[p] = "before" => before[p] = {}
    /\ Cleared(p, queue)
    /\ Reading(p) => Cleared(p, rm[p].snapshot)

\* The account of a run, as long as no two were at work at once.
SoleInv == ~shared => \A p \in Run : Sole(p)

IInv == TypeOK /\ RemovalInv /\ AgreeInv /\ AloneInv /\ ArchiveInv /\ KeptInv
SInv == IInv /\ SoleInv /\ ReportHonest

\* What a removal takes from the file are lines of its target.
LEMMA LeftNames ==
  ASSUME NEW lines, NEW id, NEW l \in lines \ Retained(lines, id)
  PROVE  l.names = id
BY DEF Retained, Matches

\* What it leaves are lines of the file, and in row mode it takes every line of
\* its target.
LEMMA RetainedFacts ==
  ASSUME NEW lines \in SUBSET Line, NEW id \in Target
  PROVE  /\ Retained(lines, id) \subseteq lines
         /\ RowMode => Targets(Retained(lines, id)) = Targets(lines) \ {id}
BY LineAssumption DEF Retained, Matches, Targets

\* The targets of lines are targets.
LEMMA TargetsOfLines ==
  ASSUME NEW lines \in SUBSET Line PROVE Targets(lines) \subseteq Target
BY LineAssumption DEF Targets

-----------------------------------------------------------------------------
\* A removal that finds its target remembers the file and is otherwise as before.
LEMMA ReadEffect ==
  ASSUME TypeOK, NEW p \in Run, RemovalRead(p), Retained(queue, rm[p].id) # queue
  PROVE  /\ rm' \in [Run -> Removal \cup {NoRemoval}]
         /\ rm'[p] \in Removal /\ rm'[p].id = rm[p].id /\ rm'[p].snapshot = queue
<1> DEFINE opened == [rm EXCEPT ![p].read = TRUE]
<1>1. rm[p] \in Removal /\ rm \in [Run -> Removal \cup {NoRemoval}] /\ queue \in SUBSET Line
  BY DEF RemovalRead, TypeOK
<1>2. /\ opened \in [Run -> Removal \cup {NoRemoval}]
      /\ opened[p] \in Removal /\ opened[p].id = rm[p].id
  BY <1>1 DEF Removal
<1>3. rm' = [opened EXCEPT ![p].snapshot = queue]
  BY DEF RemovalRead
<1> QED
  <2> HIDE DEF opened
  <2> QED BY <1>1, <1>2, <1>3 DEF Removal

\* Every step keeps the state well typed.
LEMMA NextTypeOK ==
  ASSUME TypeOK, [Next]_vars PROVE TypeOK'
<1> USE QueueBoundAssumption, NoRemovalAssumption DEF TypeOK, Goto, bounds, run
<1>1. ASSUME NEW p \in Run, Start(p) PROVE TypeOK'
  <2>1. Targets(queue) \subseteq Target
    BY TargetsOfLines
  <2>2. NoReport \in Report
    BY DEF NoReport, Report
  <2> QED BY <1>1, <2>1, <2>2 DEF Start
<1>b. ASSUME NEW p \in Run, ReadBefore(p) PROVE TypeOK'
  BY <1>b DEF ReadBefore
<1>2. ASSUME NEW p \in Run, ReadArchive(p) PROVE TypeOK'
  BY <1>2 DEF ReadArchive
<1>3. ASSUME NEW p \in Run, Reconcile(p) PROVE TypeOK'
  BY <1>3 DEF Reconcile, Removing, Removal
<1>4. ASSUME NEW p \in Run, RemovalRead(p) PROVE TypeOK'
  <2>1. rm[p] \in Removal
    BY <1>4 DEF RemovalRead
  <2>2. CASE Retained(queue, rm[p].id) = queue
    BY <1>4, <2>1, <2>2 DEF RemovalRead, RemovalDone, Removal
  <2>3. CASE Retained(queue, rm[p].id) # queue
    BY <1>4, <2>3, ReadEffect DEF RemovalRead
  <2> QED BY <1>4, <2>2, <2>3 DEF RemovalRead
<1>5. ASSUME NEW p \in Run, Replace(p) PROVE TypeOK'
  <2>1. rm[p] \in Removal
    BY <1>5 DEF Replace
  <2>2. Retained(rm[p].snapshot, rm[p].id) \subseteq Line
    BY <2>1 DEF Removal, Retained
  <2> QED BY <1>5, <2>1, <2>2 DEF Replace, RemovalDone, Removal
<1>6. ASSUME NEW p \in Run, AbandonRemoval(p) PROVE TypeOK'
  BY <1>6 DEF AbandonRemoval
<1>7. ASSUME NEW p \in Run, Launch(p) PROVE TypeOK'
  BY <1>7, TargetsOfLines DEF Launch
<1>8. ASSUME NEW p \in Run, Retrieve(p) PROVE TypeOK'
  BY <1>8 DEF Retrieve, Removing, Removal
<1>9. ASSUME NEW p \in Run, Exit(p) PROVE TypeOK'
  BY <1>9 DEF Exit
<1>10. ASSUME NEW p \in Run, WriteReport(p) PROVE TypeOK'
  <2>1. QueueRunReport(p, Targets(queue)) \in Report
    BY DEF QueueRunReport, Report
  <2> QED BY <1>10, <2>1 DEF WriteReport
<1>11. CASE Append
  BY <1>11, LineAssumption DEF Append
<1>c. CASE RecordElsewhere
  BY <1>c DEF RecordElsewhere
<1>12. CASE UNCHANGED vars
  BY <1>12 DEF vars
<1> QED
  BY <1>1, <1>2, <1>3, <1>4, <1>5, <1>6, <1>7, <1>8, <1>9, <1>10, <1>11, <1>12, <1>b, <1>c
  DEF Next, Step, Finished

\* A removal begins for an archived or a retrieved target and ends before its
\* run goes on.
LEMMA NextRemovalInv ==
  ASSUME TypeOK, RemovalInv, [Next]_vars PROVE RemovalInv'
<1> USE NoRemovalAssumption DEF TypeOK, RemovalInv, Goto, bounds, run
<1>1. ASSUME NEW p \in Run, Start(p) PROVE RemovalInv'
  BY <1>1 DEF Start
<1>b. ASSUME NEW p \in Run, ReadBefore(p) PROVE RemovalInv'
  BY <1>b DEF ReadBefore
<1>2. ASSUME NEW p \in Run, ReadArchive(p) PROVE RemovalInv'
  BY <1>2 DEF ReadArchive
<1>3. ASSUME NEW p \in Run, Reconcile(p) PROVE RemovalInv'
  BY <1>3 DEF Reconcile, Removing
<1>4. ASSUME NEW p \in Run, RemovalRead(p) PROVE RemovalInv'
  BY <1>4 DEF RemovalRead, RemovalDone, Removal
<1>5. ASSUME NEW p \in Run, Replace(p) PROVE RemovalInv'
  BY <1>5 DEF Replace, RemovalDone, Removal
<1>6. ASSUME NEW p \in Run, AbandonRemoval(p) PROVE RemovalInv'
  BY <1>6 DEF AbandonRemoval
<1>7. ASSUME NEW p \in Run, Launch(p) PROVE RemovalInv'
  BY <1>7 DEF Launch
<1>8. ASSUME NEW p \in Run, Retrieve(p) PROVE RemovalInv'
  BY <1>8 DEF Retrieve, Removing
<1>9. ASSUME NEW p \in Run, Exit(p) PROVE RemovalInv'
  BY <1>9 DEF Exit
<1>10. ASSUME NEW p \in Run, WriteReport(p) PROVE RemovalInv'
  BY <1>10 DEF WriteReport
<1>11. CASE Append
  BY <1>11, LineAssumption DEF Append
<1>c. CASE RecordElsewhere
  BY <1>c DEF RecordElsewhere
<1>12. CASE UNCHANGED vars
  BY <1>12 DEF vars
<1> QED
  BY <1>1, <1>2, <1>3, <1>4, <1>5, <1>6, <1>7, <1>8, <1>9, <1>10, <1>11, <1>12, <1>b, <1>c
  DEF Next, Step, Finished

\* Only rewrites and appends change the file, and only RemovalRead takes a
\* snapshot: the others keep the agreement.
LEMMA NextAgreeInv ==
  ASSUME IInv, [Next]_vars PROVE AgreeInv'
<1> USE NoRemovalAssumption DEF IInv, TypeOK, AgreeInv, Reading, Goto, bounds, run
<1>1. ASSUME NEW p \in Run, Start(p) PROVE AgreeInv'
  BY <1>1 DEF Start
<1>b. ASSUME NEW p \in Run, ReadBefore(p) PROVE AgreeInv'
  BY <1>b DEF ReadBefore
<1>2. ASSUME NEW p \in Run, ReadArchive(p) PROVE AgreeInv'
  BY <1>2 DEF ReadArchive
<1>3. ASSUME NEW p \in Run, Reconcile(p) PROVE AgreeInv'
  BY <1>3 DEF Reconcile, Removing
<1>4. ASSUME NEW p \in Run, RemovalRead(p) PROVE AgreeInv'
  <2>1. rm[p] \in Removal
    BY <1>4 DEF RemovalRead
  <2> QED BY <1>4, <2>1 DEF RemovalRead, RemovalDone, Removal
<1>5. ASSUME NEW p \in Run, Replace(p) PROVE AgreeInv'
  <2> SUFFICES ASSUME appends' = 0, NEW q \in Run, NEW l \in Line, Reading(q)',
                      (l \in queue <=> l \notin rm[q].snapshot)'
               PROVE  l.names \in archive'
    BY DEF AgreeInv
  <2>1. rm[p] \in Removal /\ appends = 0
    BY <1>5 DEF Replace
  <2>2. q # p /\ rm'[q] = rm[q] /\ Reading(q) /\ Reading(p) /\ archive \subseteq archive'
    BY <1>5 DEF Replace, RemovalDone
  <2>3. rm[p].id \in archive'
    BY <1>5 DEF Replace, RemovalDone, RemovalInv
  <2> rm[p].id \in Target /\ rm[p].snapshot \in SUBSET Line
    BY <2>1 DEF Removal
  <2>4. CASE l \in rm[p].snapshot \ queue'
    <3>1. l \in rm[p].snapshot \ Retained(rm[p].snapshot, rm[p].id)
      BY <1>5, <2>4 DEF Replace
    <3> QED BY <2>3, <3>1, LeftNames
  <2>5. CASE l \in queue' <=> l \in rm[p].snapshot
    BY <2>1, <2>2, <2>5
  <2>6. queue' \subseteq rm[p].snapshot
    BY <1>5, <2>1, RetainedFacts DEF Replace, Removal
  <2> QED BY <2>4, <2>5, <2>6
<1>6. ASSUME NEW p \in Run, AbandonRemoval(p) PROVE AgreeInv'
  BY <1>6 DEF AbandonRemoval
<1>7. ASSUME NEW p \in Run, Launch(p) PROVE AgreeInv'
  BY <1>7 DEF Launch
<1>8. ASSUME NEW p \in Run, Retrieve(p) PROVE AgreeInv'
  BY <1>8 DEF Retrieve, Removing
<1>9. ASSUME NEW p \in Run, Exit(p) PROVE AgreeInv'
  BY <1>9 DEF Exit
<1>10. ASSUME NEW p \in Run, WriteReport(p) PROVE AgreeInv'
  BY <1>10 DEF WriteReport
<1>11. CASE Append
  BY <1>11, QueueBoundAssumption DEF Append
<1>c. CASE RecordElsewhere
  BY <1>c DEF RecordElsewhere
<1>12. CASE UNCHANGED vars
  BY <1>12 DEF vars
<1> QED
  BY <1>1, <1>2, <1>3, <1>4, <1>5, <1>6, <1>7, <1>8, <1>9, <1>10, <1>11, <1>12, <1>b, <1>c
  DEF Next, Step, Finished

\* The archive only grows, and what was shared or appended remains so.
LEMMA Monotone ==
  ASSUME TypeOK, [Next]_vars
  PROVE  /\ archive \subseteq archive' /\ elsewhere \subseteq elsewhere'
         /\ shared => shared'
         /\ appends' = 0 => appends = 0
         /\ failures' = 0 => failures = 0
<1> USE QueueBoundAssumption DEF TypeOK, bounds, run
<1>1. ASSUME NEW p \in Run,
             \/ Start(p) \/ ReadBefore(p) \/ ReadArchive(p) \/ Reconcile(p) \/ Launch(p)
             \/ Retrieve(p) \/ Exit(p) \/ WriteReport(p)
      PROVE  UNCHANGED <<archive, elsewhere, appends, failures>> /\ (shared => shared')
  BY <1>1 DEF Start, ReadBefore, ReadArchive, Reconcile, Launch, Retrieve, Exit, WriteReport
<1>2. ASSUME NEW p \in Run, RemovalRead(p) \/ Replace(p)
      PROVE  archive \subseteq archive' /\ UNCHANGED <<elsewhere, shared, appends, failures>>
  BY <1>2 DEF RemovalRead, Replace, RemovalDone
<1>3. ASSUME NEW p \in Run, AbandonRemoval(p)
      PROVE  UNCHANGED <<archive, elsewhere, shared, appends>> /\ failures' = failures + 1
  BY <1>3 DEF AbandonRemoval
<1>4. CASE Append
  BY <1>4 DEF Append
<1>5. CASE RecordElsewhere
  BY <1>5 DEF RecordElsewhere
<1>6. CASE UNCHANGED vars
  BY <1>6 DEF vars
<1> QED BY <1>1, <1>2, <1>3, <1>4, <1>5, <1>6 DEF Next, Step, Finished

\* Only the start of a run beside another makes two.
LEMMA NextAloneInv ==
  ASSUME TypeOK, AloneInv, [Next]_vars PROVE AloneInv'
<1> USE DEF TypeOK, AloneInv, Goto, bounds, run
<1>1. ASSUME NEW p \in Run, Start(p) PROVE AloneInv'
  BY <1>1 DEF Start
<1>2. ASSUME NEW p \in Run,
             \/ ReadBefore(p) \/ ReadArchive(p) \/ Launch(p) \/ Exit(p) \/ WriteReport(p)
             \/ AbandonRemoval(p)
      PROVE  AloneInv'
  BY <1>2 DEF ReadBefore, ReadArchive, Launch, Exit, WriteReport, AbandonRemoval
<1>3. ASSUME NEW p \in Run, Reconcile(p) \/ RemovalRead(p) \/ Replace(p) \/ Retrieve(p)
      PROVE  AloneInv'
  BY <1>3 DEF Reconcile, RemovalRead, Replace, Retrieve
<1>4. CASE Append \/ RecordElsewhere \/ UNCHANGED vars
  BY <1>4 DEF Append, RecordElsewhere, vars
<1> QED BY <1>1, <1>2, <1>3, <1>4 DEF Next, Step, Finished

\* A run writes only what it has retrieved to the archive.
LEMMA NextArchiveInv ==
  ASSUME TypeOK, RemovalInv, AloneInv, ArchiveInv, [Next]_vars PROVE ArchiveInv'
<1>0. AloneInv'
  BY NextAloneInv
<1> USE NoRemovalAssumption DEF TypeOK, RemovalInv, ArchiveInv, Goto, bounds, run
<1>1. ASSUME NEW p \in Run, Start(p) PROVE ArchiveInv'
  <2>1. /\ UNCHANGED <<archive, elsewhere>> /\ before'[p] = {} /\ pc'[p] = "before"
        /\ shared => shared'
    BY <1>1 DEF Start
  <2>2. ASSUME NEW q \in Run \ {p}
        PROVE  before'[q] = before[q] /\ pc'[q] = pc[q] /\ moved'[q] = moved[q]
    BY <1>1 DEF Start
  <2> QED BY <2>1, <2>2
<1>2. ASSUME NEW p \in Run, ReadBefore(p) PROVE ArchiveInv'
  BY <1>2 DEF ReadBefore
<1>3. ASSUME NEW p \in Run,
             \/ ReadArchive(p) \/ Reconcile(p) \/ Launch(p) \/ Exit(p) \/ WriteReport(p)
             \/ AbandonRemoval(p)
      PROVE  ArchiveInv'
  BY <1>3 DEF ReadArchive, Reconcile, Launch, Exit, WriteReport, AbandonRemoval
<1>4. ASSUME NEW p \in Run, RemovalRead(p) \/ Replace(p) PROVE ArchiveInv'
  <2>1. /\ UNCHANGED <<elsewhere, before, moved, pc, shared>>
        /\ archive' = archive \/ (archive' = archive \cup {rm[p].id} /\ rm[p].id \in moved[p])
        /\ archive \subseteq archive' /\ pc[p] # "off"
    BY <1>4 DEF RemovalRead, Replace, RemovalDone
  <2> QED BY <2>1 DEF AloneInv
<1>5. ASSUME NEW p \in Run, Retrieve(p) PROVE ArchiveInv'
  BY <1>5 DEF Retrieve
<1>6. CASE Append
  BY <1>6 DEF Append
<1>7. CASE RecordElsewhere
  BY <1>7 DEF RecordElsewhere
<1>8. CASE UNCHANGED vars
  BY <1>8 DEF vars
<1> QED BY <1>1, <1>2, <1>3, <1>4, <1>5, <1>6, <1>7, <1>8 DEF Next, Step, Finished

\* A line leaves the file when its target is in the archive, or is written to
\* it by the same step.
LEMMA ReplacedArchived ==
  ASSUME IInv, [Next]_vars, NEW p \in Run, Replace(p), appends = 0,
         NEW l \in queue \ queue'
  PROVE  l.names \in archive'
<1> USE NoRemovalAssumption DEF IInv, TypeOK
<1>1. rm[p] \in Removal /\ l \in Line /\ Reading(p) /\ archive \subseteq archive'
  BY Monotone DEF Replace, Reading
<1>2. CASE l \notin rm[p].snapshot
  BY <1>1, <1>2 DEF AgreeInv
<1>3. CASE l \in rm[p].snapshot
  <2> rm[p].id \in Target /\ rm[p].snapshot \in SUBSET Line
    BY <1>1 DEF Removal
  <2> l \in rm[p].snapshot \ Retained(rm[p].snapshot, rm[p].id)
    BY <1>3 DEF Replace
  <2>1. l.names = rm[p].id
    BY LeftNames
  <2>2. rm[p].id \in archive'
    BY DEF Replace, RemovalDone, RemovalInv
  <2> QED BY <2>1, <2>2
<1> QED BY <1>2, <1>3

\* A removal leaves every target but its own named.
LEMMA OthersNamed ==
  ASSUME NEW lines, NEW id PROVE Targets(lines) \subseteq Targets(Retained(lines, id)) \cup {id}
BY LeftNames DEF Targets

\* Lines are added to the file as they are; it loses some by rewrites only, and
\* what their targets are was archived.
LEMMA NextKeptInv ==
  ASSUME IInv, [Next]_vars PROVE KeptInv'
<1>0. /\ archive \subseteq archive' /\ (shared => shared')
      /\ (appends' = 0 => appends = 0)
  BY Monotone DEF IInv
<1> USE NoRemovalAssumption DEF IInv, TypeOK, KeptInv, Kept, Reading, Goto, bounds, run
<1>1. ASSUME NEW p \in Run, Start(p) PROVE KeptInv'
  <2>1. /\ UNCHANGED <<queue, rm, archive>> /\ requested'[p] = Targets(queue)
        /\ \A q \in Run \ {p} : requested'[q] = requested[q] /\ pc'[q] = pc[q]
    BY <1>1 DEF Start
  <2>2. rm[p] = NoRemoval
    BY <1>1 DEF Start, RemovalInv
  <2> QED BY <1>0, <2>1, <2>2 DEF Targets
<1>2. ASSUME NEW p \in Run,
             \/ ReadBefore(p) \/ ReadArchive(p) \/ Launch(p) \/ Exit(p) \/ WriteReport(p)
      PROVE  KeptInv'
  <2>1. /\ UNCHANGED <<queue, rm, archive, requested, shared, appends>>
        /\ pc[p] # "off" /\ \A q \in Run \ {p} : pc'[q] = pc[q]
    BY <1>2 DEF ReadBefore, ReadArchive, Launch, Exit, WriteReport
  <2> QED BY <2>1 DEF Targets
<1>3. ASSUME NEW p \in Run, AbandonRemoval(p) PROVE KeptInv'
  <2>1. /\ UNCHANGED <<queue, archive, requested, shared, appends>>
        /\ rm' = [rm EXCEPT ![p] = NoRemoval] /\ pc[p] # "off"
        /\ \A q \in Run \ {p} : pc'[q] = pc[q]
    BY <1>3 DEF AbandonRemoval, RemovalInv
  <2> QED BY <2>1 DEF Targets
<1>4. ASSUME NEW p \in Run, Reconcile(p) \/ Retrieve(p) PROVE KeptInv'
  <2>1. PICK id \in Target : rm' = [rm EXCEPT ![p] = [id |-> id, read |-> FALSE, snapshot |-> {}]]
    BY <1>4 DEF Reconcile, Retrieve, Removing
  <2>2. UNCHANGED <<queue, archive, requested, shared, appends, pc>>
    BY <1>4 DEF Reconcile, Retrieve
  <2>3. ~Reading(p)'
    <3> DEFINE begun == [id |-> id, read |-> FALSE, snapshot |-> {}]
    <3>1. ~begun.read /\ rm'[p] = begun
      BY <2>1
    <3> QED BY <3>1
  <2> QED BY <2>1, <2>2, <2>3 DEF Targets
<1>5. ASSUME NEW p \in Run, RemovalRead(p) PROVE KeptInv'
  <2>1. UNCHANGED <<queue, requested, shared, appends, pc>> /\ pc[p] # "off"
    BY <1>5 DEF RemovalRead, RemovalInv
  <2>2. Reading(p)' => rm'[p].snapshot = queue
    BY <1>5, ReadEffect DEF RemovalRead, RemovalDone
  <2>3. \A q \in Run \ {p} : rm'[q] = rm[q]
    BY <1>5 DEF RemovalRead, RemovalDone
  <2> QED BY <1>0, <2>1, <2>2, <2>3 DEF Targets
<1>6. ASSUME NEW p \in Run, Replace(p) PROVE KeptInv'
  <2>1. /\ UNCHANGED <<requested, shared, appends, pc>> /\ pc[p] # "off"
        /\ rm' = [rm EXCEPT ![p] = NoRemoval]
        /\ rm[p].id \in archive' /\ Reading(p)
        /\ queue' = Retained(rm[p].snapshot, rm[p].id)
    BY <1>6 DEF Replace, RemovalDone, RemovalInv
  <2>2. CASE shared
    <3> SUFFICES ASSUME appends = 0, NEW q \in Run, pc[q] # "off", NEW t \in requested[q],
                        t \notin Targets(queue')
                 PROVE  t \in archive'
      BY <2>1, <2>2 DEF Kept, KeptInv
    <3>1. CASE t \notin Targets(queue)
      BY <1>0, <3>1
    <3>2. CASE t \in Targets(queue)
      <4>1. PICK l \in queue : l.names = t /\ l \notin queue'
        BY <3>2 DEF Targets
      <4> QED BY <1>6, <4>1, ReplacedArchived
    <3> QED BY <3>1, <3>2
  <2>3. CASE ~shared
    <3>1. \A q \in Run \ {p} : pc[q] = "off" /\ rm[q] = NoRemoval
      BY <2>1, <2>3 DEF AloneInv, RemovalInv
    <3>2. Targets(rm[p].snapshot) \subseteq Targets(queue') \cup {rm[p].id}
      BY <2>1, OthersNamed
    <3>3. requested[p] \ Targets(queue') \subseteq archive'
      BY <1>0, <2>1, <2>3, <3>2
    <3> QED BY <2>1, <2>3, <3>1, <3>3 DEF Targets
  <2> QED BY <2>2, <2>3
<1>7. CASE Append
  <2>1. Targets(queue) \subseteq Targets(queue')
    BY <1>7 DEF Append, Targets
  <2>2. UNCHANGED <<archive, rm, pc, requested, shared>>
    BY <1>7 DEF Append
  <2> QED BY <1>0, <2>1, <2>2 DEF Targets
<1>8. CASE RecordElsewhere
  <2>1. UNCHANGED <<queue, rm, pc, requested, shared, appends>>
    BY <1>8 DEF RecordElsewhere
  <2> QED BY <1>0, <2>1 DEF Targets
<1>9. CASE UNCHANGED vars
  BY <1>9 DEF vars, Targets
<1> QED
  BY <1>1, <1>2, <1>3, <1>4, <1>5, <1>6, <1>7, <1>8, <1>9 DEF Next, Step, Finished

\* Init establishes both strengthenings.
LEMMA InitSInv == Init => SInv
<1> SUFFICES ASSUME Init PROVE SInv
  OBVIOUS
<1>1. NoReport \in Report
  BY DEF NoReport, Report
<1>2. TypeOK
  <2>1. report \in [Run -> Report] /\ rm \in [Run -> Removal \cup {NoRemoval}]
    BY <1>1 DEF Init
  <2>2. runs \in 0..MaxRuns /\ appends \in 0..MaxAppends /\ failures \in 0..MaxFailures
    BY QueueBoundAssumption DEF Init
  <2> QED BY <2>1, <2>2 DEF Init, TypeOK
<1>3. RemovalInv /\ AgreeInv /\ AloneInv /\ ArchiveInv /\ KeptInv /\ SoleInv /\ ReportHonest
  BY DEF Init, RemovalInv, AgreeInv, AloneInv, ArchiveInv, KeptInv, SoleInv, Sole,
         ReportHonest, NoReport, Reading
<1> QED BY <1>2, <1>3 DEF SInv, IInv

\* Every step keeps it.
LEMMA NextIInv == ASSUME IInv, [Next]_vars PROVE IInv'
BY NextTypeOK, NextRemovalInv, NextAgreeInv, NextAloneInv, NextArchiveInv, NextKeptInv DEF IInv

\* IInv is an invariant, for any runs, lines and bounds, of either mode.
LEMMA Inductive == Spec => []IInv
<1>1. Init => IInv
  BY InitSInv DEF SInv
<1>2. IInv /\ [Next]_vars => IInv'
  BY NextIInv
<1> QED BY <1>1, <1>2, PTL DEF Spec

\* Every reachable state of the queue and its runs is well typed.
THEOREM TypeCorrect == Spec => []TypeOK
<1>1. IInv => TypeOK
  BY DEF IInv
<1> QED BY <1>1, Inductive, PTL

\* One step drops lines of archived or retrieved targets only.
LEMMA StepKeepsUnrelated ==
  ASSUME IInv, [Next]_vars, appends = 0
  PROVE  \A l \in queue \ queue' : l.names \in archive \cup UNION {moved[p] : p \in Run}
<1> SUFFICES ASSUME NEW l \in queue \ queue'
             PROVE  l.names \in archive \cup UNION {moved[p] : p \in Run}
  OBVIOUS
<1>1. PICK p \in Run : Replace(p)
  BY DEF Next, Step, Start, ReadBefore, ReadArchive, Reconcile, RemovalRead, Launch, Retrieve, Exit,
         WriteReport, AbandonRemoval, Append, RecordElsewhere, Finished, vars, bounds, run
<1>2. rm[p] \in Removal /\ l \in Line /\ Reading(p)
  BY <1>1 DEF IInv, TypeOK, Replace, Reading
<1>3. CASE l \notin rm[p].snapshot
  BY <1>2, <1>3 DEF IInv, AgreeInv
<1>4. CASE l \in rm[p].snapshot
  <2> rm[p].id \in Target /\ rm[p].snapshot \in SUBSET Line
    BY <1>2 DEF Removal
  <2> l \in rm[p].snapshot \ Retained(rm[p].snapshot, rm[p].id)
    BY <1>1, <1>4 DEF Replace
  <2>1. l.names = rm[p].id
    BY LeftNames
  <2> QED BY <1>2, <2>1 DEF IInv, RemovalInv, Reading
<1> QED BY <1>3, <1>4

\* However many runs and callbacks rewrite the file from their snapshots, and
\* wherever they fail, no rewrite drops an unrelated line, as long as no other
\* program appends.
THEOREM RewritesKeepUnrelated == Spec => UnrelatedKeptByRewrites
<1>1. IInv /\ [Next]_vars =>
        [appends = 0 => \A l \in queue \ queue' :
           l.names \in archive \cup UNION {moved[p] : p \in Run}]_vars
  BY StepKeepsUnrelated
<1> QED BY <1>1, Inductive, PTL DEF Spec, UnrelatedKeptByRewrites

-----------------------------------------------------------------------------
\* A run that has the file to itself keeps its account: what others do is
\* nothing, and what it does itself is read off its own variables.
LEMMA NextSoleInv ==
  ASSUME RowMode, IInv, SoleInv, [Next]_vars PROVE SoleInv'
<1> SUFFICES ASSUME ~shared' PROVE \A r \in Run : Sole(r)'
  BY DEF SoleInv
<1>0. ~shared /\ (\A r \in Run : Sole(r))
      /\ \A p, q \in Run : p # q /\ pc[p] # "off" => pc[q] = "off"
  BY Monotone DEF SoleInv, IInv, AloneInv
<1> USE NoRemovalAssumption DEF IInv, TypeOK, RemovalInv, Sole, Reading, Cleared, Goto,
                                bounds, run
<1>1. ASSUME NEW p \in Run, Start(p) PROVE Sole(p)'
  BY <1>1 DEF Start
<1>2. ASSUME NEW p \in Run, ReadBefore(p) \/ ReadArchive(p) PROVE Sole(p)'
  <2>1. rm'[p] = NoRemoval /\ (pc'[p] = "archive" \/ pc'[p] = "reconcile")
    BY <1>2 DEF ReadBefore, ReadArchive
  <2>2. pc'[p] = "reconcile" => before'[p] \subseteq todo'[p]
    BY <1>2 DEF ReadBefore, ReadArchive, ArchiveInv
  <2> QED BY <2>1, <2>2
<1>3. ASSUME NEW p \in Run, Reconcile(p) PROVE Sole(p)'
  <2>1. PICK id \in todo[p] : /\ rm' = [rm EXCEPT ![p] = [id |-> id, read |-> FALSE, snapshot |-> {}]]
                             /\ todo' = [todo EXCEPT ![p] = @ \ {id}]
    BY <1>3 DEF Reconcile, Removing
  <2> DEFINE begun == [id |-> id, read |-> FALSE, snapshot |-> {}]
  <2>0. begun \in Removal /\ begun.id = id /\ ~begun.read
    BY <2>1 DEF Removal
  <2>2. /\ rm'[p] # NoRemoval /\ rm'[p].id = id /\ ~rm'[p].read
        /\ todo'[p] = todo[p] \ {id}
    <3>1. rm'[p] = begun
      BY <2>1
    <3> HIDE DEF begun
    <3> QED BY <2>0, <2>1, <3>1
  <2>3. Sole(p)
    BY <1>0
  <2>4. /\ UNCHANGED <<queue, pc, requested, before, added>> /\ pc[p] = "reconcile"
        /\ rm[p] = NoRemoval
    BY <1>3 DEF Reconcile
  <2>5. Cleared(p, queue)'
    BY <2>2, <2>3, <2>4 DEF Targets
  <2> QED BY <2>2, <2>4, <2>5
<1>4. ASSUME NEW p \in Run, RemovalRead(p) PROVE Sole(p)'
  <2>1. rm[p].id \in Target /\ Sole(p) /\ pc[p] \in {"reconcile", "download"}
    BY <1>0, <1>4 DEF RemovalRead, Removal
  <2>0. UNCHANGED <<queue, pc, requested, before, todo, added>>
    BY <1>4 DEF RemovalRead
  <2>2. CASE Retained(queue, rm[p].id) = queue
    <3>1. rm[p].id \notin Targets(queue)
      BY <2>1, <2>2, RetainedFacts
    <3>2. rm'[p] = NoRemoval
      BY <1>4, <2>2 DEF RemovalRead, RemovalDone
    <3>3. Cleared(p, queue)'
      BY <2>0, <2>1, <3>1, <3>2 DEF Targets
    <3> QED BY <2>0, <2>1, <3>2, <3>3
  <2>3. CASE Retained(queue, rm[p].id) # queue
    <3>1. rm'[p] # NoRemoval /\ rm'[p].id = rm[p].id /\ rm'[p].snapshot = queue
      BY <1>4, <2>3, ReadEffect DEF RemovalRead
    <3>2. Cleared(p, queue)'
      BY <2>0, <2>1, <3>1, <1>4 DEF Targets, RemovalRead
    <3>3. Cleared(p, rm[p].snapshot)'
      BY <2>0, <3>1, <3>2
    <3> QED BY <2>0, <2>1, <3>1, <3>2, <3>3
  <2> QED BY <2>2, <2>3
<1>5. ASSUME NEW p \in Run, Replace(p) PROVE Sole(p)'
  <2>1. /\ rm[p].id \in Target /\ rm[p].snapshot \in SUBSET Line
        /\ Sole(p) /\ Reading(p) /\ pc[p] \in {"reconcile", "download"}
    BY <1>0, <1>5 DEF Replace, Removal
  <2>2. Targets(queue') = Targets(rm[p].snapshot) \ {rm[p].id}
    BY <1>5, <2>1, RetainedFacts DEF Replace
  <2>3. UNCHANGED <<pc, requested, before, todo, added>> /\ rm'[p] = NoRemoval
    BY <1>5 DEF Replace, RemovalDone
  <2>4. Cleared(p, queue)'
    BY <2>1, <2>2, <2>3 DEF Targets
  <2> QED BY <2>1, <2>3, <2>4
<1>6. ASSUME NEW p \in Run, AbandonRemoval(p) PROVE Sole(p)'
  BY <1>0, <1>6 DEF AbandonRemoval
<1>7. ASSUME NEW p \in Run, Launch(p) PROVE Sole(p)'
  BY <1>0, <1>7 DEF Launch
<1>8. ASSUME NEW p \in Run, Retrieve(p) PROVE Sole(p)'
  <2>1. PICK id \in Target : rm' = [rm EXCEPT ![p] = [id |-> id, read |-> FALSE, snapshot |-> {}]]
    BY <1>8 DEF Retrieve, Removing
  <2> DEFINE begun == [id |-> id, read |-> FALSE, snapshot |-> {}]
  <2>2. ~rm'[p].read
    <3>1. ~begun.read /\ rm'[p] = begun
      BY <2>1
    <3> HIDE DEF begun
    <3> QED BY <3>1
  <2>3. UNCHANGED <<queue, pc, requested, before, added>> /\ pc[p] = "download" /\ Sole(p)
    BY <1>0, <1>8 DEF Retrieve
  <2> QED BY <2>2, <2>3 DEF Targets
<1>9. ASSUME NEW p \in Run, Exit(p) \/ WriteReport(p) PROVE Sole(p)'
  <2>1. /\ UNCHANGED <<queue, requested, before, added, rm>> /\ Sole(p)
        /\ \/ pc[p] = "download" /\ pc'[p] = "report" /\ rm[p] = NoRemoval
           \/ pc'[p] = "off"
    BY <1>0, <1>9 DEF Exit, WriteReport
  <2> QED BY <2>1 DEF Targets
<1>10. CASE Append
  <2> SUFFICES ASSUME NEW r \in Run, pc'[r] # "off" PROVE Sole(r)'
    OBVIOUS
  <2>1. PICK l \in Line \ queue :
          /\ queue' = queue \cup {l}
          /\ added' = [q \in Run |-> IF pc[q] = "off" THEN added[q]
                                    ELSE added[q] \cup ({l.names} \ {NoTarget})]
    BY <1>10 DEF Append
  <2>2. Targets(queue') = Targets(queue) \cup ({l.names} \ {NoTarget})
    BY <2>1 DEF Targets
  <2>3. Sole(r) /\ UNCHANGED <<rm, pc, requested, before, todo>>
    BY <1>0, <1>10 DEF Append
  <2>4. added'[r] = added[r] \cup ({l.names} \ {NoTarget})
    BY <2>1, <2>3
  <2> QED BY <2>2, <2>3, <2>4 DEF Targets
<1>11. CASE RecordElsewhere
  BY <1>0, <1>11 DEF RecordElsewhere
<1>12. CASE UNCHANGED vars
  BY <1>0, <1>12 DEF vars
<1>13. ASSUME NEW p \in Run, Start(p) \/ Step(p) \/ AbandonRemoval(p)
       PROVE  \A r \in Run : Sole(r)'
  <2>1. Sole(p)'
    BY <1>1, <1>2, <1>3, <1>4, <1>5, <1>6, <1>7, <1>8, <1>9, <1>13 DEF Step
  <2>2. \A q \in Run \ {p} : pc'[q] = "off"
    BY <1>0, <1>13 DEF Step, Start, ReadBefore, ReadArchive, Reconcile, RemovalRead, Replace,
         Launch, Retrieve, Exit, WriteReport, AbandonRemoval
  <2> QED BY <2>1, <2>2
<1> QED
  BY <1>10, <1>11, <1>12, <1>13 DEF Next, Finished

\* What a run reports is read off its account.
LEMMA NextReportHonest ==
  ASSUME IInv, SoleInv, ReportHonest, [Next]_vars PROVE ReportHonest'
<1>0. /\ archive \subseteq archive' /\ elsewhere \subseteq elsewhere' /\ (shared => shared')
      /\ (appends' = 0 => appends = 0)
  BY Monotone DEF IInv
<1> DEFINE Archived(r) == appends = 0 \/ ~shared => report[r].completed \subseteq archive
           Own(r) == ~shared => /\ report[r].completed \subseteq moved[r] \cup elsewhere
                                /\ report[r].already \cap report[r].unresolved \subseteq added[r]
<1> SUFFICES ASSUME NEW r \in Run PROVE Archived(r)' /\ Own(r)'
  BY DEF ReportHonest
<1>0a. Archived(r) /\ Own(r)
  BY DEF ReportHonest
<1>1. CASE WriteReport(r)
  <2>1. /\ report'[r] = QueueRunReport(r, Targets(queue))
        /\ UNCHANGED <<moved, archive, elsewhere, added, shared, appends>>
        /\ pc[r] = "report" /\ rm[r] = NoRemoval
    BY <1>1 DEF WriteReport, IInv, TypeOK, RemovalInv, bounds
  <2>2. report'[r].completed = (requested[r] \ before[r]) \ Targets(queue)
    BY <2>1 DEF QueueRunReport
  <2>3. report'[r].already \cap report'[r].unresolved
          = requested[r] \cap before[r] \cap Targets(queue)
    BY <2>1 DEF QueueRunReport
  <2>4. appends = 0 \/ ~shared => requested[r] \ Targets(queue) \subseteq archive
    BY <2>1 DEF IInv, KeptInv, Kept
  <2>5. ~shared => archive \subseteq before[r] \cup moved[r] \cup elsewhere
    BY <2>1 DEF IInv, ArchiveInv
  <2>6. ~shared => requested[r] \cap before[r] \cap Targets(queue) \subseteq added[r]
    BY <2>1 DEF SoleInv, Sole, Cleared
  <2>7. Archived(r)'
    BY <2>1, <2>2, <2>4
  <2>8. Own(r)'
    BY <2>1, <2>2, <2>3, <2>4, <2>5, <2>6
  <2> QED BY <2>7, <2>8
<1>2. CASE Start(r)
  <2>1. report'[r].completed = {} /\ report'[r].already = {}
    BY <1>2 DEF Start, IInv, TypeOK, NoReport
  <2> QED BY <2>1
<1>3. CASE report'[r] = report[r] /\ moved[r] \subseteq moved'[r] /\ added[r] \subseteq added'[r]
  BY <1>0, <1>0a, <1>3
<1> HIDE DEF Archived, Own
<1> USE DEF IInv, TypeOK
<1>4. ASSUME NEW p \in Run \ {r}, Start(p) \/ WriteReport(p)
      PROVE  report'[r] = report[r] /\ moved'[r] = moved[r] /\ added'[r] = added[r]
  BY <1>4 DEF Start, WriteReport
<1>5. ASSUME NEW p \in Run, Retrieve(p)
      PROVE  report' = report /\ moved[r] \subseteq moved'[r] /\ added' = added
  BY <1>5 DEF Retrieve
<1>6. ASSUME NEW p \in Run, \/ ReadBefore(p) \/ ReadArchive(p) \/ Reconcile(p) \/ RemovalRead(p)
                          \/ Replace(p) \/ Launch(p) \/ Exit(p) \/ AbandonRemoval(p)
      PROVE  UNCHANGED <<report, moved, added>>
  BY <1>6 DEF ReadBefore, ReadArchive, Reconcile, RemovalRead, Replace, Launch, Exit,
              AbandonRemoval, run
<1>7. CASE Append
  BY <1>3, <1>7 DEF Append
<1>8. RecordElsewhere \/ UNCHANGED vars => UNCHANGED <<report, moved, added>>
  BY DEF RecordElsewhere, vars, run
<1> QED
  BY <1>1, <1>2, <1>3, <1>4, <1>5, <1>6, <1>7, <1>8 DEF Next, Step, Finished

\* In row mode, where a removal takes every line of its target, the report of
\* a run that had the file to itself is honest, whatever others append, a line
\* of one of its targets included, and whatever other downloads archive; and
\* without appends, what any of several runs calls completed is archived.
THEOREM ReportIsHonest == ASSUME RowMode PROVE Spec => []ReportHonest
<1>1. Init => SInv
  BY InitSInv
<1>2. SInv /\ [Next]_vars => SInv'
  BY NextIInv, NextSoleInv, NextReportHonest DEF SInv
<1>3. SInv => ReportHonest
  BY DEF SInv
<1> QED BY <1>1, <1>2, <1>3, PTL DEF Spec

-----------------------------------------------------------------------------
\* What a run retrieved has left the lines, except for the target that its
\* removal in progress is about and for those added again.
Departed(p, lines) ==
  \A t \in moved[p] \cap Targets(lines) :
    t \in added[p] \/ (rm[p] # NoRemoval /\ rm[p].id = t)

Gone(p) ==
  /\ pc[p] \in {"before", "archive", "reconcile"} => moved[p] = {}
  /\ pc[p] # "off" =>
       /\ Departed(p, queue)
       /\ Reading(p) => Departed(p, rm[p].snapshot)

\* As long as no two runs were at work at once and none met a failure.
GoneInv == ~shared /\ failures = 0 => \A p \in Run : Gone(p)

\* A run that is alone and meets no failure removes what it retrieves.
LEMMA NextGoneInv ==
  ASSUME RowMode, IInv, GoneInv, [Next]_vars PROVE GoneInv'
<1> SUFFICES ASSUME ~shared', failures' = 0 PROVE \A r \in Run : Gone(r)'
  BY DEF GoneInv
<1>0. ~shared /\ failures = 0 /\ (\A r \in Run : Gone(r))
      /\ \A p, q \in Run : p # q /\ pc[p] # "off" => pc[q] = "off"
  BY Monotone DEF GoneInv, IInv, AloneInv
<1> USE NoRemovalAssumption DEF IInv, TypeOK, RemovalInv, Reading, Gone, Departed, Goto,
                                bounds, run
<1>1. ASSUME NEW p \in Run, Start(p) PROVE Gone(p)'
  BY <1>1 DEF Start
<1>2. ASSUME NEW p \in Run, ReadBefore(p) \/ ReadArchive(p) PROVE Gone(p)'
  BY <1>0, <1>2 DEF ReadBefore, ReadArchive
<1>3. ASSUME NEW p \in Run, Reconcile(p) PROVE Gone(p)'
  BY <1>0, <1>3 DEF Reconcile, Removing
<1>4. ASSUME NEW p \in Run, RemovalRead(p) PROVE Gone(p)'
  <2>1. rm[p].id \in Target /\ Gone(p) /\ pc[p] \in {"reconcile", "download"}
    BY <1>0, <1>4 DEF RemovalRead, Removal
  <2>0. UNCHANGED <<queue, pc, moved, added>>
    BY <1>4 DEF RemovalRead
  <2>2. CASE Retained(queue, rm[p].id) = queue
    <3>1. rm[p].id \notin Targets(queue)
      BY <2>1, <2>2, RetainedFacts
    <3>2. rm'[p] = NoRemoval
      BY <1>4, <2>2 DEF RemovalRead, RemovalDone
    <3>3. Departed(p, queue)'
      BY <2>0, <2>1, <3>1, <3>2 DEF Targets
    <3> QED BY <2>0, <2>1, <3>2, <3>3
  <2>3. CASE Retained(queue, rm[p].id) # queue
    <3>1. rm'[p] # NoRemoval /\ rm'[p].id = rm[p].id /\ rm'[p].snapshot = queue
      BY <1>4, <2>3, ReadEffect DEF RemovalRead
    <3>2. Departed(p, queue)'
      BY <2>0, <2>1, <3>1, <1>4 DEF Targets, RemovalRead
    <3>3. Departed(p, rm[p].snapshot)'
      BY <2>0, <3>1, <3>2
    <3> QED BY <2>0, <2>1, <3>1, <3>2, <3>3
  <2> QED BY <2>2, <2>3
<1>5. ASSUME NEW p \in Run, Replace(p) PROVE Gone(p)'
  <2>1. /\ rm[p].id \in Target /\ rm[p].snapshot \in SUBSET Line
        /\ Gone(p) /\ Reading(p) /\ pc[p] \in {"reconcile", "download"}
    BY <1>0, <1>5 DEF Replace, Removal
  <2>2. Targets(queue') = Targets(rm[p].snapshot) \ {rm[p].id}
    BY <1>5, <2>1, RetainedFacts DEF Replace
  <2>3. UNCHANGED <<pc, moved, added>> /\ rm'[p] = NoRemoval
    BY <1>5 DEF Replace, RemovalDone
  <2>4. Departed(p, queue)'
    BY <2>1, <2>2, <2>3 DEF Targets
  <2> QED BY <2>1, <2>3, <2>4
<1>6. ASSUME NEW p \in Run, AbandonRemoval(p) PROVE FALSE
  BY <1>0, <1>6, QueueBoundAssumption DEF AbandonRemoval
<1>7. ASSUME NEW p \in Run, Launch(p) PROVE Gone(p)'
  BY <1>0, <1>7 DEF Launch
<1>8. ASSUME NEW p \in Run, Retrieve(p) PROVE Gone(p)'
  <2>1. PICK id \in left[p] :
          /\ moved' = [moved EXCEPT ![p] = @ \cup {id}]
          /\ rm' = [rm EXCEPT ![p] = [id |-> id, read |-> FALSE, snapshot |-> {}]]
    BY <1>8 DEF Retrieve, Removing
  <2> DEFINE begun == [id |-> id, read |-> FALSE, snapshot |-> {}]
  <2>2. begun \in Removal /\ begun.id = id /\ ~begun.read
    BY <2>1 DEF Removal
  <2>3. rm'[p] = begun /\ moved'[p] = moved[p] \cup {id}
    BY <2>1
  <2> HIDE DEF begun
  <2>4. rm'[p] # NoRemoval /\ rm'[p].id = id /\ ~rm'[p].read
    BY <2>2, <2>3
  <2>5. /\ Gone(p) /\ rm[p] = NoRemoval /\ pc[p] = "download"
        /\ UNCHANGED <<queue, added, pc>>
    BY <1>0, <1>8 DEF Retrieve
  <2>6. Departed(p, queue)'
    BY <2>3, <2>4, <2>5 DEF Targets
  <2> QED BY <2>3, <2>4, <2>5, <2>6
<1>9. ASSUME NEW p \in Run, Exit(p) \/ WriteReport(p) PROVE Gone(p)'
  BY <1>0, <1>9 DEF Exit, WriteReport
<1>10. CASE Append
  <2> SUFFICES ASSUME NEW r \in Run PROVE Gone(r)'
    OBVIOUS
  <2>1. PICK l \in Line \ queue :
          /\ queue' = queue \cup {l}
          /\ added' = [q \in Run |-> IF pc[q] = "off" THEN added[q]
                                    ELSE added[q] \cup ({l.names} \ {NoTarget})]
    BY <1>10 DEF Append
  <2>2. Targets(queue') = Targets(queue) \cup ({l.names} \ {NoTarget})
    BY <2>1 DEF Targets
  <2>3. Gone(r) /\ UNCHANGED <<rm, pc, moved>>
    BY <1>0, <1>10 DEF Append
  <2>4. pc[r] # "off" => added'[r] = added[r] \cup ({l.names} \ {NoTarget})
    BY <2>1
  <2> QED BY <2>2, <2>3, <2>4 DEF Targets
<1>11. CASE RecordElsewhere
  BY <1>0, <1>11 DEF RecordElsewhere
<1>12. CASE UNCHANGED vars
  BY <1>0, <1>12 DEF vars
<1>13. ASSUME NEW p \in Run, Start(p) \/ Step(p)
       PROVE  \A r \in Run : Gone(r)'
  <2>1. Gone(p)'
    BY <1>1, <1>2, <1>3, <1>4, <1>5, <1>7, <1>8, <1>9, <1>13 DEF Step
  <2>2. ASSUME NEW q \in Run \ {p}
        PROVE  pc'[q] = "off" /\ (moved'[q] = moved[q] \/ moved'[q] = {})
    BY <1>0, <1>13 DEF Step, Start, ReadBefore, ReadArchive, Reconcile, RemovalRead, Replace,
         Launch, Retrieve, Exit, WriteReport
  <2> QED BY <2>1, <2>2
<1> QED
  BY <1>6, <1>10, <1>11, <1>12, <1>13 DEF Next, Finished

\* In row mode, after a run that met no failure and had the file to itself, a
\* target it retrieved is queued only if another program added it again while
\* the run was at work: no rewrite brings it back.
THEOREM RetrievedTargetsLeave == ASSUME RowMode PROVE Spec => []CompletedLeave
<1>1. Init => IInv /\ GoneInv
  <2>1. Init => GoneInv
    BY DEF Init, GoneInv, Gone
  <2> QED BY InitSInv, <2>1 DEF SInv
<1>2. IInv /\ GoneInv /\ [Next]_vars => (IInv /\ GoneInv)'
  BY NextIInv, NextGoneInv
<1>3. IInv /\ GoneInv => CompletedLeave
  BY DEF GoneInv, Gone, Departed, CompletedLeave, IInv, RemovalInv
<1> QED BY <1>1, <1>2, <1>3, PTL DEF Spec
===============================================================================
