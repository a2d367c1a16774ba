------------------------- MODULE CollectionContinuation -------------------------
(***************************************************************************)
(* Continuation of one identified collection in yt-download.py: an         *)
(* invocation takes the collection lock, filters the targets that have     *)
(* completion rows, keeps the lock while yt-dlp works, and finally removes *)
(* the rows when every requested target has one.  Rows are written by      *)
(* callback processes that yt-dlp starts after it has moved a file; they   *)
(* read the collection file again and do not take the lock.                *)
(*                                                                         *)
(* yt-dlp is external: any target may be retrieved, skipped (archive) or   *)
(* fail, in any order, and it may stop at any time.  A killed invocation   *)
(* leaves its yt-dlp and callback running, while flock is released.        *)
(***************************************************************************)
EXTENDS Naturals, Sequences

CONSTANTS
  Run,             \* invocations of yt-download.py
  Target,          \* what an entry of the collection may name
  Url,             \* targets whose text is not the media ID yt-dlp reports
  Revision,        \* target sequences the collection file may hold
  NoRun, NoDownload, NoCallback, NoObservation,
  OtherVersion,    \* an observation with a fingerprint version of another release
  Excerpts,        \* TRUE: runs may select chapters or time ranges
  MaxRuns, MaxFaults, MaxKills, MaxEdits   \* bounds

ASSUME RevisionAssumption ==
  /\ Revision \subseteq Seq(Target)
  /\ Url \subseteq Target
  /\ NoObservation \notin Revision /\ OtherVersion \notin Revision
ASSUME RunAssumption ==
  /\ NoRun \notin Run
  /\ Excerpts \in BOOLEAN
ASSUME ContinuationBoundAssumption ==
  /\ MaxRuns \in Nat /\ MaxFaults \in Nat
  /\ MaxKills \in Nat /\ MaxEdits \in Nat

Members(revision) == {revision[i] : i \in DOMAIN revision}

Option == [mode : {"continue", "reset", "ignore"}, whole : BOOLEAN]
File == [ours : BOOLEAN, targets : Revision]
Download == [left : SUBSET Target, tracked : BOOLEAN, whole : BOOLEAN]
Callback == [step : {"read", "record"}, media : Target]

\* None of the "nothing here" values is a value of its own kind.
ASSUME NothingAssumption ==
  /\ NoDownload \notin Download
  /\ NoCallback \notin Callback

VARIABLES
  rows,            \* completed_targets of this collection
  observed,        \* its row of collection_observations
  file,            \* the collection file: still this identity?, entries
  lock,            \* holder of the collection lock
  pc, opt,
  targets,         \* per run: input_source.direct_targets
  tracked, done,   \* per run: completed is not None; its members
  dl,              \* per run: its yt-dlp process
  cb,              \* per run: the callback its yt-dlp has started
  got,             \* history: targets retrieved as whole items
  runs, faults, kills, edits

state == <<rows, observed>>
own == <<opt, targets, tracked, done>>
child == <<dl, cb, got>>
budget == <<faults, kills, edits>>
vars == <<state, file, lock, pc, own, child, runs, budget>>

PC == {"off", "lock", "reset", "read", "compare", "observe", "launch",
       "wait", "check", "clear"}

TypeOK ==
  /\ rows \subseteq Target /\ observed \in Revision \cup {NoObservation, OtherVersion}
  /\ file \in File /\ lock \in Run \cup {NoRun}
  /\ pc \in [Run -> PC] /\ opt \in [Run -> Option]
  /\ targets \in [Run -> Revision]
  /\ tracked \in [Run -> BOOLEAN] /\ done \in [Run -> SUBSET Target]
  /\ dl \in [Run -> Download \cup {NoDownload}]
  /\ cb \in [Run -> Callback \cup {NoCallback}]
  /\ got \subseteq Target
  /\ runs \in 0..MaxRuns /\ faults \in 0..MaxFaults
  /\ kills \in 0..MaxKills /\ edits \in 0..MaxEdits

Init ==
  /\ rows = {} /\ observed = NoObservation
  /\ file \in [ours : {TRUE}, targets : Revision]
  /\ lock = NoRun
  /\ pc = [p \in Run |-> "off"]
  /\ opt = [p \in Run |-> [mode |-> "continue", whole |-> TRUE]]
  /\ targets = [p \in Run |-> file.targets]
  /\ tracked = [p \in Run |-> FALSE] /\ done = [p \in Run |-> {}]
  /\ dl = [p \in Run |-> NoDownload] /\ cb = [p \in Run |-> NoCallback]
  /\ got = {}
  /\ runs = 0 /\ faults = 0 /\ kills = 0 /\ edits = 0

Goto(p, l) == pc' = [pc EXCEPT ![p] = l]
Release(p) == lock' = IF lock = p THEN NoRun ELSE lock
Finish(p) == Goto(p, "off") /\ Release(p)

\* The state database raises CollectionStateError.
Fails == faults < MaxFaults /\ faults' = faults + 1
Works == UNCHANGED faults

-----------------------------------------------------------------------------
(* The invocation, up to the start of yt-dlp *)

\* The collection file is read before the lock is asked for.
Start(p) ==
  /\ pc[p] = "off" /\ dl[p] = NoDownload /\ cb[p] = NoCallback
  /\ runs < MaxRuns /\ runs' = runs + 1
  /\ file.ours
  /\ targets' = [targets EXCEPT ![p] = file.targets]
  /\ \E o \in Option : /\ ~Excerpts => o.whole
                       /\ opt' = [opt EXCEPT ![p] = o]
  /\ tracked' = [tracked EXCEPT ![p] = FALSE] /\ done' = [done EXCEPT ![p] = {}]
  /\ Goto(p, "lock")
  /\ UNCHANGED <<state, file, lock, child, budget>>

\* Mutant: the invocation does not wait for the lock.
EnterUnlocked(p) ==
  /\ pc[p] = "lock"
  /\ lock' = IF opt[p].mode = "ignore" THEN lock ELSE p
  /\ Goto(p, IF opt[p].mode = "ignore" THEN "launch"
             ELSE IF opt[p].mode = "reset" THEN "reset" ELSE "read")
  /\ UNCHANGED <<state, file, own, child, runs, budget>>

\* --collection-continuation-ignore neither locks nor tracks.
Enter(p) ==
  /\ pc[p] = "lock"
  /\ IF opt[p].mode = "ignore" THEN Goto(p, "launch") /\ UNCHANGED lock
     ELSE /\ lock = NoRun /\ lock' = p
          /\ Goto(p, IF opt[p].mode = "reset" THEN "reset" ELSE "read")
  /\ UNCHANGED <<state, file, own, child, runs, budget>>

\* A failed reset gives continuation up and processes everything.
Reset(p) ==
  /\ pc[p] = "reset"
  /\ \/ Works /\ rows' = {} /\ Goto(p, "read")
     \/ Fails /\ UNCHANGED rows /\ Goto(p, "launch")
  /\ UNCHANGED <<observed, file, lock, own, child, runs, kills, edits>>

ReadCompleted(p) ==
  /\ pc[p] = "read"
  /\ \/ /\ Works /\ Goto(p, "compare")
        /\ tracked' = [tracked EXCEPT ![p] = TRUE] /\ done' = [done EXCEPT ![p] = rows]
     \/ Fails /\ Goto(p, "launch") /\ UNCHANGED <<tracked, done>>
  /\ UNCHANGED <<state, file, lock, opt, targets, child, runs, kills, edits>>

\* The comparison only warns; an error skips the new observation, and the
\* fingerprint of another version is retained.
CompareObservation(p) ==
  /\ pc[p] = "compare"
  /\ \/ Works /\ Goto(p, IF observed = OtherVersion THEN "launch" ELSE "observe")
     \/ Fails /\ Goto(p, "launch")
  /\ UNCHANGED <<state, file, lock, own, child, runs, kills, edits>>

\* Mutant: the filtered sequence is taken for the collection's sequence.
RecordObservationFiltered(p) ==
  /\ pc[p] = "observe"
  /\ observed' = SelectSeq(targets[p], LAMBDA t : t \notin done[p])
  /\ Goto(p, "launch")
  /\ UNCHANGED <<rows, file, lock, own, child, runs, budget>>

RecordObservation(p) ==
  /\ pc[p] = "observe"
  /\ \/ Works /\ observed' = targets[p]
     \/ Fails /\ UNCHANGED observed
  /\ Goto(p, "launch")
  /\ UNCHANGED <<rows, file, lock, own, child, runs, kills, edits>>

Remaining(p) == Members(targets[p]) \ done[p]

\* yt-dlp gets what remains, or is not started (nothing left, OSError).
Launch(p) ==
  /\ pc[p] = "launch"
  /\ \/ /\ Remaining(p) # {}
        /\ dl' = [dl EXCEPT ![p] = [left |-> Remaining(p), tracked |-> tracked[p],
                                    whole |-> opt[p].whole]]
     \/ UNCHANGED dl
  /\ Goto(p, "wait")
  /\ UNCHANGED <<state, file, lock, own, cb, got, runs, budget>>

-----------------------------------------------------------------------------
(* yt-dlp and its callbacks; they outlive a killed invocation *)

\* Mutant: the callback is attached to an earlier stage of yt-dlp.
RetrieveBeforeDownload(p) ==
  /\ dl[p] # NoDownload /\ cb[p] = NoCallback
  /\ \E t \in dl[p].left :
       /\ dl' = [dl EXCEPT ![p].left = @ \ {t}]
       /\ got' \in {got, got \cup {t}}
       /\ cb' = [cb EXCEPT ![p] = [step |-> "read", media |-> t]]
  /\ UNCHANGED <<state, file, lock, pc, own, runs, budget>>

\* after_move: the file of target t is in place, and --exec starts the
\* callback, whose exit yt-dlp awaits.
Retrieve(p) ==
  /\ dl[p] # NoDownload /\ cb[p] = NoCallback
  /\ \E t \in dl[p].left :
       /\ dl' = [dl EXCEPT ![p].left = @ \ {t}]
       /\ got' = IF dl[p].whole THEN got \cup {t} ELSE got
       /\ cb' = IF dl[p].tracked
                  THEN [cb EXCEPT ![p] = [step |-> "read", media |-> t]] ELSE cb
  /\ UNCHANGED <<state, file, lock, pc, own, runs, budget>>

\* An archive hit or an error: no after_move, no callback.
PassOver(p) ==
  /\ dl[p] # NoDownload /\ cb[p] = NoCallback
  /\ \E t \in dl[p].left : dl' = [dl EXCEPT ![p].left = @ \ {t}]
  /\ UNCHANGED <<state, file, lock, pc, own, cb, got, runs, budget>>

Exit(p) ==
  /\ dl[p] # NoDownload /\ cb[p] = NoCallback
  /\ dl' = [dl EXCEPT ![p] = NoDownload]
  /\ UNCHANGED <<state, file, lock, pc, own, cb, got, runs, budget>>

Drop(p) == cb' = [cb EXCEPT ![p] = NoCallback]

\* record_collection_completion reads the file again: another identity, or a
\* media ID that is no target of it, is refused.
CallbackRead(p) ==
  /\ cb[p] # NoCallback /\ cb[p].step = "read"
  /\ IF file.ours /\ cb[p].media \in Members(file.targets) \ Url
       THEN cb' = [cb EXCEPT ![p].step = "record"] ELSE Drop(p)
  /\ UNCHANGED <<state, file, lock, pc, own, dl, got, runs, budget>>

CallbackRecord(p) ==
  /\ cb[p] # NoCallback /\ cb[p].step = "record"
  /\ \/ Works /\ rows' = rows \cup {cb[p].media}
     \/ Fails /\ UNCHANGED rows
  /\ Drop(p)
  /\ UNCHANGED <<observed, file, lock, pc, own, dl, got, runs, kills, edits>>

-----------------------------------------------------------------------------
(* The end of the invocation *)

\* Mutant: an untracked run ends without leaving the with block.
WaitLeaking(p) ==
  /\ pc[p] = "wait" /\ dl[p] = NoDownload
  /\ IF tracked[p] THEN Goto(p, "check") ELSE Goto(p, "off")
  /\ UNCHANGED <<state, file, lock, own, child, runs, budget>>

Wait(p) ==
  /\ pc[p] = "wait" /\ dl[p] = NoDownload
  /\ IF tracked[p] THEN Goto(p, "check") /\ UNCHANGED lock ELSE Finish(p)
  /\ UNCHANGED <<state, file, own, child, runs, budget>>

\* Mutant: the exit status of yt-dlp is taken for completion.
CheckTrustsExit(p) ==
  /\ pc[p] = "check" /\ Goto(p, "clear")
  /\ UNCHANGED <<state, file, lock, own, child, runs, budget>>

Check(p) ==
  /\ pc[p] = "check"
  /\ \/ /\ Works /\ Members(targets[p]) \subseteq rows
        /\ Goto(p, "clear") /\ UNCHANGED lock
     \/ Works /\ ~(Members(targets[p]) \subseteq rows) /\ Finish(p)
     \/ Fails /\ Finish(p)
  /\ UNCHANGED <<state, file, own, child, runs, kills, edits>>

Clear(p) ==
  /\ pc[p] = "clear"
  /\ \/ Works /\ rows' = {}
     \/ Fails /\ UNCHANGED rows
  /\ Finish(p)
  /\ UNCHANGED <<observed, file, own, child, runs, kills, edits>>

-----------------------------------------------------------------------------
(* What happens around it *)

\* Ctrl-C: subprocess.run kills yt-dlp, the invocation goes on with status
\* 130, and a callback that has begun is left alone.
Interrupt(p) ==
  /\ pc[p] = "wait" /\ dl[p] # NoDownload
  /\ dl' = [dl EXCEPT ![p] = NoDownload]
  /\ UNCHANGED <<state, file, lock, pc, own, cb, got, runs, budget>>

\* The invocation dies: the kernel releases the lock, yt-dlp goes on.
Kill(p) ==
  /\ pc[p] # "off" /\ kills < MaxKills /\ kills' = kills + 1
  /\ Finish(p)
  /\ UNCHANGED <<state, file, own, child, runs, faults, edits>>

\* The user rewrites the collection file.
EditFile ==
  /\ edits < MaxEdits /\ edits' = edits + 1
  /\ file' \in File
  /\ UNCHANGED <<state, lock, pc, own, child, runs, faults, kills>>

\* A run of another release, which takes the lock as well, leaves its own
\* observation; that it retrieves something is not modelled.
OtherRelease ==
  /\ lock = NoRun
  /\ edits < MaxEdits /\ edits' = edits + 1
  /\ observed' = OtherVersion
  /\ UNCHANGED <<rows, file, lock, pc, own, child, runs, faults, kills>>

-----------------------------------------------------------------------------
Parent(p) ==
  \/ Enter(p) \/ Reset(p) \/ ReadCompleted(p) \/ CompareObservation(p)
  \/ RecordObservation(p) \/ Launch(p) \/ Wait(p) \/ Check(p) \/ Clear(p)

Child(p) == Retrieve(p) \/ PassOver(p) \/ Exit(p) \/ CallbackRead(p) \/ CallbackRecord(p)

Finished == (\A p \in Run : pc[p] = "off" /\ dl[p] = NoDownload /\ cb[p] = NoCallback)
            /\ UNCHANGED vars

Next ==
  \/ \E p \in Run : Start(p) \/ Parent(p) \/ Child(p) \/ Interrupt(p) \/ Kill(p)
  \/ EditFile \/ OtherRelease \/ Finished

Spec == Init /\ [][Next]_vars

\* Invocations go on; yt-dlp and its callbacks end at some time.
FairSpec == Spec /\ \A p \in Run : WF_vars(Parent(p)) /\ WF_vars(Child(p))

-----------------------------------------------------------------------------
(* Properties *)

Active(p) == dl[p] # NoDownload /\ dl[p].tracked

\* A target is left out of a run only if it was retrieved as a whole item:
\* completion comes from after_move callbacks (reconcile_collection_targets).
SkippedWereRetrieved ==
  \A p \in Run : tracked[p] => done[p] \subseteq got

\* Completion rows go away by a reset, or all at once when every target of the
\* invocation that removes them has its row (clear after the final check).
EvidenceKept ==
  [][ rows \subseteq rows'
      \/ \E p \in Run : \/ pc[p] = "reset"
                        \/ pc[p] = "clear" /\ Members(targets[p]) \subseteq rows ]_vars

\* Two tracked yt-dlp processes never work on the collection at once: the lock
\* is retained across the execution of yt-dlp.
Serialised == \A p, q \in Run : Active(p) /\ Active(q) => p = q

\* As long as no invocation was killed, the lock does keep them apart.
SerialisedUnlessKilled == kills = 0 => Serialised

\* While a tracked yt-dlp works, the observation is the sequence of its run,
\* unless the state database failed on the way or another release wrote the
\* observation that is there (record_observation under the collection lock).
ObservationCurrent ==
  \A p \in Run : pc[p] = "wait" /\ tracked[p] /\ faults = 0
                    => observed \in {targets[p], OtherVersion}

\* Every invocation that asks for the lock ends.
InvocationEnds == \A p \in Run : pc[p] = "lock" ~> pc[p] = "off"
=============================================================================
