---------------------------- MODULE CompletionQueue ----------------------------
(***************************************************************************)
(* The queue file of --remove-completed-ids and --remove-completed-rows: an*)
(* invocation reads its targets, removes what the archive already has,     *)
(* starts yt-dlp, whose after_move callbacks remove one ID each, and reads *)
(* the file again for its report.  A removal reads the whole file, writes  *)
(* the retained lines to a temporary file and renames it over the queue;   *)
(* nothing keeps others from writing in between: other programs append any  *)
(* line, and other downloads use the same archive.  The order of lines is  *)
(* left out, and so are duplicates, which are all removed at once.         *)
(***************************************************************************)
EXTENDS Naturals

CONSTANTS
  Run,             \* invocations on the same queue file
  Target,          \* media IDs
  Line,            \* lines the file may hold
  NoTarget,
  NoRemoval,
  RowMode,         \* TRUE: --remove-completed-rows
  MaxRuns, MaxAppends, MaxFailures   \* bounds

\* A line names the target the readers take from it; raw says that the bytes
\* of the line, stripped, are exactly that ID (a byte order mark or an
\* annotation makes the difference).
ASSUME LineAssumption ==
  /\ Line \subseteq [names : Target \cup {NoTarget}, raw : BOOLEAN]
  /\ NoTarget \notin Target
ASSUME QueueBoundAssumption ==
  /\ RowMode \in BOOLEAN
  /\ MaxRuns \in Nat /\ MaxAppends \in Nat /\ MaxFailures \in Nat

\* One removal: its target and, once it has read the file, what was there.
Removal == [id : Target, read : BOOLEAN, snapshot : SUBSET Line]
ASSUME NoRemovalAssumption == NoRemoval \notin Removal

VARIABLES
  queue,           \* lines of the file
  archive,         \* yt-dlp's download archive
  pc,
  requested,       \* queue_requested
  before,          \* archive_before
  todo,            \* archived IDs the reconciliation has still to remove
  left,            \* targets yt-dlp still has to look at
  rm,              \* the removal in progress, in the run or in a callback
  moved,           \* history: targets this run's yt-dlp has retrieved
  report,          \* targets reported as completed and as unresolved
  added,           \* history: targets others appended since this run began
  elsewhere,       \* history: targets that other downloads have archived
  shared,          \* history: two runs were at work on the file at once
  runs, appends, failures

bounds == <<runs, appends, failures>>
run == <<pc, requested, before, todo, left, moved, report, added>>
vars == <<queue, archive, elsewhere, rm, run, shared, bounds>>

Report == [already : SUBSET Target, completed : SUBSET Target, unresolved : SUBSET Target]
NoReport == [already |-> {}, completed |-> {}, unresolved |-> {}]

TypeOK ==
  /\ queue \subseteq Line /\ archive \subseteq Target
  /\ pc \in [Run -> {"off", "before", "archive", "reconcile", "download", "report"}]
  /\ requested \in [Run -> SUBSET Target] /\ before \in [Run -> SUBSET Target]
  /\ todo \in [Run -> SUBSET Target] /\ left \in [Run -> SUBSET Target]
  /\ rm \in [Run -> Removal \cup {NoRemoval}]
  /\ moved \in [Run -> SUBSET Target] /\ report \in [Run -> Report]
  /\ added \in [Run -> SUBSET Target] /\ elsewhere \subseteq Target
  /\ shared \in BOOLEAN
  /\ runs \in 0..MaxRuns /\ appends \in 0..MaxAppends /\ failures \in 0..MaxFailures

\* Mutant: comment lines count as targets.
TargetsWithComments(lines) == {l.names : l \in lines}

\* queue_targets and queue_row_targets.
Targets(lines) == {l.names : l \in lines} \ {NoTarget}

Init ==
  /\ queue \in SUBSET Line /\ archive \in SUBSET Target
  /\ pc = [p \in Run |-> "off"]
  /\ requested = [p \in Run |-> {}] /\ before = [p \in Run |-> {}]
  /\ todo = [p \in Run |-> {}] /\ left = [p \in Run |-> {}]
  /\ rm = [p \in Run |-> NoRemoval]
  /\ moved = [p \in Run |-> {}] /\ report = [p \in Run |-> NoReport]
  /\ added = [p \in Run |-> {}] /\ elsewhere = {}
  /\ shared = FALSE /\ runs = 0 /\ appends = 0 /\ failures = 0

Goto(p, l) == pc' = [pc EXCEPT ![p] = l]

\* Mutant: rows are compared like bare IDs.
MatchesRaw(l, id) == l.names = id /\ l.raw

\* remove_completed_id compares bytes, remove_completed_row the first field.
Matches(l, id) == l.names = id /\ (RowMode \/ l.raw)
\* Mutant: lines that hold no ID are not kept.
RetainedIds(lines, id) == {l \in lines : ~Matches(l, id) /\ l.names # NoTarget}

Retained(lines, id) == {l \in lines : ~Matches(l, id)}

-----------------------------------------------------------------------------
(* A removal is two steps of its process, in the run itself while it       *)
(* reconciles, in a callback of yt-dlp while it downloads *)

Removing(p, id) == rm' = [rm EXCEPT ![p] = [id |-> id, read |-> FALSE, snapshot |-> {}]]

\* The removal is over; after the callback yt-dlp writes its archive.
RemovalDone(p) ==
  /\ rm' = [rm EXCEPT ![p] = NoRemoval]
  /\ archive' = IF pc[p] = "download" THEN archive \cup {rm[p].id} ELSE archive

\* Nothing to remove: the file is left alone.
RemovalRead(p) ==
  /\ rm[p] # NoRemoval /\ ~rm[p].read
  /\ IF Retained(queue, rm[p].id) = queue THEN RemovalDone(p)
     ELSE /\ rm' = [rm EXCEPT ![p].read = TRUE, ![p].snapshot = queue]
          /\ UNCHANGED archive
  /\ UNCHANGED <<queue, elsewhere, run, shared, bounds>>

\* write, fsync, rename
Replace(p) ==
  /\ rm[p] # NoRemoval /\ rm[p].read
  /\ queue' = Retained(rm[p].snapshot, rm[p].id)
  /\ RemovalDone(p)
  /\ UNCHANGED <<elsewhere, run, shared, bounds>>

\* The process of the removal dies or meets an OSError; a temporary file it
\* leaves behind is of no account.  A run that reconciles ends with it.
AbandonRemoval(p) ==
  /\ rm[p] # NoRemoval /\ failures < MaxFailures /\ failures' = failures + 1
  /\ rm' = [rm EXCEPT ![p] = NoRemoval]
  /\ IF pc[p] = "reconcile"
       THEN Goto(p, "off") /\ todo' = [todo EXCEPT ![p] = {}]
       ELSE UNCHANGED <<pc, todo>>
  /\ UNCHANGED <<queue, archive, elsewhere, requested, before, left, moved, report, added,
                 shared, runs, appends>>

-----------------------------------------------------------------------------
(* The invocation *)

\* The targets are read before the archive.
Start(p) ==
  /\ pc[p] = "off" /\ runs < MaxRuns /\ runs' = runs + 1
  /\ requested' = [requested EXCEPT ![p] = Targets(queue)]
  /\ before' = [before EXCEPT ![p] = {}]
  /\ moved' = [moved EXCEPT ![p] = {}] /\ report' = [report EXCEPT ![p] = NoReport]
  /\ added' = [added EXCEPT ![p] = {}]
  /\ shared' = (shared \/ \E q \in Run \ {p} : pc[q] # "off")
  /\ Goto(p, "before")
  /\ UNCHANGED <<queue, archive, elsewhere, todo, left, rm, appends, failures>>

ReadBefore(p) ==
  /\ pc[p] = "before"
  /\ before' = [before EXCEPT ![p] = archive]
  /\ Goto(p, "archive")
  /\ UNCHANGED <<queue, archive, elsewhere, requested, todo, left, rm, moved, report, added,
                 shared, bounds>>

\* remove_archived_ids reads the archive once more.
ReadArchive(p) ==
  /\ pc[p] = "archive"
  /\ todo' = [todo EXCEPT ![p] = archive]
  /\ Goto(p, "reconcile")
  /\ UNCHANGED <<queue, archive, elsewhere, requested, before, left, rm, moved, report, added,
                 shared, bounds>>

Reconcile(p) ==
  /\ pc[p] = "reconcile" /\ rm[p] = NoRemoval
  /\ \E id \in todo[p] : Removing(p, id) /\ todo' = [todo EXCEPT ![p] = @ \ {id}]
  /\ UNCHANGED <<queue, archive, elsewhere, pc, requested, before, left, moved, report, added,
                 shared, bounds>>

\* yt-dlp reads the batch file, or gets the rows' targets as arguments.
Launch(p) ==
  /\ pc[p] = "reconcile" /\ todo[p] = {} /\ rm[p] = NoRemoval
  /\ left' = [left EXCEPT ![p] = Targets(queue)]
  /\ Goto(p, "download")
  /\ UNCHANGED <<queue, archive, elsewhere, requested, before, todo, rm, moved, report, added,
                 shared, bounds>>

\* after_move starts the callback and waits for it.
Retrieve(p) ==
  /\ pc[p] = "download" /\ rm[p] = NoRemoval
  /\ \E id \in left[p] \ archive :
       /\ left' = [left EXCEPT ![p] = @ \ {id}]
       /\ moved' = [moved EXCEPT ![p] = @ \cup {id}]
       /\ Removing(p, id)
  /\ UNCHANGED <<queue, archive, elsewhere, pc, requested, before, todo, report, added, shared,
                 bounds>>

\* yt-dlp ends: what is left failed, was skipped, or was never reached.
Exit(p) ==
  /\ pc[p] = "download" /\ rm[p] = NoRemoval
  /\ left' = [left EXCEPT ![p] = {}]
  /\ Goto(p, "report")
  /\ UNCHANGED <<queue, archive, elsewhere, requested, before, todo, rm, moved, report, added,
                 shared, bounds>>

\* Mutant: everything asked for is reported as completed.
QueueRunReportAll(p, remaining) ==
  [already |-> requested[p] \cap before[p],
   completed |-> requested[p] \ before[p],
   unresolved |-> requested[p] \cap remaining]

QueueRunReport(p, remaining) ==
  [already |-> requested[p] \cap before[p],
   completed |-> (requested[p] \ before[p]) \ remaining,
   unresolved |-> requested[p] \cap remaining]

WriteReport(p) ==
  /\ pc[p] = "report"
  /\ report' = [report EXCEPT ![p] = QueueRunReport(p, Targets(queue))]
  /\ Goto(p, "off")
  /\ UNCHANGED <<queue, archive, elsewhere, requested, before, todo, left, rm, moved, added, shared,
                 bounds>>

\* Another program appends a line, whatever it names.
Append ==
  /\ appends < MaxAppends /\ appends' = appends + 1
  /\ \E l \in Line \ queue :
       /\ queue' = queue \cup {l}
       /\ added' = [p \in Run |-> IF pc[p] = "off" THEN added[p]
                                 ELSE added[p] \cup ({l.names} \ {NoTarget})]
  /\ UNCHANGED <<archive, elsewhere, rm, pc, requested, before, todo, left, moved, report,
                 shared, runs, failures>>

\* A download that does not read this queue writes the archive they share.
RecordElsewhere ==
  /\ \E id \in Target \ archive :
       archive' = archive \cup {id} /\ elsewhere' = elsewhere \cup {id}
  /\ UNCHANGED <<queue, rm, run, shared, bounds>>

-----------------------------------------------------------------------------
Step(p) ==
  \/ ReadBefore(p) \/ ReadArchive(p) \/ Reconcile(p) \/ RemovalRead(p) \/ Replace(p)
  \/ Launch(p) \/ Retrieve(p) \/ Exit(p) \/ WriteReport(p)

Finished ==
  /\ runs = MaxRuns /\ \A p \in Run : pc[p] = "off" /\ rm[p] = NoRemoval
  /\ UNCHANGED vars

Next == \/ \E p \in Run : Start(p) \/ Step(p) \/ AbandonRemoval(p)
        \/ Append \/ RecordElsewhere \/ Finished

Spec == Init /\ [][Next]_vars
FairSpec == Spec /\ \A p \in Run : WF_vars(Step(p))

-----------------------------------------------------------------------------
(* Properties *)

\* A line leaves the queue only when its target was archived or retrieved:
\* unrelated lines survive every rewrite.
UnrelatedKept ==
  [][ \A l \in queue \ queue' : l.names \in archive \cup UNION {moved[p] : p \in Run} ]_vars

\* That is so for all rewrites by any number of runs and callbacks, until
\* another program appends to the file.
UnrelatedKeptByRewrites ==
  [][ appends = 0 =>
      \A l \in queue \ queue' : l.names \in archive \cup UNION {moved[p] : p \in Run} ]_vars

\* "IDs whose successful completion caused them to leave the queue": what any
\* of several runs reports as completed is in the archive, as long as no other
\* program appends; and in the report of a run that had the file to itself,
\* whatever others append or archive, it was retrieved by that run or archived
\* by them, and what was archived before the run is unresolved only if it was
\* added again.
ReportHonest ==
  /\ appends = 0 \/ ~shared => \A p \in Run : report[p].completed \subseteq archive
  /\ ~shared =>
       \A p \in Run : /\ report[p].completed \subseteq moved[p] \cup elsewhere
                      /\ report[p].already \cap report[p].unresolved \subseteq added[p]

\* After a run that met no failure and had the file to itself, a target it
\* retrieved is queued only if another program added it again.
CompletedLeave ==
  ~shared /\ failures = 0 =>
    \A p \in Run : pc[p] = "report" => moved[p] \cap Targets(queue) \subseteq added[p]
=============================================================================
