----------------------------- MODULE CacheStartup -----------------------------
(***************************************************************************)
(* Managed startup of the Discover metadata cache: the flock over          *)
(* discovery, decision and execution, the creation of a fresh v4 database, *)
(* the side-by-side migration of a v3 database, its failures and kills,    *)
(* the cut-over, and the ordinary work that follows.  Processes in         *)
(* Explicit name a file with --cache and bypass the lock.                  *)
(*                                                                         *)
(* A fact stands for one row of knowledge a cache holds: source facts are  *)
(* observations, entries, coverage and frontiers; media facts are detailed *)
(* metadata records.  One action is one stretch of code up to the next     *)
(* SQLite commit or file-system call.                                      *)
(***************************************************************************)
EXTENDS Naturals, FiniteSets

CONSTANTS
  Proc,            \* managed yt-discover processes
  Explicit,        \* processes run with --cache FILE
  NoProc,          \* nobody holds the startup lock
  SourceFact, MediaFact,
  BatchSize,       \* _MIGRATION_BATCH_SIZE
  MaxStarts,       \* bound: startups of one managed process
  MaxFaults,       \* bound: exceptions and kills in a behaviour
  StampWindow      \* TRUE: the program may also stop for good between the
                   \* creation of a destination and its incomplete stamp

ASSUME DistinctAssumption ==
  /\ NoProc \notin Proc
  /\ Proc \cap Explicit = {}
  /\ SourceFact \cap MediaFact = {}
ASSUME BoundAssumption ==
  /\ BatchSize \in Nat \ {0}
  /\ MaxStarts \in Nat
  /\ MaxFaults \in Nat
  /\ StampWindow \in BOOLEAN

Fact == SourceFact \cup MediaFact

VARIABLES
  v3, v3rec,       \* metadata.sqlite3: shape and facts
  v4, v4rec,       \* metadata-v4.sqlite3: shape and facts
  lock,            \* holder of .metadata-cache-startup.lock
  pc, mode, opt,   \* per managed process: next stage, kind of work, options
  todo,            \* rows of v3 its migration has read but not yet written
  handle,          \* the file a process has open for ordinary work
  starts, faults,  \* bounds
  facts,           \* history: what v3 held at first, and managed work since
  abandoned        \* history: a destination was left behind on purpose or
                   \* by a kill

files == <<v3, v3rec, v4, v4rec>>
vars == <<v3, v3rec, v4, v4rec, lock, pc, mode, opt, todo, handle, starts,
          faults, facts, abandoned>>

(***************************************************************************)
(* The shapes discovery tells apart.  "tables": schema created but no      *)
(* version row yet.  "building": stamped schema 3 / incomplete.            *)
(* "foreign": a schema-3 database under the v4 name that carries the       *)
(* legacy runtime tables.                                                  *)
(***************************************************************************)
V3Shape == {"absent", "valid", "broken"}
V4Shape == {"absent", "tables", "complete", "building", "foreign"}

Migrating == {"validate", "stamp", "sources", "openRows", "rows", "certify",
              "finalise", "verify", "cleanup", "unlinkSource"}
Holding == Migrating \cup {"discover", "confirm", "initTables", "initMark",
                           "verifyActive", "verifyFresh"}
PC == Holding \cup {"off", "lock", "open", "work"}
Option == [interactive : BOOLEAN, keepOld : BOOLEAN, keepFailed : BOOLEAN]
Handle == {"none", "v3", "v4", "stale"}

TypeOK ==
  /\ v3 \in V3Shape /\ v3rec \subseteq Fact
  /\ v4 \in V4Shape /\ v4rec \subseteq Fact
  /\ lock \in Proc \cup {NoProc}
  /\ pc \in [Proc -> PC]
  /\ mode \in [Proc -> {"fresh", "migrate"}]
  /\ opt \in [Proc -> Option]
  /\ todo \in [Proc -> SUBSET Fact]
  /\ handle \in [Proc \cup Explicit -> Handle]
  /\ starts \in [Proc -> Nat]
  /\ faults \in Nat
  /\ facts \subseteq Fact
  /\ abandoned \in BOOLEAN

DefaultOption == [interactive |-> FALSE, keepOld |-> FALSE, keepFailed |-> FALSE]

Init ==
  /\ \/ v3 = "absent" /\ v3rec = {}
     \/ v3 \in {"valid", "broken"} /\ v3rec \in SUBSET Fact
  /\ v4 = "absent" /\ v4rec = {}
  /\ lock = NoProc
  /\ pc = [p \in Proc |-> "off"]
  /\ mode = [p \in Proc |-> "fresh"]
  /\ opt = [p \in Proc |-> DefaultOption]
  /\ todo = [p \in Proc |-> {}]
  /\ handle = [p \in Proc \cup Explicit |-> "none"]
  /\ starts = [p \in Proc |-> 0]
  /\ faults = 0
  /\ facts = v3rec
  /\ abandoned = FALSE

\* validate_v3_database reports no violation of the v3 contract; discovery
\* asks it of a candidate, and the migration asks again of its source.
ValidV3 == v3 = "valid"

(***************************************************************************)
(* Read-only discovery and its resolution: the newest recognised candidate *)
(* decides, and an unusable one blocks rather than falling back.           *)
(***************************************************************************)
\* Mutant: completion is not read, only the presence of the v4 schema.
ResolutionTrusting ==
  CASE v4 \in {"complete", "building"} -> "active"
    [] v4 \in {"tables", "foreign"} -> "blocked"
    [] v4 = "absent" /\ ValidV3 -> "migration_required"
    [] v4 = "absent" /\ v3 = "broken" -> "blocked"
    [] OTHER -> "fresh_required"

Resolution ==
  CASE v4 = "complete" -> "active"
    [] v4 \in {"tables", "building", "foreign"} -> "blocked"
    [] v4 = "absent" /\ ValidV3 -> "migration_required"
    [] v4 = "absent" /\ v3 = "broken" -> "blocked"
    [] OTHER -> "fresh_required"

Goto(p, l) == pc' = [pc EXCEPT ![p] = l]
\* Mutant: the arguments of the release are swapped.
LeaveSwapped(p, l) == Goto(p, l) /\ lock' = l

\* Leaving the with-block closes the descriptor and with it the flock.
Leave(p, l) == Goto(p, l) /\ lock' = NoProc
Stale(gone) == handle' = [x \in Proc \cup Explicit |->
                            IF handle[x] = gone THEN "stale" ELSE handle[x]]
UnlinkV4 == v4' = "absent" /\ v4rec' = {} /\ Stale("v4")

-----------------------------------------------------------------------------
(* Lock, discovery and decision *)

Start(p) ==
  /\ pc[p] = "off" /\ starts[p] < MaxStarts
  /\ starts' = [starts EXCEPT ![p] = @ + 1]
  /\ \E o \in Option : opt' = [opt EXCEPT ![p] = o]
  /\ Goto(p, "lock")
  /\ UNCHANGED <<files, lock, mode, todo, handle, faults, facts, abandoned>>

\* Mutant: discovery runs outside the lock.
AcquireUnlocked(p) ==
  /\ pc[p] = "lock"
  /\ lock' = p
  /\ Goto(p, "discover")
  /\ UNCHANGED <<files, mode, opt, todo, handle, starts, faults, facts, abandoned>>

Acquire(p) ==
  /\ pc[p] = "lock" /\ lock = NoProc
  /\ lock' = p
  /\ Goto(p, "discover")
  /\ UNCHANGED <<files, mode, opt, todo, handle, starts, faults, facts, abandoned>>

\* Mutant: a blocked start raises without releasing the lock.
DiscoverLeaking(p) ==
  /\ pc[p] = "discover"
  /\ \/ Resolution = "active" /\ Goto(p, "verifyActive") /\ UNCHANGED mode
     \/ /\ Resolution = "fresh_required"
        /\ Goto(p, "initTables") /\ mode' = [mode EXCEPT ![p] = "fresh"]
     \/ /\ Resolution = "migration_required"
        /\ Goto(p, IF opt[p].interactive THEN "confirm" ELSE "validate")
        /\ mode' = [mode EXCEPT ![p] = "migrate"]
     \/ Resolution = "blocked" /\ Goto(p, "off") /\ UNCHANGED mode
  /\ UNCHANGED <<files, lock, opt, todo, handle, starts, faults, facts, abandoned>>

Discover(p) ==
  /\ pc[p] = "discover"
  /\ \/ Resolution = "active" /\ Goto(p, "verifyActive") /\ UNCHANGED <<lock, mode>>
     \/ /\ Resolution = "fresh_required"
        /\ Goto(p, "initTables") /\ mode' = [mode EXCEPT ![p] = "fresh"]
        /\ UNCHANGED lock
     \/ /\ Resolution = "migration_required"
        /\ Goto(p, IF opt[p].interactive THEN "confirm" ELSE "validate")
        /\ mode' = [mode EXCEPT ![p] = "migrate"]
        /\ UNCHANGED lock
     \/ Resolution = "blocked" /\ Leave(p, "off") /\ UNCHANGED mode
  /\ UNCHANGED <<files, opt, todo, handle, starts, faults, facts, abandoned>>

\* The prompt is answered while the lock is held; end of input declines.
Confirm(p) ==
  /\ pc[p] = "confirm"
  /\ \/ Goto(p, "validate") /\ UNCHANGED lock
     \/ Leave(p, "off")
  /\ UNCHANGED <<files, mode, opt, todo, handle, starts, faults, facts, abandoned>>

VerifyActive(p) ==
  /\ pc[p] \in {"verifyActive", "verifyFresh"}
  /\ Resolution = "active"
  /\ Leave(p, "open")
  /\ UNCHANGED <<files, mode, opt, todo, handle, starts, faults, facts, abandoned>>

-----------------------------------------------------------------------------
(* initialise_v4_cache: the schema, then one commit of both markers *)

InitTables(p) ==
  /\ pc[p] = "initTables"
  /\ \/ v4 = "absent" /\ v4' = "tables" /\ Goto(p, "initMark") /\ UNCHANGED lock
     \/ /\ v4 # "absent" /\ UNCHANGED v4      \* destination already exists
        /\ IF mode[p] = "migrate" THEN Goto(p, "cleanup") /\ UNCHANGED lock
                                  ELSE Leave(p, "off")
  /\ UNCHANGED <<v3, v3rec, v4rec, mode, opt, todo, handle, starts, faults,
                 facts, abandoned>>

InitMark(p) ==
  /\ pc[p] = "initMark" /\ v4 = "tables"
  /\ v4' = "complete"
  /\ Goto(p, IF mode[p] = "migrate" THEN "stamp" ELSE "verifyFresh")
  /\ UNCHANGED <<v3, v3rec, v4rec, lock, mode, opt, todo, handle, starts,
                 faults, facts, abandoned>>

\* initialise_v4_cache removes its own target before it re-raises.
AbortInit(p) ==
  /\ UnlinkV4
  /\ IF mode[p] = "migrate" THEN Goto(p, "cleanup") /\ UNCHANGED lock
                            ELSE Leave(p, "off")

\* A version row somebody else inserted makes the marker INSERT fail.
InitMarkClash(p) ==
  /\ pc[p] = "initMark" /\ v4 # "tables"
  /\ AbortInit(p)
  /\ UNCHANGED <<v3, v3rec, mode, opt, todo, starts, faults, facts, abandoned>>

-----------------------------------------------------------------------------
(* The migration workflow, one stage after the other *)

Validate(p) ==
  /\ pc[p] = "validate" /\ ValidV3
  /\ Goto(p, "initTables")
  /\ UNCHANGED <<files, lock, mode, opt, todo, handle, starts, faults, facts, abandoned>>

\* Mutant: the destination is never marked incomplete.
StampMissing(p) ==
  /\ pc[p] = "stamp"
  /\ Goto(p, "sources")
  /\ UNCHANGED <<files, lock, mode, opt, todo, handle, starts, faults, facts, abandoned>>

Stamp(p) ==
  /\ pc[p] = "stamp"
  /\ v4' = "building"
  /\ Goto(p, "sources")
  /\ UNCHANGED <<v3, v3rec, v4rec, lock, mode, opt, todo, handle, starts,
                 faults, facts, abandoned>>

\* One transaction; a row somebody else inserted breaks it.
PopulateSources(p) ==
  /\ pc[p] = "sources"
  /\ LET rows == v3rec \cap SourceFact IN
     \/ /\ rows \cap v4rec = {}
        /\ v4rec' = v4rec \cup rows /\ Goto(p, "openRows")
     \/ /\ rows \cap v4rec # {}
        /\ UNCHANGED v4rec /\ Goto(p, "cleanup")
  /\ UNCHANGED <<v3, v3rec, v4, lock, mode, opt, todo, handle, starts, faults,
                 facts, abandoned>>

\* The read cursor fixes the rows that will be migrated.
OpenRows(p) ==
  /\ pc[p] = "openRows"
  /\ todo' = [todo EXCEPT ![p] = v3rec \cap MediaFact]
  /\ Goto(p, IF v3rec \cap MediaFact = {} THEN "certify" ELSE "rows")
  /\ UNCHANGED <<files, lock, mode, opt, handle, starts, faults, facts, abandoned>>

PopulateBatch(p) ==
  /\ pc[p] = "rows"
  /\ \E batch \in SUBSET todo[p] :
       /\ batch # {} /\ Cardinality(batch) <= BatchSize
       /\ \/ /\ batch \cap v4rec = {}
             /\ v4rec' = v4rec \cup batch
             /\ todo' = [todo EXCEPT ![p] = @ \ batch]
             /\ Goto(p, IF todo[p] = batch THEN "certify" ELSE "rows")
          \/ /\ batch \cap v4rec # {}   \* an attempt older than the stored one
             /\ UNCHANGED <<v4rec, todo>> /\ Goto(p, "cleanup")
  /\ UNCHANGED <<v3, v3rec, v4, lock, mode, opt, handle, starts, faults, facts,
                 abandoned>>

Certified == v4 = "building" /\ v4rec = v3rec

\* Mutant: certification alone cuts over, the source goes first.
CertifyEager(p) ==
  /\ pc[p] = "certify"
  /\ Goto(p, IF Certified THEN "unlinkSource" ELSE "cleanup")
  /\ UNCHANGED <<files, lock, mode, opt, todo, handle, starts, faults, facts, abandoned>>

Certify(p) ==
  /\ pc[p] = "certify"
  /\ Goto(p, IF Certified THEN "finalise" ELSE "cleanup")
  /\ UNCHANGED <<files, lock, mode, opt, todo, handle, starts, faults, facts, abandoned>>

Finalise(p) ==
  /\ pc[p] = "finalise"
  /\ v4' = "complete"
  /\ Goto(p, "verify")
  /\ UNCHANGED <<v3, v3rec, v4rec, lock, mode, opt, todo, handle, starts,
                 faults, facts, abandoned>>

Verify(p) ==
  /\ pc[p] = "verify" /\ Resolution = "active"
  /\ IF opt[p].keepOld THEN Leave(p, "open")
                       ELSE Goto(p, "unlinkSource") /\ UNCHANGED lock
  /\ UNCHANGED <<files, mode, opt, todo, handle, starts, faults, facts, abandoned>>

UnlinkSource(p) ==
  /\ pc[p] = "unlinkSource"
  /\ v3' = "absent" /\ v3rec' = {} /\ Stale("v3")
  /\ Leave(p, "open")
  /\ UNCHANGED <<v4, v4rec, mode, opt, todo, starts, faults, facts, abandoned>>

\* Mutant: both files are removed in one finally block.
CleanupBoth(p) ==
  /\ pc[p] = "cleanup"
  /\ Leave(p, "off")
  /\ UnlinkV4 /\ v3' = "absent" /\ v3rec' = {}
  /\ UNCHANGED <<mode, opt, todo, starts, faults, facts, abandoned>>

\* Mutant: the handler catches Exception only and Ctrl+C keeps the file.
CleanupSkipped(p) ==
  /\ pc[p] = "cleanup"
  /\ Leave(p, "off")
  /\ UNCHANGED <<files, handle, mode, opt, todo, starts, faults, facts, abandoned>>

\* The handler of execute_cache_startup around the whole transition.
Cleanup(p) ==
  /\ pc[p] = "cleanup"
  /\ Leave(p, "off")
  /\ IF opt[p].keepFailed
       THEN /\ abandoned' = (abandoned \/ v4 # "absent")
            /\ UNCHANGED <<v4, v4rec, handle>>
       ELSE UnlinkV4 /\ UNCHANGED abandoned
  /\ UNCHANGED <<v3, v3rec, mode, opt, todo, starts, faults, facts>>

-----------------------------------------------------------------------------
(* Exceptions (disk full, Ctrl+C, a failing check) and kills *)

\* The destination carries the complete marker before it carries the facts.
InStampWindow(p) ==
  /\ pc[p] \in {"stamp", "cleanup"}
  /\ v4 = "complete" /\ ~(v3rec \subseteq v4rec)

Fault(p) ==
  /\ faults < MaxFaults
  /\ faults' = faults + 1
  /\ InStampWindow(p) /\ opt[p].keepFailed => StampWindow
  /\ \/ /\ pc[p] \in Migrating \ {"cleanup", "unlinkSource"}
        /\ Goto(p, "cleanup") /\ UNCHANGED <<v4, v4rec, lock, handle>>
     \/ /\ pc[p] = "initTables" /\ mode[p] = "migrate"
        /\ Goto(p, "cleanup") /\ UNCHANGED <<v4, v4rec, lock, handle>>
     \/ pc[p] = "initMark" /\ AbortInit(p)
     \/ /\ pc[p] \in {"discover", "confirm", "verifyActive", "verifyFresh",
                      "unlinkSource"}
        /\ Leave(p, "off") /\ UNCHANGED <<v4, v4rec, handle>>
  /\ UNCHANGED <<v3, v3rec, mode, opt, todo, starts, facts, abandoned>>

\* The kernel drops the flock and SQLite drops the open transaction.
Kill(p) ==
  /\ faults < MaxFaults /\ pc[p] # "off"
  /\ InStampWindow(p) => StampWindow
  /\ faults' = faults + 1
  /\ Goto(p, "off")
  /\ lock' = IF lock = p THEN NoProc ELSE lock
  /\ handle' = [handle EXCEPT ![p] = "none"]
  /\ abandoned' = (abandoned \/ (/\ pc[p] \in Migrating \cup {"initMark"}
                                 /\ v4 # "absent"))
  /\ UNCHANGED <<files, mode, opt, todo, starts, facts>>

-----------------------------------------------------------------------------
(* MetadataCache.open and ordinary work *)

\* A schema other than 4 is taken for a v3 database and its tables are made.
OpenV4(x) ==
  /\ v4' = IF v4 = "complete" THEN v4 ELSE "foreign"
  /\ handle' = [handle EXCEPT ![x] = "v4"]

Open(p) ==
  /\ pc[p] = "open"
  /\ OpenV4(p)
  /\ Goto(p, "work")
  /\ UNCHANGED <<v3, v3rec, v4rec, lock, mode, opt, todo, starts, faults, facts,
                 abandoned>>

Put(p, f) ==
  /\ pc[p] = "work" /\ f \notin facts
  /\ v4rec' = IF handle[p] = "v4" THEN v4rec \cup {f} ELSE v4rec
  /\ facts' = facts \cup {f}
  /\ UNCHANGED <<v3, v3rec, v4, lock, pc, mode, opt, todo, handle, starts,
                 faults, abandoned>>

Close(p) ==
  /\ pc[p] = "work"
  /\ Goto(p, "off")
  /\ handle' = [handle EXCEPT ![p] = "none"]
  /\ UNCHANGED <<files, lock, mode, opt, todo, starts, faults, facts, abandoned>>

ExplicitOpen(e) ==
  /\ handle[e] = "none"
  /\ \/ OpenV4(e) /\ UNCHANGED <<v3, v3rec, v4rec>>
     \/ /\ v3 # "broken" /\ v3' = "valid"
        /\ handle' = [handle EXCEPT ![e] = "v3"]
        /\ UNCHANGED <<v3rec, v4, v4rec>>
  /\ UNCHANGED <<lock, pc, mode, opt, todo, starts, faults, facts, abandoned>>

ExplicitPut(e, f) ==
  /\ \/ /\ handle[e] = "v4" /\ f \notin v4rec
        /\ v4rec' = v4rec \cup {f} /\ UNCHANGED v3rec
     \/ /\ handle[e] = "v3" /\ f \notin v3rec
        /\ v3rec' = v3rec \cup {f} /\ UNCHANGED v4rec
  /\ UNCHANGED <<v3, v4, lock, pc, mode, opt, todo, handle, starts, faults,
                 facts, abandoned>>

ExplicitClose(e) ==
  /\ handle[e] # "none"
  /\ handle' = [handle EXCEPT ![e] = "none"]
  /\ UNCHANGED <<files, lock, pc, mode, opt, todo, starts, faults, facts, abandoned>>

-----------------------------------------------------------------------------
Stage(p) ==
  \/ Acquire(p) \/ Discover(p) \/ Confirm(p) \/ VerifyActive(p)
  \/ InitTables(p) \/ InitMark(p) \/ InitMarkClash(p)
  \/ Validate(p) \/ Stamp(p) \/ PopulateSources(p) \/ OpenRows(p)
  \/ PopulateBatch(p) \/ Certify(p) \/ Finalise(p) \/ Verify(p)
  \/ UnlinkSource(p) \/ Cleanup(p) \/ Open(p)

Finished ==
  /\ \A p \in Proc : pc[p] = "off" /\ starts[p] = MaxStarts
  /\ \A e \in Explicit : handle[e] = "none"
  /\ UNCHANGED vars

Next ==
  \/ \E p \in Proc : \/ Start(p) \/ Stage(p) \/ Fault(p) \/ Kill(p) \/ Close(p)
                     \/ \E f \in Fact : Put(p, f)
  \/ \E e \in Explicit : \/ ExplicitOpen(e) \/ ExplicitClose(e)
                         \/ \E f \in Fact : ExplicitPut(e, f)
  \/ Finished

Spec == Init /\ [][Next]_vars

\* A started process keeps running, and a person at the prompt answers.
FairSpec == Spec /\ \A p \in Proc : WF_vars(Stage(p))

-----------------------------------------------------------------------------
(* Properties *)

Exposed == lock = NoProc

\* Whatever v3 held and managed work added survives every fault and race:
\* it is in an intact v3, or all of it is in a complete v4
\* (execute_cache_startup, cut-over and cleanup).
NoFactLost ==
  \/ facts \subseteq v3rec
  \/ v4 = "complete" /\ facts \subseteq v4rec

\* A cache that the next process would take as active holds everything: an
\* unfinished destination is never treated as a usable v4 cache.
ActiveHoldsEverything ==
  Exposed /\ Resolution = "active" => facts \subseteq v4rec

\* A handled failure leaves a directory that starts again; only a kill, a
\* deliberately kept destination or a bad v3 can block.
BlockedOnlyByDebris ==
  Exposed /\ Resolution = "blocked" => abandoned \/ v3 = "broken"

\* No managed process works on a file that another one's failed migration
\* or cut-over removed, or on an unfinished destination.
WorkersKeepTheirFile ==
  \A p \in Proc : pc[p] = "work" => handle[p] = "v4" /\ v4 = "complete"

\* The v3 file disappears only when a complete v4 holds all of it.
SourceRetiredAfterCutover ==
  [][v3 # "absent" /\ v3' = "absent" => v4 = "complete" /\ v3rec \subseteq v4rec]_vars

\* A started process leaves startup: it works, or it has stopped.
StartupEnds == \A p \in Proc : pc[p] = "lock" ~> pc[p] \in {"work", "off"}

-----------------------------------------------------------------------------
(* Refinement: the new cache counts once no migration holds it any more *)

UnderConstruction ==
  \E p \in Proc : /\ lock = p /\ mode[p] = "migrate"
                  /\ pc[p] \in (Migrating \ {"unlinkSource"}) \cup {"initTables", "initMark"}

Authority ==
  IF v4 = "complete" /\ ~UnderConstruction THEN "new"
  ELSE IF v3 # "absent" THEN "old" ELSE "none"

Handover == INSTANCE CacheHandover WITH
  authority <- Authority,
  held <- IF Authority = "new" THEN v4rec ELSE v3rec

HandoverSpec == Handover!Spec
=============================================================================
