---------------------------- MODULE CollectionSchema ----------------------------
(***************************************************************************)
(* CollectionState.connect: every process that touches the continuation    *)
(* database first looks at its version and tables, and creates or upgrades *)
(* them.  Python's sqlite3 opens no transaction for CREATE TABLE or PRAGMA,*)
(* so each statement is a commit of its own, `with connection` or not.     *)
(* Collections have locks of their own, so processes connect concurrently. *)
(***************************************************************************)
EXTENDS Naturals

CONSTANTS
  Proc,            \* invocations and callbacks that connect
  MaxConnects,     \* bound: connections begun
  MaxLosses        \* bound: processes killed or failed (disk full) on the way

ASSUME SchemaBoundAssumption == MaxConnects \in Nat /\ MaxLosses \in Nat

Table == {"completed_targets", "collection_observations"}

VARIABLES
  version,         \* PRAGMA user_version
  tables,
  at, seen,        \* per process: next statement, the version it read
  connects, losses

layout == <<version, tables, at, seen, connects, losses>>

LayoutTypeOK ==
  /\ version \in 0..2 /\ tables \subseteq Table
  /\ at \in [Proc -> {"off", "version", "tables", "completed", "observations",
                      "stamp", "use"}]
  /\ seen \in [Proc -> 0..2]
  /\ connects \in 0..MaxConnects /\ losses \in 0..MaxLosses

\* What connect accepts: nothing yet, the v1 layout, the current layout.
Accepted(v, t) ==
  \/ v = 0 /\ t = {}
  \/ v = 1 /\ t = {"completed_targets"}
  \/ v = 2 /\ t = Table

LayoutInit ==
  /\ version \in 0..2 /\ tables \in SUBSET Table /\ Accepted(version, tables)
  /\ at = [p \in Proc |-> "off"] /\ seen = [p \in Proc |-> 0]
  /\ connects = 0 /\ losses = 0

Proceed(p, l) == at' = [at EXCEPT ![p] = l]

Connect(p) ==
  /\ at[p] = "off" /\ connects < MaxConnects /\ connects' = connects + 1
  /\ Proceed(p, "version")
  /\ UNCHANGED <<version, tables, seen, losses>>

ReadVersion(p) ==
  /\ at[p] = "version"
  /\ seen' = [seen EXCEPT ![p] = version]
  /\ Proceed(p, "tables")
  /\ UNCHANGED <<version, tables, connects, losses>>

\* Version and tables are two reads; any other pair raises.
ReadTables(p) ==
  /\ at[p] = "tables"
  /\ Proceed(p, IF ~Accepted(seen[p], tables) THEN "off"
                ELSE IF seen[p] = 0 THEN "completed"
                ELSE IF seen[p] = 1 THEN "observations" ELSE "use")
  /\ UNCHANGED <<version, tables, seen, connects, losses>>

\* CREATE TABLE raises when somebody else was faster.
Create(p, table, next) ==
  IF table \in tables THEN Proceed(p, "off") /\ UNCHANGED tables
                      ELSE Proceed(p, next) /\ tables' = tables \cup {table}

CreateCompleted(p) ==
  /\ at[p] = "completed"
  /\ Create(p, "completed_targets", "observations")
  /\ UNCHANGED <<version, seen, connects, losses>>

\* Mutant: IF NOT EXISTS lets two creators go on side by side.
CreateObservationsIfMissing(p) ==
  /\ at[p] = "observations"
  /\ tables' = tables \cup {"collection_observations"}
  /\ Proceed(p, IF seen[p] = 1 THEN "use" ELSE "stamp")
  /\ UNCHANGED <<version, seen, connects, losses>>

CreateObservations(p) ==
  /\ at[p] = "observations"
  /\ Create(p, "collection_observations", "stamp")
  /\ UNCHANGED <<version, seen, connects, losses>>

\* Mutants: one version is added to what was read, two to what is there.
StampStale(p) ==
  /\ at[p] = "stamp" /\ version' = seen[p] + 1 /\ Proceed(p, "use")
  /\ UNCHANGED <<tables, seen, connects, losses>>

StampBumped(p) ==
  /\ at[p] = "stamp" /\ version' = version + 2 /\ Proceed(p, "use")
  /\ UNCHANGED <<tables, seen, connects, losses>>

Stamp(p) ==
  /\ at[p] = "stamp" /\ version' = 2 /\ Proceed(p, "use")
  /\ UNCHANGED <<tables, seen, connects, losses>>

Close(p) ==
  /\ at[p] = "use" /\ Proceed(p, "off")
  /\ UNCHANGED <<version, tables, seen, connects, losses>>

\* A kill, or an sqlite3.Error of the next statement: what was committed stays.
Die(p) ==
  /\ at[p] # "off" /\ losses < MaxLosses /\ losses' = losses + 1
  /\ Proceed(p, "off")
  /\ UNCHANGED <<version, tables, seen, connects>>

AllClosed ==
  /\ connects = MaxConnects /\ \A p \in Proc : at[p] = "off"
  /\ UNCHANGED layout

LayoutNext ==
  \/ \E p \in Proc : \/ Connect(p) \/ ReadVersion(p) \/ ReadTables(p)
                     \/ CreateCompleted(p) \/ CreateObservations(p)
                     \/ Stamp(p) \/ Close(p) \/ Die(p)
  \/ AllClosed

LayoutSpec == LayoutInit /\ [][LayoutNext]_layout

-----------------------------------------------------------------------------
(* Properties *)

\* Whoever got a connection works on the complete current layout.
UsersSeeCurrent ==
  \A p \in Proc : at[p] = "use" => version = 2 /\ tables = Table

\* When nobody is inside connect, the next process is accepted: creation and
\* upgrade are one transaction.
RestsAccepted ==
  (\A p \in Proc : at[p] \in {"off", "use"}) => Accepted(version, tables)

\* That is so however many first connections and upgrades race, until one
\* of them dies between two statements.
RestsAcceptedUnlessTorn == losses = 0 => RestsAccepted
=============================================================================
