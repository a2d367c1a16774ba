------------------------------ MODULE EntityStore ------------------------------
(***************************************************************************)
(* The rows of a v4 cache and the connections that share the file: put_many*)
(* writes one detailed record as four commits (entity, metadata,           *)
(* acquisition state, collections), a source listing writes its entities,  *)
(* its ordering, its frontier and its observation as separate commits, and *)
(* retention and pruning remove rows and collect released entities.        *)
(*                                                                         *)
(* A metadata or collections row is the video it describes and the         *)
(* acquisition time of its oldest value.  One action is one statement or   *)
(* one transaction, up to the next commit.  A source is named by its URL;  *)
(* entities keep their SQLite rowid, which is one more than the largest in *)
(* use.  No code under src/ calls the pruning, retention and failure       *)
(* operations yet: they are modelled as the library API they are.          *)
(***************************************************************************)
EXTENDS Naturals

CONSTANTS
  Writer,          \* connections that run put_many and the source recorders
  Video, Source,
  NoVideo, NoRow, NoTime,
  MaxId,           \* bound: largest rowid handed out
  MaxTime,         \* bound: the clock
  MaxJobs,         \* bound: jobs the writers begin in a behaviour
  MaxAge,          \* provider_max_age and source_max_age
  Exclusive,       \* TRUE: maintenance runs only while no writer is at work
  Overlap,         \* TRUE: two jobs may acquire the same video
  OddValues        \* TRUE: a record may have a list or an object for a scalar field

ASSUME SeparateAssumption ==
  /\ NoVideo \notin Video
  /\ NoTime \notin Nat
ASSUME StoreBoundAssumption ==
  /\ MaxId \in Nat \ {0}
  /\ MaxTime \in Nat
  /\ MaxJobs \in Nat
  /\ MaxAge \in Nat
  /\ Exclusive \in BOOLEAN
  /\ Overlap \in BOOLEAN
  /\ OddValues \in BOOLEAN

Id == 1..MaxId
NoId == 0
Time == 0..MaxTime
Row == [video : Video, at : Time]
Attempt == [outcome : {"success", "failed"}, attempt : Time, success : Time \cup {NoTime}]
ASSUME NoRowAssumption == NoRow \notin Row \cup Attempt \cup Source

VARIABLES
  entity,          \* cache_v4_media_entities: rowid -> video
  meta, coll,      \* cache_v4_ytdlp_metadata, cache_v4_ytdlp_collections
  acq,             \* cache_v4_acquisition_state, group detailed
  entries,         \* cache_v4_source_entries, without their order
  head,            \* cache_v4_source_frontiers: the head entity
  observed,        \* cache_v4_source_observations; NoTime: no such row
  known,           \* cache_v4_sources
  now,
  job,             \* per writer: what it is doing
  jobs,            \* jobs begun so far
  kpc, plan,       \* maintenance: next step, selected entities and sources
  released         \* entities it still has to look at

rows == <<entity, meta, coll, acq>>
sources == <<entries, head, observed, known>>
keeper == <<kpc, plan, released>>
vars == <<rows, sources, now, job, jobs, keeper>>

Step == {"idle", "entity", "meta", "check", "state", "coll",
         "resolve", "replace", "head", "frontier", "source", "observe"}

(***************************************************************************)
(* A job: its next statement, its kind, the videos left of its batch, the  *)
(* video at hand, the rowid it got for it, the rowids of its listing, its  *)
(* timestamp and its source.                                               *)
(***************************************************************************)
Job == [pc : Step, kind : {"put", "fail", "list"}, queue : SUBSET Video,
        item : Video \cup {NoVideo}, ent : Id \cup {NoId}, ids : SUBSET Id,
        at : Time, source : Source \cup {NoRow}]
NoJob == [pc |-> "idle", kind |-> "put", queue |-> {}, item |-> NoVideo,
          ent |-> NoId, ids |-> {}, at |-> 0, source |-> NoRow]
Plan == [entities : SUBSET Id, sources : SUBSET Source]
NoPlan == [entities |-> {}, sources |-> {}]

TypeOK ==
  /\ entity \in [Id -> Video \cup {NoVideo}]
  /\ meta \in [Id -> Row \cup {NoRow}] /\ coll \in [Id -> Row \cup {NoRow}]
  /\ acq \in [Id -> Attempt \cup {NoRow}]
  /\ entries \in [Source -> SUBSET Id] /\ head \in [Source -> Id \cup {NoId}]
  /\ observed \in [Source -> Time \cup {NoTime}] /\ known \subseteq Source
  /\ now \in Time
  /\ job \in [Writer -> Job] /\ jobs \in 0..MaxJobs
  /\ kpc \in {"idle", "planned", "prune", "provider", "source", "delete"}
  /\ plan \in Plan /\ released \subseteq Id

Init ==
  /\ entity = [i \in Id |-> NoVideo]
  /\ meta = [i \in Id |-> NoRow] /\ coll = [i \in Id |-> NoRow]
  /\ acq = [i \in Id |-> NoRow]
  /\ entries = [s \in Source |-> {}] /\ head = [s \in Source |-> NoId]
  /\ observed = [s \in Source |-> NoTime] /\ known = {}
  /\ now = 0
  /\ job = [w \in Writer |-> NoJob] /\ jobs = 0
  /\ kpc = "idle" /\ plan = NoPlan /\ released = {}

Exists(i) == i \in Id /\ entity[i] # NoVideo
SourceRefers(i) == \E s \in Source : i \in entries[s] \/ i = head[s]

(***************************************************************************)
(* INSERT ... ON CONFLICT DO NOTHING, then SELECT, in one transaction: i is*)
(* the rowid of v afterwards.  A rowid is free again once every larger one *)
(* is gone.                                                                *)
(***************************************************************************)
\* Mutant: lastrowid is trusted although the INSERT may have done nothing.
GetOrCreateLastRowid(v, i) ==
  \/ /\ \E j \in Id : entity[j] = v
     /\ entity[i] # NoVideo /\ \A j \in (i + 1)..MaxId : entity[j] = NoVideo
     /\ UNCHANGED entity
  \/ /\ \A j \in Id : entity[j] # v
     /\ \A j \in i..MaxId : entity[j] = NoVideo
     /\ i > 1 => entity[i - 1] # NoVideo
     /\ entity' = [entity EXCEPT ![i] = v]

GetOrCreate(v, i) ==
  \/ entity[i] = v /\ UNCHANGED entity
  \/ /\ \A j \in Id : entity[j] # v
     /\ \A j \in i..MaxId : entity[j] = NoVideo
     /\ i > 1 => entity[i - 1] # NoVideo
     /\ entity' = [entity EXCEPT ![i] = v]

-----------------------------------------------------------------------------
(* put_many on a v4 cache *)

At(w, l) == job[w].pc = l
Goto(w, l) == job' = [job EXCEPT ![w].pc = l]
Start(w, j) == job' = [job EXCEPT ![w] = j]

\* A foreign-key error, a ValueError or a kill drops what is left of the job.
Stop(w) == job' = [job EXCEPT ![w] = NoJob]

Claimed(w) == IF job[w].kind = "list" THEN {} ELSE job[w].queue \cup {job[w].item}

Begin(w, batch) ==
  /\ At(w, "idle") /\ jobs < MaxJobs
  /\ Exclusive => kpc = "idle"
  /\ ~Overlap => \A x \in Writer \ {w} : Claimed(x) \cap batch = {}
  /\ jobs' = jobs + 1

PutBegin(w, batch) ==
  /\ batch # {} /\ Begin(w, batch)
  /\ Start(w, [NoJob EXCEPT !.pc = "entity", !.queue = batch, !.at = now])
  /\ UNCHANGED <<rows, sources, now, keeper>>

PutEntity(w) ==
  /\ At(w, "entity")
  /\ \E v \in job[w].queue, i \in Id :
       /\ GetOrCreate(v, i)
       /\ Start(w, [job[w] EXCEPT !.pc = "meta", !.queue = @ \ {v}, !.item = v, !.ent = i])
  /\ UNCHANGED <<meta, coll, acq, sources, now, jobs, keeper>>

Upsert(table, w, t) ==
  [table EXCEPT ![job[w].ent] = [video |-> job[w].item, at |-> t]]

\* The time of the oldest value after write_provider_metadata: a column whose
\* value normalise_registered_metadata did not take keeps what it holds.
Oldest(w) ==
  LET old == meta[job[w].ent]
  IN {job[w].at} \cup {t \in Time : OddValues /\ old # NoRow /\ t = old.at /\ t < job[w].at}

PutMeta(w) ==
  /\ At(w, "meta")
  /\ IF Exists(job[w].ent)
       THEN Goto(w, "check") /\ \E t \in Oldest(w) : meta' = Upsert(meta, w, t)
       ELSE UNCHANGED meta /\ Stop(w)
  /\ UNCHANGED <<entity, coll, acq, sources, now, jobs, keeper>>

\* _existing_attempt_time, read before the write's transaction begins.
CheckAttempt(w) ==
  /\ At(w, "check")
  /\ IF acq[job[w].ent] # NoRow /\ job[w].at < acq[job[w].ent].attempt
       THEN Stop(w) ELSE Goto(w, "state")
  /\ UNCHANGED <<rows, sources, now, jobs, keeper>>

Earlier(i) == IF acq[i] = NoRow THEN NoTime ELSE acq[i].success

PutSuccess(w) ==
  /\ At(w, "state") /\ job[w].kind = "put"
  /\ IF Exists(job[w].ent)
       THEN /\ acq' = [acq EXCEPT ![job[w].ent] =
                 [outcome |-> "success", attempt |-> job[w].at, success |-> job[w].at]]
            /\ Goto(w, "coll")
       ELSE UNCHANGED acq /\ Stop(w)
  /\ UNCHANGED <<entity, meta, coll, sources, now, jobs, keeper>>

\* Mutant: the time of the attempt and that of the last success change places.
PutFailureSwapped(w) ==
  /\ At(w, "state") /\ job[w].kind = "fail"
  /\ acq' = IF Exists(job[w].ent)
              THEN [acq EXCEPT ![job[w].ent] =
                     [outcome |-> "failed", attempt |-> Earlier(job[w].ent),
                      success |-> job[w].at]]
              ELSE acq
  /\ Stop(w)
  /\ UNCHANGED <<entity, meta, coll, sources, now, jobs, keeper>>

\* The table refuses a failure older than the last success: another connection
\* may have recorded one since the attempt was checked.
PutFailure(w) ==
  /\ At(w, "state") /\ job[w].kind = "fail"
  /\ acq' = IF /\ Exists(job[w].ent)
               /\ Earlier(job[w].ent) # NoTime => Earlier(job[w].ent) <= job[w].at
              THEN [acq EXCEPT ![job[w].ent] =
                     [outcome |-> "failed", attempt |-> job[w].at,
                      success |-> Earlier(job[w].ent)]]
              ELSE acq
  /\ Stop(w)
  /\ UNCHANGED <<entity, meta, coll, sources, now, jobs, keeper>>

PutCollections(w) ==
  /\ At(w, "coll")
  /\ IF Exists(job[w].ent) THEN coll' = Upsert(coll, w, job[w].at) ELSE UNCHANGED coll
  /\ IF Exists(job[w].ent) /\ job[w].queue # {} THEN Goto(w, "entity") ELSE Stop(w)
  /\ UNCHANGED <<entity, meta, acq, sources, now, jobs, keeper>>

\* record_acquisition_failure on an entity the caller has looked up.
FailBegin(w, i) ==
  /\ Exists(i) /\ Begin(w, {entity[i]})
  /\ Start(w, [NoJob EXCEPT !.pc = "check", !.kind = "fail", !.item = entity[i],
                            !.ent = i, !.at = now])
  /\ UNCHANGED <<rows, sources, now, keeper>>

-----------------------------------------------------------------------------
(* A complete listing: record_source_entries, record_source_frontier and   *)
(* record_source_observation, each with commits of its own; an empty one   *)
(* takes entries and frontier away                                         *)

ListBegin(w, s, listing) ==
  /\ Begin(w, {})
  /\ known' = known \cup {s}
  /\ Start(w, [NoJob EXCEPT !.pc = IF listing = {} THEN "replace" ELSE "resolve", !.kind = "list",
                            !.queue = listing, !.at = now, !.source = s])
  /\ UNCHANGED <<rows, entries, head, observed, now, keeper>>

\* The first video of the listing is its newest, the head of the frontier.
ListResolve(w) ==
  /\ At(w, "resolve")
  /\ \E v \in job[w].queue, i \in Id :
       /\ GetOrCreate(v, i)
       /\ Start(w, [job[w] EXCEPT
            !.pc = IF job[w].queue = {v} THEN "replace" ELSE "resolve",
            !.queue = @ \ {v},
            !.item = IF job[w].ids = {} THEN v ELSE @,
            !.ids = @ \cup {i}])
  /\ UNCHANGED <<meta, coll, acq, sources, now, jobs, keeper>>

ListReplace(w) ==
  /\ At(w, "replace")
  /\ LET s == job[w].source IN
     IF (s \in known \/ job[w].ids = {}) /\ \A i \in job[w].ids : Exists(i)
       THEN entries' = [entries EXCEPT ![s] = job[w].ids] /\ Goto(w, "head")
       ELSE UNCHANGED entries /\ Stop(w)
  /\ UNCHANGED <<rows, head, observed, known, now, jobs, keeper>>

\* get_or_create_source, then get_or_create_entity of the newest video.
ListHead(w) ==
  /\ At(w, "head")
  /\ known' = known \cup {job[w].source}
  /\ \/ job[w].item = NoVideo /\ UNCHANGED entity /\ Goto(w, "frontier")
     \/ /\ job[w].item # NoVideo
        /\ \E i \in Id : /\ GetOrCreate(job[w].item, i)
                         /\ Start(w, [job[w] EXCEPT !.pc = "frontier", !.ent = i, !.ids = {}])
  /\ UNCHANGED <<meta, coll, acq, entries, head, observed, now, jobs, keeper>>

ListFrontier(w) ==
  /\ At(w, "frontier")
  /\ LET s == job[w].source IN
     IF job[w].item = NoVideo
       THEN head' = [head EXCEPT ![s] = NoId] /\ Goto(w, "source")
     ELSE IF s \in known /\ Exists(job[w].ent)
       THEN head' = [head EXCEPT ![s] = job[w].ent] /\ Goto(w, "source")
     ELSE UNCHANGED head /\ Stop(w)
  /\ UNCHANGED <<rows, entries, observed, known, now, jobs, keeper>>

ListSource(w) ==
  /\ At(w, "source")
  /\ known' = known \cup {job[w].source}
  /\ Goto(w, "observe")
  /\ UNCHANGED <<rows, entries, head, observed, now, jobs, keeper>>

ListObserve(w) ==
  /\ At(w, "observe")
  /\ observed' = IF job[w].source \in known
                   THEN [observed EXCEPT ![job[w].source] = job[w].at] ELSE observed
  /\ Stop(w)
  /\ UNCHANGED <<rows, entries, head, known, now, jobs, keeper>>

Kill(w) ==
  /\ ~At(w, "idle") /\ Stop(w)
  /\ UNCHANGED <<rows, sources, now, jobs, keeper>>

Tick ==
  /\ now < MaxTime /\ now' = now + 1
  /\ UNCHANGED <<rows, sources, job, jobs, keeper>>

-----------------------------------------------------------------------------
(* plan_cache_retention and execute_cache_maintenance *)

Rest == kpc' = "idle" /\ plan' = NoPlan /\ released' = {}
MaintenanceMayRun == Exclusive => \A w \in Writer : At(w, "idle")

\* Mutant: the boundary itself is already too old.
TooOldInclusive(t) == t # NoTime /\ t + MaxAge <= now

\* Strictly older than the window; what never succeeded is not selected.
TooOld(t) == t # NoTime /\ t + MaxAge < now

PlanRetention ==
  /\ kpc = "idle" /\ MaintenanceMayRun
  /\ LET selected == [entities |-> {i \in Id : meta[i] # NoRow /\ TooOld(Earlier(i))},
                      sources |-> {s \in known : TooOld(observed[s])}]
     IN /\ selected.entities # {} \/ selected.sources # {}
        /\ plan' = selected
  /\ kpc' = "planned"
  /\ UNCHANGED <<rows, sources, now, job, jobs, released>>

\* Deleting a source row cascades to everything that hangs on it.
DropSources(gone) ==
  /\ known' = known \ gone
  /\ entries' = [s \in Source |-> IF s \in gone THEN {} ELSE entries[s]]
  /\ head' = [s \in Source |-> IF s \in gone THEN NoId ELSE head[s]]
  /\ observed' = [s \in Source |-> IF s \in gone THEN NoTime ELSE observed[s]]

Referenced(gone) == (UNION {entries[s] \cup {head[s]} : s \in gone}) \ {NoId}

\* An entity row takes its acquisition, metadata and collections rows along.
DropRows(t, gone) == [i \in Id |-> IF i \in gone THEN NoRow ELSE t[i]]

\* Mutant: the acquisition history of a pruned contribution stays.
ExecuteRetentionKeepsState ==
  /\ kpc = "planned"
  /\ DropSources(plan.sources)
  /\ meta' = DropRows(meta, plan.entities) /\ coll' = DropRows(coll, plan.entities)
  /\ Rest
  /\ UNCHANGED <<entity, acq, now, job, jobs>>

\* One transaction over the whole plan; eligibility is not looked at again.
ExecuteRetention ==
  /\ kpc = "planned"
  /\ DropSources(plan.sources)
  /\ LET stripped == plan.entities
         affected == {i \in stripped : meta[i] # NoRow \/ acq[i] # NoRow}
                     \cup Referenced(plan.sources)
         collected == {i \in affected :
                         /\ i \in stripped \/ (meta[i] = NoRow /\ acq[i] = NoRow)
                         /\ \A s \in Source : i \notin entries'[s] /\ i # head'[s]}
     IN /\ entity' = [i \in Id |-> IF i \in collected THEN NoVideo ELSE entity[i]]
        /\ meta' = DropRows(meta, stripped) /\ acq' = DropRows(acq, stripped)
        /\ coll' = DropRows(coll, stripped \cup collected)
  /\ Rest
  /\ UNCHANGED <<now, job, jobs>>

-----------------------------------------------------------------------------
(* prune_source_state and collect_entity_if_unreferenced: the SELECTs run  *)
(* outside any transaction *)

PruneRead(s) ==
  /\ kpc = "idle" /\ MaintenanceMayRun /\ s \in known
  /\ released' = Referenced({s})
  /\ plan' = [entities |-> {}, sources |-> {s}]
  /\ kpc' = "prune"
  /\ UNCHANGED <<rows, sources, now, job, jobs>>

NextReleased == CHOOSE i \in released : \A j \in released : i <= j
CollectNext(left) ==
  IF left = {} THEN Rest
  ELSE kpc' = "provider" /\ released' = left /\ UNCHANGED plan

PruneSource ==
  /\ kpc = "prune"
  /\ DropSources(plan.sources)
  /\ CollectNext(released)
  /\ UNCHANGED <<rows, now, job, jobs>>

KeepOrLook(kept, next) ==
  IF kept THEN CollectNext(released \ {NextReleased})
          ELSE kpc' = next /\ UNCHANGED <<plan, released>>

\* Mutant: the provider state of the entity is not consulted.
CollectCheckProviderSkipped ==
  /\ kpc = "provider"
  /\ KeepOrLook(FALSE, "source")
  /\ UNCHANGED <<rows, sources, now, job, jobs>>

CollectCheckProvider ==
  /\ kpc = "provider"
  /\ KeepOrLook(acq[NextReleased] # NoRow \/ meta[NextReleased] # NoRow, "source")
  /\ UNCHANGED <<rows, sources, now, job, jobs>>

CollectCheckSource ==
  /\ kpc = "source"
  /\ KeepOrLook(SourceRefers(NextReleased), "delete")
  /\ UNCHANGED <<rows, sources, now, job, jobs>>

\* ON DELETE RESTRICT stops the deletion of a listed entity, and the prune.
CollectDelete ==
  /\ kpc = "delete"
  /\ IF SourceRefers(NextReleased)
       THEN Rest /\ UNCHANGED rows
       ELSE /\ entity' = [entity EXCEPT ![NextReleased] = NoVideo]
            /\ meta' = DropRows(meta, {NextReleased})
            /\ acq' = DropRows(acq, {NextReleased})
            /\ coll' = DropRows(coll, {NextReleased})
            /\ CollectNext(released \ {NextReleased})
  /\ UNCHANGED <<sources, now, job, jobs>>

KillKeeper ==
  /\ kpc # "idle" /\ Rest
  /\ UNCHANGED <<rows, sources, now, job, jobs>>

-----------------------------------------------------------------------------
(* What a reader makes of one snapshot of the rows *)

\* The policy of a field, its own or the override, is MAX_AGE here: a value is
\* good up to its window and including it.
Stale(t) == now > t + MaxAge

\* field_observation of a field of group detailed: its SELECTs in their order,
\* ValueError for an unknown entity and RegistryContractError for a success
\* without its metadata row.
Observation(i) ==
  CASE ~Exists(i) -> "unknown_entity"
    [] Exists(i) /\ acq[i] = NoRow -> "not_acquired"
    [] Exists(i) /\ acq[i] # NoRow /\ Earlier(i) = NoTime -> "failed_acquisition"
    [] Exists(i) /\ Earlier(i) # NoTime /\ meta[i] = NoRow -> "contract_error"
    [] Exists(i) /\ Earlier(i) # NoTime /\ meta[i] # NoRow ->
         IF Stale(Earlier(i)) THEN "stale" ELSE "value"

\* The records a lookup by video finds, each with the time of its last success;
\* the metadata and collections rows are outer-joined.
CachedItem(v) ==
  {[fetched |-> Earlier(i), values |-> meta[i], lists |-> coll[i]] :
     i \in {j \in Id : entity[j] = v /\ Earlier(j) # NoTime}}

\* The entries of a listing source_entry_ids names, those source_records has a
\* record for, looked up by name, and those count_source_records counts by rowid.
Named(s) == {i \in entries[s] : Exists(i)}
Recorded(s) == {i \in Named(s) : CachedItem(entity[i]) # {}}
Counted(s) == {i \in entries[s] : Earlier(i) # NoTime}

-----------------------------------------------------------------------------
Advance(w) ==
  \/ PutEntity(w) \/ PutMeta(w) \/ CheckAttempt(w) \/ PutSuccess(w)
  \/ PutFailure(w) \/ PutCollections(w)
  \/ ListResolve(w) \/ ListReplace(w) \/ ListHead(w) \/ ListFrontier(w)
  \/ ListSource(w) \/ ListObserve(w)

WriterStep(w) ==
  \/ \E batch \in SUBSET Video : PutBegin(w, batch)
  \/ \E i \in Id : FailBegin(w, i)
  \/ \E s \in Source, listing \in SUBSET Video : ListBegin(w, s, listing)
  \/ Advance(w) \/ Kill(w)

KeeperStep ==
  \/ PlanRetention \/ ExecuteRetention
  \/ \E s \in Source : PruneRead(s)
  \/ PruneSource \/ CollectCheckProvider \/ CollectCheckSource
  \/ CollectDelete \/ KillKeeper

\* The bounds are used up and nobody is at work.
Finished ==
  /\ jobs = MaxJobs /\ now = MaxTime /\ kpc = "idle"
  /\ \A w \in Writer : At(w, "idle")
  /\ UNCHANGED vars

Next == Finished \/ Tick \/ KeeperStep \/ \E w \in Writer : WriterStep(w)

Spec == Init /\ [][Next]_vars

\* A job that has begun goes on from statement to statement.
FairSpec == Spec /\ \A w \in Writer : WF_vars(Advance(w))

-----------------------------------------------------------------------------
(* Properties *)

\* A metadata or collections row describes the video its entity stands for:
\* a rowid that was handed out again never attaches one video's values to
\* another (get_or_create_entity, write_provider_metadata).
IdentityKept ==
  \A i \in Id : /\ meta[i] # NoRow => meta[i].video = entity[i]
                /\ coll[i] # NoRow => coll[i].video = entity[i]

\* An acquisition group that once succeeded has its metadata row; readers
\* raise RegistryContractError otherwise (field_observation).
SuccessHasMetadata ==
  \A i \in Id : Earlier(i) # NoTime => meta[i] # NoRow

\* The age of stored values comes from last_success_at, so that time is never
\* later than the acquisition the values come from (_v4_cached_item).
FreshnessHonest ==
  \A i \in Id : Earlier(i) # NoTime /\ meta[i] # NoRow => Earlier(i) <= meta[i].at

\* Metadata leaves the cache only when its last success is strictly older
\* than the window, or with an entity nothing refers to (retention, prune).
YoungMetadataStays ==
  [][\A i \in Id : meta[i] # NoRow /\ meta'[i] = NoRow =>
       Earlier(i) # NoTime /\ Earlier(i) + MaxAge < now]_vars

\* An entity is collected only after provider and source state release it.
CollectOnlyReleased ==
  [][\A i \in Id : entity[i] # NoVideo /\ entity'[i] = NoVideo =>
       /\ meta[i] # NoRow \/ acq[i] # NoRow => kpc = "planned" /\ i \in plan.entities
       /\ \A s \in Source : i \in entries[s] \cup {head[s]} => s \in plan.sources]_vars
=============================================================================
