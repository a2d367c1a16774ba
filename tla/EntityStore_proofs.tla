--------------------------- MODULE EntityStore_proofs ---------------------------
(***************************************************************************)
(* While maintenance runs only when no writer is at work, the rows of the  *)
(* v4 cache keep their meaning: for every number of writers, videos and    *)
(* sources, overlapping writers and kills included.                        *)
(***************************************************************************)
EXTENDS EntityStore, TLAPS

\* Maintenance and writers are never at work together.
Alone == kpc # "idle" => \A w \in Writer : job[w].pc = "idle"

Later == {"replace", "head", "frontier", "source", "observe"}

\* What a job has in hand is what the tables say.
InHand(w) ==
  /\ job[w].pc \in {"meta", "check", "state", "coll"} =>
       job[w].ent \in Id /\ job[w].item \in Video /\ entity[job[w].ent] = job[w].item
  /\ job[w].pc \in {"check", "state", "coll"} /\ job[w].kind = "put" =>
       meta[job[w].ent] # NoRow
  /\ job[w].pc \in Later \cup {"resolve"} => job[w].source \in Source

JobInv == \A w \in Writer : InHand(w)

\* What maintenance has found out is still true.
KeeperInv ==
  /\ kpc \in {"prune", "provider", "source", "delete"} => plan.entities = {}
  /\ kpc = "planned" => \A i \in plan.entities : TooOld(Earlier(i))
  /\ kpc \in {"source", "delete"} => \A i \in Id : i = NextReleased =>
       meta[i] = NoRow /\ acq[i] = NoRow

IInv == TypeOK /\ Alone /\ JobInv /\ IdentityKept /\ SuccessHasMetadata /\ KeeperInv

-----------------------------------------------------------------------------
\* Init establishes the strengthening.
LEMMA InitIInv == Init => IInv
<1> SUFFICES ASSUME Init PROVE IInv
  OBVIOUS
<1> USE SeparateAssumption, StoreBoundAssumption, NoRowAssumption
<1>1. NoJob \in Job
  BY DEF NoJob, Job, Step, Time
<1>2. TypeOK
  BY <1>1 DEF Init, TypeOK, Plan, NoPlan, Time
<1>3. Alone /\ JobInv
  BY DEF Init, Alone, JobInv, InHand, NoJob, Later
<1>4. IdentityKept /\ SuccessHasMetadata
  BY DEF Init, IdentityKept, SuccessHasMetadata, Earlier
<1>5. KeeperInv
  BY DEF Init, KeeperInv, NoPlan
<1> QED
  BY <1>2, <1>3, <1>4, <1>5 DEF IInv

-----------------------------------------------------------------------------
\* The three ways a job changes keep it a job.
LEMMA JobTypes ==
  ASSUME TypeOK, NEW w \in Writer
  PROVE  /\ Stop(w) => job' \in [Writer -> Job]
         /\ \A j \in Job : Start(w, j) => job' \in [Writer -> Job]
         /\ \A l \in Step : Goto(w, l) => job' \in [Writer -> Job]
<1> USE StoreBoundAssumption DEF TypeOK
<1>1. NoJob \in Job
  BY DEF NoJob, Job, Step, Time
<1>2. Stop(w) => job' \in [Writer -> Job]
  BY <1>1 DEF Stop
<1>3. ASSUME NEW j \in Job, Start(w, j) PROVE job' \in [Writer -> Job]
  BY <1>3 DEF Start
<1>4. ASSUME NEW l \in Step, Goto(w, l) PROVE job' \in [Writer -> Job]
  <2>1. [job[w] EXCEPT !.pc = l] \in Job
    BY DEF Job
  <2> QED
    BY <1>4, <2>1 DEF Goto
<1> QED
  BY <1>2, <1>3, <1>4

\* Replacing a field of a job by a value of its type gives a job.
LEMMA JobWith ==
  ASSUME NEW j \in Job
  PROVE  /\ \A l \in Step : [j EXCEPT !.pc = l] \in Job
         /\ \A q \in SUBSET Video : [j EXCEPT !.queue = q] \in Job
         /\ \A v \in Video \cup {NoVideo} : [j EXCEPT !.item = v] \in Job
         /\ \A i \in Id \cup {NoId} : [j EXCEPT !.ent = i] \in Job
         /\ \A ids \in SUBSET Id : [j EXCEPT !.ids = ids] \in Job
<1> USE DEF Job
<1>1. \A l \in Step : [j EXCEPT !.pc = l] \in Job
  OBVIOUS
<1>2. \A q \in SUBSET Video : [j EXCEPT !.queue = q] \in Job
  OBVIOUS
<1>3. \A v \in Video \cup {NoVideo} : [j EXCEPT !.item = v] \in Job
  OBVIOUS
<1>4. \A i \in Id \cup {NoId} : [j EXCEPT !.ent = i] \in Job
  OBVIOUS
<1>5. \A ids \in SUBSET Id : [j EXCEPT !.ids = ids] \in Job
  OBVIOUS
<1> QED
  BY <1>1, <1>2, <1>3, <1>4, <1>5

\* The fields of a job.
LEMMA JobFields ==
  ASSUME TypeOK, NEW w \in Writer
  PROVE  /\ job[w] \in Job
         /\ job[w].queue \subseteq Video /\ job[w].item \in Video \cup {NoVideo}
         /\ job[w].ent \in Id \cup {NoId} /\ job[w].ids \subseteq Id
         /\ job[w].at \in Time /\ job[w].source \in Source \cup {NoRow}
<1>1. job[w] \in Job
  BY DEF TypeOK
<1> QED
  BY <1>1 DEF Job

\* The entities a set of sources refers to.
LEMMA ReferencedIs ==
  ASSUME NEW gone
  PROVE  \A i : i \in Referenced(gone) <=>
           i # NoId /\ \E s \in gone : i \in entries[s] \/ i = head[s]
  BY DEF Referenced

\* Every step keeps the state well typed.
LEMMA NextTypeOK ==
  ASSUME IInv, [Next]_vars PROVE TypeOK'
<1> USE SeparateAssumption, StoreBoundAssumption, NoRowAssumption
    DEF IInv, TypeOK, Row, Attempt, Plan, NoPlan, rows, sources, keeper
<1>1. ASSUME NEW w \in Writer, NEW batch \in SUBSET Video, PutBegin(w, batch) PROVE TypeOK'
  <2>1. [NoJob EXCEPT !.pc = "entity", !.queue = batch, !.at = now] \in Job
    BY DEF NoJob, Job, Step
  <2> QED
    BY <1>1, <2>1, JobTypes DEF PutBegin, Begin
<1>2. ASSUME NEW w \in Writer, NEW i \in Id, FailBegin(w, i) PROVE TypeOK'
  <2>1. [NoJob EXCEPT !.pc = "check", !.kind = "fail", !.item = entity[i],
                      !.ent = i, !.at = now] \in Job
    BY <1>2 DEF NoJob, Job, Step, FailBegin, Exists
  <2> QED
    BY <1>2, <2>1, JobTypes DEF FailBegin, Begin
<1>3. ASSUME NEW w \in Writer, NEW s \in Source, NEW listing \in SUBSET Video, ListBegin(w, s, listing) PROVE TypeOK'
  <2>1. [NoJob EXCEPT !.pc = IF listing = {} THEN "replace" ELSE "resolve", !.kind = "list",
                      !.queue = listing, !.at = now, !.source = s] \in Job
    BY DEF NoJob, Job, Step
  <2> QED
    BY <1>3, <2>1, JobTypes DEF ListBegin, Begin
<1>4. ASSUME NEW w \in Writer, PutEntity(w) PROVE TypeOK'
  <2>1. PICK v \in job[w].queue, i \in Id :
           /\ GetOrCreate(v, i)
           /\ Start(w, [job[w] EXCEPT !.pc = "meta", !.queue = @ \ {v}, !.item = v, !.ent = i])
    BY <1>4 DEF PutEntity
  <2>3. v \in Video
    BY JobFields
  <2>2. [job[w] EXCEPT !.pc = "meta", !.queue = @ \ {v}, !.item = v, !.ent = i] \in Job
    <3>1. job[w] \in Job
      BY JobFields
    <3> DEFINE j1 == [job[w] EXCEPT !.pc = "meta"]
    <3>2. j1 \in Job
      BY <3>1, <2>3, JobFields, JobWith DEF Step
    <3> DEFINE j2 == [j1 EXCEPT !.queue = job[w].queue \ {v}]
    <3>3. j2 \in Job
      BY <3>2, <2>3, JobFields, JobWith
    <3> DEFINE j3 == [j2 EXCEPT !.item = v]
    <3>4. j3 \in Job
      BY <3>3, <2>3, JobFields, JobWith
    <3> DEFINE j4 == [j3 EXCEPT !.ent = i]
    <3>5. j4 \in Job
      BY <3>4, <2>3, JobFields, JobWith
    <3> QED
      BY <3>5
  <2> QED
    BY <1>4, <2>1, <2>2, <2>3, JobTypes DEF PutEntity, GetOrCreate
<1>5. ASSUME NEW w \in Writer, PutMeta(w) PROVE TypeOK'
  <2>1. job[w].item \in Video /\ job[w].ent \in Id
    BY <1>5 DEF PutMeta, At, JobInv, InHand
  <2>2. Oldest(w) \subseteq Time
    BY JobFields DEF Oldest
  <2>3. meta' \in [Id -> Row \cup {NoRow}]
    <3>1. CASE meta' = meta
      BY <3>1
    <3>2. ASSUME NEW t \in Oldest(w), meta' = Upsert(meta, w, t)
          PROVE  meta' \in [Id -> Row \cup {NoRow}]
      <4>1. [video |-> job[w].item, at |-> t] \in Row
        BY <2>1, <2>2
      <4> QED
        BY <3>2, <4>1 DEF Upsert
    <3> QED
      BY <1>5, <3>1, <3>2 DEF PutMeta
  <2>4. UNCHANGED <<entity, coll, acq, sources, now, jobs, keeper>>
    BY <1>5 DEF PutMeta
  <2>5. job' \in [Writer -> Job]
    BY <1>5, JobTypes DEF PutMeta, Step
  <2> QED
    BY <2>3, <2>4, <2>5
<1>6. ASSUME NEW w \in Writer, CheckAttempt(w) PROVE TypeOK'
  BY <1>6, JobFields, JobTypes DEF CheckAttempt, Step
<1>7. ASSUME NEW w \in Writer, PutSuccess(w) PROVE TypeOK'
  BY <1>7, JobFields, JobTypes DEF PutSuccess, Step
<1>8. ASSUME NEW w \in Writer, PutFailure(w) PROVE TypeOK'
  BY <1>8, JobFields, JobTypes DEF PutFailure, Earlier
<1>9. ASSUME NEW w \in Writer, PutCollections(w) PROVE TypeOK'
  <2>1. job[w].item \in Video /\ job[w].ent \in Id
    BY <1>9 DEF PutCollections, At, JobInv, InHand
  <2> QED
    BY <1>9, <2>1, JobFields, JobTypes DEF PutCollections, Upsert, Step
<1>10. ASSUME NEW w \in Writer, ListResolve(w) PROVE TypeOK'
  <2>1. PICK v \in job[w].queue, i \in Id :
           /\ GetOrCreate(v, i)
           /\ Start(w, [job[w] EXCEPT
                !.pc = IF job[w].queue = {v} THEN "replace" ELSE "resolve",
                !.queue = @ \ {v},
                !.item = IF job[w].ids = {} THEN v ELSE @,
                !.ids = @ \cup {i}])
    BY <1>10 DEF ListResolve
  <2>3. v \in Video
    BY JobFields
  <2>2. [job[w] EXCEPT
          !.pc = IF job[w].queue = {v} THEN "replace" ELSE "resolve",
          !.queue = @ \ {v},
          !.item = IF job[w].ids = {} THEN v ELSE @,
          !.ids = @ \cup {i}] \in Job
    <3>1. job[w] \in Job
      BY JobFields
    <3> DEFINE j1 == [job[w] EXCEPT !.pc = (IF job[w].queue = {v} THEN "replace" ELSE "resolve")]
    <3>2. j1 \in Job
      BY <3>1, <2>3, JobFields, JobWith DEF Step
    <3> DEFINE j2 == [j1 EXCEPT !.queue = job[w].queue \ {v}]
    <3>3. j2 \in Job
      BY <3>2, <2>3, JobFields, JobWith
    <3> HIDE DEF j1, j2
    <3> DEFINE j3 == [j2 EXCEPT !.item = (IF job[w].ids = {} THEN v ELSE job[w].item)]
    <3>4. j3 \in Job
      BY <3>3, <2>3, JobFields, JobWith
    <3> DEFINE j4 == [j3 EXCEPT !.ids = job[w].ids \cup {i}]
    <3>5. j4 \in Job
      BY <3>4, <2>3, JobFields, JobWith
    <3> QED
      BY <3>5 DEF j1, j2
  <2> QED
    BY <1>10, <2>1, <2>2, <2>3, JobTypes DEF ListResolve, GetOrCreate
<1>11. ASSUME NEW w \in Writer, ListReplace(w) PROVE TypeOK'
  BY <1>11, JobFields, JobTypes DEF ListReplace, Step
<1>12. ASSUME NEW w \in Writer, ListHead(w) PROVE TypeOK'
  <2>0. job[w].source \in Source
    BY <1>12 DEF ListHead, At, JobInv, InHand, Later
  <2>1. CASE UNCHANGED entity /\ Goto(w, "frontier")
    BY <1>12, <2>0, <2>1, JobTypes DEF ListHead, Step
  <2>2. ASSUME job[w].item # NoVideo, NEW i \in Id, GetOrCreate(job[w].item, i),
               Start(w, [job[w] EXCEPT !.pc = "frontier", !.ent = i, !.ids = {}])
        PROVE  TypeOK'
    <3>1. job[w] \in Job /\ job[w].item \in Video
      BY <2>2, JobFields
    <3> DEFINE j1 == [job[w] EXCEPT !.pc = "frontier"]
    <3>2. j1 \in Job
      BY <3>1, JobFields, JobWith DEF Step
    <3> DEFINE j2 == [j1 EXCEPT !.ent = i]
    <3>3. j2 \in Job
      BY <3>2, JobFields, JobWith
    <3> DEFINE j3 == [j2 EXCEPT !.ids = {}]
    <3>4. j3 \in Job
      BY <3>3, JobFields, JobWith
    <3>5. [job[w] EXCEPT !.pc = "frontier", !.ent = i, !.ids = {}] \in Job
      BY <3>4
    <3> HIDE DEF j1, j2, j3
    <3> QED
      BY <1>12, <2>0, <2>2, <3>1, <3>5, JobTypes DEF ListHead, GetOrCreate
  <2> QED
    BY <1>12, <2>1, <2>2 DEF ListHead
<1>13. ASSUME NEW w \in Writer, ListFrontier(w) PROVE TypeOK'
  BY <1>13, JobFields, JobTypes DEF ListFrontier, Step, Exists
<1>14. ASSUME NEW w \in Writer, ListSource(w) PROVE TypeOK'
  <2>1. job[w].source \in Source
    BY <1>14 DEF ListSource, At, JobInv, InHand, Later
  <2> QED
    BY <1>14, <2>1, JobTypes DEF ListSource, Step
<1>15. ASSUME NEW w \in Writer, ListObserve(w) PROVE TypeOK'
  BY <1>15, JobFields, JobTypes DEF ListObserve, Step
<1>16. ASSUME NEW w \in Writer, Kill(w) PROVE TypeOK'
  BY <1>16, JobTypes DEF Kill
<1>17. ASSUME Tick PROVE TypeOK'
  BY <1>17 DEF Tick, Time
<1>18. ASSUME PlanRetention PROVE TypeOK'
  BY <1>18 DEF PlanRetention
<1>19. ASSUME ExecuteRetention PROVE TypeOK'
  BY <1>19 DEF ExecuteRetention, DropSources, DropRows, Rest
<1>20. ASSUME NEW s \in Source, PruneRead(s) PROVE TypeOK'
  <2>1. entries[s] \cup {head[s]} \subseteq Id \cup {NoId}
    OBVIOUS
  <2>2. \A i \in Referenced({s}) : i \in entries[s] \cup {head[s]} /\ i # NoId
    BY ReferencedIs
  <2>3. Referenced({s}) \subseteq Id
    BY <2>1, <2>2
  <2> QED
    BY <1>20, <2>3 DEF PruneRead
<1>21. ASSUME PruneSource PROVE TypeOK'
  BY <1>21 DEF PruneSource, DropSources, CollectNext, Rest
<1>22. ASSUME CollectCheckProvider PROVE TypeOK'
  BY <1>22 DEF CollectCheckProvider, KeepOrLook, CollectNext, Rest
<1>23. ASSUME CollectCheckSource PROVE TypeOK'
  BY <1>23 DEF CollectCheckSource, KeepOrLook, CollectNext, Rest
<1>24. ASSUME CollectDelete PROVE TypeOK'
  BY <1>24 DEF CollectDelete, DropRows, CollectNext, Rest
<1>25. ASSUME KillKeeper PROVE TypeOK'
  BY <1>25 DEF KillKeeper, Rest
<1>26. ASSUME UNCHANGED vars PROVE TypeOK'
  BY <1>26 DEF vars
<1> QED
  BY <1>1, <1>2, <1>3, <1>4, <1>5, <1>6, <1>7, <1>8, <1>9, <1>10, <1>11, <1>12, <1>13, <1>14, <1>15, <1>16, <1>17, <1>18, <1>19, <1>20, <1>21, <1>22, <1>23, <1>24, <1>25, <1>26
     DEF Next, Finished, KeeperStep, WriterStep, Advance

-----------------------------------------------------------------------------
\* Under Exclusive a writer that steps has the file to itself.
LEMMA WriterHasTheFile ==
  ASSUME IInv, Exclusive, NEW w \in Writer, WriterStep(w)
  PROVE  kpc = "idle" /\ kpc' = "idle"
<1> USE DEF IInv, Alone, At, Begin, keeper
<1>1. ASSUME NEW batch, PutBegin(w, batch) PROVE kpc = "idle" /\ kpc' = "idle"
  BY <1>1 DEF PutBegin
<1>2. ASSUME NEW i, FailBegin(w, i) PROVE kpc = "idle" /\ kpc' = "idle"
  BY <1>2 DEF FailBegin
<1>3. ASSUME NEW s, NEW listing, ListBegin(w, s, listing)
      PROVE  kpc = "idle" /\ kpc' = "idle"
  BY <1>3 DEF ListBegin
<1>4. ASSUME Advance(w) PROVE kpc = "idle" /\ kpc' = "idle"
  BY <1>4 DEF Advance, PutEntity, PutMeta, CheckAttempt, PutSuccess, PutFailure,
              PutCollections, ListResolve, ListReplace, ListHead, ListFrontier,
              ListSource, ListObserve
<1>5. ASSUME Kill(w) PROVE kpc = "idle" /\ kpc' = "idle"
  BY <1>5 DEF Kill
<1> QED
  BY <1>1, <1>2, <1>3, <1>4, <1>5 DEF WriterStep

\* Under Exclusive maintenance steps only while every writer is idle.
LEMMA KeeperHasTheFile ==
  ASSUME IInv, Exclusive, KeeperStep
  PROVE  job' = job /\ \A w \in Writer : job[w].pc = "idle"
<1> USE DEF IInv, Alone, At, MaintenanceMayRun
<1>1. ASSUME NEW s, PruneRead(s)
      PROVE  job' = job /\ \A w \in Writer : job[w].pc = "idle"
  BY <1>1 DEF PruneRead
<1> QED
  BY <1>1 DEF KeeperStep, PlanRetention, ExecuteRetention, PruneSource,
              CollectCheckProvider, CollectCheckSource, CollectDelete, KillKeeper

\* Every step keeps writers and maintenance apart.
LEMMA NextAlone ==
  ASSUME IInv, Exclusive, [Next]_vars PROVE Alone'
<1>1. ASSUME NEW w \in Writer, WriterStep(w) PROVE Alone'
  BY <1>1, WriterHasTheFile DEF Alone
<1>2. CASE KeeperStep
  BY <1>2, KeeperHasTheFile DEF Alone
<1>3. CASE Tick
  BY <1>3 DEF Tick, IInv, Alone, keeper
<1>4. CASE UNCHANGED vars
  BY <1>4 DEF vars, IInv, Alone, keeper
<1> QED
  BY <1>1, <1>2, <1>3, <1>4 DEF Next, Finished

-----------------------------------------------------------------------------
\* GetOrCreate names v's entity and leaves every other entity alone.
LEMMA GetOrCreateKeeps ==
  ASSUME TypeOK, NEW v \in Video, NEW i \in Id, GetOrCreate(v, i)
  PROVE  /\ entity'[i] = v
         /\ \A k \in Id : entity[k] # NoVideo => entity'[k] = entity[k]
         /\ \A k \in Id \ {i} : entity'[k] = entity[k]
  BY StoreBoundAssumption DEF TypeOK, GetOrCreate, Id

\* How a step leaves the job of its writer, and the other jobs.
LEMMA JobAfter ==
  ASSUME TypeOK, NEW w \in Writer
  PROVE  /\ \A j : Start(w, j) =>
              job'[w] = j /\ \A x \in Writer \ {w} : job'[x] = job[x]
         /\ Stop(w) => job'[w] = NoJob /\ \A x \in Writer \ {w} : job'[x] = job[x]
         /\ \A l : Goto(w, l) =>
              /\ job'[w] = [job[w] EXCEPT !.pc = l]
              /\ \A x \in Writer \ {w} : job'[x] = job[x]
  BY DEF TypeOK, Start, Stop, Goto

\* The fields of a job that goes on to its next statement.
LEMMA GotoFields ==
  ASSUME TypeOK, NEW w \in Writer, NEW l, Goto(w, l)
  PROVE  /\ job'[w].pc = l /\ job'[w].kind = job[w].kind
         /\ job'[w].item = job[w].item /\ job'[w].ent = job[w].ent
         /\ job'[w].ids = job[w].ids /\ job'[w].source = job[w].source
<1>1. job[w] \in Job /\ job'[w] = [job[w] EXCEPT !.pc = l]
  BY JobAfter, JobFields
<1> QED
  BY <1>1 DEF Job

\* What a writer's step does to the rows: no entity changes its video, no
\* metadata row disappears, and only its own job moves.
LEMMA WriterRows ==
  ASSUME IInv, NEW w \in Writer, WriterStep(w)
  PROVE  /\ \A k \in Id : entity[k] # NoVideo => entity'[k] = entity[k]
         /\ \A k \in Id : meta[k] # NoRow => meta'[k] # NoRow
         /\ \A x \in Writer \ {w} : job'[x] = job[x]
<1> DEFINE Kept == /\ \A k \in Id : entity[k] # NoVideo => entity'[k] = entity[k]
                   /\ \A k \in Id : meta[k] # NoRow => meta'[k] # NoRow
                   /\ \A x \in Writer \ {w} : job'[x] = job[x]
<1>0. TypeOK /\ JobInv
  BY DEF IInv
<1>1. ASSUME NEW batch, PutBegin(w, batch) PROVE Kept
  BY <1>0, <1>1, JobAfter DEF PutBegin, rows
<1>2. ASSUME NEW i, FailBegin(w, i) PROVE Kept
  BY <1>0, <1>2, JobAfter DEF FailBegin, rows
<1>3. ASSUME NEW s, NEW listing, ListBegin(w, s, listing) PROVE Kept
  BY <1>0, <1>3, JobAfter DEF ListBegin, rows
<1>4. CASE PutEntity(w)
  <2>1. job[w].queue \subseteq Video
    BY <1>0, JobFields
  <2>2. meta' = meta
    BY <1>4 DEF PutEntity
  <2> QED
    BY <1>0, <1>4, <2>1, <2>2, JobAfter, GetOrCreateKeeps DEF PutEntity
<1>5. CASE PutMeta(w)
  <2>1. job[w].item \in Video /\ job[w].ent \in Id
    BY <1>0, <1>5 DEF PutMeta, At, JobInv, InHand
  <2>2. \A t \in Oldest(w) : [video |-> job[w].item, at |-> t] # NoRow
    BY <1>0, <2>1, NoRowAssumption, JobFields DEF Row, Oldest
  <2>3. meta' = meta \/ \E t \in Oldest(w) : meta' = Upsert(meta, w, t)
    BY <1>5 DEF PutMeta
  <2>4. \A k \in Id : meta[k] # NoRow => meta'[k] # NoRow
    BY <1>0, <2>1, <2>2, <2>3 DEF Upsert, TypeOK
  <2>5. entity' = entity
    BY <1>5 DEF PutMeta
  <2>6. \A x \in Writer \ {w} : job'[x] = job[x]
    BY <1>0, <1>5, JobAfter DEF PutMeta
  <2> QED
    BY <2>4, <2>5, <2>6
<1>6. CASE ListResolve(w)
  <2>1. job[w].queue \subseteq Video
    BY <1>0, JobFields
  <2>2. meta' = meta
    BY <1>6 DEF ListResolve
  <2> QED
    BY <1>0, <1>6, <2>1, <2>2, JobAfter, GetOrCreateKeeps DEF ListResolve
<1>7. CASE ListHead(w)
  <2>1. job[w].item # NoVideo => job[w].item \in Video
    BY <1>0, JobFields
  <2>2. meta' = meta
    BY <1>7 DEF ListHead
  <2>3. CASE UNCHANGED entity /\ Goto(w, "frontier")
    BY <1>0, <2>2, <2>3, JobAfter
  <2> QED
    BY <1>0, <1>7, <2>1, <2>2, <2>3, JobAfter, GetOrCreateKeeps DEF ListHead
<1>8. CASE CheckAttempt(w) \/ PutSuccess(w) \/ PutFailure(w) \/ PutCollections(w)
  BY <1>0, <1>8, JobAfter DEF CheckAttempt, PutSuccess, PutFailure, PutCollections, rows
<1>9. CASE ListReplace(w) \/ ListFrontier(w) \/ ListSource(w) \/ ListObserve(w) \/ Kill(w)
  BY <1>0, <1>9, JobAfter
     DEF ListReplace, ListFrontier, ListSource, ListObserve, Kill, rows
<1> QED
  BY <1>1, <1>2, <1>3, <1>4, <1>5, <1>6, <1>7, <1>8, <1>9 DEF WriterStep, Advance

\* Every step of a writer leaves each job with what the tables say.
LEMMA WriterJobInv ==
  ASSUME IInv, NEW w \in Writer, WriterStep(w)
  PROVE  JobInv'
<1> USE SeparateAssumption
<1>0. TypeOK /\ JobInv
  BY DEF IInv
<1>a. InHand(w)
  BY <1>0 DEF JobInv
<1>b. ASSUME NEW x \in Writer, x # w PROVE InHand(x)'
  <2>1. InHand(x) /\ job'[x] = job[x]
    BY <1>0, <1>b, WriterRows DEF JobInv
  <2>2. job[x].ent \in Id /\ entity[job[x].ent] \in Video =>
          entity'[job[x].ent] = entity[job[x].ent]
    BY WriterRows
  <2>3. job[x].ent \in Id /\ meta[job[x].ent] # NoRow => meta'[job[x].ent] # NoRow
    BY WriterRows
  <2> QED
    BY <2>1, <2>2, <2>3 DEF InHand
<1>c. ASSUME Stop(w) PROVE InHand(w)'
  <2>1. job'[w] = NoJob
    BY <1>0, <1>c, JobAfter
  <2> QED
    BY <2>1 DEF InHand, NoJob, Later
<1>1. ASSUME NEW batch, PutBegin(w, batch) PROVE InHand(w)'
  <2>1. job'[w] = [NoJob EXCEPT !.pc = "entity", !.queue = batch, !.at = now]
    BY <1>0, <1>1, JobAfter DEF PutBegin
  <2>2. job'[w].pc = "entity"
    BY <2>1 DEF NoJob
  <2> QED
    BY <2>2 DEF InHand, Later
<1>2. ASSUME NEW i \in Id, FailBegin(w, i) PROVE InHand(w)'
  <2>0. job'[w] = [NoJob EXCEPT !.pc = "check", !.kind = "fail", !.item = entity[i],
                                !.ent = i, !.at = now]
    BY <1>0, <1>2, JobAfter DEF FailBegin
  <2>1. /\ job'[w].pc = "check" /\ job'[w].kind = "fail"
        /\ job'[w].item = entity[i] /\ job'[w].ent = i
    BY <2>0 DEF NoJob
  <2>2. entity'[i] = entity[i] /\ entity[i] \in Video
    BY <1>0, <1>2 DEF FailBegin, Exists, TypeOK, rows
  <2> QED
    BY <2>1, <2>2 DEF InHand, Later
<1>3. ASSUME NEW s \in Source, NEW listing, ListBegin(w, s, listing) PROVE InHand(w)'
  <2>0. job'[w] = [NoJob EXCEPT !.pc = IF listing = {} THEN "replace" ELSE "resolve",
                                !.kind = "list", !.queue = listing, !.at = now, !.source = s]
    BY <1>0, <1>3, JobAfter DEF ListBegin
  <2>1. job'[w].pc \in {"replace", "resolve"} /\ job'[w].source = s
    BY <2>0 DEF NoJob
  <2> QED
    BY <2>1 DEF InHand, Later
<1>4. ASSUME PutEntity(w)
      PROVE  InHand(w)'
  <2>1. PICK v \in job[w].queue, i \in Id :
           /\ GetOrCreate(v, i)
           /\ Start(w, [job[w] EXCEPT !.pc = "meta", !.queue = @ \ {v}, !.item = v, !.ent = i])
    BY <1>4 DEF PutEntity
  <2>2. job[w] \in Job /\ v \in Video
    BY <1>0, JobFields
  <2>5. job'[w] = [job[w] EXCEPT !.pc = "meta", !.queue = @ \ {v}, !.item = v, !.ent = i]
    BY <1>0, <2>1, JobAfter
  <2>3. job'[w].pc = "meta" /\ job'[w].item = v /\ job'[w].ent = i
    BY <2>5, <2>2 DEF Job
  <2>4. entity'[i] = v
    BY <1>0, <2>1, <2>2, GetOrCreateKeeps
  <2> QED
    BY <2>2, <2>3, <2>4 DEF InHand, Later
<1>5. ASSUME PutMeta(w)
      PROVE  InHand(w)'
  <2>1. /\ job[w].item \in Video /\ job[w].ent \in Id
        /\ entity[job[w].ent] = job[w].item
    BY <1>0, <1>a, <1>5 DEF PutMeta, At, InHand
  <2>2. \A t \in Oldest(w) : [video |-> job[w].item, at |-> t] # NoRow
    BY <1>0, <2>1, NoRowAssumption, JobFields DEF Row, Oldest
  <2>3. CASE Exists(job[w].ent)
    <3>1. Goto(w, "check") /\ meta'[job[w].ent] # NoRow /\ entity' = entity
      BY <1>0, <1>5, <2>1, <2>2, <2>3 DEF PutMeta, Upsert, TypeOK
    <3> QED
      BY <1>0, <2>1, <3>1, GotoFields DEF InHand, Later
  <2>4. CASE ~Exists(job[w].ent)
    BY <1>c, <1>5, <2>4 DEF PutMeta
  <2> QED
    BY <2>3, <2>4
<1>6. ASSUME ListResolve(w)
      PROVE  InHand(w)'
  <2>1. PICK v \in job[w].queue, i \in Id :
           /\ GetOrCreate(v, i)
           /\ Start(w, [job[w] EXCEPT
                !.pc = IF job[w].queue = {v} THEN "replace" ELSE "resolve",
                !.queue = @ \ {v},
                !.item = IF job[w].ids = {} THEN v ELSE @,
                !.ids = @ \cup {i}])
    BY <1>6 DEF ListResolve
  <2>2. job[w] \in Job /\ v \in Video
    BY <1>0, JobFields
  <2>3. /\ job'[w].pc \in {"replace", "resolve"} /\ job'[w].source = job[w].source
        /\ job'[w].item = IF job[w].ids = {} THEN v ELSE job[w].item
    <3>1. job'[w] = [job[w] EXCEPT
            !.pc = IF job[w].queue = {v} THEN "replace" ELSE "resolve",
            !.queue = @ \ {v},
            !.item = IF job[w].ids = {} THEN v ELSE @,
            !.ids = @ \cup {i}]
      BY <1>0, <2>1, JobAfter
    <3> QED
      BY <2>2, <3>1 DEF Job
  <2>4. job[w].pc = "resolve"
    BY <1>6 DEF ListResolve, At
  <2> QED
    BY <1>a, <2>2, <2>3, <2>4 DEF InHand, Later
<1>7. ASSUME ListHead(w)
      PROVE  InHand(w)'
  <2>0. job[w] \in Job /\ job[w].pc = "head"
    BY <1>0, <1>7, JobFields DEF ListHead, At
  <2>1. job'[w].pc = "frontier" /\ job'[w].source = job[w].source
    <3>1. CASE Goto(w, "frontier")
      BY <1>0, <3>1, GotoFields
    <3>2. ASSUME NEW i \in Id, Start(w, [job[w] EXCEPT !.pc = "frontier", !.ent = i, !.ids = {}])
          PROVE  job'[w].pc = "frontier" /\ job'[w].source = job[w].source
      <4>1. job'[w] = [job[w] EXCEPT !.pc = "frontier", !.ent = i, !.ids = {}]
        BY <1>0, <3>2, JobAfter
      <4> QED
        BY <2>0, <4>1 DEF Job
    <3> QED
      BY <1>7, <3>1, <3>2 DEF ListHead
  <2> QED
    BY <1>a, <2>0, <2>1 DEF InHand, Later
<1>8. ASSUME CheckAttempt(w) \/ PutSuccess(w) \/ PutFailure(w) \/ PutCollections(w)
      PROVE  InHand(w)'
  <2>1. entity' = entity /\ meta' = meta
    BY <1>8 DEF CheckAttempt, PutSuccess, PutFailure, PutCollections, rows
  <2>2. job[w].pc \in {"check", "state", "coll"}
    BY <1>8 DEF CheckAttempt, PutSuccess, PutFailure, PutCollections, At
  <2>3. Stop(w) \/ \E l \in {"state", "coll", "entity"} : Goto(w, l)
    BY <1>8 DEF CheckAttempt, PutSuccess, PutFailure, PutCollections
  <2>4. CASE Stop(w)
    BY <1>c, <2>4
  <2>5. ASSUME NEW l \in {"state", "coll", "entity"}, Goto(w, l) PROVE InHand(w)'
    BY <1>0, <1>a, <2>1, <2>2, <2>5, GotoFields DEF InHand, Later
  <2> QED
    BY <2>3, <2>4, <2>5
<1>9. ASSUME ListReplace(w) \/ ListFrontier(w) \/ ListSource(w) \/ ListObserve(w) \/ Kill(w)
      PROVE  InHand(w)'
  <2>1. Stop(w) \/ \E l \in Later : job[w].pc \in Later /\ Goto(w, l)
    BY <1>9 DEF ListReplace, ListFrontier, ListSource, ListObserve, Kill, Later, At
  <2>2. CASE Stop(w)
    BY <1>c, <2>2
  <2>3. ASSUME NEW l \in Later, job[w].pc \in Later, Goto(w, l) PROVE InHand(w)'
    BY <1>0, <1>a, <2>3, GotoFields DEF InHand, Later
  <2> QED
    BY <2>1, <2>2, <2>3
<1>10. InHand(w)'
  BY <1>1, <1>2, <1>3, <1>4, <1>5, <1>6, <1>7, <1>8, <1>9 DEF WriterStep, Advance
<1> QED
  BY <1>b, <1>10 DEF JobInv

\* Every step leaves each job with what the tables say.
LEMMA NextJobInv ==
  ASSUME IInv, Exclusive, [Next]_vars PROVE JobInv'
<1>1. ASSUME NEW w \in Writer, WriterStep(w) PROVE JobInv'
  BY <1>1, WriterJobInv
<1>2. CASE KeeperStep
  <2>1. job' = job /\ \A w \in Writer : job[w].pc = "idle"
    BY <1>2, KeeperHasTheFile
  <2> QED
    BY <2>1 DEF JobInv, InHand, Later
<1>3. CASE Tick
  BY <1>3 DEF Tick, IInv, JobInv, InHand, rows
<1>4. CASE UNCHANGED vars
  BY <1>4 DEF vars, IInv, JobInv, InHand, rows
<1> QED
  BY <1>1, <1>2, <1>3, <1>4 DEF Next, Finished

-----------------------------------------------------------------------------
\* The rows stay as they are: the steps that touch none of them.
LEMMA SameRows ==
  ASSUME IInv, UNCHANGED rows
  PROVE  IdentityKept' /\ SuccessHasMetadata'
  BY DEF IInv, rows, IdentityKept, SuccessHasMetadata, Earlier

\* An entity a step creates had no rows.
LEMMA CreatedEntityIsBare ==
  ASSUME IInv, NEW v \in Video, NEW i \in Id, GetOrCreate(v, i),
         meta' = meta, coll' = coll, acq' = acq
  PROVE  IdentityKept' /\ SuccessHasMetadata'
<1> USE SeparateAssumption, NoRowAssumption
<1>1. TypeOK /\ IdentityKept /\ SuccessHasMetadata
  BY DEF IInv
<1>2. \A k \in Id : entity[k] # NoVideo => entity'[k] = entity[k]
  BY <1>1, GetOrCreateKeeps
<1>3. \A k \in Id : meta[k] # NoRow => meta[k].video \in Video
  BY <1>1 DEF TypeOK, Row
<1>4. \A k \in Id : coll[k] # NoRow => coll[k].video \in Video
  BY <1>1 DEF TypeOK, Row
<1>5. IdentityKept'
  <2>1. \A k \in Id : meta[k] # NoRow => entity'[k] = entity[k] /\ meta[k].video = entity[k]
    BY <1>1, <1>2, <1>3 DEF IdentityKept
  <2>2. \A k \in Id : coll[k] # NoRow => entity'[k] = entity[k] /\ coll[k].video = entity[k]
    BY <1>1, <1>2, <1>4 DEF IdentityKept
  <2> QED
    BY <2>1, <2>2 DEF IdentityKept
<1>6. SuccessHasMetadata'
  BY <1>1 DEF SuccessHasMetadata, Earlier
<1> QED
  BY <1>5, <1>6

\* Writers keep the meaning of the rows.
LEMMA WriterRowsInv ==
  ASSUME IInv, NEW w \in Writer, WriterStep(w)
  PROVE  IdentityKept' /\ SuccessHasMetadata'
<1> DEFINE RowsInv == IdentityKept /\ SuccessHasMetadata
<1> USE SeparateAssumption, NoRowAssumption
<1>0. TypeOK /\ IdentityKept /\ SuccessHasMetadata /\ InHand(w)
  BY DEF IInv, JobInv
<1>1. ASSUME NEW batch, PutBegin(w, batch) PROVE RowsInv'
  BY <1>1, SameRows DEF PutBegin
<1>2. ASSUME NEW i, FailBegin(w, i) PROVE RowsInv'
  BY <1>2, SameRows DEF FailBegin
<1>3. ASSUME NEW s, NEW listing, ListBegin(w, s, listing) PROVE RowsInv'
  BY <1>3, SameRows DEF ListBegin
<1>4. ASSUME PutEntity(w) PROVE RowsInv'
  <2>1. job[w].queue \subseteq Video
    BY <1>0, JobFields
  <2> QED
    BY <1>4, <2>1, CreatedEntityIsBare DEF PutEntity
<1>5. ASSUME ListResolve(w) PROVE RowsInv'
  <2>1. job[w].queue \subseteq Video
    BY <1>0, JobFields
  <2> QED
    BY <1>5, <2>1, CreatedEntityIsBare DEF ListResolve
<1>6. ASSUME ListHead(w) PROVE RowsInv'
  <2>1. job[w].item # NoVideo => job[w].item \in Video
    BY <1>0, JobFields
  <2>2. CASE UNCHANGED entity
    BY <1>6, <2>2, SameRows DEF ListHead, rows
  <2> QED
    BY <1>6, <2>1, <2>2, CreatedEntityIsBare DEF ListHead
<1>7. ASSUME PutMeta(w) PROVE RowsInv'
  <2>1. /\ job[w].item \in Video /\ job[w].ent \in Id
        /\ entity[job[w].ent] = job[w].item
    BY <1>0, <1>7 DEF PutMeta, At, InHand
  <2>4. PICK row : /\ row # NoRow /\ row.video = entity[job[w].ent]
                   /\ meta' = meta \/ meta' = [meta EXCEPT ![job[w].ent] = row]
    <3> DEFINE new(t) == [video |-> job[w].item, at |-> t]
    <3>1. \A t \in Oldest(w) \cup {job[w].at} :
            new(t) # NoRow /\ new(t).video = entity[job[w].ent]
      BY <1>0, <2>1, JobFields DEF Row, Oldest
    <3>2. meta' = meta \/ \E t \in Oldest(w) : meta' = [meta EXCEPT ![job[w].ent] = new(t)]
      BY <1>7 DEF PutMeta, Upsert
    <3> HIDE DEF new
    <3> QED
      BY <3>1, <3>2
  <2>3. entity' = entity /\ coll' = coll /\ acq' = acq
    BY <1>7 DEF PutMeta
  <2>5. \A k \in Id : meta'[k] = meta[k] \/ (meta'[k] = row /\ k = job[w].ent)
    BY <1>0, <2>4 DEF TypeOK
  <2>6. IdentityKept'
    <3>1. \A k \in Id : meta'[k] # NoRow => meta'[k].video = entity[k]
      BY <1>0, <2>4, <2>5 DEF IdentityKept
    <3> QED
      BY <1>0, <2>3, <3>1 DEF IdentityKept
  <2>7. SuccessHasMetadata'
    BY <1>0, <2>3, <2>4, <2>5 DEF SuccessHasMetadata, Earlier
  <2> QED
    BY <2>6, <2>7
<1>8. ASSUME PutCollections(w) PROVE RowsInv'
  <2>1. /\ job[w].item \in Video /\ job[w].ent \in Id /\ job[w].at \in Time
        /\ entity[job[w].ent] = job[w].item
    BY <1>0, <1>8, JobFields DEF PutCollections, At, InHand
  <2> DEFINE row == [video |-> job[w].item, at |-> job[w].at]
  <2>2. row # NoRow /\ row.video = entity[job[w].ent]
    BY <2>1 DEF Row
  <2>3. entity' = entity /\ meta' = meta /\ acq' = acq
    BY <1>8 DEF PutCollections
  <2>4. coll' = coll \/ coll' = [coll EXCEPT ![job[w].ent] = row]
    BY <1>8 DEF PutCollections, Upsert
  <2> HIDE DEF row
  <2>5. \A k \in Id : coll'[k] = coll[k] \/ (coll'[k] = row /\ k = job[w].ent)
    BY <1>0, <2>4 DEF TypeOK
  <2>6. IdentityKept'
    BY <1>0, <2>2, <2>3, <2>5 DEF IdentityKept
  <2>7. SuccessHasMetadata'
    BY <1>0, <2>3 DEF SuccessHasMetadata, Earlier
  <2> QED
    BY <2>6, <2>7
<1>9. ASSUME PutSuccess(w) PROVE RowsInv'
  <2>1. meta[job[w].ent] # NoRow
    BY <1>0, <1>9 DEF PutSuccess, At, InHand
  <2>2. entity' = entity /\ meta' = meta /\ coll' = coll
    BY <1>9 DEF PutSuccess
  <2>3. \A k \in Id : acq'[k] = acq[k] \/ k = job[w].ent
    BY <1>0, <1>9 DEF PutSuccess, TypeOK
  <2>4. IdentityKept'
    BY <1>0, <2>2 DEF IdentityKept
  <2>5. SuccessHasMetadata'
    BY <1>0, <2>1, <2>2, <2>3 DEF SuccessHasMetadata, Earlier
  <2> QED
    BY <2>4, <2>5
<1>10. ASSUME PutFailure(w) PROVE RowsInv'
  <2>1. job[w].at \in Time /\ Earlier(job[w].ent) = Earlier(job[w].ent)
    BY <1>0, JobFields
  <2>2. entity' = entity /\ meta' = meta /\ coll' = coll
    BY <1>10 DEF PutFailure
  <2>3. \A k \in Id : Earlier(k)' = Earlier(k) \/ Earlier(k)' = NoTime
    BY <1>0, <1>10 DEF PutFailure, TypeOK, Earlier
  <2>4. IdentityKept'
    BY <1>0, <2>2 DEF IdentityKept
  <2>5. SuccessHasMetadata'
    BY <1>0, <2>2, <2>3 DEF SuccessHasMetadata
  <2> QED
    BY <2>4, <2>5
<1>11. ASSUME CheckAttempt(w) \/ Kill(w) PROVE RowsInv'
  BY <1>11, SameRows DEF CheckAttempt, Kill
<1>12. ASSUME ListReplace(w) \/ ListFrontier(w) \/ ListSource(w) \/ ListObserve(w)
       PROVE  RowsInv'
  BY <1>12, SameRows DEF ListReplace, ListFrontier, ListSource, ListObserve
<1> QED
  BY <1>1, <1>2, <1>3, <1>4, <1>5, <1>6, <1>7, <1>8, <1>9, <1>10, <1>11, <1>12
     DEF WriterStep, Advance

\* Maintenance keeps the meaning of the rows: it takes rows away, and an
\* entity's rows before or with the entity.
LEMMA KeeperRowsInv ==
  ASSUME IInv, KeeperStep
  PROVE  IdentityKept' /\ SuccessHasMetadata'
<1> DEFINE RowsInv == IdentityKept /\ SuccessHasMetadata
<1> USE SeparateAssumption, NoRowAssumption
<1>0. TypeOK /\ IdentityKept /\ SuccessHasMetadata /\ KeeperInv
  BY DEF IInv
<1>1. ASSUME ExecuteRetention PROVE RowsInv'
  <2> DEFINE stripped == plan.entities
             affected == {i \in stripped : meta[i] # NoRow \/ acq[i] # NoRow}
                         \cup Referenced(plan.sources)
             collected == {i \in affected :
                             /\ i \in stripped \/ (meta[i] = NoRow /\ acq[i] = NoRow)
                             /\ \A s \in Source : i \notin entries'[s] /\ i # head'[s]}
  <2>1. /\ entity' = [i \in Id |-> IF i \in collected THEN NoVideo ELSE entity[i]]
        /\ meta' = DropRows(meta, stripped) /\ acq' = DropRows(acq, stripped)
        /\ coll' = DropRows(coll, stripped \cup collected)
    BY <1>1 DEF ExecuteRetention
  <2>2. \A i \in collected : i \in stripped \/ (meta[i] = NoRow /\ acq[i] = NoRow)
    OBVIOUS
  <2> HIDE DEF stripped, affected, collected
  <2>3. \A i \in Id : /\ i \in stripped => meta'[i] = NoRow /\ acq'[i] = NoRow
                      /\ i \notin stripped => meta'[i] = meta[i] /\ acq'[i] = acq[i]
    BY <2>1 DEF DropRows
  <2>4. \A i \in Id : /\ i \in stripped \cup collected => coll'[i] = NoRow
                      /\ i \notin stripped \cup collected => coll'[i] = coll[i]
    BY <2>1 DEF DropRows
  <2>5. \A i \in Id : i \notin collected => entity'[i] = entity[i]
    BY <2>1
  <2>6. \A i \in Id : meta'[i] # NoRow => meta'[i].video = entity'[i]
    BY <1>0, <2>2, <2>3, <2>5 DEF IdentityKept
  <2>7. \A i \in Id : coll'[i] # NoRow => coll'[i].video = entity'[i]
    BY <1>0, <2>4, <2>5 DEF IdentityKept
  <2>8. SuccessHasMetadata'
    BY <1>0, <2>3 DEF SuccessHasMetadata, Earlier
  <2> QED
    BY <2>6, <2>7, <2>8 DEF IdentityKept
<1>2. ASSUME CollectDelete PROVE RowsInv'
  <2> DEFINE gone == {NextReleased}
  <2>1. CASE SourceRefers(NextReleased)
    BY <1>2, <2>1, SameRows DEF CollectDelete
  <2>2. CASE ~SourceRefers(NextReleased)
    <3>1. /\ entity' = [entity EXCEPT ![NextReleased] = NoVideo]
          /\ meta' = DropRows(meta, gone) /\ acq' = DropRows(acq, gone)
          /\ coll' = DropRows(coll, gone)
      BY <1>2, <2>2 DEF CollectDelete
    <3>2. \A i \in Id : /\ i = NextReleased =>
                             meta'[i] = NoRow /\ acq'[i] = NoRow /\ coll'[i] = NoRow
                        /\ i # NextReleased =>
                             /\ meta'[i] = meta[i] /\ acq'[i] = acq[i]
                             /\ coll'[i] = coll[i]
      BY <3>1 DEF DropRows
    <3>3. \A i \in Id : i # NextReleased => entity'[i] = entity[i]
      BY <1>0, <3>1 DEF TypeOK
    <3>4. IdentityKept'
      BY <1>0, <3>2, <3>3 DEF IdentityKept
    <3>5. SuccessHasMetadata'
      BY <1>0, <3>2 DEF SuccessHasMetadata, Earlier
    <3> QED
      BY <3>4, <3>5
  <2> QED
    BY <2>1, <2>2
<1>3. ASSUME NEW s, PruneRead(s) PROVE RowsInv'
  BY <1>3, SameRows DEF PruneRead
<1>4. ASSUME \/ PlanRetention \/ PruneSource \/ CollectCheckProvider
             \/ CollectCheckSource \/ KillKeeper
      PROVE  RowsInv'
  BY <1>4, SameRows
     DEF PlanRetention, PruneSource, CollectCheckProvider, CollectCheckSource, KillKeeper
<1> QED
  BY <1>1, <1>2, <1>3, <1>4 DEF KeeperStep

\* Every step keeps the meaning of the rows.
LEMMA NextRowsInv ==
  ASSUME IInv, [Next]_vars PROVE IdentityKept' /\ SuccessHasMetadata'
<1>1. ASSUME NEW w \in Writer, WriterStep(w) PROVE IdentityKept' /\ SuccessHasMetadata'
  BY <1>1, WriterRowsInv
<1>2. CASE KeeperStep
  BY <1>2, KeeperRowsInv
<1>3. CASE Tick \/ UNCHANGED vars
  BY <1>3, SameRows DEF Tick, vars
<1> QED
  BY <1>1, <1>2, <1>3 DEF Next, Finished

-----------------------------------------------------------------------------
\* Time only makes an entity older.
LEMMA TooOldStays ==
  ASSUME TypeOK, now' = now + 1, NEW i \in Id, TooOld(Earlier(i)), acq' = acq
  PROVE  TooOld(Earlier(i))'
<1>1. Earlier(i) \in Time \cup {NoTime}
  BY DEF TypeOK, Earlier, Attempt
<1> QED
  BY <1>1, StoreBoundAssumption, SeparateAssumption DEF TooOld, Earlier, Time, TypeOK

\* What maintenance has found out stays true until it acts on it.
LEMMA NextKeeperInv ==
  ASSUME IInv, Exclusive, [Next]_vars PROVE KeeperInv'
<1>0. TypeOK /\ KeeperInv
  BY DEF IInv
<1>1. ASSUME NEW w \in Writer, WriterStep(w) PROVE KeeperInv'
  <2>1. kpc' = "idle"
    BY <1>1, WriterHasTheFile
  <2> QED
    BY <2>1 DEF KeeperInv
<1>2. CASE Tick
  <2>1. /\ now' = now + 1 /\ kpc' = kpc /\ plan' = plan /\ released' = released
        /\ meta' = meta /\ acq' = acq
    BY <1>2 DEF Tick, rows, keeper
  <2>2. plan.entities \subseteq Id
    BY <1>0 DEF TypeOK, Plan
  <2>3. kpc = "planned" => \A i \in plan.entities : TooOld(Earlier(i))'
    BY <1>0, <2>1, <2>2, TooOldStays DEF KeeperInv
  <2>4. NextReleased' = NextReleased
    BY <2>1 DEF NextReleased
  <2> QED
    BY <1>0, <2>1, <2>3, <2>4 DEF KeeperInv
<1>3. CASE PlanRetention
  <2>1. /\ plan'.entities = {i \in Id : meta[i] # NoRow /\ TooOld(Earlier(i))}
        /\ kpc' = "planned" /\ now' = now /\ acq' = acq
    BY <1>3 DEF PlanRetention, rows
  <2> QED
    BY <2>1 DEF KeeperInv, TooOld, Earlier
<1>4. ASSUME NEW s \in Source, PruneRead(s) PROVE KeeperInv'
  BY <1>4 DEF PruneRead, KeeperInv
<1>5. CASE ExecuteRetention \/ KillKeeper
  BY <1>5 DEF ExecuteRetention, KillKeeper, Rest, KeeperInv
<1>6. CASE PruneSource
  BY <1>0, <1>6 DEF PruneSource, CollectNext, Rest, KeeperInv
<1>7. CASE CollectCheckProvider
  <2>1. CASE acq[NextReleased] # NoRow \/ meta[NextReleased] # NoRow
    BY <1>0, <1>7, <2>1 DEF CollectCheckProvider, KeepOrLook, CollectNext, Rest, KeeperInv
  <2>2. CASE ~(acq[NextReleased] # NoRow \/ meta[NextReleased] # NoRow)
    <3>1. /\ kpc' = "source" /\ plan' = plan /\ released' = released
          /\ meta' = meta /\ acq' = acq
      BY <1>7, <2>2 DEF CollectCheckProvider, KeepOrLook, rows
    <3>2. NextReleased' = NextReleased
      BY <3>1 DEF NextReleased
    <3>3. kpc = "provider"
      BY <1>7 DEF CollectCheckProvider
    <3> QED
      BY <1>0, <2>2, <3>1, <3>2, <3>3 DEF KeeperInv
  <2> QED
    BY <2>1, <2>2
<1>8. CASE CollectCheckSource
  <2>1. CASE SourceRefers(NextReleased)
    BY <1>0, <1>8, <2>1 DEF CollectCheckSource, KeepOrLook, CollectNext, Rest, KeeperInv
  <2>2. CASE ~SourceRefers(NextReleased)
    <3>1. /\ kpc' = "delete" /\ plan' = plan /\ released' = released
          /\ meta' = meta /\ acq' = acq
      BY <1>8, <2>2 DEF CollectCheckSource, KeepOrLook, rows
    <3>2. NextReleased' = NextReleased
      BY <3>1 DEF NextReleased
    <3>3. kpc = "source"
      BY <1>8 DEF CollectCheckSource
    <3> QED
      BY <1>0, <3>1, <3>2, <3>3 DEF KeeperInv
  <2> QED
    BY <2>1, <2>2
<1>9. CASE CollectDelete
  BY <1>0, <1>9 DEF CollectDelete, CollectNext, Rest, KeeperInv
<1>10. CASE UNCHANGED vars
  <2>1. /\ now' = now /\ kpc' = kpc /\ plan' = plan /\ released' = released
        /\ meta' = meta /\ acq' = acq
    BY <1>10 DEF vars, rows, keeper
  <2>2. NextReleased' = NextReleased
    BY <2>1 DEF NextReleased
  <2> QED
    BY <1>0, <2>1, <2>2 DEF KeeperInv, TooOld, Earlier
<1> QED
  BY <1>1, <1>2, <1>3, <1>4, <1>5, <1>6, <1>7, <1>8, <1>9, <1>10
     DEF Next, Finished, KeeperStep

-----------------------------------------------------------------------------
\* Under Exclusive, IInv is inductive.
LEMMA NextIInv ==
  ASSUME IInv, Exclusive, [Next]_vars PROVE IInv'
  BY NextTypeOK, NextAlone, NextJobInv, NextRowsInv, NextKeeperInv DEF IInv

\* Under Exclusive, IInv is an invariant of the store.
LEMMA Inductive ==
  ASSUME Exclusive PROVE Spec => []IInv
<1>1. Init => IInv
  BY InitIInv
<1>2. IInv /\ [Next]_vars => IInv'
  BY NextIInv
<1> QED
  BY <1>1, <1>2, PTL DEF Spec

\* Every reachable state of the store is well typed while maintenance and
\* writers do not run together.
THEOREM TypeCorrect == ASSUME Exclusive PROVE Spec => []TypeOK
<1>1. IInv => TypeOK
  BY DEF IInv
<1> QED
  BY <1>1, Inductive, PTL

\* However many writers share the file, whichever of them are killed and
\* whatever they overlap on, no metadata or collections row ever describes
\* another video than its entity (get_or_create_entity, prune_source_state).
THEOREM RowsKeepTheirVideo == ASSUME Exclusive PROVE Spec => []IdentityKept
<1>1. IInv => IdentityKept
  BY DEF IInv
<1> QED
  BY <1>1, Inductive, PTL

\* The consistency rule readers rely on (field_observation): a recorded success
\* has its metadata row, between any two commits of put_many as well.
THEOREM SuccessesHaveMetadata == ASSUME Exclusive PROVE Spec => []SuccessHasMetadata
<1>1. IInv => SuccessHasMetadata
  BY DEF IInv
<1> QED
  BY <1>1, Inductive, PTL

-----------------------------------------------------------------------------
\* Which metadata rows a step takes away.
LEMMA MetadataTaken ==
  ASSUME IInv, [Next]_vars, NEW i \in Id, meta[i] # NoRow, meta'[i] = NoRow
  PROVE  Earlier(i) # NoTime /\ Earlier(i) + MaxAge < now
<1>0. KeeperInv
  BY DEF IInv
<1>1. ASSUME NEW w \in Writer, WriterStep(w) PROVE FALSE
  BY <1>1, WriterRows
<1>2. CASE ExecuteRetention
  <2>1. kpc = "planned" /\ meta' = DropRows(meta, plan.entities)
    BY <1>2 DEF ExecuteRetention
  <2>2. i \in plan.entities
    BY <2>1 DEF DropRows
  <2> QED
    BY <1>0, <2>1, <2>2 DEF KeeperInv, TooOld
<1>3. CASE CollectDelete
  <2>1. kpc = "delete" /\ (meta' = meta \/ meta' = DropRows(meta, {NextReleased}))
    BY <1>3 DEF CollectDelete, rows
  <2>2. i = NextReleased
    BY <2>1 DEF DropRows
  <2> QED
    BY <1>0, <2>1, <2>2 DEF KeeperInv
<1>4. ASSUME \/ Tick \/ UNCHANGED vars \/ PlanRetention \/ PruneSource
             \/ CollectCheckProvider \/ CollectCheckSource \/ KillKeeper
             \/ \E s \in Source : PruneRead(s)
      PROVE  FALSE
  BY <1>4 DEF Tick, vars, rows, PlanRetention, PruneSource, CollectCheckProvider,
              CollectCheckSource, KillKeeper, PruneRead
<1> QED
  BY <1>1, <1>2, <1>3, <1>4 DEF Next, Finished, KeeperStep

\* Which entities a step takes away.
LEMMA EntityTaken ==
  ASSUME IInv, [Next]_vars, NEW i \in Id, entity[i] # NoVideo, entity'[i] = NoVideo
  PROVE  /\ meta[i] # NoRow \/ acq[i] # NoRow => kpc = "planned" /\ i \in plan.entities
         /\ \A s \in Source : i \in entries[s] \cup {head[s]} => s \in plan.sources
<1>0. TypeOK /\ KeeperInv
  BY DEF IInv
<1>1. ASSUME NEW w \in Writer, WriterStep(w) PROVE FALSE
  BY <1>1, WriterRows
<1>2. CASE ExecuteRetention
  <2> DEFINE stripped == plan.entities
             affected == {k \in stripped : meta[k] # NoRow \/ acq[k] # NoRow}
                         \cup Referenced(plan.sources)
             collected == {k \in affected :
                             /\ k \in stripped \/ (meta[k] = NoRow /\ acq[k] = NoRow)
                             /\ \A s \in Source : k \notin entries'[s] /\ k # head'[s]}
  <2>1. /\ kpc = "planned" /\ DropSources(plan.sources)
        /\ entity' = [k \in Id |-> IF k \in collected THEN NoVideo ELSE entity[k]]
    BY <1>2 DEF ExecuteRetention
  <2>2. i \in collected
    BY <2>1
  <2>3. /\ i \in stripped \/ (meta[i] = NoRow /\ acq[i] = NoRow)
        /\ \A s \in Source : i \notin entries'[s] /\ i # head'[s]
    BY <2>2
  <2>4. \A s \in Source : s \notin plan.sources =>
          entries'[s] = entries[s] /\ head'[s] = head[s]
    BY <2>1 DEF DropSources
  <2> QED
    BY <2>1, <2>3, <2>4
<1>3. CASE CollectDelete
  <2>1. /\ kpc = "delete" /\ ~SourceRefers(NextReleased)
        /\ entity' = [entity EXCEPT ![NextReleased] = NoVideo]
    BY <1>3 DEF CollectDelete, rows
  <2>2. i = NextReleased
    BY <1>0, <2>1 DEF TypeOK
  <2> QED
    BY <1>0, <2>1, <2>2 DEF KeeperInv, SourceRefers
<1>4. ASSUME \/ Tick \/ UNCHANGED vars \/ PlanRetention \/ PruneSource
             \/ CollectCheckProvider \/ CollectCheckSource \/ KillKeeper
             \/ \E s \in Source : PruneRead(s)
      PROVE  FALSE
  BY <1>4 DEF Tick, vars, rows, PlanRetention, PruneSource, CollectCheckProvider,
              CollectCheckSource, KillKeeper, PruneRead
<1> QED
  BY <1>1, <1>2, <1>3, <1>4 DEF Next, Finished, KeeperStep

\* Metadata young enough to be used is never taken away, by retention or by a
\* collection.  The clock may move on between a retention plan and its execution;
\* no writer does anything in between, which is what Exclusive says: eligibility is
\* not looked at again, and a plan beside a writer is not covered.
THEOREM YoungMetadataIsKept == ASSUME Exclusive PROVE Spec => YoungMetadataStays
<1>1. IInv /\ [Next]_vars =>
        [\A i \in Id : meta[i] # NoRow /\ meta'[i] = NoRow =>
           Earlier(i) # NoTime /\ Earlier(i) + MaxAge < now]_vars
  BY MetadataTaken
<1> QED
  BY <1>1, Inductive, PTL DEF Spec, YoungMetadataStays

\* Only released entities are collected, although the checks and the deletion
\* are separate transactions (collect_entity_if_unreferenced).
THEOREM OnlyReleasedAreCollected == ASSUME Exclusive PROVE Spec => CollectOnlyReleased
<1>1. IInv /\ [Next]_vars =>
        [\A i \in Id : entity[i] # NoVideo /\ entity'[i] = NoVideo =>
           /\ meta[i] # NoRow \/ acq[i] # NoRow => kpc = "planned" /\ i \in plan.entities
           /\ \A s \in Source : i \in entries[s] \cup {head[s]} => s \in plan.sources]_vars
  BY EntityTaken
<1> QED
  BY <1>1, Inductive, PTL DEF Spec, CollectOnlyReleased

-----------------------------------------------------------------------------
(* Ages, while no two jobs acquire the same video *)

\* The videos a job still has to write or is writing.
Claims(w) == Claimed(w) \cap Video
ListSteps == {"resolve", "replace", "head", "frontier", "source", "observe"}

\* A put is younger than every success of a video it still has to write, and
\* from its metadata to its success the metadata row is its own.
JobAge(w) ==
  /\ job[w].at <= now
  /\ job[w].pc = "idle" => Claims(w) = {}
  /\ job[w].pc \in {"entity", "meta", "coll"} => job[w].kind = "put"
  /\ job[w].pc \in ListSteps => job[w].kind = "list"
  /\ job[w].kind = "put" =>
       \A i \in Id : entity[i] \in Claims(w) /\ Earlier(i) # NoTime => Earlier(i) <= job[w].at
  /\ job[w].kind = "put" /\ job[w].pc \in {"check", "state"} =>
       meta[job[w].ent].at = job[w].at

Apart == \A w, x \in Writer : w # x => Claims(w) \cap Claims(x) = {}
SuccessesPast == \A i \in Id : Earlier(i) # NoTime => Earlier(i) <= now

\* The inductive invariant of the ages, beside IInv.
FreshInv == (\A w \in Writer : JobAge(w)) /\ Apart /\ SuccessesPast /\ FreshnessHonest

\* What an idle writer's job is.
LEMMA NoJobIs ==
  /\ NoJob.pc = "idle" /\ NoJob.kind = "put" /\ NoJob.queue = {} /\ NoJob.item = NoVideo
  /\ NoJob.at = 0
BY DEF NoJob

\* Nothing has been acquired at first.
LEMMA FreshInit == Init => FreshInv
<1> SUFFICES ASSUME Init PROVE FreshInv
  OBVIOUS
<1> USE SeparateAssumption, StoreBoundAssumption, NoRowAssumption
<1>1. \A i \in Id : Earlier(i) = NoTime
  BY DEF Init, Earlier
<1>2. \A w \in Writer : job[w] = NoJob
  BY DEF Init
<1>3. \A w \in Writer : Claims(w) = {}
  BY <1>2, NoJobIs DEF Claims, Claimed
<1>4. now = 0
  BY DEF Init
<1> QED
  BY <1>1, <1>2, <1>3, <1>4, NoJobIs
     DEF FreshInv, JobAge, Apart, SuccessesPast, FreshnessHonest, ListSteps

\* What has no video has no success.
LEMMA BareEntity ==
  ASSUME IInv, NEW i \in Id, entity[i] = NoVideo
  PROVE  Earlier(i) = NoTime
<1>1. meta[i] # NoRow => meta[i].video \in Video
  BY DEF IInv, TypeOK, Row
<1> QED
  BY <1>1, SeparateAssumption DEF IInv, IdentityKept, SuccessHasMetadata

\* A job that does not move and whose videos get no success keeps its age.
LEMMA QuietAge ==
  ASSUME NEW x \in Writer, JobAge(x), job'[x] = job[x], now' = now,
         \A i \in Id : entity'[i] \in Claims(x) =>
           \/ Earlier(i)' = NoTime
           \/ entity'[i] = entity[i] /\ Earlier(i)' = Earlier(i),
         job[x].kind = "put" /\ job[x].pc \in {"check", "state"} =>
           meta'[job[x].ent] = meta[job[x].ent]
  PROVE  JobAge(x)' /\ Claims(x)' = Claims(x)
<1>1. Claims(x)' = Claims(x)
  BY DEF Claims, Claimed
<1>2. /\ job'[x].at <= now'
      /\ job'[x].pc = "idle" => Claims(x)' = {}
      /\ job'[x].pc \in {"entity", "meta", "coll"} => job'[x].kind = "put"
      /\ job'[x].pc \in ListSteps => job'[x].kind = "list"
  BY <1>1 DEF JobAge
<1>3. ASSUME job'[x].kind = "put", NEW i \in Id, entity'[i] \in Claims(x)', Earlier(i)' # NoTime
      PROVE  Earlier(i)' <= job'[x].at
  BY <1>1, <1>3 DEF JobAge
<1>4. job'[x].kind = "put" /\ job'[x].pc \in {"check", "state"} =>
        meta'[job'[x].ent].at = job'[x].at
  BY DEF JobAge
<1> QED
  BY <1>1, <1>2, <1>3, <1>4 DEF JobAge

\* A step that writes no row keeps the ages of rows and of the other jobs.
LEMMA RowlessAges ==
  ASSUME IInv, FreshInv, NEW w \in Writer, WriterStep(w),
         meta' = meta, acq' = acq, now' = now
  PROVE  /\ SuccessesPast' /\ FreshnessHonest'
         /\ \A x \in Writer \ {w} : JobAge(x)' /\ Claims(x)' = Claims(x)
         /\ \A i \in Id : /\ Earlier(i)' = Earlier(i)
                          /\ entity'[i] = entity[i] \/ Earlier(i)' = NoTime
<1>1. \A i \in Id : Earlier(i)' = Earlier(i)
  BY DEF Earlier
<1>2. \A i \in Id : entity'[i] = entity[i] \/ Earlier(i)' = NoTime
  BY <1>1, BareEntity, WriterRows
<1>3. SuccessesPast' /\ FreshnessHonest'
  BY <1>1 DEF FreshInv, SuccessesPast, FreshnessHonest
<1>4. ASSUME NEW x \in Writer \ {w} PROVE JobAge(x)' /\ Claims(x)' = Claims(x)
  <2>1. JobAge(x) /\ job'[x] = job[x]
    BY WriterRows DEF FreshInv
  <2> QED
    BY <1>1, <1>2, <2>1, QuietAge
<1> QED
  BY <1>1, <1>2, <1>3, <1>4

\* With the other jobs as they were, the jobs stay apart if this one claims
\* no more than before.
LEMMA StillApart ==
  ASSUME FreshInv, NEW w \in Writer, Claims(w)' \subseteq Claims(w),
         \A x \in Writer \ {w} : Claims(x)' = Claims(x)
  PROVE  Apart'
BY DEF FreshInv, Apart

\* A job that stops claims nothing.
LEMMA StoppedAge ==
  ASSUME TypeOK, NEW w \in Writer, Stop(w), now' = now
  PROVE  JobAge(w)' /\ Claims(w)' = {}
<1>1. job'[w] = NoJob
  BY JobAfter
<1>2. Claims(w)' = {}
  BY <1>1, NoJobIs, SeparateAssumption DEF Claims, Claimed
<1>3. 0 <= now'
  BY StoreBoundAssumption DEF TypeOK, Time
<1> QED
  BY <1>1, <1>2, <1>3, NoJobIs DEF JobAge, ListSteps

\* A job that goes on without a row claims what it claimed.
LEMMA GoneAge ==
  ASSUME TypeOK, NEW w \in Writer, JobAge(w), NEW l, Goto(w, l), now' = now,
         l # "idle", l \in {"entity", "meta", "coll"} => job[w].kind = "put",
         l \in ListSteps => job[w].kind = "list",
         \A i \in Id : /\ Earlier(i)' = Earlier(i)
                       /\ entity'[i] = entity[i] \/ Earlier(i)' = NoTime,
         job[w].kind = "put" /\ l \in {"check", "state"} =>
           meta'[job[w].ent].at = job[w].at
  PROVE  JobAge(w)' /\ Claims(w)' = Claims(w)
<1>1. /\ job'[w].pc = l /\ job'[w].kind = job[w].kind /\ job'[w].item = job[w].item
      /\ job'[w].ent = job[w].ent
  BY GotoFields
<1>2. job'[w].at = job[w].at /\ job'[w].queue = job[w].queue
  <2>1. job[w] \in Job /\ job'[w] = [job[w] EXCEPT !.pc = l]
    BY JobAfter, JobFields
  <2> QED
    BY <2>1 DEF Job
<1>3. Claims(w)' = Claims(w)
  BY <1>1, <1>2 DEF Claims, Claimed
<1> QED
  BY <1>1, <1>2, <1>3 DEF JobAge

\* What a writer begins: its batch is nobody else's, and it is the youngest.
LEMMA BegunAge ==
  ASSUME IInv, FreshInv, ~Overlap, NEW w \in Writer, WriterStep(w), NEW batch, Begin(w, batch),
         meta' = meta, acq' = acq, now' = now,
         job'[w].at = now, Claims(w)' \subseteq batch,
         job'[w].pc \in {"entity", "check", "resolve", "replace"},
         job'[w].pc = "entity" => job'[w].kind = "put",
         job'[w].pc = "check" => job'[w].kind = "fail",
         job'[w].pc \in {"resolve", "replace"} => job'[w].kind = "list"
  PROVE  FreshInv'
<1>1. /\ SuccessesPast' /\ FreshnessHonest'
      /\ \A x \in Writer \ {w} : JobAge(x)' /\ Claims(x)' = Claims(x)
  BY RowlessAges
<1>2. now \in Nat
  BY StoreBoundAssumption DEF IInv, TypeOK, Time
<1>3. JobAge(w)'
  BY <1>1, <1>2 DEF JobAge, ListSteps, SuccessesPast
<1>4. \A x \in Writer \ {w} : Claims(x)' \cap Claims(w)' = {}
  <2>1. \A x \in Writer \ {w} : Claimed(x) \cap batch = {}
    BY DEF Begin
  <2> QED
    BY <1>1, <2>1 DEF Claims
<1>5. Apart'
  BY <1>1, <1>4 DEF FreshInv, Apart
<1> QED
  BY <1>1, <1>3, <1>5 DEF FreshInv

\* The three ways to begin a job keep the ages.
LEMMA BeginFresh ==
  ASSUME IInv, FreshInv, ~Overlap, NEW w \in Writer, WriterStep(w),
         \/ \E batch \in SUBSET Video : PutBegin(w, batch)
         \/ \E i \in Id : FailBegin(w, i)
         \/ \E s \in Source, listing \in SUBSET Video : ListBegin(w, s, listing)
  PROVE  FreshInv'
<1> USE SeparateAssumption
<1>0. TypeOK
  BY DEF IInv
<1>1. ASSUME NEW batch \in SUBSET Video, PutBegin(w, batch) PROVE FreshInv'
  <2>1. /\ Begin(w, batch) /\ meta' = meta /\ acq' = acq /\ now' = now
        /\ job'[w] = [NoJob EXCEPT !.pc = "entity", !.queue = batch, !.at = now]
    BY <1>0, <1>1, JobAfter DEF PutBegin, rows
  <2>2. /\ job'[w].pc = "entity" /\ job'[w].queue = batch /\ job'[w].at = now
        /\ job'[w].kind = "put" /\ job'[w].item = NoVideo
    BY <2>1 DEF NoJob
  <2>3. Claims(w)' \subseteq batch
    BY <2>2 DEF Claims, Claimed
  <2> QED
    BY <2>1, <2>2, <2>3, BegunAge
<1>2. ASSUME NEW i \in Id, FailBegin(w, i) PROVE FreshInv'
  <2>1. /\ Begin(w, {entity[i]}) /\ meta' = meta /\ acq' = acq /\ now' = now
        /\ job'[w] = [NoJob EXCEPT !.pc = "check", !.kind = "fail", !.item = entity[i],
                                   !.ent = i, !.at = now]
    BY <1>0, <1>2, JobAfter DEF FailBegin, rows
  <2>2. /\ job'[w].pc = "check" /\ job'[w].queue = {} /\ job'[w].at = now
        /\ job'[w].kind = "fail" /\ job'[w].item = entity[i]
    BY <2>1 DEF NoJob
  <2>3. Claims(w)' \subseteq {entity[i]}
    BY <2>2 DEF Claims, Claimed
  <2> QED
    BY <2>1, <2>2, <2>3, BegunAge
<1>3. ASSUME NEW s \in Source, NEW listing \in SUBSET Video, ListBegin(w, s, listing)
      PROVE  FreshInv'
  <2>1. /\ Begin(w, {}) /\ meta' = meta /\ acq' = acq /\ now' = now
        /\ job'[w] = [NoJob EXCEPT !.pc = IF listing = {} THEN "replace" ELSE "resolve",
                                   !.kind = "list", !.queue = listing, !.at = now, !.source = s]
    BY <1>0, <1>3, JobAfter DEF ListBegin, rows
  <2>2. job'[w].pc \in {"resolve", "replace"} /\ job'[w].at = now /\ job'[w].kind = "list"
    BY <2>1 DEF NoJob
  <2>3. Claims(w)' \subseteq {}
    BY <2>2 DEF Claims, Claimed
  <2> QED
    BY <2>1, <2>2, <2>3, BegunAge
<1> QED
  BY <1>1, <1>2, <1>3

\* The statements of a job that write no row of a video.
LEMMA RowlessFresh ==
  ASSUME IInv, FreshInv, NEW w \in Writer, WriterStep(w),
         \/ PutEntity(w) \/ CheckAttempt(w) \/ PutCollections(w) \/ Kill(w)
         \/ ListResolve(w) \/ ListReplace(w) \/ ListHead(w) \/ ListFrontier(w)
         \/ ListSource(w) \/ ListObserve(w)
  PROVE  FreshInv'
<1>0. TypeOK /\ JobAge(w) /\ InHand(w)
  BY DEF IInv, JobInv, FreshInv
<1>1. meta' = meta /\ acq' = acq /\ now' = now
  BY DEF PutEntity, CheckAttempt, PutCollections, Kill, ListResolve, ListReplace, ListHead,
         ListFrontier, ListSource, ListObserve, rows
<1>2. /\ SuccessesPast' /\ FreshnessHonest'
      /\ \A x \in Writer \ {w} : JobAge(x)' /\ Claims(x)' = Claims(x)
      /\ \A i \in Id : /\ Earlier(i)' = Earlier(i)
                       /\ entity'[i] = entity[i] \/ Earlier(i)' = NoTime
  BY <1>1, RowlessAges
<1>3. SUFFICES JobAge(w)' /\ Claims(w)' \subseteq Claims(w)
  BY <1>2, StillApart DEF FreshInv
<1>4. CASE Stop(w)
  BY <1>0, <1>1, <1>4, StoppedAge
<1>5. CASE PutEntity(w)
  <2>1. PICK v \in job[w].queue, i \in Id :
           Start(w, [job[w] EXCEPT !.pc = "meta", !.queue = @ \ {v}, !.item = v, !.ent = i])
    BY <1>5 DEF PutEntity
  <2>2. job[w] \in Job /\ job[w].pc = "entity"
    BY <1>0, <1>5, JobFields DEF PutEntity, At
  <2>3. job'[w] = [job[w] EXCEPT !.pc = "meta", !.queue = @ \ {v}, !.item = v, !.ent = i]
    BY <1>0, <2>1, JobAfter
  <2>4. /\ job'[w].pc = "meta" /\ job'[w].queue = job[w].queue \ {v} /\ job'[w].item = v
        /\ job'[w].kind = job[w].kind /\ job'[w].at = job[w].at
    BY <2>2, <2>3 DEF Job
  <2>5. Claims(w)' \subseteq Claims(w)
    BY <2>1, <2>4, <2>2, <1>0 DEF Claims, Claimed, JobAge
  <2> QED
    BY <1>0, <1>1, <1>2, <2>2, <2>4, <2>5 DEF JobAge, ListSteps
<1>6. CASE CheckAttempt(w)
  <2>1. job[w].pc = "check" /\ (Stop(w) \/ Goto(w, "state"))
    BY <1>6 DEF CheckAttempt, At
  <2>2. CASE Goto(w, "state")
    <3>1. job[w].kind = "put" => meta'[job[w].ent].at = job[w].at
      BY <1>0, <1>1, <2>1 DEF JobAge
    <3> QED
      BY <1>0, <1>1, <1>2, <2>2, <3>1, GoneAge DEF ListSteps
  <2> QED
    BY <1>4, <2>1, <2>2
<1>7. CASE PutCollections(w)
  <2>1. job[w].pc = "coll" /\ (Stop(w) \/ Goto(w, "entity"))
    BY <1>7 DEF PutCollections, At
  <2>2. job[w].kind = "put"
    BY <1>0, <2>1 DEF JobAge
  <2>3. CASE Goto(w, "entity")
    BY <1>0, <1>1, <1>2, <2>2, <2>3, GoneAge DEF ListSteps
  <2> QED
    BY <1>4, <2>1, <2>3
<1>8. CASE ListReplace(w) \/ ListFrontier(w) \/ ListSource(w) \/ ListObserve(w)
  <2>1. job[w].pc \in ListSteps /\ (Stop(w) \/ \E l \in ListSteps : Goto(w, l))
    BY <1>8 DEF ListReplace, ListFrontier, ListSource, ListObserve, At, ListSteps
  <2>2. job[w].kind = "list"
    BY <1>0, <2>1 DEF JobAge
  <2>3. ASSUME NEW l \in ListSteps, Goto(w, l) PROVE JobAge(w)' /\ Claims(w)' \subseteq Claims(w)
    BY <1>0, <1>1, <1>2, <2>2, <2>3, GoneAge DEF ListSteps
  <2> QED
    BY <1>4, <2>1, <2>3
<1>9. CASE ListResolve(w) \/ ListHead(w)
  <2>1. job[w].kind = "list" /\ job[w] \in Job
    BY <1>0, <1>9, JobFields DEF ListResolve, ListHead, At, ListSteps, JobAge
  <2>2. /\ job'[w].pc \in ListSteps /\ job'[w].kind = "list" /\ job'[w].at = job[w].at
    <3>1. CASE ListResolve(w)
      <4>1. PICK v \in job[w].queue, i \in Id :
              Start(w, [job[w] EXCEPT
                   !.pc = IF job[w].queue = {v} THEN "replace" ELSE "resolve",
                   !.queue = @ \ {v},
                   !.item = IF job[w].ids = {} THEN v ELSE @,
                   !.ids = @ \cup {i}])
        BY <3>1 DEF ListResolve
      <4>2. job'[w] = [job[w] EXCEPT
                   !.pc = IF job[w].queue = {v} THEN "replace" ELSE "resolve",
                   !.queue = @ \ {v},
                   !.item = IF job[w].ids = {} THEN v ELSE @,
                   !.ids = @ \cup {i}]
        BY <1>0, <4>1, JobAfter
      <4> QED
        BY <2>1, <4>2 DEF Job, ListSteps
    <3>2. CASE ListHead(w)
      <4>1. CASE Goto(w, "frontier")
        <5>1. job'[w] = [job[w] EXCEPT !.pc = "frontier"]
          BY <1>0, <4>1, JobAfter
        <5> QED
          BY <2>1, <5>1 DEF Job, ListSteps
      <4>2. ASSUME NEW i \in Id, Start(w, [job[w] EXCEPT !.pc = "frontier", !.ent = i, !.ids = {}])
            PROVE  job'[w].pc \in ListSteps /\ job'[w].kind = "list" /\ job'[w].at = job[w].at
        <5>1. job'[w] = [job[w] EXCEPT !.pc = "frontier", !.ent = i, !.ids = {}]
          BY <1>0, <4>2, JobAfter
        <5> QED
          BY <2>1, <5>1 DEF Job, ListSteps
      <4> QED
        BY <3>2, <4>1, <4>2 DEF ListHead
    <3> QED
      BY <1>9, <3>1, <3>2
  <2>3. Claims(w)' = {}
    BY <2>2 DEF Claims, Claimed
  <2> QED
    BY <1>0, <1>1, <2>2, <2>3 DEF JobAge, ListSteps
<1>10. CASE Kill(w)
  BY <1>4, <1>10 DEF Kill
<1> QED
  BY <1>5, <1>6, <1>7, <1>8, <1>9, <1>10

\* What a put has in hand it claims, so the entity is nobody else's.
LEMMA HandIsClaimed ==
  ASSUME IInv, FreshInv, NEW w \in Writer,
         job[w].pc \in {"meta", "check", "state", "coll"}, job[w].kind # "list"
  PROVE  /\ job[w].ent \in Id /\ entity[job[w].ent] \in Claims(w)
         /\ \A x \in Writer \ {w} : entity[job[w].ent] \notin Claims(x)
<1>1. job[w].ent \in Id /\ job[w].item \in Video /\ entity[job[w].ent] = job[w].item
  BY DEF IInv, JobInv, InHand
<1>2. job[w].item \in Claims(w)
  BY <1>1 DEF Claims, Claimed
<1> QED
  BY <1>1, <1>2 DEF FreshInv, Apart

\* Metadata written for a video is no older than its last success.
LEMMA PutMetaFresh ==
  ASSUME IInv, FreshInv, ~OddValues, NEW w \in Writer, PutMeta(w), Exists(job[w].ent)
  PROVE  FreshInv'
<1> DEFINE e == job[w].ent
           row == [video |-> job[w].item, at |-> job[w].at]
<1>0. TypeOK /\ JobAge(w)
  BY DEF IInv, FreshInv
<1>1. /\ job[w].pc = "meta" /\ job[w].kind = "put" /\ job[w] \in Job
      /\ meta' = [meta EXCEPT ![e] = row] /\ Goto(w, "check")
      /\ entity' = entity /\ acq' = acq /\ now' = now
  BY <1>0, JobFields DEF PutMeta, Upsert, Oldest, At, JobAge
<1>2. /\ e \in Id /\ entity[e] \in Claims(w)
      /\ \A x \in Writer \ {w} : entity[e] \notin Claims(x)
  BY <1>1, HandIsClaimed
<1>3. meta'[e] = row /\ row.at = job[w].at /\ \A i \in Id \ {e} : meta'[i] = meta[i]
  BY <1>0, <1>1, <1>2 DEF TypeOK
<1> HIDE DEF e, row
<1>4. \A i \in Id : Earlier(i)' = Earlier(i)
  BY <1>1 DEF Earlier
<1>5. JobAge(w)' /\ Claims(w)' = Claims(w)
  BY <1>0, <1>1, <1>3, <1>4, GoneAge DEF ListSteps, e
<1>6. ASSUME NEW x \in Writer \ {w} PROVE JobAge(x)' /\ Claims(x)' = Claims(x)
  <2>1. JobAge(x) /\ job'[x] = job[x]
    BY <1>0, <1>1, JobAfter DEF FreshInv
  <2>2. ASSUME job[x].kind = "put", job[x].pc \in {"check", "state"}
        PROVE  meta'[job[x].ent] = meta[job[x].ent]
    <3>1. job[x].ent \in Id /\ entity[job[x].ent] \in Claims(x)
      BY <2>2, HandIsClaimed
    <3> QED
      BY <1>2, <1>3, <3>1
  <2> QED
    BY <1>1, <1>4, <2>1, <2>2, QuietAge
<1>7. SuccessesPast'
  BY <1>1, <1>4 DEF FreshInv, SuccessesPast
<1>8. FreshnessHonest'
  <2>1. Earlier(e) # NoTime => Earlier(e) <= job[w].at
    BY <1>0, <1>1, <1>2 DEF JobAge
  <2> QED
    BY <1>3, <1>4, <2>1 DEF FreshInv, FreshnessHonest
<1> QED
  BY <1>5, <1>6, <1>7, <1>8, StillApart DEF FreshInv

\* A success is as old as the metadata written just before it.
LEMMA PutSuccessFresh ==
  ASSUME IInv, FreshInv, NEW w \in Writer, PutSuccess(w), Exists(job[w].ent)
  PROVE  FreshInv'
<1> DEFINE row == [outcome |-> "success", attempt |-> job[w].at, success |-> job[w].at]
<1>0. TypeOK /\ JobAge(w)
  BY DEF IInv, FreshInv
<1>e. PICK e \in Id : e = job[w].ent /\ job[w].pc = "state" /\ job[w].kind = "put"
  BY HandIsClaimed DEF PutSuccess, At
<1>1. /\ job[w].pc = "state" /\ job[w].kind = "put" /\ job[w] \in Job
      /\ acq' = [acq EXCEPT ![e] = row] /\ Goto(w, "coll")
      /\ entity' = entity /\ meta' = meta /\ now' = now
  BY <1>0, <1>e, JobFields DEF PutSuccess, At
<1>2. /\ e \in Id /\ entity[e] \in Claims(w)
      /\ \A x \in Writer \ {w} : entity[e] \notin Claims(x)
  BY <1>1, <1>e, HandIsClaimed
<1>3. acq'[e] = row /\ row.success = job[w].at /\ \A i \in Id \ {e} : acq'[i] = acq[i]
  BY <1>0, <1>1, <1>2 DEF TypeOK
<1>4. job[w].at \in Nat /\ job[w].at <= now /\ meta[e].at = job[w].at
  BY <1>0, <1>e, <1>1, StoreBoundAssumption, JobFields DEF JobAge, Time
<1>5. /\ Earlier(e)' \in {job[w].at, NoTime} /\ \A i \in Id \ {e} : Earlier(i)' = Earlier(i)
  BY <1>3 DEF Earlier
<1>6. /\ job'[w].pc = "coll" /\ job'[w].kind = "put" /\ job'[w].at = job[w].at
      /\ Claims(w)' = Claims(w)
  <2>1. job'[w] = [job[w] EXCEPT !.pc = "coll"]
    BY <1>0, <1>1, JobAfter
  <2>2. /\ job'[w].pc = "coll" /\ job'[w].kind = "put" /\ job'[w].at = job[w].at
        /\ job'[w].queue = job[w].queue /\ job'[w].item = job[w].item
    BY <1>1, <2>1 DEF Job
  <2> QED
    BY <1>1, <2>2 DEF Claims, Claimed
<1> HIDE DEF row
<1>7. JobAge(w)'
  BY <1>0, <1>1, <1>4, <1>5, <1>6 DEF JobAge, ListSteps
<1>8. ASSUME NEW x \in Writer \ {w} PROVE JobAge(x)' /\ Claims(x)' = Claims(x)
  <2>1. JobAge(x) /\ job'[x] = job[x]
    BY <1>0, <1>1, JobAfter DEF FreshInv
  <2> QED
    BY <1>1, <1>2, <1>5, <2>1, QuietAge
<1>9. SuccessesPast'
  BY <1>1, <1>4, <1>5 DEF FreshInv, SuccessesPast
<1>10. FreshnessHonest'
  BY <1>1, <1>4, <1>5 DEF FreshInv, FreshnessHonest
<1> QED
  BY <1>6, <1>7, <1>8, <1>9, <1>10, StillApart DEF FreshInv

\* A failure leaves the time of the last success as it was.
LEMMA PutFailureFresh ==
  ASSUME IInv, FreshInv, NEW w \in Writer, PutFailure(w)
  PROVE  FreshInv'
<1>0. TypeOK
  BY DEF IInv
<1>1. entity' = entity /\ meta' = meta /\ now' = now /\ Stop(w)
  BY DEF PutFailure
<1>2. \A i \in Id : Earlier(i)' = Earlier(i) \/ Earlier(i)' = NoTime
  BY <1>0 DEF PutFailure, TypeOK, Earlier
<1>3. JobAge(w)' /\ Claims(w)' = {}
  BY <1>0, <1>1, StoppedAge
<1>4. ASSUME NEW x \in Writer \ {w} PROVE JobAge(x)' /\ Claims(x)' = Claims(x)
  <2>1. JobAge(x) /\ job'[x] = job[x]
    BY <1>0, <1>1, JobAfter DEF FreshInv
  <2> QED
    BY <1>1, <1>2, <2>1, QuietAge
<1>5. SuccessesPast' /\ FreshnessHonest'
  BY <1>1, <1>2 DEF FreshInv, SuccessesPast, FreshnessHonest
<1> QED
  BY <1>3, <1>4, <1>5, StillApart DEF FreshInv

\* Every step of a writer keeps the ages.
LEMMA WriterFresh ==
  ASSUME IInv, FreshInv, ~Overlap, ~OddValues, NEW w \in Writer, WriterStep(w)
  PROVE  FreshInv'
<1>0. TypeOK
  BY DEF IInv
<1>1. ASSUME PutMeta(w) \/ PutSuccess(w), ~Exists(job[w].ent) PROVE FreshInv'
  <2>1. Stop(w) /\ meta' = meta /\ acq' = acq /\ now' = now
    BY <1>1 DEF PutMeta, PutSuccess
  <2>2. JobAge(w)' /\ Claims(w)' = {}
    BY <1>0, <2>1, StoppedAge
  <2> QED
    BY <2>1, <2>2, RowlessAges, StillApart DEF FreshInv
<1> QED
  BY <1>1, BeginFresh, RowlessFresh, PutMetaFresh, PutSuccessFresh, PutFailureFresh
     DEF WriterStep, Advance

\* Maintenance finds no job at work, and takes rows away.
LEMMA KeeperFresh ==
  ASSUME IInv, FreshInv, Exclusive, KeeperStep
  PROVE  FreshInv'
<1>0. TypeOK
  BY DEF IInv
<1>1. job' = job /\ \A w \in Writer : job[w].pc = "idle"
  BY KeeperHasTheFile
<1>2. now' = now
  BY DEF KeeperStep, PlanRetention, ExecuteRetention, PruneRead, PruneSource,
         CollectCheckProvider, CollectCheckSource, CollectDelete, KillKeeper
<1>3. \A i \in Id : /\ acq'[i] \in {acq[i], NoRow} /\ meta'[i] \in {meta[i], NoRow}
  BY <1>0 DEF KeeperStep, PlanRetention, ExecuteRetention, PruneRead, PruneSource,
         CollectCheckProvider, CollectCheckSource, CollectDelete, KillKeeper, DropRows, rows
<1>4. \A i \in Id : Earlier(i)' = Earlier(i) \/ Earlier(i)' = NoTime
  BY <1>3 DEF Earlier
<1>5. SuccessesPast' /\ FreshnessHonest'
  BY <1>2, <1>3, <1>4 DEF FreshInv, SuccessesPast, FreshnessHonest
<1>6. ASSUME NEW w \in Writer PROVE JobAge(w)' /\ Claims(w)' = Claims(w)
  <2>1. JobAge(w) /\ Claims(w) = {}
    BY <1>1 DEF FreshInv, JobAge
  <2> QED
    BY <1>1, <1>2, <2>1, QuietAge
<1>7. Apart'
  BY <1>6 DEF FreshInv, Apart
<1> QED
  BY <1>5, <1>6, <1>7 DEF FreshInv

\* Every step keeps the ages.
LEMMA NextFresh ==
  ASSUME IInv, FreshInv, Exclusive, ~Overlap, ~OddValues, [Next]_vars
  PROVE  FreshInv'
<1>1. CASE Tick
  <2>1. /\ now' = now + 1 /\ now \in Nat /\ job' = job /\ entity' = entity
        /\ meta' = meta /\ acq' = acq
    BY <1>1, StoreBoundAssumption DEF Tick, rows, IInv, TypeOK, Time
  <2>2. \A i \in Id : /\ Earlier(i)' = Earlier(i)
                      /\ Earlier(i) \in Nat \cup {NoTime}
    BY <2>1, StoreBoundAssumption DEF Earlier, IInv, TypeOK, Attempt, Time
  <2>3. \A w \in Writer : job[w].at \in Nat
    BY JobFields, StoreBoundAssumption DEF IInv, Time
  <2>4. SuccessesPast' /\ FreshnessHonest'
    BY <2>1, <2>2 DEF FreshInv, SuccessesPast, FreshnessHonest
  <2>5. \A w \in Writer : Claims(w)' = Claims(w)
    BY <2>1 DEF Claims, Claimed
  <2>6. ASSUME NEW w \in Writer PROVE JobAge(w)'
    BY <2>1, <2>2, <2>3, <2>5 DEF FreshInv, JobAge
  <2>7. Apart'
    BY <2>5 DEF FreshInv, Apart
  <2> QED
    BY <2>4, <2>6, <2>7 DEF FreshInv
<1>2. CASE UNCHANGED vars
  <2>1. now' = now /\ job' = job /\ entity' = entity /\ meta' = meta /\ acq' = acq
    BY <1>2 DEF vars, rows
  <2> QED
    BY <2>1 DEF FreshInv, JobAge, Claims, Claimed, Apart, SuccessesPast, FreshnessHonest, Earlier
<1> QED
  BY <1>1, <1>2, WriterFresh, KeeperFresh DEF Next, Finished

\* The time of the last success is never later than the values it stands for,
\* as long as two connections do not acquire the same video at once and every
\* value a record has for a scalar field is a scalar: failed attempts, kills
\* between the four commits of put_many, retention and pruning included.  The
\* disagreement EntityStoreStamp.cfg shows needs the overlap or an odd value.
THEOREM FreshUnlessOverlapping ==
  ASSUME Exclusive, ~Overlap, ~OddValues PROVE Spec => []FreshnessHonest
<1>1. Init => IInv /\ FreshInv
  BY InitIInv, FreshInit
<1>2. IInv /\ FreshInv /\ [Next]_vars => (IInv /\ FreshInv)'
  BY NextIInv, NextFresh
<1>3. FreshInv => FreshnessHonest
  BY DEF FreshInv
<1> QED
  BY <1>1, <1>2, <1>3, PTL DEF Spec

-----------------------------------------------------------------------------
(* Readers: no video is stored twice, and no listing names what is gone *)

NamedOnce == \A i, j \in Id : entity[i] = entity[j] /\ entity[i] # NoVideo => i = j
ReferredExist == \A i \in Id : SourceRefers(i) => entity[i] # NoVideo
RefInv == NamedOnce /\ ReferredExist

\* GetOrCreate takes a free rowid, and only for a video that has none.
LEMMA GetOrCreateOnce ==
  ASSUME TypeOK, RefInv, NEW v \in Video, NEW i \in Id, GetOrCreate(v, i),
         entries' = entries, head' = head
  PROVE  RefInv'
<1>1. CASE entity[i] = v /\ UNCHANGED entity
  BY <1>1 DEF RefInv, NamedOnce, ReferredExist, SourceRefers
<1>2. CASE /\ \A j \in Id : entity[j] # v
           /\ entity' = [entity EXCEPT ![i] = v]
  <2>1. entity'[i] = v /\ \A j \in Id \ {i} : entity'[j] = entity[j]
    BY <1>2 DEF TypeOK
  <2>2. NamedOnce'
    BY <1>2, <2>1 DEF RefInv, NamedOnce
  <2>3. ReferredExist'
    BY <2>1, SeparateAssumption DEF RefInv, ReferredExist, SourceRefers
  <2> QED
    BY <2>2, <2>3 DEF RefInv
<1> QED
  BY <1>1, <1>2 DEF GetOrCreate

\* Entities only go where nothing refers to them.
LEMMA FewerEntities ==
  ASSUME RefInv,
         \A i \in Id : entity'[i] \in {entity[i], NoVideo},
         \A i \in Id : SourceRefers(i)' => SourceRefers(i) /\ entity'[i] = entity[i]
  PROVE  RefInv'
<1>1. NamedOnce'
  BY DEF RefInv, NamedOnce
<1>2. ReferredExist'
  BY DEF RefInv, ReferredExist
<1> QED
  BY <1>1, <1>2 DEF RefInv

\* Dropping sources takes references away.
LEMMA DroppedRefer ==
  ASSUME NEW gone, DropSources(gone)
  PROVE  \A i \in Id : SourceRefers(i)' => SourceRefers(i)
<1> SUFFICES ASSUME NEW i \in Id, NEW s \in Source, i \in entries'[s] \/ i = head'[s]
             PROVE  i \in entries[s] \/ i = head[s]
  BY DEF SourceRefers
<1> QED
  BY StoreBoundAssumption DEF DropSources, Id, NoId

\* Every step keeps the names apart and the references good.
LEMMA NextRefInv ==
  ASSUME IInv, RefInv, [Next]_vars PROVE RefInv'
<1> USE DEF rows, sources
<1>0. TypeOK /\ JobInv
  BY DEF IInv
<1>1. ASSUME entity' = entity, \A i \in Id : SourceRefers(i)' => SourceRefers(i)
      PROVE  RefInv'
  BY <1>1, FewerEntities
<1>2. ASSUME UNCHANGED <<entity, entries, head>> PROVE RefInv'
  BY <1>1, <1>2 DEF SourceRefers
<1>3. ASSUME NEW w \in Writer, PutEntity(w) PROVE RefInv'
  BY <1>0, <1>3, GetOrCreateOnce, JobFields DEF PutEntity
<1>4. ASSUME NEW w \in Writer, ListResolve(w) PROVE RefInv'
  BY <1>0, <1>4, GetOrCreateOnce, JobFields DEF ListResolve
<1>5. ASSUME NEW w \in Writer, ListHead(w) PROVE RefInv'
  <2>1. job[w].item # NoVideo => job[w].item \in Video
    BY <1>0, JobFields
  <2>2. CASE UNCHANGED entity
    BY <1>2, <1>5, <2>2 DEF ListHead
  <2> QED
    BY <1>0, <1>5, <2>1, <2>2, GetOrCreateOnce DEF ListHead
<1>6. ASSUME NEW w \in Writer, ListReplace(w) PROVE RefInv'
  <2>1. entity' = entity /\ head' = head
    BY <1>6 DEF ListReplace
  <2>2. \A i \in Id : SourceRefers(i)' => SourceRefers(i) \/ entity[i] # NoVideo
    BY <1>0, <1>6, <2>1 DEF ListReplace, SourceRefers, Exists, TypeOK
  <2> QED
    BY <2>1, <2>2 DEF RefInv, NamedOnce, ReferredExist
<1>7. ASSUME NEW w \in Writer, ListFrontier(w) PROVE RefInv'
  <2>1. entity' = entity /\ entries' = entries
    BY <1>7 DEF ListFrontier
  <2>2. \A i \in Id : SourceRefers(i)' => SourceRefers(i) \/ entity[i] # NoVideo
    BY <1>0, <1>7, <2>1, StoreBoundAssumption DEF ListFrontier, SourceRefers, Exists, TypeOK, Id, NoId
  <2> QED
    BY <2>1, <2>2 DEF RefInv, NamedOnce, ReferredExist
<1>8. ASSUME NEW w \in Writer, WriterStep(w) PROVE RefInv'
  <2>1. CASE PutEntity(w) \/ ListResolve(w) \/ ListHead(w) \/ ListReplace(w) \/ ListFrontier(w)
    BY <1>3, <1>4, <1>5, <1>6, <1>7, <2>1
  <2>2. ASSUME NEW s, NEW listing, ListBegin(w, s, listing) PROVE RefInv'
    BY <1>2, <2>2 DEF ListBegin
  <2> QED
    BY <1>2, <1>8, <2>1, <2>2
       DEF WriterStep, Advance, PutBegin, FailBegin, PutMeta, CheckAttempt, PutSuccess,
           PutFailure, PutCollections, ListSource, ListObserve, Kill
<1>9. CASE ExecuteRetention
  <2>1. PICK collected \in SUBSET Id :
          /\ \A i \in collected, s \in Source : i \notin entries'[s] /\ i # head'[s]
          /\ entity' = [i \in Id |-> IF i \in collected THEN NoVideo ELSE entity[i]]
    <3> DEFINE stripped == plan.entities
               affected == {i \in stripped : meta[i] # NoRow \/ acq[i] # NoRow}
                           \cup Referenced(plan.sources)
               collected == {i \in affected :
                               /\ i \in stripped \/ (meta[i] = NoRow /\ acq[i] = NoRow)
                               /\ \A s \in Source : i \notin entries'[s] /\ i # head'[s]}
    <3>1. entity' = [i \in Id |-> IF i \in collected THEN NoVideo ELSE entity[i]]
      BY <1>9 DEF ExecuteRetention
    <3> WITNESS collected \cap Id \in SUBSET Id
    <3> QED
      BY <3>1
  <2>2. \A i \in Id : SourceRefers(i)' => SourceRefers(i)
    BY <1>9, DroppedRefer DEF ExecuteRetention
  <2> QED
    BY <2>1, <2>2, FewerEntities DEF SourceRefers
<1>10. CASE PruneSource
  BY <1>1, <1>10, DroppedRefer DEF PruneSource
<1>11. CASE CollectDelete
  <2>1. \A i \in Id : SourceRefers(i)' = SourceRefers(i)
    BY <1>11 DEF CollectDelete, SourceRefers
  <2>2. CASE SourceRefers(NextReleased)
    BY <1>2, <1>11, <2>2 DEF CollectDelete
  <2>3. CASE ~SourceRefers(NextReleased)
    <3>1. entity' = [entity EXCEPT ![NextReleased] = NoVideo]
      BY <1>11, <2>3 DEF CollectDelete
    <3> QED
      BY <1>0, <2>1, <2>3, <3>1, FewerEntities DEF TypeOK
  <2> QED
    BY <2>2, <2>3
<1>12. CASE KeeperStep
  <2>1. ASSUME NEW s, PruneRead(s) PROVE RefInv'
    BY <1>2, <2>1 DEF PruneRead
  <2> QED
    BY <1>2, <1>9, <1>10, <1>11, <1>12, <2>1
       DEF KeeperStep, PlanRetention, CollectCheckProvider, CollectCheckSource, KillKeeper
<1>13. CASE Tick \/ UNCHANGED vars
  BY <1>2, <1>13 DEF Tick, vars
<1> QED
  BY <1>8, <1>12, <1>13 DEF Next, Finished

\* Under Exclusive, RefInv holds along with IInv.
LEMMA RefInductive ==
  ASSUME Exclusive PROVE Spec => [](IInv /\ RefInv)
<1>1. Init => IInv /\ RefInv
  <2>1. Init => NamedOnce
    BY DEF Init, NamedOnce
  <2>2. Init => ReferredExist
    BY StoreBoundAssumption DEF Init, ReferredExist, SourceRefers, Id, NoId
  <2> QED
    BY <2>1, <2>2, InitIInv DEF RefInv
<1>2. IInv /\ RefInv /\ [Next]_vars => (IInv /\ RefInv)'
  BY NextIInv, NextRefInv
<1> QED
  BY <1>1, <1>2, PTL DEF Spec

\* field_observation never raises RegistryContractError, and a lookup by video
\* finds at most one record, whose metadata row is there and is that video's.
ReadersServed ==
  /\ \A i \in Id : Observation(i) # "contract_error"
  /\ \A v \in Video : \A c \in CachedItem(v) : c.values # NoRow /\ c.values.video = v
  /\ \A v \in Video : \A c, d \in CachedItem(v) : c = d

\* Every entry of a listing has its name, and count_source_records (which the
\* coverage row of a source is computed from) counts what source_records returns.
ListingsAgree ==
  \A s \in Source : Named(s) = entries[s] /\ Recorded(s) = Counted(s)

\* However writers overlap and whichever is killed, as long as maintenance runs
\* alone: readers always find what an acquisition state promises.
THEOREM ReadersAreServed == ASSUME Exclusive PROVE Spec => []ReadersServed
<1>1. IInv /\ RefInv => ReadersServed
  <2> SUFFICES ASSUME IInv, RefInv PROVE ReadersServed
    OBVIOUS
  <2>1. \A i \in Id : Observation(i) # "contract_error"
    BY DEF IInv, SuccessHasMetadata, Observation, Stale
  <2>2. ASSUME NEW v \in Video, NEW c \in CachedItem(v)
        PROVE  \E i \in Id : /\ entity[i] = v /\ Earlier(i) # NoTime
                             /\ c = [fetched |-> Earlier(i), values |-> meta[i], lists |-> coll[i]]
    BY DEF CachedItem
  <2>3. ASSUME NEW v \in Video, NEW c \in CachedItem(v)
        PROVE  c.values # NoRow /\ c.values.video = v
    BY <2>2 DEF IInv, SuccessHasMetadata, IdentityKept
  <2>4. ASSUME NEW v \in Video, NEW c \in CachedItem(v), NEW d \in CachedItem(v)
        PROVE  c = d
    BY <2>2, SeparateAssumption DEF RefInv, NamedOnce
  <2> QED
    BY <2>1, <2>3, <2>4 DEF ReadersServed
<1> QED
  BY <1>1, RefInductive, PTL

\* The same for listings: the number of cached records a listing is said to
\* have is the number of records its readers get.
THEOREM ListingsAreRead == ASSUME Exclusive PROVE Spec => []ListingsAgree
<1>1. IInv /\ RefInv => ListingsAgree
  <2> SUFFICES ASSUME IInv, RefInv, NEW s \in Source
               PROVE  Named(s) = entries[s] /\ Recorded(s) = Counted(s)
    BY DEF ListingsAgree
  <2>1. \A i \in entries[s] : i \in Id /\ Exists(i) /\ entity[i] \in Video
    BY DEF IInv, TypeOK, RefInv, ReferredExist, SourceRefers, Exists
  <2>2. Named(s) = entries[s]
    BY <2>1 DEF Named
  <2>3. ASSUME NEW i \in entries[s]
        PROVE  CachedItem(entity[i]) # {} <=> Earlier(i) # NoTime
    <3>1. \A j \in Id : entity[j] = entity[i] => j = i
      BY <2>1, SeparateAssumption DEF RefInv, NamedOnce
    <3> QED
      BY <2>1, <3>1 DEF CachedItem
  <2> QED
    BY <2>2, <2>3 DEF Recorded, Counted
<1> QED
  BY <1>1, RefInductive, PTL

\* A value a reader takes as fresh was acquired within the window.
ValuesYoung == \A i \in Id : Observation(i) = "value" => now <= meta[i].at + MaxAge

\* Unless two connections acquire one video at once or a record has a value the
\* store does not take, what field_observation reports as a value is no older
\* than the policy allows.
THEOREM FreshValuesAreYoung ==
  ASSUME Exclusive, ~Overlap, ~OddValues PROVE Spec => []ValuesYoung
<1>1. IInv /\ FreshnessHonest => ValuesYoung
  <2> SUFFICES ASSUME IInv, FreshnessHonest, NEW i \in Id, Observation(i) = "value"
               PROVE  now <= meta[i].at + MaxAge
    BY DEF ValuesYoung
  <2>1. Earlier(i) # NoTime /\ meta[i] # NoRow /\ ~Stale(Earlier(i))
    BY DEF Observation
  <2>2. Earlier(i) <= meta[i].at
    BY <2>1 DEF FreshnessHonest
  <2>3. Earlier(i) \in Nat /\ meta[i].at \in Nat /\ now \in Nat /\ MaxAge \in Nat
    BY <2>1, StoreBoundAssumption
       DEF IInv, TypeOK, Row, Attempt, Time, Earlier
  <2> QED
    BY <2>1, <2>2, <2>3 DEF Stale
<1> QED
  BY <1>1, Inductive, FreshUnlessOverlapping, PTL
================================================================================
