------------------------- MODULE CacheStartup_proofs -------------------------
(***************************************************************************)
(* Managed startup never loses a fact, for every set of processes, every   *)
(* set of lock-bypassing --cache users and every fault budget, as long as  *)
(* the program does not stop for good in the stamp window.                 *)
(***************************************************************************)
EXTENDS CacheStartup, TLAPS

\* Stages between the decision to build a database and the moment it counts.
Building == {"confirm", "validate", "initTables", "initMark", "stamp",
             "sources", "openRows", "rows", "certify", "finalise", "verify",
             "cleanup"}
\* Stages during which the v4 name holds no complete database.
NotYet == {"confirm", "validate", "initTables", "initMark", "sources",
           "openRows", "rows", "certify", "finalise"}
\* Stages that rely on a complete v4.
Relying == {"verifyActive", "verifyFresh", "open", "work", "unlinkSource"}

Quiet == \A p \in Proc : pc[p] \notin Building

LockInv == \A p \in Proc : pc[p] \in Holding <=> lock = p

SourceInv ==
  /\ v3 = "absent" => v3rec = {}
  /\ v4 # "complete" => facts \subseteq v3rec
  /\ \A p \in Proc : pc[p] \in Building => facts \subseteq v3rec
  /\ \A p \in Proc : /\ pc[p] \in {"initTables", "initMark"}
                     /\ mode[p] = "fresh"
                     => facts = {}
  /\ \A p \in Proc : pc[p] \in {"confirm", "validate"} => mode[p] = "migrate"
  /\ \A e \in Explicit : handle[e] = "v3" => v3 # "absent"

TargetInv ==
  /\ \A p \in Proc : pc[p] \in NotYet => v4 # "complete"
  /\ \A p \in Proc : pc[p] \in {"finalise", "verify"} => facts \subseteq v4rec
  /\ \A p \in Proc : /\ pc[p] = "cleanup" /\ opt[p].keepFailed
                     /\ v4 = "complete"
                     => facts \subseteq v4rec
  /\ v4 = "complete" /\ Quiet => facts \subseteq v4rec

WorkInv ==
  /\ \A p \in Proc : pc[p] \in Relying => v4 = "complete" /\ Quiet
  /\ \A p \in Proc : pc[p] = "work" => handle[p] = "v4"

IInv == TypeOK /\ LockInv /\ SourceInv /\ TargetInv /\ WorkInv

-----------------------------------------------------------------------------
\* The initial states are well typed.
LEMMA InitTypeOK == Init => TypeOK
<1> SUFFICES ASSUME Init PROVE TypeOK
  OBVIOUS
<1>1. DefaultOption \in Option
  BY Zenon DEF DefaultOption, Option
<1>2. v3 \in V3Shape /\ v3rec \subseteq Fact /\ facts \subseteq Fact
  BY DEF Init, V3Shape
<1>3. QED
  BY <1>1, <1>2 DEF Init, TypeOK, V4Shape, PC, Holding, Migrating, Handle

\* Every step keeps the state well typed.
LEMMA NextTypeOK == TypeOK /\ [Next]_vars => TypeOK'
<1> SUFFICES ASSUME TypeOK, [Next]_vars PROVE TypeOK'
  OBVIOUS
<1> USE DEF TypeOK, Goto, Leave, Stale, UnlinkV4, files, V3Shape, V4Shape, PC,
            Holding, Migrating, Handle
<1>1. ASSUME NEW p \in Proc, Start(p) PROVE TypeOK'
  BY <1>1 DEF Start
<1>2. ASSUME NEW p \in Proc, Acquire(p) PROVE TypeOK'
  BY <1>2 DEF Acquire
<1>3. ASSUME NEW p \in Proc, Discover(p) PROVE TypeOK'
  BY <1>3 DEF Discover
<1>4. ASSUME NEW p \in Proc, Confirm(p) PROVE TypeOK'
  BY <1>4 DEF Confirm
<1>5. ASSUME NEW p \in Proc, VerifyActive(p) PROVE TypeOK'
  BY <1>5 DEF VerifyActive
<1>6. ASSUME NEW p \in Proc, InitTables(p) PROVE TypeOK'
  BY <1>6 DEF InitTables
<1>7. ASSUME NEW p \in Proc, InitMark(p) PROVE TypeOK'
  BY <1>7 DEF InitMark
<1>8. ASSUME NEW p \in Proc, InitMarkClash(p) PROVE TypeOK'
  BY <1>8 DEF InitMarkClash, AbortInit
<1>9. ASSUME NEW p \in Proc, Validate(p) PROVE TypeOK'
  BY <1>9 DEF Validate, ValidV3
<1>10. ASSUME NEW p \in Proc, Stamp(p) PROVE TypeOK'
  BY <1>10 DEF Stamp
<1>11. ASSUME NEW p \in Proc, PopulateSources(p) PROVE TypeOK'
  BY <1>11 DEF PopulateSources
<1>12. ASSUME NEW p \in Proc, OpenRows(p) PROVE TypeOK'
  BY <1>12 DEF OpenRows
<1>13. ASSUME NEW p \in Proc, PopulateBatch(p) PROVE TypeOK'
  BY <1>13 DEF PopulateBatch
<1>14. ASSUME NEW p \in Proc, Certify(p) PROVE TypeOK'
  BY <1>14 DEF Certify
<1>15. ASSUME NEW p \in Proc, Finalise(p) PROVE TypeOK'
  BY <1>15 DEF Finalise
<1>16. ASSUME NEW p \in Proc, Verify(p) PROVE TypeOK'
  BY <1>16 DEF Verify
<1>17. ASSUME NEW p \in Proc, UnlinkSource(p) PROVE TypeOK'
  BY <1>17 DEF UnlinkSource
<1>18. ASSUME NEW p \in Proc, Cleanup(p) PROVE TypeOK'
  BY <1>18 DEF Cleanup
<1>19. ASSUME NEW p \in Proc, Fault(p) PROVE TypeOK'
  BY <1>19 DEF Fault, AbortInit
<1>20. ASSUME NEW p \in Proc, Kill(p) PROVE TypeOK'
  BY <1>20 DEF Kill
<1>21. ASSUME NEW p \in Proc, Open(p) PROVE TypeOK'
  BY <1>21 DEF Open, OpenV4
<1>22. ASSUME NEW p \in Proc, NEW f \in Fact, Put(p, f) PROVE TypeOK'
  BY <1>22 DEF Put
<1>23. ASSUME NEW p \in Proc, Close(p) PROVE TypeOK'
  BY <1>23 DEF Close
<1>24. ASSUME NEW e \in Explicit, ExplicitOpen(e) PROVE TypeOK'
  BY <1>24 DEF ExplicitOpen, OpenV4
<1>25. ASSUME NEW e \in Explicit, NEW f \in Fact, ExplicitPut(e, f) PROVE TypeOK'
  BY <1>25 DEF ExplicitPut
<1>26. ASSUME NEW e \in Explicit, ExplicitClose(e) PROVE TypeOK'
  BY <1>26 DEF ExplicitClose
<1>27. CASE UNCHANGED vars
  BY <1>27 DEF vars
<1> QED
  BY <1>1, <1>2, <1>3, <1>4, <1>5, <1>6, <1>7, <1>8, <1>9, <1>10, <1>11, <1>12,
     <1>13, <1>14, <1>15, <1>16, <1>17, <1>18, <1>19, <1>20, <1>21, <1>22,
     <1>23, <1>24, <1>25, <1>26, <1>27 DEF Next, Stage, Finished

-----------------------------------------------------------------------------
Safe == LockInv /\ SourceInv /\ TargetInv /\ WorkInv

\* Every step keeps the inductive invariant.
LEMMA NextSafe == ASSUME ~StampWindow, IInv, [Next]_vars PROVE Safe'
<1> USE DistinctAssumption DEF IInv, Safe, TypeOK, LockInv, SourceInv, TargetInv, WorkInv, Quiet,
        Building, NotYet, Relying, Goto, Leave, Stale, UnlinkV4, files, V3Shape,
        V4Shape, PC, Holding, Migrating
<1>1. ASSUME NEW p \in Proc, Start(p) PROVE Safe'
  BY <1>1 DEF Start
<1>2. ASSUME NEW p \in Proc, Acquire(p) PROVE Safe'
  BY <1>2 DEF Acquire
<1>3. ASSUME NEW p \in Proc, Discover(p) PROVE Safe'
  BY <1>3 DEF Discover, Resolution, ValidV3
<1>4. ASSUME NEW p \in Proc, Confirm(p) PROVE Safe'
  BY <1>4 DEF Confirm
<1>5. ASSUME NEW p \in Proc, VerifyActive(p) PROVE Safe'
  BY <1>5 DEF VerifyActive, Resolution, ValidV3
<1>6. ASSUME NEW p \in Proc, InitTables(p) PROVE Safe'
  BY <1>6 DEF InitTables
<1>7. ASSUME NEW p \in Proc, InitMark(p) PROVE Safe'
  BY <1>7 DEF InitMark
<1>8. ASSUME NEW p \in Proc, InitMarkClash(p) PROVE Safe'
  BY <1>8 DEF InitMarkClash, AbortInit
<1>9. ASSUME NEW p \in Proc, Validate(p) PROVE Safe'
  BY <1>9 DEF Validate, ValidV3
<1>10. ASSUME NEW p \in Proc, Stamp(p) PROVE Safe'
  BY <1>10 DEF Stamp
<1>11. ASSUME NEW p \in Proc, PopulateSources(p) PROVE Safe'
  BY <1>11 DEF PopulateSources
<1>12. ASSUME NEW p \in Proc, OpenRows(p) PROVE Safe'
  BY <1>12 DEF OpenRows
<1>13. ASSUME NEW p \in Proc, PopulateBatch(p) PROVE Safe'
  BY <1>13 DEF PopulateBatch
<1>14. ASSUME NEW p \in Proc, Certify(p) PROVE Safe'
  BY <1>14 DEF Certify, Certified
<1>15. ASSUME NEW p \in Proc, Finalise(p) PROVE Safe'
  BY <1>15 DEF Finalise
<1>16. ASSUME NEW p \in Proc, Verify(p) PROVE Safe'
  BY <1>16 DEF Verify, Resolution, ValidV3
<1>17. ASSUME NEW p \in Proc, UnlinkSource(p) PROVE Safe'
  BY <1>17 DEF UnlinkSource
<1>18. ASSUME NEW p \in Proc, Cleanup(p) PROVE Safe'
  BY <1>18 DEF Cleanup
<1>19. ASSUME NEW p \in Proc, Fault(p) PROVE Safe'
  BY <1>19 DEF Fault, AbortInit, InStampWindow
<1>20. ASSUME NEW p \in Proc, Kill(p) PROVE Safe'
  BY <1>20 DEF Kill, InStampWindow
<1>21. ASSUME NEW p \in Proc, Open(p) PROVE Safe'
  BY <1>21 DEF Open, OpenV4
<1>22. ASSUME NEW p \in Proc, NEW f \in Fact, Put(p, f) PROVE Safe'
  BY <1>22 DEF Put
<1>23. ASSUME NEW p \in Proc, Close(p) PROVE Safe'
  BY <1>23 DEF Close
<1>24. ASSUME NEW e \in Explicit, ExplicitOpen(e) PROVE Safe'
  BY <1>24 DEF ExplicitOpen, OpenV4
<1>25. ASSUME NEW e \in Explicit, NEW f \in Fact, ExplicitPut(e, f) PROVE Safe'
  BY <1>25 DEF ExplicitPut
<1>26. ASSUME NEW e \in Explicit, ExplicitClose(e) PROVE Safe'
  BY <1>26 DEF ExplicitClose
<1>27. CASE UNCHANGED vars
  BY <1>27 DEF vars
<1> QED
  BY <1>1, <1>2, <1>3, <1>4, <1>5, <1>6, <1>7, <1>8, <1>9, <1>10, <1>11, <1>12, <1>13, <1>14, <1>15, <1>16, <1>17, <1>18, <1>19, <1>20, <1>21, <1>22, <1>23, <1>24, <1>25, <1>26, <1>27 DEF Next, Stage, Finished

-----------------------------------------------------------------------------
\* The initial states satisfy the inductive invariant.
LEMMA InitSafe == Init => Safe
  BY DistinctAssumption DEF Init, Safe, LockInv, SourceInv, TargetInv, WorkInv,
     Quiet, Building, NotYet, Relying, Holding, Migrating

\* Every reachable state is well typed, whatever the options and the faults.
THEOREM TypeCorrect == Spec => []TypeOK
<1>1. Init => TypeOK
  BY InitTypeOK
<1>2. TypeOK /\ [Next]_vars => TypeOK'
  BY NextTypeOK
<1> QED
  BY <1>1, <1>2, PTL DEF Spec

\* The inductive invariant holds in every reachable state.
LEMMA Inductive == ASSUME ~StampWindow PROVE Spec => []IInv
<1>1. Init => IInv
  BY InitTypeOK, InitSafe DEF IInv, Safe
<1>2. IInv /\ [Next]_vars => IInv'
  <2> SUFFICES ASSUME IInv, [Next]_vars PROVE IInv'
    OBVIOUS
  <2>1. TypeOK'
    BY NextTypeOK DEF IInv
  <2>2. Safe'
    BY NextSafe
  <2> QED
    BY <2>1, <2>2 DEF IInv, Safe
<1> QED
  BY <1>1, <1>2, PTL DEF Spec

\* Whatever v3 held, and whatever managed processes stored since, is in an
\* intact v3 or in a complete v4: execute_cache_startup loses nothing to its
\* failures, to kills or to processes that bypass the lock.
THEOREM NothingLost == ASSUME ~StampWindow PROVE Spec => []NoFactLost
<1>1. IInv => NoFactLost
  BY DEF IInv, TypeOK, SourceInv, TargetInv, NoFactLost, Quiet
<1> QED
  BY <1>1, Inductive, PTL

\* Once the lock is free, a cache that discovery would take as active holds
\* every fact: no unfinished destination passes for a usable v4 cache.
THEOREM ActiveComplete == ASSUME ~StampWindow PROVE Spec => []ActiveHoldsEverything
<1>1. IInv => ActiveHoldsEverything
  BY DistinctAssumption DEF IInv, TypeOK, LockInv, TargetInv, Quiet, Building,
     Holding, Migrating, ActiveHoldsEverything, Exposed, Resolution, ValidV3
<1> QED
  BY <1>1, Inductive, PTL

\* A managed process at work has its own complete v4 open: no cleanup and no
\* cut-over of another process takes the file away from it.
THEOREM WorkersSafe == ASSUME ~StampWindow PROVE Spec => []WorkersKeepTheirFile
<1>1. IInv => WorkersKeepTheirFile
  BY DEF IInv, WorkInv, Relying, WorkersKeepTheirFile
<1> QED
  BY <1>1, Inductive, PTL

-----------------------------------------------------------------------------
(* Refinement: without lock-bypassing users, startup implements CacheHandover *)

HandInv ==
  /\ v4 \in {"absent", "tables"} => v4rec = {}
  /\ \A p \in Proc : pc[p] \in Building \ {"initTables", "initMark"} => mode[p] = "migrate"
  /\ \A p \in Proc : /\ pc[p] \in {"initTables", "initMark"}
                     /\ mode[p] = "fresh"
                     => v3 = "absent"
  /\ \A p \in Proc : pc[p] \in Building /\ mode[p] = "migrate"
                     => v3 # "absent" /\ v4rec \subseteq v3rec
  /\ \A p \in Proc : /\ \/ pc[p] \in {"finalise", "verify", "unlinkSource"}
                        \/ /\ pc[p] = "cleanup" /\ opt[p].keepFailed
                           /\ v4 = "complete"
                     => v3rec \subseteq v4rec
  /\ \A p \in Proc : pc[p] = "stamp" => v4 = "complete" /\ v4rec = {}
  /\ \A p \in Proc : pc[p] = "initMark" => v4 = "tables"
  /\ \A p \in Proc : pc[p] = "verify" => v4 = "complete"
  /\ \A p \in Proc : pc[p] \in {"sources", "openRows", "rows", "certify", "finalise"}
                     => v4 = "building"
  /\ \A p \in Proc : pc[p] = "rows" => todo[p] \subseteq v3rec

\* Every step keeps the strengthening that the refinement needs.
LEMMA NextHand ==
  ASSUME ~StampWindow, Explicit = {}, IInv, HandInv, [Next]_vars PROVE HandInv'
<1> USE DistinctAssumption DEF IInv, HandInv, TypeOK, LockInv, SourceInv, TargetInv,
        WorkInv, Quiet, Building, NotYet, Relying, Goto, Leave, Stale, UnlinkV4,
        files, V3Shape, V4Shape, PC, Holding, Migrating
<1>1. ASSUME NEW p \in Proc, Start(p) PROVE HandInv'
  BY <1>1 DEF Start
<1>2. ASSUME NEW p \in Proc, Acquire(p) PROVE HandInv'
  BY <1>2 DEF Acquire
<1>3. ASSUME NEW p \in Proc, Discover(p) PROVE HandInv'
  BY <1>3 DEF Discover, Resolution, ValidV3
<1>4. ASSUME NEW p \in Proc, Confirm(p) PROVE HandInv'
  BY <1>4 DEF Confirm
<1>5. ASSUME NEW p \in Proc, VerifyActive(p) PROVE HandInv'
  BY <1>5 DEF VerifyActive, Resolution, ValidV3
<1>6. ASSUME NEW p \in Proc, InitTables(p) PROVE HandInv'
  BY <1>6 DEF InitTables
<1>7. ASSUME NEW p \in Proc, InitMark(p) PROVE HandInv'
  BY <1>7 DEF InitMark
<1>8. ASSUME NEW p \in Proc, InitMarkClash(p) PROVE HandInv'
  BY <1>8 DEF InitMarkClash, AbortInit
<1>9. ASSUME NEW p \in Proc, Validate(p) PROVE HandInv'
  BY <1>9 DEF Validate, ValidV3
<1>10. ASSUME NEW p \in Proc, Stamp(p) PROVE HandInv'
  BY <1>10 DEF Stamp
<1>11. ASSUME NEW p \in Proc, PopulateSources(p) PROVE HandInv'
  BY <1>11 DEF PopulateSources
<1>12. ASSUME NEW p \in Proc, OpenRows(p) PROVE HandInv'
  BY <1>12 DEF OpenRows
<1>13. ASSUME NEW p \in Proc, PopulateBatch(p) PROVE HandInv'
  BY <1>13 DEF PopulateBatch
<1>14. ASSUME NEW p \in Proc, Certify(p) PROVE HandInv'
  BY <1>14 DEF Certify, Certified
<1>15. ASSUME NEW p \in Proc, Finalise(p) PROVE HandInv'
  BY <1>15 DEF Finalise
<1>16. ASSUME NEW p \in Proc, Verify(p) PROVE HandInv'
  BY <1>16 DEF Verify, Resolution, ValidV3
<1>17. ASSUME NEW p \in Proc, UnlinkSource(p) PROVE HandInv'
  BY <1>17 DEF UnlinkSource
<1>18. ASSUME NEW p \in Proc, Cleanup(p) PROVE HandInv'
  BY <1>18 DEF Cleanup
<1>19. ASSUME NEW p \in Proc, Fault(p) PROVE HandInv'
  BY <1>19 DEF Fault, AbortInit, InStampWindow
<1>20. ASSUME NEW p \in Proc, Kill(p) PROVE HandInv'
  BY <1>20 DEF Kill, InStampWindow
<1>21. ASSUME NEW p \in Proc, Open(p) PROVE HandInv'
  BY <1>21 DEF Open, OpenV4
<1>22. ASSUME NEW p \in Proc, NEW f \in Fact, Put(p, f) PROVE HandInv'
  BY <1>22 DEF Put
<1>23. ASSUME NEW p \in Proc, Close(p) PROVE HandInv'
  BY <1>23 DEF Close
<1>24. CASE UNCHANGED vars
  BY <1>24 DEF vars
<1> QED
  BY <1>1, <1>2, <1>3, <1>4, <1>5, <1>6, <1>7, <1>8, <1>9, <1>10, <1>11, <1>12, <1>13, <1>14, <1>15, <1>16, <1>17, <1>18, <1>19, <1>20, <1>21, <1>22, <1>23, <1>24 DEF Next, Stage, Finished

\* Every step hands over, creates, learns, or changes nothing outside.
LEMMA NextRefines ==
  ASSUME ~StampWindow, Explicit = {}, IInv, HandInv, [Next]_vars
  PROVE  [Handover!Next]_(Handover!vars)
<1> DEFINE Step == [Handover!Next]_(Handover!vars)
<1> USE DistinctAssumption DEF IInv, HandInv, TypeOK, LockInv, SourceInv, TargetInv,
        WorkInv, Quiet, Building, NotYet, Relying, Goto, Leave, Stale, UnlinkV4,
        files, V3Shape, V4Shape, PC, Holding, Migrating, Authority,
        UnderConstruction, Handover!Next, Handover!vars, Handover!Create,
        Handover!HandOver, Handover!Learn
<1>1. ASSUME NEW p \in Proc, Start(p) PROVE Step
  BY <1>1 DEF Start
<1>2. ASSUME NEW p \in Proc, Acquire(p) PROVE Step
  BY <1>2 DEF Acquire
<1>3. ASSUME NEW p \in Proc, Discover(p) PROVE Step
  BY <1>3 DEF Discover, Resolution, ValidV3
<1>4. ASSUME NEW p \in Proc, Confirm(p) PROVE Step
  BY <1>4 DEF Confirm
<1>5. ASSUME NEW p \in Proc, VerifyActive(p) PROVE Step
  BY <1>5 DEF VerifyActive, Resolution, ValidV3
<1>6. ASSUME NEW p \in Proc, InitTables(p) PROVE Step
  BY <1>6 DEF InitTables
<1>7. ASSUME NEW p \in Proc, InitMark(p) PROVE Step
  <2>1. /\ v4 = "tables" /\ v4' = "complete" /\ v4rec = {} /\ lock = p
        /\ UNCHANGED <<v3, v3rec, v4rec, lock, mode>>
    BY <1>7 DEF InitMark
  <2>2. CASE mode[p] = "migrate"
    <3>1. UnderConstruction'
      BY <1>7, <2>1, <2>2 DEF InitMark
    <3> QED
      BY <2>1, <3>1
  <2>3. CASE mode[p] # "migrate"
    <3>1. ~UnderConstruction'
      BY <2>1, <2>3
    <3>2. v3 = "absent" /\ v3rec = {}
      BY <1>7, <2>3 DEF InitMark
    <3> QED
      BY <2>1, <3>1, <3>2
  <2> QED
    BY <2>2, <2>3
<1>8. ASSUME NEW p \in Proc, InitMarkClash(p) PROVE Step
  BY <1>8 DEF InitMarkClash, AbortInit
<1>9. ASSUME NEW p \in Proc, Validate(p) PROVE Step
  BY <1>9 DEF Validate, ValidV3
<1>10. ASSUME NEW p \in Proc, Stamp(p) PROVE Step
  BY <1>10 DEF Stamp
<1>11. ASSUME NEW p \in Proc, PopulateSources(p) PROVE Step
  BY <1>11 DEF PopulateSources
<1>12. ASSUME NEW p \in Proc, OpenRows(p) PROVE Step
  BY <1>12 DEF OpenRows
<1>13. ASSUME NEW p \in Proc, PopulateBatch(p) PROVE Step
  BY <1>13 DEF PopulateBatch
<1>14. ASSUME NEW p \in Proc, Certify(p) PROVE Step
  BY <1>14 DEF Certify, Certified
<1>15. ASSUME NEW p \in Proc, Finalise(p) PROVE Step
  BY <1>15 DEF Finalise
<1>16. ASSUME NEW p \in Proc, Verify(p) PROVE Step
  <2>1. v4 = "complete" /\ v3 # "absent" /\ v4rec = v3rec /\ lock = p
    BY <1>16 DEF Verify
  <2>2. UnderConstruction
    BY <1>16, <2>1 DEF Verify
  <2>3. ~UnderConstruction'
    BY <1>16, <2>1 DEF Verify
  <2>4. UNCHANGED files
    BY <1>16 DEF Verify
  <2> QED
    BY <2>1, <2>2, <2>3, <2>4
<1>17. ASSUME NEW p \in Proc, UnlinkSource(p) PROVE Step
  BY <1>17 DEF UnlinkSource
<1>18. ASSUME NEW p \in Proc, Cleanup(p) PROVE Step
  <2>1. v3 # "absent" /\ lock = p /\ UNCHANGED <<v3, v3rec>>
    BY <1>18 DEF Cleanup
  <2>2. UnderConstruction
    BY <1>18, <2>1 DEF Cleanup
  <2>3. ~UnderConstruction'
    BY <1>18, <2>1 DEF Cleanup
  <2>4. v4' = "complete" => v4' = v4 /\ v4rec' = v4rec /\ v4rec = v3rec
    BY <1>18, <2>1 DEF Cleanup
  <2> QED
    BY <2>1, <2>2, <2>3, <2>4
<1>19. ASSUME NEW p \in Proc, Fault(p) PROVE Step
  BY <1>19 DEF Fault, AbortInit, InStampWindow
<1>20. ASSUME NEW p \in Proc, Kill(p) PROVE Step
  <2>1. UNCHANGED files
    BY <1>20 DEF Kill
  <2>2. CASE lock = p
    <3>1. ~UnderConstruction'
      BY <1>20, <2>2 DEF Kill
    <3>2. ASSUME UnderConstruction, v4 = "complete"
          PROVE  v3 # "absent" /\ v4rec = v3rec
      <4>1. mode[p] = "migrate" /\ pc[p] \in Building
        BY <2>2, <3>2
      <4>2. pc[p] \in {"stamp", "verify", "cleanup"}
        BY <2>2, <3>2, <4>1
      <4>3. v3 # "absent" /\ v4rec \subseteq v3rec
        BY <4>1
      <4>4. v3rec \subseteq v4rec
        BY <1>20, <3>2, <4>2 DEF Kill, InStampWindow
      <4> QED
        BY <4>3, <4>4
    <3> QED
      BY <2>1, <3>1, <3>2
  <2>3. CASE lock # p
    <3>1. UnderConstruction' <=> UnderConstruction
      BY <1>20, <2>3 DEF Kill
    <3> QED
      BY <2>1, <3>1
  <2> QED
    BY <2>2, <2>3
<1>21. ASSUME NEW p \in Proc, Open(p) PROVE Step
  BY <1>21 DEF Open, OpenV4
<1>22. ASSUME NEW p \in Proc, NEW f \in Fact, Put(p, f) PROVE Step
  BY <1>22 DEF Put
<1>23. ASSUME NEW p \in Proc, Close(p) PROVE Step
  BY <1>23 DEF Close
<1>24. CASE UNCHANGED vars
  BY <1>24 DEF vars
<1> QED
  BY <1>1, <1>2, <1>3, <1>4, <1>5, <1>6, <1>7, <1>8, <1>9, <1>10, <1>11, <1>12, <1>13, <1>14, <1>15, <1>16, <1>17, <1>18, <1>19, <1>20, <1>21, <1>22, <1>23, <1>24 DEF Next, Stage, Finished

\* The strengthening holds in every reachable state.
LEMMA HandInductive ==
  ASSUME ~StampWindow, Explicit = {} PROVE Spec => [](IInv /\ HandInv)
<1>1. Init => IInv /\ HandInv
  <2>1. Init => IInv
    BY InitTypeOK, InitSafe DEF IInv, Safe
  <2>2. Init => HandInv
    BY DEF Init, HandInv, Building
  <2> QED
    BY <2>1, <2>2
<1>2. IInv /\ HandInv /\ [Next]_vars => (IInv /\ HandInv)'
  <2> SUFFICES ASSUME IInv, HandInv, [Next]_vars PROVE (IInv /\ HandInv)'
    OBVIOUS
  <2>1. TypeOK'
    BY NextTypeOK DEF IInv
  <2>2. Safe'
    BY NextSafe
  <2>3. HandInv'
    BY NextHand
  <2> QED
    BY <2>1, <2>2, <2>3 DEF IInv, Safe
<1> QED
  BY <1>1, <1>2, PTL DEF Spec

\* Seen from outside the lock, startup is CacheHandover: one generation is
\* authoritative and hands every fact over in one step.
THEOREM ImplementsHandover ==
  ASSUME ~StampWindow, Explicit = {} PROVE Spec => HandoverSpec
<1>1. Init => Handover!Init
  BY DEF Init, Handover!Init, Authority, UnderConstruction, Fact
<1>2. IInv /\ HandInv /\ [Next]_vars => [Handover!Next]_(Handover!vars)
  BY NextRefines
<1> QED
  BY <1>1, <1>2, HandInductive, PTL DEF Spec, HandoverSpec, Handover!Spec

\* The v3 file disappears only when a complete v4 holds all of it.
THEOREM SourceSafe ==
  ASSUME ~StampWindow, Explicit = {} PROVE Spec => SourceRetiredAfterCutover
<1>1. IInv /\ HandInv /\ [Next]_vars
      => [v3 # "absent" /\ v3' = "absent" => v4 = "complete" /\ v3rec \subseteq v4rec]_vars
  <2> SUFFICES ASSUME IInv, HandInv, Next, v3 # "absent", v3' = "absent"
               PROVE  v4 = "complete" /\ v3rec \subseteq v4rec
    OBVIOUS
  <2>1. PICK p \in Proc : UnlinkSource(p)
    BY DEF Next, Stage, Start, Acquire, Discover, Confirm, VerifyActive,
       InitTables, InitMark, InitMarkClash, Validate, Stamp, PopulateSources,
       OpenRows, PopulateBatch, Certify, Finalise, Verify, Cleanup, Fault, Kill,
       Open, Put, Close, Finished, files, vars
  <2> QED
    BY <2>1 DEF UnlinkSource, IInv, HandInv, WorkInv, Relying
<1> QED
  BY <1>1, HandInductive, PTL DEF Spec, SourceRetiredAfterCutover

-----------------------------------------------------------------------------
(* A handled failure does not block the next start *)

\* Stages at which the holder may be carrying an unfinished destination, and
\* a kill leaves it behind.
Carrying == {"initMark", "sources", "openRows", "rows", "certify", "finalise",
             "cleanup"}

DebrisInv ==
  v4 \in {"tables", "building", "foreign"}
    => abandoned \/ \E p \in Proc : pc[p] \in Carrying

\* Every step keeps an unfinished destination in its builder's hands, removes
\* it or leaves it behind knowingly.
LEMMA NextDebris ==
  ASSUME ~StampWindow, Explicit = {}, IInv, HandInv, DebrisInv, [Next]_vars
  PROVE  DebrisInv'
<1> USE DistinctAssumption DEF IInv, HandInv, DebrisInv, Carrying, TypeOK, LockInv,
        WorkInv, Relying, Goto, Leave, Stale, UnlinkV4, files, V3Shape, V4Shape, PC,
        Holding, Migrating
<1>1. ASSUME NEW p \in Proc, Start(p) PROVE DebrisInv'
  BY <1>1 DEF Start
<1>2. ASSUME NEW p \in Proc, Acquire(p) PROVE DebrisInv'
  BY <1>2 DEF Acquire
<1>3. ASSUME NEW p \in Proc, Discover(p) PROVE DebrisInv'
  BY <1>3 DEF Discover, Resolution, ValidV3
<1>4. ASSUME NEW p \in Proc, Confirm(p) PROVE DebrisInv'
  BY <1>4 DEF Confirm
<1>5. ASSUME NEW p \in Proc, VerifyActive(p) PROVE DebrisInv'
  BY <1>5 DEF VerifyActive, Resolution, ValidV3
<1>6. ASSUME NEW p \in Proc, InitTables(p) PROVE DebrisInv'
  BY <1>6 DEF InitTables
<1>7. ASSUME NEW p \in Proc, InitMark(p) PROVE DebrisInv'
  BY <1>7 DEF InitMark
<1>8. ASSUME NEW p \in Proc, InitMarkClash(p) PROVE DebrisInv'
  BY <1>8 DEF InitMarkClash, AbortInit
<1>9. ASSUME NEW p \in Proc, Validate(p) PROVE DebrisInv'
  BY <1>9 DEF Validate, ValidV3
<1>10. ASSUME NEW p \in Proc, Stamp(p) PROVE DebrisInv'
  BY <1>10 DEF Stamp
<1>11. ASSUME NEW p \in Proc, PopulateSources(p) PROVE DebrisInv'
  BY <1>11 DEF PopulateSources
<1>12. ASSUME NEW p \in Proc, OpenRows(p) PROVE DebrisInv'
  BY <1>12 DEF OpenRows
<1>13. ASSUME NEW p \in Proc, PopulateBatch(p) PROVE DebrisInv'
  BY <1>13 DEF PopulateBatch
<1>14. ASSUME NEW p \in Proc, Certify(p) PROVE DebrisInv'
  BY <1>14 DEF Certify, Certified
<1>15. ASSUME NEW p \in Proc, Finalise(p) PROVE DebrisInv'
  BY <1>15 DEF Finalise
<1>16. ASSUME NEW p \in Proc, Verify(p) PROVE DebrisInv'
  BY <1>16 DEF Verify, Resolution, ValidV3
<1>17. ASSUME NEW p \in Proc, UnlinkSource(p) PROVE DebrisInv'
  BY <1>17 DEF UnlinkSource
<1>18. ASSUME NEW p \in Proc, Cleanup(p) PROVE DebrisInv'
  BY <1>18 DEF Cleanup
<1>19. ASSUME NEW p \in Proc, Fault(p) PROVE DebrisInv'
  BY <1>19 DEF Fault, AbortInit
<1>20. ASSUME NEW p \in Proc, Kill(p) PROVE DebrisInv'
  BY <1>20 DEF Kill
<1>21. ASSUME NEW p \in Proc, Open(p) PROVE DebrisInv'
  BY <1>21 DEF Open, OpenV4
<1>22. ASSUME NEW p \in Proc, NEW f \in Fact, Put(p, f) PROVE DebrisInv'
  BY <1>22 DEF Put
<1>23. ASSUME NEW p \in Proc, Close(p) PROVE DebrisInv'
  BY <1>23 DEF Close
<1>24. CASE UNCHANGED vars
  BY <1>24 DEF vars
<1> QED
  BY <1>1, <1>2, <1>3, <1>4, <1>5, <1>6, <1>7, <1>8, <1>9, <1>10, <1>11, <1>12,
     <1>13, <1>14, <1>15, <1>16, <1>17, <1>18, <1>19, <1>20, <1>21, <1>22,
     <1>23, <1>24 DEF Next, Stage, Finished

\* A failure the program handles leaves a directory that starts again: when
\* the lock is free, only a kill, a destination kept on request or a bad v3
\* makes discovery block.
THEOREM FailuresDoNotBlock ==
  ASSUME ~StampWindow, Explicit = {} PROVE Spec => []BlockedOnlyByDebris
<1>1. Init => DebrisInv
  BY DEF Init, DebrisInv
<1>2. IInv /\ HandInv /\ DebrisInv /\ [Next]_vars => DebrisInv'
  BY NextDebris
<1>3. IInv /\ DebrisInv => BlockedOnlyByDebris
  BY DistinctAssumption DEF IInv, TypeOK, LockInv, DebrisInv, Carrying, Holding,
     Migrating, V4Shape, V3Shape, BlockedOnlyByDebris, Exposed, Resolution, ValidV3
<1> QED
  BY <1>1, <1>2, <1>3, HandInductive, PTL DEF Spec
=============================================================================
