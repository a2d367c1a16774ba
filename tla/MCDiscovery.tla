---------------------------- MODULE MCDiscovery ----------------------------
(* Instances of Discovery: the queries of the runs *)
EXTENDS Discovery, TLC

Symmetry == Permutations(Proc)

Ask(mode, test, limit, since) ==
  [mode |-> mode, test |-> test, limit |-> limit, since |-> since]

\* Three old videos and two of the day the bounded query begins with.
MCDay == <<1, 1, 1, 2, 2>>

MCQueries ==
  {Ask("full", "detail", NoLimit, 1), Ask("incremental", "both", 1, 1),
   Ask("bounded", "both", 1, 2)}

\* A disjunction of the title and a detailed field.
MCEither == {Ask("full", "either", NoLimit, 1), Ask("bounded", "either", 1, 1)}

MCPlain == {Ask("incremental", "detail", NoLimit, 1)}
=============================================================================
