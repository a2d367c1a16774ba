---------------------------- MODULE DownloadAttempt ----------------------------
(***************************************************************************)
(* What one supervised attempt promises its caller: it starts at most one  *)
(* child, ends at most once, succeeds only by the child's own success, and *)
(* counts as cancelled only when no child is left to work on.              *)
(***************************************************************************)
VARIABLES phase, child

vars == <<phase, child>>

Phase == {"planned", "running", "succeeded", "failed", "cancelled"}
Child == {"none", "running", "ok", "bad"}

TypeOK == phase \in Phase /\ child \in Child

Init == phase = "planned" /\ child = "none"

Begin ==
  /\ phase = "planned" /\ phase' = "running"
  /\ child = "none" /\ child' = "running"

ChildEnds == child = "running" /\ child' \in {"ok", "bad"} /\ UNCHANGED phase

Succeed == phase = "running" /\ child = "ok" /\ phase' = "succeeded" /\ UNCHANGED child

Fail == phase = "running" /\ phase' = "failed" /\ UNCHANGED child

Cancel ==
  /\ phase \in {"planned", "running"} /\ child # "running"
  /\ phase' = "cancelled" /\ UNCHANGED child

Next == Begin \/ ChildEnds \/ Succeed \/ Fail \/ Cancel

Spec == Init /\ [][Next]_vars
=============================================================================
