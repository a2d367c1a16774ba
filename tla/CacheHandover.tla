---------------------------- MODULE CacheHandover ----------------------------
(***************************************************************************)
(* What managed cache startup promises, seen from outside the lock: one    *)
(* generation of the cache is authoritative, the old one hands over to the *)
(* new one in a single step that carries every fact across, and nothing    *)
(* ever falls back.                                                        *)
(***************************************************************************)
CONSTANT Fact

VARIABLES authority, held

vars == <<authority, held>>

Authority == {"none", "old", "new"}

TypeOK == authority \in Authority /\ held \subseteq Fact

Init == \/ authority = "none" /\ held = {}
        \/ authority = "old" /\ held \in SUBSET Fact

Create == authority = "none" /\ authority' = "new" /\ UNCHANGED held

HandOver == authority = "old" /\ authority' = "new" /\ UNCHANGED held

Learn == /\ authority = "new"
         /\ \E f \in Fact : held' = held \cup {f}
         /\ UNCHANGED authority

Next == Create \/ HandOver \/ Learn

Spec == Init /\ [][Next]_vars
=============================================================================
