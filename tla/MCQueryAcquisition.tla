-------------------------- MODULE MCQueryAcquisition --------------------------
(* Instances: two sources of a few rows with repeated, NULL and list values, *)
(* and the shapes of query the runs look at.                                 *)
EXTENDS QueryAcquisition

Entry(t, d) == [t |-> t, d |-> d]
MCContents ==
  {[A |-> <<Entry(Number(2), Null), Entry(Number(1), Number(1)), Entry(Null, Number(1)),
            Entry(Number(1), Number(2))>>,
    B |-> <<Entry(Number(1), List(1)), Entry(Number(2), Number(1))>>]}

T(v) == <<Test("x", "t", Number(v))>>
D(v) == <<Test("x", "d", Number(v))>>
MCOperands ==
  {Physical("A"), Physical("B"), TheCte, Derived("A", T(1)), Derived("A", D(1))}
MCOns == {[op |-> "=", f |-> "t"], [op |-> "=", f |-> "d"], [op |-> "!=", f |-> "t"],
          [op |-> "=", f |-> "never"]}
MCTests == {Test("x", "t", Number(1)), Test("x", "d", Number(1)),
            Test("y", "d", Number(1)), Test("x", "never", Null)}

\* One join, and no predicate where it stands in a UNION: the size of the run.
OneJoin(q) ==
  LET bodies == q.cte \o q.branches
      joined == {i \in DOMAIN bodies : bodies[i].joins # <<>>}
  IN /\ Cardinality(joined) <= 1
     /\ joined # {} /\ Len(q.branches) = 2 => \A i \in DOMAIN bodies : bodies[i].where = <<>>

MCAllowed(q) == OneJoin(q) /\ Sound(q)
MCUnions(q) == q.cte = <<>> /\ ~q.order /\ q.limit = <<>> /\ MultiSource(q) = FALSE
               /\ \A b \in ToSet(q.branches) : b.joins = <<>>
===============================================================================
