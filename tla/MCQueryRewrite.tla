---------------------------- MODULE MCQueryRewrite ----------------------------
(* Instances: numbers 1..4 around the literals 2 and 3, which are written    *)
(* with a unit and whose texts are ordered as they are, and 4, in digits;    *)
(* strings 1..4 stand for 'A', 'B', 'a', 'b'.                                *)
EXTENDS QueryRewrite

MCField == {"view_count", "live_status", "title", "chapters", "id"}
MCRow ==
  {[view_count |-> views, live_status |-> live, title |-> title,
    chapters |-> Null, id |-> String(1)] :
     views \in {Null} \cup {Number(k) : k \in 1..4},
     live \in {Null, String(1)}, title \in {Null, String(3)}}
MCCaseless(n) == IF n <= 2 THEN n + 2 ELSE n
MCText(n) == n

In(f, vs, neg) == [k |-> "in", f |-> f, vs |-> vs, neg |-> neg]
Between(f, lo, hi, neg) == [k |-> "between", f |-> f, lo |-> lo, hi |-> hi, neg |-> neg]
IsNull(f, neg) == [k |-> "null", f |-> f, neg |-> neg]
IsDistinct(f, v, neg) == [k |-> "distinct", f |-> f, v |-> v, neg |-> neg]

MCViews ==
  {Binary("view_count", op, Number(2)) : op \in Operator}
  \cup {Binary("view_count", op, Number(3)) : op \in {"=", "<"}}
  \cup {Between("view_count", Number(2), Number(3), FALSE),
        Between("view_count", Number(3), Number(3), TRUE),
        In("view_count", <<Number(2), Number(2)>>, FALSE),
        In("view_count", <<Number(3), Number(2)>>, FALSE),
        In("view_count", <<Number(4), Number(3), Number(2)>>, FALSE),
        IsNull("view_count", FALSE), IsNull("view_count", TRUE)}
MCOther ==
  {Binary("live_status", "=", String(3)), In("title", <<String(3), String(4)>>, FALSE),
   Binary("title", "!=", String(3)), IsDistinct("title", String(3), FALSE),
   Binary("chapters", ">", Number(2)), IsNull("id", FALSE)}
MCAtoms == MCViews \cup MCOther

\* The atoms satisfy the hypotheses of the theorems.
ASSUME MCTyped == MCAtoms \subseteq WellTyped
ASSUME MCPlain ==
  Atoms = MCAtoms => WrittenAlike /\ \A f \in Field : LiteralsKept(f) /\ PlainTests(f)

\* The texts of the literals 9m and 10m: '9m' comes after '10m'.
MCWrittenAtoms ==
  {Binary("view_count", ">=", Number(2)), Binary("view_count", "<", Number(3))}
MCWrittenText(n) == IF n = 3 THEN 1 ELSE n
===============================================================================
