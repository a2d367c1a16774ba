------------------------------ MODULE Comparisons ------------------------------
(***************************************************************************)
(* Values, three-valued truth and comparisons of yt-sql, and the rules by  *)
(* which the optimiser inverts comparisons and drops the weaker of two.    *)
(*                                                                         *)
(* A value is NULL, a number or a string; strings stand by their rank in   *)
(* Python's order.  A comparison of a number with a string is FALSE when   *)
(* Python refuses to order them.                                           *)
(***************************************************************************)
EXTENDS Integers

Kind == {"null", "number", "string"}
Value == [kind : Kind, n : Int]
Null == [kind |-> "null", n |-> 0]
Number(k) == [kind |-> "number", n |-> k]
String(k) == [kind |-> "string", n |-> k]
IsNullValue(a) == a.kind = "null"

Truths == {"T", "F", "U"}
Bool3(b) == IF b THEN "T" ELSE "F"
Not3(t) == IF t = "U" THEN "U" ELSE IF t = "T" THEN "F" ELSE "T"
And3(s, t) == IF "F" \in {s, t} THEN "F" ELSE IF "U" \in {s, t} THEN "U" ELSE "T"
Or3(s, t) == IF "T" \in {s, t} THEN "T" ELSE IF "U" \in {s, t} THEN "U" ELSE "F"
Connect(op, s, t) == IF op = "AND" THEN And3(s, t) ELSE Or3(s, t)

Lower == {">", ">="}
Upper == {"<", "<="}
Operator == {"=", "!="} \cup Lower \cup Upper

\* One comparison of two numbers or two strings.
Ordered(op, m, n) ==
  CASE op = "=" -> m = n [] op = "!=" -> m # n
    [] op = "<" -> m < n [] op = "<=" -> m <= n
    [] op = ">" -> m > n [] op = ">=" -> m >= n

\* left == right, left < right, ... of two values that are not NULL.
Holds(op, a, b) ==
  IF a.kind = b.kind THEN Ordered(op, a.n, b.n) ELSE op = "!="

Compare(op, a, b) ==
  IF IsNullValue(a) \/ IsNullValue(b) THEN "U" ELSE Bool3(Holds(op, a, b))

\* a IN (the members of S)
Member(a, S) ==
  IF IsNullValue(a) THEN "U" ELSE Bool3(\E v \in S : Holds("=", a, v))

\* IS DISTINCT FROM is total: two NULLs are the same.
Distinct(a, b) ==
  IF IsNullValue(a) \/ IsNullValue(b) THEN IsNullValue(a) # IsNullValue(b) ELSE a # b

-----------------------------------------------------------------------------
(* The optimiser's rules *)

\* Mutant: the strict operators are exchanged.
InvertedStrict ==
  [op \in Operator |->
     CASE op = "=" -> "!=" [] op = "!=" -> "=" [] op = "<" -> ">"
       [] op = ">" -> "<" [] op = "<=" -> ">" [] op = ">=" -> "<"]

\* _INVERTED_COMPARISON
Inverted ==
  [op \in Operator |->
     CASE op = "=" -> "!=" [] op = "!=" -> "=" [] op = "<" -> ">="
       [] op = ">=" -> "<" [] op = ">" -> "<=" [] op = "<=" -> ">"]

Comparable(a, b) == a.kind = b.kind /\ ~IsNullValue(a)

\* Which of two lower or of two upper bounds is the stronger: 1 the left, 2 the
\* right.  At the same literal it is the strict one.
StrongerBound(opl, a, opr, b) ==
  IF a.n = b.n THEN (IF opl = opr \/ opl \in {">", "<"} THEN 1 ELSE 2)
  ELSE IF (opl \in Lower) = (a.n > b.n) THEN 1 ELSE 2

\* The one to keep of two bounds, under AND the stronger, under OR the other.
SelectBound(op, opl, a, opr, b) ==
  IF op = "AND" \/ (opl = opr /\ a.n = b.n) THEN StrongerBound(opl, a, opr, b)
  ELSE 3 - StrongerBound(opl, a, opr, b)

\* _dominant_comparison of (x opl a) and (x opr b) joined by op: the place of
\* the term to keep, 0 when both are needed.
Dominant(op, opl, a, opr, b) ==
  IF IsNullValue(a) \/ IsNullValue(b) THEN 0
  ELSE IF \/ opl \in Lower /\ opr \in Lower
          \/ opl \in Upper /\ opr \in Upper
  THEN (IF Comparable(a, b) THEN SelectBound(op, opl, a, opr, b) ELSE 0)
  ELSE IF opl = "=" /\ opr \in Lower \cup Upper /\ Comparable(a, b) /\ Ordered(opr, a.n, b.n)
  THEN (IF op = "AND" THEN 1 ELSE 2)
  ELSE IF opr = "=" /\ opl # "=" /\ opl \in Lower \cup Upper
          /\ Comparable(a, b) /\ Ordered(opl, b.n, a.n)
  THEN (IF op = "AND" THEN 2 ELSE 1)
  ELSE 0

\* Mutant: bounds that meet in one value cross.
BoundsCrossTouching(opl, a, opu, b) == Holds(">=", a, b)

\* The contradiction of a lower bound (x opl a) and an upper one (x opu b).
BoundsCross(opl, a, opu, b) ==
  Holds(">", a, b) \/ (Holds("=", a, b) /\ (opl = ">" \/ opu = "<"))
=============================================================================
