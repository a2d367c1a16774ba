--------------------------- MODULE QueryRewrite_proofs ---------------------------
(***************************************************************************)
(* The algebra of comparisons the optimiser's rewrites rest on, and the    *)
(* rewriting of a predicate: every pass keeps the truth of the query on    *)
(* every row, for every source, every predicate and every number of passes.*)
(***************************************************************************)
EXTENDS QueryRewrite, FiniteSetTheorems, SequenceTheorems, WellFoundedInduction, TLAPS

-----------------------------------------------------------------------------
(* Truth values *)

\* Comparisons and membership have one of the three truth values.
LEMMA TruthOfComparison ==
  ASSUME NEW op, NEW a, NEW b, NEW S
  PROVE  Compare(op, a, b) \in Truths /\ Member(a, S) \in Truths
BY DEF Compare, Member, Truths, Bool3

\* _flatten and _rebuild regroup the operands of a connective, and
\* _deduplicate_terms drops one that is there already.
THEOREM ConnectRegroups ==
  ASSUME NEW op \in {"AND", "OR"}, NEW r \in Truths, NEW s \in Truths, NEW t \in Truths
  PROVE  /\ Connect(op, Connect(op, r, s), t) = Connect(op, r, Connect(op, s, t))
         /\ Connect(op, r, s) = Connect(op, s, r)
         /\ Connect(op, r, r) = r
BY DEF Truths, Connect, And3, Or3

\* A literal that decides a connective decides it whatever stands on its right,
\* and its opposite leaves the other operand as it is.
THEOREM LiteralsDecide ==
  ASSUME NEW t \in Truths
  PROVE  /\ And3("F", t) = "F" /\ Or3("T", t) = "T"
         /\ And3("T", t) = t /\ Or3("F", t) = t
         /\ And3(t, "T") = t /\ Or3(t, "F") = t
BY DEF Truths, And3, Or3

-----------------------------------------------------------------------------
(* NOT of a comparison *)

\* What each operator says of two integers.
LEMMA OrderedIs ==
  ASSUME NEW m \in Int, NEW n \in Int
  PROVE  /\ Ordered("=", m, n) <=> m = n
         /\ Ordered("!=", m, n) <=> m # n
         /\ Ordered("<", m, n) <=> m < n
         /\ Ordered("<=", m, n) <=> m <= n
         /\ Ordered(">", m, n) <=> m > n
         /\ Ordered(">=", m, n) <=> m >= n
<1>1. Ordered("=", m, n) <=> m = n
  BY DEF Ordered
<1>2. Ordered("!=", m, n) <=> m # n
  BY DEF Ordered
<1>3. Ordered("<", m, n) <=> m < n
  BY DEF Ordered
<1>4. Ordered("<=", m, n) <=> m <= n
  BY DEF Ordered
<1>5. Ordered(">", m, n) <=> m > n
  BY DEF Ordered
<1>6. Ordered(">=", m, n) <=> m >= n
  BY DEF Ordered
<1> QED
  BY <1>1, <1>2, <1>3, <1>4, <1>5, <1>6

\* The entries of _INVERTED_COMPARISON.
LEMMA InvertedIs ==
  /\ Inverted["="] = "!=" /\ Inverted["!="] = "="
  /\ Inverted["<"] = ">=" /\ Inverted[">="] = "<"
  /\ Inverted[">"] = "<=" /\ Inverted["<="] = ">"
<1>1. Inverted["="] = "!=" /\ Inverted["!="] = "="
  BY DEF Inverted, Operator
<1>2. Inverted["<"] = ">=" /\ Inverted[">="] = "<"
  BY DEF Inverted, Operator, Lower, Upper
<1>3. Inverted[">"] = "<=" /\ Inverted["<="] = ">"
  BY DEF Inverted, Operator, Lower, Upper
<1> QED
  BY <1>1, <1>2, <1>3

\* _normalise_not twice is where it began.
THEOREM InvertedTwice ==
  ASSUME NEW op \in Operator
  PROVE  Inverted[op] \in Operator /\ Inverted[Inverted[op]] = op
BY InvertedIs DEF Operator, Lower, Upper

\* An inverted comparison is the NOT of the comparison: for numbers, for
\* strings, with NULL on either side; of a number and a string only = and !=.
THEOREM InvertedIsNot ==
  ASSUME NEW op \in Operator, NEW a \in Value, NEW b \in Value,
         a.kind = b.kind \/ IsNullValue(a) \/ IsNullValue(b) \/ op \in {"=", "!="}
  PROVE  Compare(Inverted[op], a, b) = Not3(Compare(op, a, b))
<1> DEFINE m == a.n
           n == b.n
<1>1. m \in Int /\ n \in Int
  BY DEF Value
<1>2. ASSUME a.kind = b.kind
      PROVE  Holds(Inverted[op], a, b) <=> ~Holds(op, a, b)
  <2>1. Ordered(Inverted[op], m, n) <=> ~Ordered(op, m, n)
    BY <1>1, InvertedIs, OrderedIs DEF Operator, Lower, Upper
  <2> QED
    BY <1>2, <2>1 DEF Holds
<1>3. ASSUME a.kind # b.kind, op \in {"=", "!="}
      PROVE  Holds(Inverted[op], a, b) <=> ~Holds(op, a, b)
  BY <1>3, InvertedIs DEF Holds
<1> QED
  BY <1>2, <1>3 DEF Compare, Not3, Bool3

-----------------------------------------------------------------------------
(* Two comparisons of one field *)

\* The stronger of two bounds on integers implies the weaker.
LEMMA BoundsOrdered ==
  ASSUME NEW x \in Int, NEW m \in Int, NEW n \in Int,
         NEW opl \in Operator, NEW opr \in Operator,
         \/ opl \in Lower /\ opr \in Lower
         \/ opl \in Upper /\ opr \in Upper,
         NEW keep, keep = IF m = n THEN (IF opl = opr \/ opl \in {">", "<"} THEN 1 ELSE 2)
                          ELSE IF (opl \in Lower) = (m > n) THEN 1 ELSE 2
  PROVE  /\ keep = 1 => (Ordered(opl, x, m) => Ordered(opr, x, n))
         /\ keep = 2 => (Ordered(opr, x, n) => Ordered(opl, x, m))
<1>1. CASE opl = ">" /\ opr = ">"
  BY <1>1, OrderedIs DEF Lower, Upper
<1>2. CASE opl = ">" /\ opr = ">="
  BY <1>2, OrderedIs DEF Lower, Upper
<1>3. CASE opl = ">=" /\ opr = ">"
  BY <1>3, OrderedIs DEF Lower, Upper
<1>4. CASE opl = ">=" /\ opr = ">="
  BY <1>4, OrderedIs DEF Lower, Upper
<1>5. CASE opl = "<" /\ opr = "<"
  BY <1>5, OrderedIs DEF Lower, Upper
<1>6. CASE opl = "<" /\ opr = "<="
  BY <1>6, OrderedIs DEF Lower, Upper
<1>7. CASE opl = "<=" /\ opr = "<"
  BY <1>7, OrderedIs DEF Lower, Upper
<1>8. CASE opl = "<=" /\ opr = "<="
  BY <1>8, OrderedIs DEF Lower, Upper
<1> QED
  BY <1>1, <1>2, <1>3, <1>4, <1>5, <1>6, <1>7, <1>8 DEF Lower, Upper

\* A comparison that implies another decides their conjunction, and the other
\* decides their disjunction, also when the field is NULL or of another kind.
LEMMA ImpliedIsRedundant ==
  ASSUME NEW x \in Value, NEW a \in Value, NEW b \in Value, NEW opl, NEW opr,
         ~IsNullValue(a), ~IsNullValue(b),
         Holds(opl, x, a) => Holds(opr, x, b)
  PROVE  /\ And3(Compare(opl, x, a), Compare(opr, x, b)) = Compare(opl, x, a)
         /\ And3(Compare(opr, x, b), Compare(opl, x, a)) = Compare(opl, x, a)
         /\ Or3(Compare(opl, x, a), Compare(opr, x, b)) = Compare(opr, x, b)
         /\ Or3(Compare(opr, x, b), Compare(opl, x, a)) = Compare(opr, x, b)
BY DEF Compare, And3, Or3, Bool3

\* The stronger of two bounds implies the weaker one on every value.
LEMMA StrongerImplies ==
  ASSUME NEW x \in Value, NEW a \in Value, NEW b \in Value,
         NEW opl \in Operator, NEW opr \in Operator, Comparable(a, b),
         \/ opl \in Lower /\ opr \in Lower
         \/ opl \in Upper /\ opr \in Upper
  PROVE  /\ StrongerBound(opl, a, opr, b) \in {1, 2}
         /\ StrongerBound(opl, a, opr, b) = 1 => (Holds(opl, x, a) => Holds(opr, x, b))
         /\ StrongerBound(opl, a, opr, b) = 2 => (Holds(opr, x, b) => Holds(opl, x, a))
<1> DEFINE keep == StrongerBound(opl, a, opr, b)
<1>1. x.n \in Int /\ a.n \in Int /\ b.n \in Int
  BY DEF Value
<1>2. a.kind = b.kind /\ opl # "!=" /\ opr # "!="
  BY DEF Comparable, Lower, Upper
<1>3. /\ keep = 1 => (Ordered(opl, x.n, a.n) => Ordered(opr, x.n, b.n))
      /\ keep = 2 => (Ordered(opr, x.n, b.n) => Ordered(opl, x.n, a.n))
  BY <1>1, BoundsOrdered DEF StrongerBound
<1>4. keep \in {1, 2}
  BY DEF StrongerBound
<1> QED
  BY <1>2, <1>3, <1>4 DEF Holds

\* _dominant_comparison: the comparison it keeps has, on every value of the
\* field, the truth value of the two it stands for.
THEOREM DominantKeepsTruth ==
  ASSUME NEW op \in {"AND", "OR"}, NEW x \in Value, NEW a \in Value, NEW b \in Value,
         NEW opl \in Operator, NEW opr \in Operator
  PROVE  LET both == Connect(op, Compare(opl, x, a), Compare(opr, x, b))
             keep == Dominant(op, opl, a, opr, b)
         IN /\ keep = 1 => both = Compare(opl, x, a)
            /\ keep = 2 => both = Compare(opr, x, b)
<1> DEFINE both == Connect(op, Compare(opl, x, a), Compare(opr, x, b))
           keep == Dominant(op, opl, a, opr, b)
           lowers == opl \in Lower /\ opr \in Lower
           uppers == opl \in Upper /\ opr \in Upper
           equalL == opl = "=" /\ opr \in Lower \cup Upper
           equalR == opr = "=" /\ opl # "=" /\ opl \in Lower \cup Upper
<1>1. CASE keep \notin {1, 2}
  BY <1>1
<1>2. CASE keep \in {1, 2} /\ (lowers \/ uppers)
  <2> DEFINE strong == StrongerBound(opl, a, opr, b)
  <2>1. /\ ~IsNullValue(a) /\ ~IsNullValue(b) /\ Comparable(a, b)
        /\ keep = SelectBound(op, opl, a, opr, b)
    BY <1>2 DEF Dominant, Lower, Upper
  <2>4. /\ strong \in {1, 2}
        /\ strong = 1 => (Holds(opl, x, a) => Holds(opr, x, b))
        /\ strong = 2 => (Holds(opr, x, b) => Holds(opl, x, a))
    BY <1>2, <2>1, StrongerImplies
  <2>5. CASE opl = opr /\ a.n = b.n
    <3>1. Compare(opl, x, a) = Compare(opr, x, b)
      BY <2>1, <2>5 DEF Compare, Holds, Comparable
    <3> QED
      BY <3>1, TruthOfComparison, ConnectRegroups
  <2>6. CASE ~(opl = opr /\ a.n = b.n)
    <3>1. keep = IF op = "AND" THEN strong ELSE 3 - strong
      BY <2>1, <2>6 DEF SelectBound
    <3>2. CASE strong = 1
      BY <2>1, <2>4, <3>1, <3>2, ImpliedIsRedundant DEF Connect
    <3>3. CASE strong = 2
      BY <2>1, <2>4, <3>1, <3>3, ImpliedIsRedundant DEF Connect
    <3> QED
      BY <2>4, <3>2, <3>3
  <2> QED
    BY <2>5, <2>6
<1>3. CASE keep \in {1, 2} /\ equalL /\ ~lowers /\ ~uppers
  <2>1. /\ ~IsNullValue(a) /\ ~IsNullValue(b) /\ Comparable(a, b)
        /\ Ordered(opr, a.n, b.n)
        /\ keep = IF op = "AND" THEN 1 ELSE 2
    BY <1>3 DEF Dominant, Lower, Upper
  <2>2. Holds(opl, x, a) => Holds(opr, x, b)
    BY <1>3, <2>1 DEF Holds, Ordered, Comparable, Value, Lower, Upper
  <2> QED
    BY <2>1, <2>2, ImpliedIsRedundant DEF Connect
<1>4. CASE keep \in {1, 2} /\ equalR
  <2>1. /\ ~IsNullValue(a) /\ ~IsNullValue(b) /\ Comparable(a, b)
        /\ Ordered(opl, b.n, a.n)
        /\ keep = IF op = "AND" THEN 2 ELSE 1
    BY <1>4 DEF Dominant, Lower, Upper
  <2>2. Holds(opr, x, b) => Holds(opl, x, a)
    BY <1>4, <2>1 DEF Holds, Ordered, Comparable, Value, Lower, Upper
  <2> QED
    BY <2>1, <2>2, ImpliedIsRedundant DEF Connect
<1>5. keep \in {1, 2} => lowers \/ uppers \/ equalL \/ equalR
  BY DEF Dominant
<1> QED
  BY <1>1, <1>2, <1>3, <1>4, <1>5

-----------------------------------------------------------------------------
(* Memberships and contradictions *)

\* _simplify_memberships: of two lists the contained one decides AND, the
\* containing one OR.
THEOREM ContainedListDecides ==
  ASSUME NEW x, NEW S, NEW T, S \subseteq T
  PROVE  /\ And3(Member(x, S), Member(x, T)) = Member(x, S)
         /\ Or3(Member(x, S), Member(x, T)) = Member(x, T)
BY DEF Member, And3, Or3, Bool3

\* A list of one value that is not NULL is an equality.
THEOREM SingletonListIsEquality ==
  ASSUME NEW x, NEW v, ~IsNullValue(v)
  PROVE  Member(x, {v}) = Compare("=", x, v)
BY DEF Member, Compare, Bool3

\* _prove_and_contradiction: no value satisfies a lower and an upper bound that
\* the code says cross.
THEOREM CrossedBoundsUnsatisfiable ==
  ASSUME NEW x \in Value, NEW a \in Value, NEW b \in Value,
         NEW opl \in Lower, NEW opu \in Upper, BoundsCross(opl, a, opu, b)
  PROVE  And3(Compare(opl, x, a), Compare(opu, x, b)) # "T"
<1>1. x.n \in Int /\ a.n \in Int /\ b.n \in Int
  BY DEF Value
<1>2. ASSUME Holds(opl, x, a), Holds(opu, x, b)
      PROVE  FALSE
  <2>1. /\ x.kind = a.kind /\ x.kind = b.kind
        /\ Ordered(opl, x.n, a.n) /\ Ordered(opu, x.n, b.n)
    BY <1>2 DEF Holds, Lower, Upper
  <2>2. (opl = ">=" /\ x.n >= a.n) \/ (opl = ">" /\ x.n > a.n)
    BY <1>1, <2>1, OrderedIs DEF Lower
  <2>3. (opu = "<=" /\ x.n <= b.n) \/ (opu = "<" /\ x.n < b.n)
    BY <1>1, <2>1, OrderedIs DEF Upper
  <2>4. a.n > b.n \/ (a.n = b.n /\ (opl = ">" \/ opu = "<"))
    BY <1>1, <2>1, OrderedIs DEF BoundsCross, Holds
  <2> QED
    BY <1>1, <2>2, <2>3, <2>4
<1> QED
  BY <1>2 DEF Compare, And3, Bool3

-----------------------------------------------------------------------------
(* Induction on numbers and on sequences, for a set of them *)

LEMMA AllNumbers ==
  ASSUME NEW P, 0 \in P, \A n \in P \cap Nat : n + 1 \in P
  PROVE  Nat \subseteq P
<1> SUFFICES ASSUME Nat \ P # {} PROVE FALSE
  OBVIOUS
<1>1. PICK x \in Nat \ P : \A y \in Nat \ P : ~ (<<y, x>> \in OpToRel(<, Nat))
  BY NatLessThanWellFounded, WFMin
<1>2. x \in Nat /\ x # 0
  OBVIOUS
<1>3. x - 1 \in Nat /\ x - 1 < x
  BY <1>2
<1>4. x - 1 \in P
  BY <1>1, <1>2, <1>3 DEF OpToRel
<1>5. x - 1 + 1 \in P
  BY <1>3, <1>4
<1> QED
  BY <1>2, <1>5

LEMMA AllSequences ==
  ASSUME NEW T, NEW P, <<>> \in P,
         \A s \in P \cap Seq(T), e \in T : Append(s, e) \in P
  PROVE  Seq(T) \subseteq P
<1> DEFINE N == {n \in Nat : \A s \in Seq(T) : Len(s) = n => s \in P}
<1>1. 0 \in N
  BY EmptySeq
<1>2. ASSUME NEW n \in N PROVE n + 1 \in N
  <2>1. ASSUME NEW s \in Seq(T), Len(s) = n + 1 PROVE s \in P
    <3> DEFINE front == [i \in 1..n |-> s[i]]
    <3>1. front \in Seq(T) /\ Len(front) = n
      BY <2>1
    <3>2. front \in P /\ s[n + 1] \in T
      BY <2>1, <3>1
    <3>3. s = Append(front, s[n + 1])
      BY <2>1, <3>1, <3>2
    <3> QED
      BY <3>1, <3>2, <3>3
  <2> QED
    BY <2>1
<1> HIDE DEF N
<1>3. Nat \subseteq N
  BY <1>1, <1>2, AllNumbers, Zenon
<1> QED
  BY <1>3, LenProperties DEF N

\* Two functions that take the same steps are the same.
LEMMA SameRecursion ==
  ASSUME NEW n \in Nat, NEW g, NEW h, g[0] = h[0],
         \A i \in 1..n : g[i - 1] = h[i - 1] => g[i] = h[i]
  PROVE  g[n] = h[n]
<1> DEFINE N == {m \in Nat : m <= n => g[m] = h[m]}
<1>1. 0 \in N
  OBVIOUS
<1>2. ASSUME NEW m \in N \cap Nat PROVE m + 1 \in N
  <2> SUFFICES ASSUME m + 1 <= n PROVE g[m + 1] = h[m + 1]
    OBVIOUS
  <2>1. g[m] = h[m] /\ m + 1 \in 1..n /\ m + 1 - 1 = m
    OBVIOUS
  <2> QED
    BY <2>1
<1> HIDE DEF N
<1>3. Nat \subseteq N
  BY <1>1, <1>2, AllNumbers
<1> QED
  BY <1>3 DEF N

-----------------------------------------------------------------------------
(* Predicates nested to a depth *)

\* Nested is what its recursive definition says, at every depth.
LEMMA NestedIs ==
  ASSUME NEW L, NEW n \in Nat
  PROVE  Nested(L, 0) = L /\ Nested(L, n + 1) = L \cup Compound(Nested(L, n))
<1> DEFINE Levels(m, g) ==
      g = [i \in 0..m |-> IF i = 0 THEN L ELSE L \cup Compound(g[i - 1])]
<1> DEFINE N == {m \in Nat : \E g : Levels(m, g)}
<1>1. 0 \in N
  <2>1. Levels(0, [i \in 0..0 |-> L])
    OBVIOUS
  <2> HIDE DEF Levels
  <2> QED
    BY <2>1
<1>2. ASSUME NEW m \in N \cap Nat PROVE m + 1 \in N
  <2>1. PICK g : Levels(m, g)
    BY DEF N
  <2> DEFINE h == [i \in 0..(m + 1) |-> IF i <= m THEN g[i] ELSE L \cup Compound(g[m])]
  <2>2. ASSUME NEW i \in 0..(m + 1)
        PROVE  h[i] = IF i = 0 THEN L ELSE L \cup Compound(h[i - 1])
    <3>1. CASE i = 0
      BY <2>1, <3>1
    <3>2. CASE i \in 1..m
      <4>1. i \in 0..m /\ i - 1 \in 0..m /\ i # 0 /\ i - 1 \in 0..(m + 1)
        BY <3>2
      <4>2. h[i] = g[i] /\ h[i - 1] = g[i - 1]
        BY <4>1
      <4>3. g[i] = L \cup Compound(g[i - 1])
        BY <2>1, <4>1
      <4> HIDE DEF h
      <4> QED
        BY <4>1, <4>2, <4>3
    <3>3. CASE i = m + 1
      <4>1. h[i] = L \cup Compound(g[m]) /\ h[i - 1] = g[m] /\ i # 0
        BY <3>3
      <4> HIDE DEF h
      <4> QED
        BY <4>1
    <3> QED
      BY <3>1, <3>2, <3>3
  <2>3. Levels(m + 1, h)
    <3> DEFINE k == [i \in 0..(m + 1) |-> IF i = 0 THEN L ELSE L \cup Compound(h[i - 1])]
    <3>1. \A i \in 0..(m + 1) : h[i] = k[i]
      <4> HIDE DEF h
      <4> QED
        BY <2>2
    <3>2. DOMAIN h = 0..(m + 1) /\ h = [i \in DOMAIN h |-> h[i]]
      OBVIOUS
    <3>3. k = [i \in 0..(m + 1) |-> k[i]]
      <4> HIDE DEF h
      <4> QED
        OBVIOUS
    <3>4. h = k
      <4> HIDE DEF h, k
      <4> QED
        BY <3>1, <3>2, <3>3
    <3> QED
      <4> HIDE DEF h
      <4> QED
        BY <3>4
  <2> HIDE DEF Levels
  <2> QED
    BY <2>3
<1>3. Nat \subseteq N
  <2> HIDE DEF N
  <2> QED
    BY <1>1, <1>2, AllNumbers
<1> DEFINE level(m) == CHOOSE g : Levels(m, g)
<1>4. ASSUME NEW m \in Nat PROVE Levels(m, level(m))
  <2>1. \E g : Levels(m, g)
    BY <1>3
  <2> HIDE DEF Levels
  <2> QED
    BY <2>1
<1>5. ASSUME NEW m \in Nat PROVE Nested(L, m) = level(m)[m]
  BY DEF Nested
<1> HIDE DEF level
<1>6. level(0)[0] = L
  <2>1. Levels(0, level(0))
    BY <1>4
  <2> QED
    BY <2>1
<1>7. level(n)[0] = level(n + 1)[0] /\ Levels(n, level(n)) /\ Levels(n + 1, level(n + 1))
  <2>1. ASSUME NEW m \in Nat PROVE level(m)[0] = L
    <3>1. Levels(m, level(m))
      BY <1>4
    <3>2. 0 \in 0..m
      OBVIOUS
    <3> QED
      BY <3>1, <3>2
  <2> HIDE DEF Levels
  <2> QED
    BY <1>4, <2>1
<1>8. ASSUME NEW i \in 1..n, level(n)[i - 1] = level(n + 1)[i - 1]
      PROVE  level(n)[i] = level(n + 1)[i]
  <2>1. i \in 0..n /\ i \in 0..(n + 1) /\ i # 0
    OBVIOUS
  <2>2. level(n)[i] = L \cup Compound(level(n)[i - 1])
    BY <1>7, <2>1
  <2>3. level(n + 1)[i] = L \cup Compound(level(n + 1)[i - 1])
    BY <1>7, <2>1
  <2> QED
    BY <1>8, <2>2, <2>3
<1>9. level(n)[n] = level(n + 1)[n]
  <2> DEFINE a == level(n)
             b == level(n + 1)
  <2>1. a[0] = b[0] /\ \A i \in 1..n : a[i - 1] = b[i - 1] => a[i] = b[i]
    BY <1>7, <1>8
  <2> HIDE DEF a, b
  <2>2. a[n] = b[n]
    BY <2>1, SameRecursion
  <2> QED
    BY <2>2 DEF a, b
<1>10. level(n + 1)[n + 1] = L \cup Compound(level(n + 1)[n])
  BY <1>7
<1> QED
  BY <1>5, <1>6, <1>9, <1>10

\* Deeper nesting has all that there is.
LEMMA CompoundMonotone ==
  ASSUME NEW A, NEW B, A \subseteq B PROVE Compound(A) \subseteq Compound(B)
BY DEF Compound

LEMMA NestedGrows ==
  ASSUME NEW L, NEW n \in Nat PROVE Nested(L, n) \subseteq Nested(L, n + 1)
<1> DEFINE N == {m \in Nat : Nested(L, m) \subseteq Nested(L, m + 1)}
<1>1. 0 \in N
  BY NestedIs
<1>2. ASSUME NEW m \in N \cap Nat PROVE m + 1 \in N
  <2>1. /\ Nested(L, m + 1) = L \cup Compound(Nested(L, m))
        /\ Nested(L, (m + 1) + 1) = L \cup Compound(Nested(L, m + 1))
    BY NestedIs
  <2>2. Compound(Nested(L, m)) \subseteq Compound(Nested(L, m + 1))
    BY CompoundMonotone
  <2> QED
    BY <2>1, <2>2
<1> HIDE DEF N
<1>3. Nat \subseteq N
  BY <1>1, <1>2, AllNumbers
<1> QED
  BY <1>3 DEF N

LEMMA NestedMonotone ==
  ASSUME NEW L, NEW n \in Nat, NEW m \in 0..n PROVE Nested(L, m) \subseteq Nested(L, n)
<1> DEFINE N == {i \in Nat : m + i <= n => Nested(L, m) \subseteq Nested(L, m + i)}
<1>1. 0 \in N
  OBVIOUS
<1>2. ASSUME NEW i \in N \cap Nat PROVE i + 1 \in N
  <2> SUFFICES ASSUME m + (i + 1) <= n PROVE Nested(L, m) \subseteq Nested(L, m + (i + 1))
    OBVIOUS
  <2>1. Nested(L, m) \subseteq Nested(L, m + i)
    OBVIOUS
  <2>2. Nested(L, m + i) \subseteq Nested(L, (m + i) + 1)
    BY NestedGrows
  <2>3. (m + i) + 1 = m + (i + 1)
    OBVIOUS
  <2> QED
    BY <2>1, <2>2, <2>3
<1> HIDE DEF N
<1>3. n - m \in N
  BY <1>1, <1>2, AllNumbers
<1> QED
  BY <1>3 DEF N

\* What holds of the leaves, and of a compound of what it holds of, holds of all.
LEMMA AllPredicates ==
  ASSUME NEW L, NEW n \in Nat, NEW P, L \subseteq P,
         \A y \in Compound(P \cap Nested(L, n)) \cap Nested(L, n) : y \in P
  PROVE  Nested(L, n) \subseteq P
<1> DEFINE N == {m \in Nat : m <= n => Nested(L, m) \subseteq P}
<1>1. 0 \in N
  BY NestedIs
<1>2. ASSUME NEW m \in N \cap Nat PROVE m + 1 \in N
  <2> SUFFICES ASSUME m + 1 <= n, NEW y \in Nested(L, m + 1) PROVE y \in P
    OBVIOUS
  <2>1. Nested(L, m) \subseteq P \cap Nested(L, n)
    BY NestedMonotone
  <2>2. y \in Nested(L, n)
    BY NestedMonotone
  <2>3. y \in L \cup Compound(Nested(L, m))
    BY NestedIs
  <2>4. Compound(Nested(L, m)) \subseteq Compound(P \cap Nested(L, n))
    BY <2>1, CompoundMonotone
  <2> QED
    BY <2>2, <2>3, <2>4
<1> HIDE DEF N
<1>3. Nat \subseteq N
  BY <1>1, <1>2, AllNumbers
<1> QED
  BY <1>3 DEF N
-----------------------------------------------------------------------------
(* What a predicate is made of *)

LeafKind == {"lit", "cmp", "distinct", "between", "in", "null"}
CompoundKind == {"test", "not", "AND", "OR"}

LEMMA LeafIs ==
  ASSUME NEW x \in Leaf
  PROVE  /\ x.k \in LeafKind
         /\ x.k = "lit" => x = Literal(x.t) /\ x.t \in Truths
         /\ x.k = "cmp" => /\ x = Binary(x.f, x.op, x.v)
                           /\ x.f \in Field /\ x.op \in Operator /\ x.v \in Value
         /\ x.k = "distinct" => x.f \in Field /\ x.v \in Value /\ x.neg \in BOOLEAN
         /\ x.k = "between" => /\ x.f \in Field /\ x.lo \in Value /\ x.hi \in Value
                               /\ x.neg \in BOOLEAN
         /\ x.k = "in" => /\ x.f \in Field /\ x.vs \in Seq(Value) /\ x.vs # <<>>
                          /\ x.neg \in BOOLEAN
         /\ x.k = "null" => x.f \in Field /\ x.neg \in BOOLEAN
<1>1. CASE x \in [k : {"lit"}, t : Truths]
  BY <1>1 DEF LeafKind, Literal
<1>2. CASE x \in [k : {"cmp"}, f : Field, op : Operator, v : Value]
  BY <1>2 DEF LeafKind, Binary
<1>3. CASE x \in [k : {"distinct"}, f : Field, v : Value, neg : BOOLEAN]
  BY <1>3 DEF LeafKind
<1>4. CASE x \in [k : {"between"}, f : Field, lo : Value, hi : Value, neg : BOOLEAN]
  BY <1>4 DEF LeafKind
<1>5. CASE x \in [k : {"in"}, f : Field, vs : Seq(Value) \ {<<>>}, neg : BOOLEAN]
  BY <1>5 DEF LeafKind
<1>6. CASE x \in [k : {"null"}, f : Field, neg : BOOLEAN]
  BY <1>6 DEF LeafKind
<1> QED
  BY <1>1, <1>2, <1>3, <1>4, <1>5, <1>6 DEF Leaf

LEMMA CompoundIs ==
  ASSUME NEW S, NEW y \in Compound(S)
  PROVE  /\ y.k \in CompoundKind
         /\ y.k = "test" => y.x \in S /\ y.truth \in Truths /\ y.neg \in BOOLEAN
         /\ y.k = "not" => y = Not(y.x) /\ y.x \in S
         /\ IsJunction(y) => y = Junction(y.k, y.l, y.r) /\ y.l \in S /\ y.r \in S
<1>1. CASE y \in [k : {"test"}, x : S, truth : Truths, neg : BOOLEAN]
  BY <1>1 DEF CompoundKind, IsJunction
<1>2. CASE y \in [k : {"not"}, x : S]
  BY <1>2 DEF CompoundKind, IsJunction, Not
<1>3. CASE y \in [k : {"AND", "OR"}, l : S, r : S]
  BY <1>3 DEF CompoundKind, IsJunction, Junction
<1> QED
  BY <1>1, <1>2, <1>3 DEF Compound

\* A predicate is a leaf, or a compound of predicates nested less deep.
LEMMA Parts ==
  ASSUME NEW L, L \subseteq Leaf, NEW n \in Nat, NEW y \in Nested(L, n)
  PROVE  \/ y \in L /\ y.k \in LeafKind
         \/ /\ n # 0 /\ y.k \in CompoundKind
            /\ y \in Compound(Nested(L, n - 1)) /\ y \in Compound(Nested(L, n))
<1>1. CASE n = 0
  <2>1. y \in L
    BY <1>1, NestedIs
  <2> QED
    BY <2>1, LeafIs
<1>2. CASE n # 0
  <2> DEFINE m == n - 1
  <2>1. m \in Nat /\ m + 1 = n /\ m \in 0..n
    BY <1>2
  <2>2. Nested(L, m + 1) = L \cup Compound(Nested(L, m))
    BY <2>1, NestedIs
  <2>3. CASE y \in L
    BY <2>3, LeafIs
  <2>4. CASE y \in Compound(Nested(L, m))
    <3>1. y.k \in CompoundKind
      BY <2>4, CompoundIs
    <3>2. Nested(L, m) \subseteq Nested(L, n)
      BY <2>1, NestedMonotone
    <3>3. y \in Compound(Nested(L, n))
      BY <2>4, <3>2, CompoundMonotone
    <3> QED
      BY <1>2, <2>4, <3>1, <3>3
  <2> QED
    BY <2>1, <2>2, <2>3, <2>4
<1> QED
  BY <1>1, <1>2

LEMMA KindsDiffer == LeafKind \cap CompoundKind = {}
BY DEF LeafKind, CompoundKind

\* The operands of a predicate are predicates, one less deep.
LEMMA PartsBelow ==
  ASSUME NEW m \in Nat, NEW y \in Nested(Leaf, m + 1)
  PROVE  /\ y.k \in LeafKind \cup CompoundKind
         /\ y.k \in {"test", "not"} => y.x \in Nested(Leaf, m)
         /\ IsJunction(y) => y.l \in Nested(Leaf, m) /\ y.r \in Nested(Leaf, m)
<1>1. m + 1 \in Nat /\ (m + 1) - 1 = m
  OBVIOUS
<1>2. \/ y \in Leaf /\ y.k \in LeafKind
      \/ y.k \in CompoundKind /\ y \in Compound(Nested(Leaf, m))
  BY <1>1, Parts
<1>3. CASE y \in Leaf /\ y.k \in LeafKind
  BY <1>3 DEF LeafKind, IsJunction
<1>4. CASE y.k \in CompoundKind /\ y \in Compound(Nested(Leaf, m))
  BY <1>4, CompoundIs
<1> QED
  BY <1>2, <1>3, <1>4

-----------------------------------------------------------------------------
(* The recursive functions over predicates are what their definitions say *)

EvaluateBody(y, truth, row) ==
  CASE y.k = "test" -> Bool3((truth[y.x] = y.truth) # y.neg)
    [] y.k = "not" -> Not3(truth[y.x])
    [] IsJunction(y) -> Connect(y.k, truth[y.l], truth[y.r])
    [] OTHER -> Tested(y, row)

LEMMA EvaluateExists ==
  ASSUME NEW row
  PROVE  \E g : g = [y \in Predicate |-> EvaluateBody(y, g, row)]
<1> DEFINE Upto(m, g) == g = [y \in Nested(Leaf, m) |-> EvaluateBody(y, g, row)]
           N == {m \in Nat : \E g : Upto(m, g)}
<1>1. 0 \in N
  <2> DEFINE h == [y \in Leaf |-> EvaluateBody(y, <<>>, row)]
  <2>1. ASSUME NEW y \in Leaf PROVE h[y] = EvaluateBody(y, h, row)
    <3>1. y.k \in LeafKind
      BY LeafIs
    <3>2. EvaluateBody(y, <<>>, row) = EvaluateBody(y, h, row)
      <4> HIDE DEF h
      <4> QED
        BY <3>1 DEF EvaluateBody, LeafKind, IsJunction
    <3> QED
      BY <3>2
  <2>2. h = [y \in Leaf |-> h[y]]
    OBVIOUS
  <2>3. Nested(Leaf, 0) = Leaf
    BY NestedIs
  <2> HIDE DEF h
  <2>4. h = [y \in Leaf |-> EvaluateBody(y, h, row)]
    BY <2>1, <2>2
  <2>5. Upto(0, h)
    BY <2>3, <2>4
  <2> HIDE DEF Upto
  <2> QED
    BY <2>5
<1>2. ASSUME NEW m \in N \cap Nat PROVE m + 1 \in N
  <2>1. PICK g : Upto(m, g)
    BY DEF N
  <2> DEFINE h == [y \in Nested(Leaf, m + 1) |-> EvaluateBody(y, g, row)]
  <2>2. ASSUME NEW y \in Nested(Leaf, m) PROVE h[y] = g[y]
    <3>1. y \in Nested(Leaf, m + 1)
      BY NestedGrows
    <3>2. h[y] = EvaluateBody(y, g, row)
      BY <3>1
    <3>3. g[y] = EvaluateBody(y, g, row)
      <4> HIDE DEF h
      <4> QED
        BY <2>1
    <3> QED
      BY <3>2, <3>3
  <2>3. ASSUME NEW y \in Nested(Leaf, m + 1) PROVE h[y] = EvaluateBody(y, h, row)
    <3>1. h[y] = EvaluateBody(y, g, row)
      OBVIOUS
    <3> HIDE DEF h, Upto
    <3>2. /\ y.k \in {"test", "not"} => h[y.x] = g[y.x]
          /\ IsJunction(y) => h[y.l] = g[y.l] /\ h[y.r] = g[y.r]
      BY <2>2, PartsBelow
    <3>3. EvaluateBody(y, g, row) = EvaluateBody(y, h, row)
      BY <3>2 DEF EvaluateBody, IsJunction
    <3> QED
      BY <3>1, <3>3
  <2>4. h = [y \in Nested(Leaf, m + 1) |-> h[y]]
    OBVIOUS
  <2> HIDE DEF h
  <2>5. Upto(m + 1, h)
    BY <2>3, <2>4
  <2> HIDE DEF Upto
  <2> QED
    BY <2>5
<1>3. Nat \subseteq N
  <2> HIDE DEF N
  <2> QED
    BY <1>1, <1>2, AllNumbers
<1>4. MaxSize \in Nat
  BY RewriteAssumption
<1>5. PICK g : Upto(MaxSize, g)
  <2> HIDE DEF Upto
  <2> QED
    BY <1>3, <1>4
<1> QED
  BY <1>5 DEF Predicate

\* The truth of a predicate from the truth of its operands.
LEMMA EvaluateIs ==
  ASSUME NEW row, NEW y \in Predicate
  PROVE  /\ y.k = "test" => Evaluate(y, row) = Bool3((Evaluate(y.x, row) = y.truth) # y.neg)
         /\ y.k = "not" => Evaluate(y, row) = Not3(Evaluate(y.x, row))
         /\ IsJunction(y) =>
              Evaluate(y, row) = Connect(y.k, Evaluate(y.l, row), Evaluate(y.r, row))
         /\ y.k \in LeafKind => Evaluate(y, row) = Tested(y, row)
<1> DEFINE Recurses(g) == g = [z \in Predicate |-> EvaluateBody(z, g, row)]
           truth == CHOOSE g : Recurses(g)
<1>1. \E g : Recurses(g)
  BY EvaluateExists
<1>2. Recurses(truth)
  <2> HIDE DEF Recurses
  <2> QED
    BY <1>1
<1>3. \A z : Evaluate(z, row) = truth[z]
  BY DEF Evaluate, EvaluateBody
<1> HIDE DEF truth
<1>4. truth[y] = EvaluateBody(y, truth, row)
  BY <1>2
<1>5. Evaluate(y, row) = EvaluateBody(y, truth, row)
  BY <1>3, <1>4
<1> HIDE DEF Recurses
<1>6. Evaluate(y.x, row) = truth[y.x] /\ Evaluate(y.l, row) = truth[y.l]
      /\ Evaluate(y.r, row) = truth[y.r]
  BY <1>3
<1> QED
  BY <1>5, <1>6 DEF EvaluateBody, IsJunction, LeafKind

ProveTruthBody(y, proven) ==
  LET child == proven[y.x]
  IN CASE y.k = "test" -> IF child = "?" THEN "?" ELSE Bool3((child = y.truth) # y.neg)
       [] y.k = "not" -> IF child = "?" THEN "?" ELSE Not3(child)
       [] IsJunction(y) -> ProvenJunction(y.k, proven[y.l], proven[y.r])
       [] OTHER -> ProvenTest(y)

LEMMA ProveTruthExists ==
  \E g : g = [y \in Predicate |-> ProveTruthBody(y, g)]
<1> DEFINE Upto(m, g) == g = [y \in Nested(Leaf, m) |-> ProveTruthBody(y, g)]
           N == {m \in Nat : \E g : Upto(m, g)}
<1>1. 0 \in N
  <2> DEFINE h == [y \in Leaf |-> ProveTruthBody(y, <<>>)]
  <2>1. ASSUME NEW y \in Leaf PROVE h[y] = ProveTruthBody(y, h)
    <3>1. y.k \in LeafKind
      BY LeafIs
    <3>2. ProveTruthBody(y, <<>>) = ProveTruthBody(y, h)
      <4> HIDE DEF h
      <4> QED
        BY <3>1 DEF ProveTruthBody, LeafKind, IsJunction
    <3> QED
      BY <3>2
  <2>2. h = [y \in Leaf |-> h[y]]
    OBVIOUS
  <2>3. Nested(Leaf, 0) = Leaf
    BY NestedIs
  <2> HIDE DEF h
  <2>4. h = [y \in Leaf |-> ProveTruthBody(y, h)]
    BY <2>1, <2>2
  <2>5. Upto(0, h)
    BY <2>3, <2>4
  <2> HIDE DEF Upto
  <2> QED
    BY <2>5
<1>2. ASSUME NEW m \in N \cap Nat PROVE m + 1 \in N
  <2>1. PICK g : Upto(m, g)
    BY DEF N
  <2> DEFINE h == [y \in Nested(Leaf, m + 1) |-> ProveTruthBody(y, g)]
  <2>2. ASSUME NEW y \in Nested(Leaf, m) PROVE h[y] = g[y]
    <3>1. y \in Nested(Leaf, m + 1)
      BY NestedGrows
    <3>2. h[y] = ProveTruthBody(y, g)
      BY <3>1
    <3>3. g[y] = ProveTruthBody(y, g)
      <4> HIDE DEF h
      <4> QED
        BY <2>1
    <3> QED
      BY <3>2, <3>3
  <2>3. ASSUME NEW y \in Nested(Leaf, m + 1) PROVE h[y] = ProveTruthBody(y, h)
    <3>1. h[y] = ProveTruthBody(y, g)
      OBVIOUS
    <3> HIDE DEF h, Upto
    <3>2. /\ y.k \in {"test", "not"} => h[y.x] = g[y.x]
          /\ IsJunction(y) => h[y.l] = g[y.l] /\ h[y.r] = g[y.r]
      BY <2>2, PartsBelow
    <3>3. ProveTruthBody(y, g) = ProveTruthBody(y, h)
      BY <3>2 DEF ProveTruthBody, IsJunction
    <3> QED
      BY <3>1, <3>3
  <2>4. h = [y \in Nested(Leaf, m + 1) |-> h[y]]
    OBVIOUS
  <2> HIDE DEF h
  <2>5. Upto(m + 1, h)
    BY <2>3, <2>4
  <2> HIDE DEF Upto
  <2> QED
    BY <2>5
<1>3. Nat \subseteq N
  <2> HIDE DEF N
  <2> QED
    BY <1>1, <1>2, AllNumbers
<1>4. MaxSize \in Nat
  BY RewriteAssumption
<1>5. PICK g : Upto(MaxSize, g)
  <2> HIDE DEF Upto
  <2> QED
    BY <1>3, <1>4
<1> QED
  BY <1>5 DEF Predicate

\* What is proved of a predicate from what is proved of its operands.
LEMMA ProveTruthIs ==
  ASSUME NEW y \in Predicate
  PROVE  /\ y.k = "test" =>
              ProveTruth[y] = IF ProveTruth[y.x] = "?" THEN "?"
                              ELSE Bool3((ProveTruth[y.x] = y.truth) # y.neg)
         /\ y.k = "not" =>
              ProveTruth[y] = IF ProveTruth[y.x] = "?" THEN "?" ELSE Not3(ProveTruth[y.x])
         /\ IsJunction(y) =>
              ProveTruth[y] = ProvenJunction(y.k, ProveTruth[y.l], ProveTruth[y.r])
         /\ y.k \in LeafKind => ProveTruth[y] = ProvenTest(y)
<1> DEFINE Recurses(g) == g = [z \in Predicate |-> ProveTruthBody(z, g)]
<1>1. \E g : Recurses(g)
  BY ProveTruthExists
<1>2. ProveTruth = CHOOSE g : Recurses(g)
  BY DEF ProveTruth, ProveTruthBody
<1>3. Recurses(ProveTruth)
  <2> HIDE DEF Recurses
  <2> QED
    BY <1>1, <1>2
<1>4. ProveTruth[y] = ProveTruthBody(y, ProveTruth)
  BY <1>3
<1> QED
  BY <1>4 DEF ProveTruthBody, IsJunction, LeafKind

OptimiseNodeBody(y, better) ==
  IF ByCapability(y) # y THEN ByCapability(y)
  ELSE CASE y.k = "test" -> [y EXCEPT !.x = better[y.x]]
         [] y.k = "not" -> NormaliseNot(better[y.x])
         [] IsJunction(y) ->
              IF better[y.l] = Dominating(y.k) THEN better[y.l]
              ELSE OptimiseJunction(y.k, better[y.l], better[y.r])
         [] OTHER -> OptimiseLeaf(y)

LEMMA OptimiseNodeExists ==
  \E g : g = [y \in Predicate |-> OptimiseNodeBody(y, g)]
<1> DEFINE Upto(m, g) == g = [y \in Nested(Leaf, m) |-> OptimiseNodeBody(y, g)]
           N == {m \in Nat : \E g : Upto(m, g)}
<1>1. 0 \in N
  <2> DEFINE h == [y \in Leaf |-> OptimiseNodeBody(y, <<>>)]
  <2>1. ASSUME NEW y \in Leaf PROVE h[y] = OptimiseNodeBody(y, h)
    <3>1. y.k \in LeafKind
      BY LeafIs
    <3>2. OptimiseNodeBody(y, <<>>) = OptimiseNodeBody(y, h)
      <4> HIDE DEF h
      <4> QED
        BY <3>1 DEF OptimiseNodeBody, LeafKind, IsJunction
    <3> QED
      BY <3>2
  <2>2. h = [y \in Leaf |-> h[y]]
    OBVIOUS
  <2>3. Nested(Leaf, 0) = Leaf
    BY NestedIs
  <2> HIDE DEF h
  <2>4. h = [y \in Leaf |-> OptimiseNodeBody(y, h)]
    BY <2>1, <2>2
  <2>5. Upto(0, h)
    BY <2>3, <2>4
  <2> HIDE DEF Upto
  <2> QED
    BY <2>5
<1>2. ASSUME NEW m \in N \cap Nat PROVE m + 1 \in N
  <2>1. PICK g : Upto(m, g)
    BY DEF N
  <2> DEFINE h == [y \in Nested(Leaf, m + 1) |-> OptimiseNodeBody(y, g)]
  <2>2. ASSUME NEW y \in Nested(Leaf, m) PROVE h[y] = g[y]
    <3>1. y \in Nested(Leaf, m + 1)
      BY NestedGrows
    <3>2. h[y] = OptimiseNodeBody(y, g)
      BY <3>1
    <3>3. g[y] = OptimiseNodeBody(y, g)
      <4> HIDE DEF h
      <4> QED
        BY <2>1
    <3> QED
      BY <3>2, <3>3
  <2>3. ASSUME NEW y \in Nested(Leaf, m + 1) PROVE h[y] = OptimiseNodeBody(y, h)
    <3>1. h[y] = OptimiseNodeBody(y, g)
      OBVIOUS
    <3> HIDE DEF h, Upto
    <3>2. /\ y.k \in {"test", "not"} => h[y.x] = g[y.x]
          /\ IsJunction(y) => h[y.l] = g[y.l] /\ h[y.r] = g[y.r]
      BY <2>2, PartsBelow
    <3>3. OptimiseNodeBody(y, g) = OptimiseNodeBody(y, h)
      BY <3>2 DEF OptimiseNodeBody, IsJunction
    <3> QED
      BY <3>1, <3>3
  <2>4. h = [y \in Nested(Leaf, m + 1) |-> h[y]]
    OBVIOUS
  <2> HIDE DEF h
  <2>5. Upto(m + 1, h)
    BY <2>3, <2>4
  <2> HIDE DEF Upto
  <2> QED
    BY <2>5
<1>3. Nat \subseteq N
  <2> HIDE DEF N
  <2> QED
    BY <1>1, <1>2, AllNumbers
<1>4. MaxSize \in Nat
  BY RewriteAssumption
<1>5. PICK g : Upto(MaxSize, g)
  <2> HIDE DEF Upto
  <2> QED
    BY <1>3, <1>4
<1> QED
  BY <1>5 DEF Predicate

\* A pass on a predicate from the pass on its operands.
LEMMA OptimiseNodeIs ==
  ASSUME NEW y \in Predicate
  PROVE  /\ ByCapability(y) # y => OptimiseNode[y] = ByCapability(y)
         /\ ByCapability(y) = y /\ y.k = "test" =>
              OptimiseNode[y] = [y EXCEPT !.x = OptimiseNode[y.x]]
         /\ ByCapability(y) = y /\ y.k = "not" =>
              OptimiseNode[y] = NormaliseNot(OptimiseNode[y.x])
         /\ ByCapability(y) = y /\ IsJunction(y) =>
              OptimiseNode[y] =
                IF OptimiseNode[y.l] = Dominating(y.k) THEN OptimiseNode[y.l]
                ELSE OptimiseJunction(y.k, OptimiseNode[y.l], OptimiseNode[y.r])
         /\ ByCapability(y) = y /\ y.k \in LeafKind => OptimiseNode[y] = OptimiseLeaf(y)
<1> DEFINE Recurses(g) == g = [z \in Predicate |-> OptimiseNodeBody(z, g)]
<1>1. \E g : Recurses(g)
  BY OptimiseNodeExists
<1>2. OptimiseNode = CHOOSE g : Recurses(g)
  BY DEF OptimiseNode, OptimiseNodeBody
<1>3. Recurses(OptimiseNode)
  <2> HIDE DEF Recurses
  <2> QED
    BY <1>1, <1>2
<1>4. OptimiseNode[y] = OptimiseNodeBody(y, OptimiseNode)
  BY <1>3
<1> QED
  BY <1>4 DEF OptimiseNodeBody, IsJunction, LeafKind

\* How many single predicates, NOTs and truth tests there are in a predicate.
Size[y \in Predicate] ==
  CASE y.k \in {"test", "not"} -> Size[y.x] + 1
    [] IsJunction(y) -> Size[y.l] + Size[y.r]
    [] OTHER -> 1

SizeBody(y, count) ==
  CASE y.k \in {"test", "not"} -> count[y.x] + 1
    [] IsJunction(y) -> count[y.l] + count[y.r]
    [] OTHER -> 1

LEMMA SizeExists ==
  \E g : g = [y \in Predicate |-> SizeBody(y, g)]
<1> DEFINE Upto(m, g) == g = [y \in Nested(Leaf, m) |-> SizeBody(y, g)]
           N == {m \in Nat : \E g : Upto(m, g)}
<1>1. 0 \in N
  <2> DEFINE h == [y \in Leaf |-> SizeBody(y, <<>>)]
  <2>1. ASSUME NEW y \in Leaf PROVE h[y] = SizeBody(y, h)
    <3>1. y.k \in LeafKind
      BY LeafIs
    <3>2. SizeBody(y, <<>>) = SizeBody(y, h)
      <4> HIDE DEF h
      <4> QED
        BY <3>1 DEF SizeBody, LeafKind, IsJunction
    <3> QED
      BY <3>2
  <2>2. h = [y \in Leaf |-> h[y]]
    OBVIOUS
  <2>3. Nested(Leaf, 0) = Leaf
    BY NestedIs
  <2> HIDE DEF h
  <2>4. h = [y \in Leaf |-> SizeBody(y, h)]
    BY <2>1, <2>2
  <2>5. Upto(0, h)
    BY <2>3, <2>4
  <2> HIDE DEF Upto
  <2> QED
    BY <2>5
<1>2. ASSUME NEW m \in N \cap Nat PROVE m + 1 \in N
  <2>1. PICK g : Upto(m, g)
    BY DEF N
  <2> DEFINE h == [y \in Nested(Leaf, m + 1) |-> SizeBody(y, g)]
  <2>2. ASSUME NEW y \in Nested(Leaf, m) PROVE h[y] = g[y]
    <3>1. y \in Nested(Leaf, m + 1)
      BY NestedGrows
    <3>2. h[y] = SizeBody(y, g)
      BY <3>1
    <3>3. g[y] = SizeBody(y, g)
      <4> HIDE DEF h
      <4> QED
        BY <2>1
    <3> QED
      BY <3>2, <3>3
  <2>3. ASSUME NEW y \in Nested(Leaf, m + 1) PROVE h[y] = SizeBody(y, h)
    <3>1. h[y] = SizeBody(y, g)
      OBVIOUS
    <3> HIDE DEF h, Upto
    <3>2. /\ y.k \in {"test", "not"} => h[y.x] = g[y.x]
          /\ IsJunction(y) => h[y.l] = g[y.l] /\ h[y.r] = g[y.r]
      BY <2>2, PartsBelow
    <3>3. SizeBody(y, g) = SizeBody(y, h)
      BY <3>2 DEF SizeBody, IsJunction
    <3> QED
      BY <3>1, <3>3
  <2>4. h = [y \in Nested(Leaf, m + 1) |-> h[y]]
    OBVIOUS
  <2> HIDE DEF h
  <2>5. Upto(m + 1, h)
    BY <2>3, <2>4
  <2> HIDE DEF Upto
  <2> QED
    BY <2>5
<1>3. Nat \subseteq N
  <2> HIDE DEF N
  <2> QED
    BY <1>1, <1>2, AllNumbers
<1>4. MaxSize \in Nat
  BY RewriteAssumption
<1>5. PICK g : Upto(MaxSize, g)
  <2> HIDE DEF Upto
  <2> QED
    BY <1>3, <1>4
<1> QED
  BY <1>5 DEF Predicate

LEMMA SizeIs ==
  ASSUME NEW y \in Predicate
  PROVE  /\ y.k \in {"test", "not"} => Size[y] = Size[y.x] + 1
         /\ IsJunction(y) => Size[y] = Size[y.l] + Size[y.r]
         /\ y.k \in LeafKind => Size[y] = 1
<1> DEFINE Recurses(g) == g = [z \in Predicate |-> SizeBody(z, g)]
<1>1. \E g : Recurses(g)
  BY SizeExists
<1>2. Size = CHOOSE g : Recurses(g)
  BY DEF Size, SizeBody
<1>3. Recurses(Size)
  <2> HIDE DEF Recurses
  <2> QED
    BY <1>1, <1>2
<1>4. Size[y] = SizeBody(y, Size)
  BY <1>3
<1> QED
  BY <1>4 DEF SizeBody, IsJunction, LeafKind

FlattenBody(y, operands, op) ==
  IF y.k = op THEN operands[y.l] \o operands[y.r] ELSE <<y>>

LEMMA FlattenExists ==
  ASSUME NEW op \in {"AND", "OR"}
  PROVE  \E g : g = [y \in Predicate |-> FlattenBody(y, g, op)]
<1> DEFINE Upto(m, g) == g = [y \in Nested(Leaf, m) |-> FlattenBody(y, g, op)]
           N == {m \in Nat : \E g : Upto(m, g)}
<1>1. 0 \in N
  <2> DEFINE h == [y \in Leaf |-> FlattenBody(y, <<>>, op)]
  <2>1. ASSUME NEW y \in Leaf PROVE h[y] = FlattenBody(y, h, op)
    <3>1. y.k \in LeafKind
      BY LeafIs
    <3>2. FlattenBody(y, <<>>, op) = FlattenBody(y, h, op)
      <4> HIDE DEF h
      <4> QED
        BY <3>1 DEF FlattenBody, LeafKind, IsJunction
    <3> QED
      BY <3>2
  <2>2. h = [y \in Leaf |-> h[y]]
    OBVIOUS
  <2>3. Nested(Leaf, 0) = Leaf
    BY NestedIs
  <2> HIDE DEF h
  <2>4. h = [y \in Leaf |-> FlattenBody(y, h, op)]
    BY <2>1, <2>2
  <2>5. Upto(0, h)
    BY <2>3, <2>4
  <2> HIDE DEF Upto
  <2> QED
    BY <2>5
<1>2. ASSUME NEW m \in N \cap Nat PROVE m + 1 \in N
  <2>1. PICK g : Upto(m, g)
    BY DEF N
  <2> DEFINE h == [y \in Nested(Leaf, m + 1) |-> FlattenBody(y, g, op)]
  <2>2. ASSUME NEW y \in Nested(Leaf, m) PROVE h[y] = g[y]
    <3>1. y \in Nested(Leaf, m + 1)
      BY NestedGrows
    <3>2. h[y] = FlattenBody(y, g, op)
      BY <3>1
    <3>3. g[y] = FlattenBody(y, g, op)
      <4> HIDE DEF h
      <4> QED
        BY <2>1
    <3> QED
      BY <3>2, <3>3
  <2>3. ASSUME NEW y \in Nested(Leaf, m + 1) PROVE h[y] = FlattenBody(y, h, op)
    <3>1. h[y] = FlattenBody(y, g, op)
      OBVIOUS
    <3> HIDE DEF h, Upto
    <3>2. /\ y.k \in {"test", "not"} => h[y.x] = g[y.x]
          /\ IsJunction(y) => h[y.l] = g[y.l] /\ h[y.r] = g[y.r]
      BY <2>2, PartsBelow
    <3>3. FlattenBody(y, g, op) = FlattenBody(y, h, op)
      BY <3>2 DEF FlattenBody, IsJunction
    <3> QED
      BY <3>1, <3>3
  <2>4. h = [y \in Nested(Leaf, m + 1) |-> h[y]]
    OBVIOUS
  <2> HIDE DEF h
  <2>5. Upto(m + 1, h)
    BY <2>3, <2>4
  <2> HIDE DEF Upto
  <2> QED
    BY <2>5
<1>3. Nat \subseteq N
  <2> HIDE DEF N
  <2> QED
    BY <1>1, <1>2, AllNumbers
<1>4. MaxSize \in Nat
  BY RewriteAssumption
<1>5. PICK g : Upto(MaxSize, g)
  <2> HIDE DEF Upto
  <2> QED
    BY <1>3, <1>4
<1> QED
  BY <1>5 DEF Predicate

\* The operands of a chain of one connective are those on its left and right.
LEMMA FlattenIs ==
  ASSUME NEW op \in {"AND", "OR"}, NEW y \in Predicate
  PROVE  Flatten(op, y) = IF y.k = op THEN Flatten(op, y.l) \o Flatten(op, y.r) ELSE <<y>>
<1> DEFINE Recurses(g) == g = [z \in Predicate |-> FlattenBody(z, g, op)]
           operands == CHOOSE g : Recurses(g)
<1>1. \E g : Recurses(g)
  BY FlattenExists
<1>2. Recurses(operands)
  <2> HIDE DEF Recurses
  <2> QED
    BY <1>1
<1>3. \A z : Flatten(op, z) = operands[z]
  BY DEF Flatten, FlattenBody
<1> HIDE DEF operands
<1>4. operands[y] = FlattenBody(y, operands, op)
  BY <1>2
<1>5. Flatten(op, y) = FlattenBody(y, operands, op)
  BY <1>3, <1>4
<1> HIDE DEF Recurses
<1>6. Flatten(op, y.l) = operands[y.l] /\ Flatten(op, y.r) = operands[y.r]
  BY <1>3
<1> QED
  BY <1>5, <1>6 DEF FlattenBody

-----------------------------------------------------------------------------
(* The functions over sequences of operands *)

UniqueStep(i, kept, s) == IF Contains(kept, s[i]) THEN kept ELSE Append(kept, s[i])

LEMMA UniqueRuns ==
  ASSUME NEW s, Len(s) \in Nat
  PROVE  \E g : /\ g[0] = <<>> /\ \A i \in 1..(Len(s)) : g[i] = UniqueStep(i, g[i - 1], s)
                /\ Unique(s) = g[Len(s)]
<1> DEFINE Upto(m, g) ==
      g = [i \in 0..m |-> IF i = 0 THEN <<>> ELSE UniqueStep(i, g[i - 1], s)]
           N == {m \in Nat : \E g : Upto(m, g)}
<1>1. 0 \in N
  <2>1. Upto(0, [i \in 0..0 |-> <<>>])
    OBVIOUS
  <2> HIDE DEF Upto
  <2> QED
    BY <2>1
<1>2. ASSUME NEW m \in N \cap Nat PROVE m + 1 \in N
  <2>1. PICK g : Upto(m, g)
    BY DEF N
  <2> DEFINE h == [i \in 0..(m + 1) |-> IF i <= m THEN g[i] ELSE UniqueStep(m + 1, g[m], s)]
             k == [i \in 0..(m + 1) |-> IF i = 0 THEN <<>> ELSE UniqueStep(i, h[i - 1], s)]
  <2>2. ASSUME NEW i \in 0..(m + 1) PROVE h[i] = k[i]
    <3>1. CASE i = 0
      BY <2>1, <3>1
    <3>2. CASE i \in 1..m
      <4>1. i \in 0..m /\ i - 1 \in 0..m /\ i # 0 /\ i - 1 \in 0..(m + 1)
        BY <3>2
      <4>2. h[i] = g[i] /\ h[i - 1] = g[i - 1]
        BY <4>1
      <4>3. g[i] = UniqueStep(i, g[i - 1], s)
        BY <2>1, <4>1
      <4> HIDE DEF h
      <4> QED
        BY <4>1, <4>2, <4>3
    <3>3. CASE i = m + 1
      <4>1. h[i] = UniqueStep(m + 1, g[m], s) /\ h[i - 1] = g[m] /\ i # 0
        BY <3>3
      <4> HIDE DEF h
      <4> QED
        BY <3>3, <4>1
    <3> QED
      BY <3>1, <3>2, <3>3
  <2>3. h = [i \in 0..(m + 1) |-> h[i]] /\ k = [i \in 0..(m + 1) |-> k[i]]
    <3>1. h = [i \in 0..(m + 1) |-> h[i]]
      OBVIOUS
    <3> HIDE DEF h
    <3> QED
      BY <3>1
  <2>4. h = k
    <3> HIDE DEF h, k
    <3> QED
      BY <2>2, <2>3
  <2>5. Upto(m + 1, h)
    <3> HIDE DEF h
    <3> QED
      BY <2>4
  <2> HIDE DEF Upto
  <2> QED
    BY <2>5
<1>3. Nat \subseteq N
  <2> HIDE DEF N
  <2> QED
    BY <1>1, <1>2, AllNumbers
<1> DEFINE run == CHOOSE g : Upto(Len(s), g)
<1>4. \E g : Upto(Len(s), g)
  BY <1>3
<1>5. Upto(Len(s), run)
  <2> HIDE DEF Upto
  <2> QED
    BY <1>4
<1>6. Unique(s) = run[Len(s)]
  BY DEF Unique, UniqueStep
<1> HIDE DEF run
<1>7. run[0] = <<>>
  BY <1>5
<1>8. ASSUME NEW i \in 1..(Len(s)) PROVE run[i] = UniqueStep(i, run[i - 1], s)
  <2>1. i \in 0..(Len(s)) /\ i # 0
    OBVIOUS
  <2> QED
    BY <1>5, <2>1
<1> HIDE DEF Upto
<1> QED
  BY <1>6, <1>7, <1>8

\* The sizes of operands together.
Total(s) ==
  LET sum[n \in 0..Len(s)] == IF n = 0 THEN 0 ELSE sum[n - 1] + Size[s[n]]
  IN sum[Len(s)]

TotalStep(i, sum, s) == sum + Size[s[i]]

LEMMA TotalRuns ==
  ASSUME NEW s, Len(s) \in Nat
  PROVE  \E g : /\ g[0] = 0 /\ \A i \in 1..(Len(s)) : g[i] = TotalStep(i, g[i - 1], s)
                /\ Total(s) = g[Len(s)]
<1> DEFINE Upto(m, g) ==
      g = [i \in 0..m |-> IF i = 0 THEN 0 ELSE TotalStep(i, g[i - 1], s)]
           N == {m \in Nat : \E g : Upto(m, g)}
<1>1. 0 \in N
  <2>1. Upto(0, [i \in 0..0 |-> 0])
    OBVIOUS
  <2> HIDE DEF Upto
  <2> QED
    BY <2>1
<1>2. ASSUME NEW m \in N \cap Nat PROVE m + 1 \in N
  <2>1. PICK g : Upto(m, g)
    BY DEF N
  <2> DEFINE h == [i \in 0..(m + 1) |-> IF i <= m THEN g[i] ELSE TotalStep(m + 1, g[m], s)]
             k == [i \in 0..(m + 1) |-> IF i = 0 THEN 0 ELSE TotalStep(i, h[i - 1], s)]
  <2>2. ASSUME NEW i \in 0..(m + 1) PROVE h[i] = k[i]
    <3>1. CASE i = 0
      BY <2>1, <3>1
    <3>2. CASE i \in 1..m
      <4>1. i \in 0..m /\ i - 1 \in 0..m /\ i # 0 /\ i - 1 \in 0..(m + 1)
        BY <3>2
      <4>2. h[i] = g[i] /\ h[i - 1] = g[i - 1]
        BY <4>1
      <4>3. g[i] = TotalStep(i, g[i - 1], s)
        BY <2>1, <4>1
      <4> HIDE DEF h
      <4> QED
        BY <4>1, <4>2, <4>3
    <3>3. CASE i = m + 1
      <4>1. h[i] = TotalStep(m + 1, g[m], s) /\ h[i - 1] = g[m] /\ i # 0
        BY <3>3
      <4> HIDE DEF h
      <4> QED
        BY <3>3, <4>1
    <3> QED
      BY <3>1, <3>2, <3>3
  <2>3. h = [i \in 0..(m + 1) |-> h[i]] /\ k = [i \in 0..(m + 1) |-> k[i]]
    <3>1. h = [i \in 0..(m + 1) |-> h[i]]
      OBVIOUS
    <3> HIDE DEF h
    <3> QED
      BY <3>1
  <2>4. h = k
    <3> HIDE DEF h, k
    <3> QED
      BY <2>2, <2>3
  <2>5. Upto(m + 1, h)
    <3> HIDE DEF h
    <3> QED
      BY <2>4
  <2> HIDE DEF Upto
  <2> QED
    BY <2>5
<1>3. Nat \subseteq N
  <2> HIDE DEF N
  <2> QED
    BY <1>1, <1>2, AllNumbers
<1> DEFINE run == CHOOSE g : Upto(Len(s), g)
<1>4. \E g : Upto(Len(s), g)
  BY <1>3
<1>5. Upto(Len(s), run)
  <2> HIDE DEF Upto
  <2> QED
    BY <1>4
<1>6. Total(s) = run[Len(s)]
  BY DEF Total, TotalStep
<1> HIDE DEF run
<1>7. run[0] = 0
  BY <1>5
<1>8. ASSUME NEW i \in 1..(Len(s)) PROVE run[i] = TotalStep(i, run[i - 1], s)
  <2>1. i \in 0..(Len(s)) /\ i # 0
    OBVIOUS
  <2> QED
    BY <1>5, <2>1
<1> HIDE DEF Upto
<1> QED
  BY <1>6, <1>7, <1>8

RebuildStep(i, joined, op, s) == Junction(op, joined, s[i + 1])

LEMMA RebuildRuns ==
  ASSUME NEW op, NEW s, Len(s) - 1 \in Nat
  PROVE  \E g : /\ g[0] = s[1] /\ \A i \in 1..(Len(s) - 1) : g[i] = RebuildStep(i, g[i - 1], op, s)
                /\ Rebuild(op, s) = g[Len(s) - 1]
<1> DEFINE Upto(m, g) ==
      g = [i \in 0..m |-> IF i = 0 THEN s[1] ELSE RebuildStep(i, g[i - 1], op, s)]
           N == {m \in Nat : \E g : Upto(m, g)}
<1>1. 0 \in N
  <2>1. Upto(0, [i \in 0..0 |-> s[1]])
    OBVIOUS
  <2> HIDE DEF Upto
  <2> QED
    BY <2>1
<1>2. ASSUME NEW m \in N \cap Nat PROVE m + 1 \in N
  <2>1. PICK g : Upto(m, g)
    BY DEF N
  <2> DEFINE h == [i \in 0..(m + 1) |-> IF i <= m THEN g[i] ELSE RebuildStep(m + 1, g[m], op, s)]
             k == [i \in 0..(m + 1) |-> IF i = 0 THEN s[1] ELSE RebuildStep(i, h[i - 1], op, s)]
  <2>2. ASSUME NEW i \in 0..(m + 1) PROVE h[i] = k[i]
    <3>1. CASE i = 0
      BY <2>1, <3>1
    <3>2. CASE i \in 1..m
      <4>1. i \in 0..m /\ i - 1 \in 0..m /\ i # 0 /\ i - 1 \in 0..(m + 1)
        BY <3>2
      <4>2. h[i] = g[i] /\ h[i - 1] = g[i - 1]
        BY <4>1
      <4>3. g[i] = RebuildStep(i, g[i - 1], op, s)
        BY <2>1, <4>1
      <4> HIDE DEF h
      <4> QED
        BY <4>1, <4>2, <4>3
    <3>3. CASE i = m + 1
      <4>1. h[i] = RebuildStep(m + 1, g[m], op, s) /\ h[i - 1] = g[m] /\ i # 0
        BY <3>3
      <4> HIDE DEF h
      <4> QED
        BY <3>3, <4>1
    <3> QED
      BY <3>1, <3>2, <3>3
  <2>3. h = [i \in 0..(m + 1) |-> h[i]] /\ k = [i \in 0..(m + 1) |-> k[i]]
    <3>1. h = [i \in 0..(m + 1) |-> h[i]]
      OBVIOUS
    <3> HIDE DEF h
    <3> QED
      BY <3>1
  <2>4. h = k
    <3> HIDE DEF h, k
    <3> QED
      BY <2>2, <2>3
  <2>5. Upto(m + 1, h)
    <3> HIDE DEF h
    <3> QED
      BY <2>4
  <2> HIDE DEF Upto
  <2> QED
    BY <2>5
<1>3. Nat \subseteq N
  <2> HIDE DEF N
  <2> QED
    BY <1>1, <1>2, AllNumbers
<1> DEFINE run == CHOOSE g : Upto(Len(s) - 1, g)
<1>4. \E g : Upto(Len(s) - 1, g)
  BY <1>3
<1>5. Upto(Len(s) - 1, run)
  <2> HIDE DEF Upto
  <2> QED
    BY <1>4
<1>6. Rebuild(op, s) = run[Len(s) - 1]
  BY DEF Rebuild, RebuildStep
<1> HIDE DEF run
<1>7. run[0] = s[1]
  BY <1>5
<1>8. ASSUME NEW i \in 1..(Len(s) - 1) PROVE run[i] = RebuildStep(i, run[i - 1], op, s)
  <2>1. i \in 0..(Len(s) - 1) /\ i # 0
    OBVIOUS
  <2> QED
    BY <1>5, <2>1
<1> HIDE DEF Upto
<1> QED
  BY <1>6, <1>7, <1>8

SimplifyStep(i, left, rule, op) == Reduced(rule, op, left)

SimplifyRun(g, rule, op, s) ==
  /\ g[0] = s /\ \A i \in 1..(Len(s)) : g[i] = SimplifyStep(i, g[i - 1], rule, op)
  /\ Simplify(rule, op, s) = g[Len(s)]

LEMMA SimplifyRuns ==
  ASSUME NEW rule, NEW op, NEW s, Len(s) \in Nat
  PROVE  \E g : SimplifyRun(g, rule, op, s)
<1> DEFINE Upto(m, g) ==
      g = [i \in 0..m |-> IF i = 0 THEN s ELSE SimplifyStep(i, g[i - 1], rule, op)]
           N == {m \in Nat : \E g : Upto(m, g)}
<1>1. 0 \in N
  <2>1. Upto(0, [i \in 0..0 |-> s])
    OBVIOUS
  <2> HIDE DEF Upto
  <2> QED
    BY <2>1
<1>2. ASSUME NEW m \in N \cap Nat PROVE m + 1 \in N
  <2>1. PICK g : Upto(m, g)
    BY DEF N
  <2> DEFINE h == [i \in 0..(m + 1) |-> IF i <= m THEN g[i] ELSE SimplifyStep(m + 1, g[m], rule, op)]
             k == [i \in 0..(m + 1) |-> IF i = 0 THEN s ELSE SimplifyStep(i, h[i - 1], rule, op)]
  <2>2. ASSUME NEW i \in 0..(m + 1) PROVE h[i] = k[i]
    <3>1. CASE i = 0
      BY <2>1, <3>1
    <3>2. CASE i \in 1..m
      <4>1. i \in 0..m /\ i - 1 \in 0..m /\ i # 0 /\ i - 1 \in 0..(m + 1)
        BY <3>2
      <4>2. h[i] = g[i] /\ h[i - 1] = g[i - 1]
        BY <4>1
      <4>3. g[i] = SimplifyStep(i, g[i - 1], rule, op)
        BY <2>1, <4>1
      <4> HIDE DEF h
      <4> QED
        BY <4>1, <4>2, <4>3
    <3>3. CASE i = m + 1
      <4>1. h[i] = SimplifyStep(m + 1, g[m], rule, op) /\ h[i - 1] = g[m] /\ i # 0
        BY <3>3
      <4> HIDE DEF h
      <4> QED
        BY <3>3, <4>1
    <3> QED
      BY <3>1, <3>2, <3>3
  <2>3. h = [i \in 0..(m + 1) |-> h[i]] /\ k = [i \in 0..(m + 1) |-> k[i]]
    <3>1. h = [i \in 0..(m + 1) |-> h[i]]
      OBVIOUS
    <3> HIDE DEF h
    <3> QED
      BY <3>1
  <2>4. h = k
    <3> HIDE DEF h, k
    <3> QED
      BY <2>2, <2>3
  <2>5. Upto(m + 1, h)
    <3> HIDE DEF h
    <3> QED
      BY <2>4
  <2> HIDE DEF Upto
  <2> QED
    BY <2>5
<1>3. Nat \subseteq N
  <2> HIDE DEF N
  <2> QED
    BY <1>1, <1>2, AllNumbers
<1> DEFINE run == CHOOSE g : Upto(Len(s), g)
<1>4. \E g : Upto(Len(s), g)
  BY <1>3
<1>5. Upto(Len(s), run)
  <2> HIDE DEF Upto
  <2> QED
    BY <1>4
<1>6. Simplify(rule, op, s) = run[Len(s)]
  BY DEF Simplify, SimplifyStep
<1> HIDE DEF run
<1>7. run[0] = s
  BY <1>5
<1>8. ASSUME NEW i \in 1..(Len(s)) PROVE run[i] = SimplifyStep(i, run[i - 1], rule, op)
  <2>1. i \in 0..(Len(s)) /\ i # 0
    OBVIOUS
  <2> QED
    BY <1>5, <2>1
<1> HIDE DEF Upto
<1> QED
  BY <1>6, <1>7, <1>8 DEF SimplifyRun

LEMMA UniqueAppend ==
  ASSUME NEW T, NEW s \in Seq(T), NEW e \in T
  PROVE  /\ Unique(<<>>) = <<>>
         /\ Unique(Append(s, e)) = IF Contains(Unique(s), e) THEN Unique(s) ELSE Append(Unique(s), e)
<1>1. Unique(<<>>) = <<>>
  <2>1. Len(<<>>) = 0 /\ 0 \in Nat
    OBVIOUS
  <2>2. PICK g : g[0] = <<>> /\ Unique(<<>>) = g[Len(<<>>)]
    BY <2>1, UniqueRuns
  <2> QED
    BY <2>1, <2>2
<1> DEFINE t == Append(s, e)
<1>2. /\ Len(t) = Len(s) + 1 /\ t[Len(s) + 1] = e /\ Len(s) \in Nat /\ Len(t) \in Nat
      /\ \A n \in 1..Len(s) : t[n] = s[n]
  BY LenProperties
<1> HIDE DEF t
<1>3. PICK g : /\ g[0] = <<>> /\ \A i \in 1..Len(s) : g[i] = UniqueStep(i, g[i - 1], s)
               /\ Unique(s) = g[Len(s)]
  BY <1>2, UniqueRuns
<1>4. PICK h : /\ h[0] = <<>> /\ \A i \in 1..Len(t) : h[i] = UniqueStep(i, h[i - 1], t)
               /\ Unique(t) = h[Len(t)]
  BY <1>2, UniqueRuns
<1>5. ASSUME NEW i \in 1..Len(s), h[i - 1] = g[i - 1] PROVE h[i] = g[i]
  <2>1. i \in 1..Len(t) /\ t[i] = s[i]
    BY <1>2
  <2>2. UniqueStep(i, h[i - 1], t) = UniqueStep(i, g[i - 1], s)
    BY <1>5, <2>1 DEF UniqueStep
  <2> QED
    BY <1>3, <1>4, <2>1, <2>2
<1>6. h[Len(s)] = g[Len(s)]
  BY <1>2, <1>3, <1>4, <1>5, SameRecursion
<1>7. Len(t) \in 1..Len(t) /\ Len(t) - 1 = Len(s)
  BY <1>2
<1>8. h[Len(t)] = UniqueStep(Len(t), Unique(s), t)
  BY <1>3, <1>4, <1>6, <1>7
<1>9. Unique(t) = IF Contains(Unique(s), e) THEN Unique(s) ELSE Append(Unique(s), e)
  BY <1>2, <1>4, <1>8 DEF UniqueStep
<1> QED
  BY <1>1, <1>9 DEF t

LEMMA TotalAppend ==
  ASSUME NEW T, NEW s \in Seq(T), NEW e \in T
  PROVE  /\ Total(<<>>) = 0
         /\ Total(Append(s, e)) = Total(s) + Size[e]
<1>1. Total(<<>>) = 0
  <2>1. Len(<<>>) = 0 /\ 0 \in Nat
    OBVIOUS
  <2>2. PICK g : g[0] = 0 /\ Total(<<>>) = g[Len(<<>>)]
    BY <2>1, TotalRuns
  <2> QED
    BY <2>1, <2>2
<1> DEFINE t == Append(s, e)
<1>2. /\ Len(t) = Len(s) + 1 /\ t[Len(s) + 1] = e /\ Len(s) \in Nat /\ Len(t) \in Nat
      /\ \A n \in 1..Len(s) : t[n] = s[n]
  BY LenProperties
<1> HIDE DEF t
<1>3. PICK g : /\ g[0] = 0 /\ \A i \in 1..Len(s) : g[i] = TotalStep(i, g[i - 1], s)
               /\ Total(s) = g[Len(s)]
  BY <1>2, TotalRuns
<1>4. PICK h : /\ h[0] = 0 /\ \A i \in 1..Len(t) : h[i] = TotalStep(i, h[i - 1], t)
               /\ Total(t) = h[Len(t)]
  BY <1>2, TotalRuns
<1>5. ASSUME NEW i \in 1..Len(s), h[i - 1] = g[i - 1] PROVE h[i] = g[i]
  <2>1. i \in 1..Len(t) /\ t[i] = s[i]
    BY <1>2
  <2>2. TotalStep(i, h[i - 1], t) = TotalStep(i, g[i - 1], s)
    BY <1>5, <2>1 DEF TotalStep
  <2> QED
    BY <1>3, <1>4, <2>1, <2>2
<1>6. h[Len(s)] = g[Len(s)]
  BY <1>2, <1>3, <1>4, <1>5, SameRecursion
<1>7. Len(t) \in 1..Len(t) /\ Len(t) - 1 = Len(s)
  BY <1>2
<1>8. h[Len(t)] = TotalStep(Len(t), Total(s), t)
  BY <1>3, <1>4, <1>6, <1>7
<1>9. Total(t) = Total(s) + Size[e]
  BY <1>2, <1>4, <1>8 DEF TotalStep
<1> QED
  BY <1>1, <1>9 DEF t

LEMMA RebuildOne ==
  ASSUME NEW op, NEW e
  PROVE  Rebuild(op, <<e>>) = e
<1> DEFINE one == <<e>>
<1>1. Len(one) - 1 = 0 /\ 0 \in Nat /\ one[1] = e
  OBVIOUS
<1> HIDE DEF one
<1>2. PICK g : g[0] = one[1] /\ Rebuild(op, one) = g[Len(one) - 1]
  BY <1>1, RebuildRuns
<1> QED
  BY <1>1, <1>2 DEF one

LEMMA RebuildAppend ==
  ASSUME NEW op, NEW T, NEW s \in Seq(T), s # <<>>, NEW e \in T
  PROVE  Rebuild(op, Append(s, e)) = Junction(op, Rebuild(op, s), e)
<1> DEFINE t == Append(s, e)
           m == Len(s) - 1
<1>2. /\ Len(t) - 1 = m + 1 /\ t[m + 2] = e /\ m \in Nat /\ m + 1 \in Nat
      /\ \A n \in 1..(m + 1) : t[n] = s[n]
      /\ Len(s) - 1 = m
  <2>1. Len(s) \in Nat /\ Len(s) # 0
    BY LenProperties, EmptySeq
  <2> QED
    BY <2>1
<1> HIDE DEF t, m
<1>3. PICK g : /\ g[0] = s[1] /\ \A i \in 1..m : g[i] = RebuildStep(i, g[i - 1], op, s)
               /\ Rebuild(op, s) = g[m]
  BY <1>2, RebuildRuns
<1>4. PICK h : /\ h[0] = t[1] /\ \A i \in 1..(m + 1) : h[i] = RebuildStep(i, h[i - 1], op, t)
               /\ Rebuild(op, t) = h[m + 1]
  <2>1. Len(t) - 1 \in Nat
    BY <1>2
  <2>2. \E h : /\ h[0] = t[1]
               /\ \A i \in 1..(Len(t) - 1) : h[i] = RebuildStep(i, h[i - 1], op, t)
               /\ Rebuild(op, t) = h[Len(t) - 1]
    BY <2>1, RebuildRuns
  <2> QED
    BY <1>2, <2>2
<1>5. ASSUME NEW i \in 1..m, h[i - 1] = g[i - 1] PROVE h[i] = g[i]
  <2>1. i \in 1..(m + 1) /\ i + 1 \in 1..(m + 1) /\ t[i + 1] = s[i + 1]
    BY <1>2
  <2>2. RebuildStep(i, h[i - 1], op, t) = RebuildStep(i, g[i - 1], op, s)
    BY <1>5, <2>1 DEF RebuildStep
  <2> QED
    BY <1>3, <1>4, <2>1, <2>2
<1>6. h[0] = g[0]
  BY <1>2, <1>3, <1>4
<1>7. h[m] = g[m]
  <2>1. m \in Nat /\ \A i \in 1..m : h[i - 1] = g[i - 1] => h[i] = g[i]
    BY <1>2, <1>5
  <2> QED
    BY <1>6, <2>1, SameRecursion
<1>8. m + 1 \in 1..(m + 1) /\ (m + 1) - 1 = m /\ (m + 1) + 1 = m + 2
  BY <1>2
<1>9. h[m + 1] = RebuildStep(m + 1, Rebuild(op, s), op, t)
  BY <1>3, <1>4, <1>7, <1>8
<1>10. Rebuild(op, t) = Junction(op, Rebuild(op, s), e)
  BY <1>2, <1>4, <1>8, <1>9 DEF RebuildStep
<1> QED
  BY <1>10 DEF t

-----------------------------------------------------------------------------
(* Well typed predicates, and how large they are *)

Sound == Nested(WellTyped, MaxSize)

LEMMA NestedWithin ==
  ASSUME NEW L, NEW M, L \subseteq M, NEW n \in Nat
  PROVE  Nested(L, n) \subseteq Nested(M, n)
<1> DEFINE N == {m \in Nat : Nested(L, m) \subseteq Nested(M, m)}
<1>1. 0 \in N
  BY NestedIs
<1>2. ASSUME NEW m \in N \cap Nat PROVE m + 1 \in N
  <2>1. /\ Nested(L, m + 1) = L \cup Compound(Nested(L, m))
        /\ Nested(M, m + 1) = M \cup Compound(Nested(M, m))
    BY NestedIs
  <2>2. Compound(Nested(L, m)) \subseteq Compound(Nested(M, m))
    BY CompoundMonotone
  <2> QED
    BY <2>1, <2>2
<1> HIDE DEF N
<1>3. Nat \subseteq N
  BY <1>1, <1>2, AllNumbers
<1> QED
  BY <1>3 DEF N

LEMMA SoundIs ==
  /\ WellTyped \subseteq Leaf /\ WellTyped \subseteq Sound
  /\ Sound \subseteq Predicate /\ MaxSize \in Nat /\ MaxSize # 0
<1>1. WellTyped \subseteq Leaf /\ MaxSize \in Nat /\ MaxSize # 0
  BY RewriteAssumption DEF WellTyped
<1>2. Nested(WellTyped, 0) = WellTyped
  BY <1>1, NestedIs
<1>3. 0 \in 0..MaxSize
  BY <1>1
<1>4. WellTyped \subseteq Sound
  BY <1>1, <1>2, <1>3, NestedMonotone DEF Sound
<1>5. Sound \subseteq Predicate
  BY <1>1, NestedWithin DEF Sound, Predicate
<1> QED
  BY <1>1, <1>4, <1>5

\* The operands of a well typed predicate are well typed.
LEMMA SoundParts ==
  ASSUME NEW y \in Sound
  PROVE  /\ y \in Predicate
         /\ \/ y \in WellTyped /\ y.k \in LeafKind
            \/ y \in Compound(Sound) /\ y.k \in CompoundKind
         /\ y.k \in LeafKind => y \in WellTyped
         /\ y.k \in {"test", "not"} => y.x \in Sound
         /\ IsJunction(y) => y.l \in Sound /\ y.r \in Sound
<1>1. y \in Predicate
  BY SoundIs
<1>2. \/ y \in WellTyped /\ y.k \in LeafKind
      \/ y.k \in CompoundKind /\ y \in Compound(Sound)
  BY SoundIs, Parts DEF Sound
<1>3. CASE y \in WellTyped /\ y.k \in LeafKind
  BY <1>1, <1>3 DEF LeafKind, IsJunction
<1>4. CASE y.k \in CompoundKind /\ y \in Compound(Sound)
  BY <1>1, <1>4, CompoundIs, KindsDiffer
<1> QED
  BY <1>2, <1>3, <1>4

LEMMA CompoundIn ==
  ASSUME NEW A, NEW B, NEW y \in Compound(A),
         y.k \in {"test", "not"} => y.x \in B,
         IsJunction(y) => y.l \in B /\ y.r \in B
  PROVE  y \in Compound(B)
<1>1. CASE y \in [k : {"test"}, x : A, truth : Truths, neg : BOOLEAN]
  BY <1>1 DEF Compound
<1>2. CASE y \in [k : {"not"}, x : A]
  BY <1>2 DEF Compound
<1>3. CASE y \in [k : {"AND", "OR"}, l : A, r : A]
  BY <1>3 DEF Compound, IsJunction
<1> QED
  BY <1>1, <1>2, <1>3 DEF Compound

\* What holds of the well typed leaves, and of what is made of two of which it
\* holds, holds of every well typed predicate.
LEMMA AllSound ==
  ASSUME NEW P, WellTyped \subseteq P,
         \A y \in Sound :
           /\ y.k \in {"test", "not"} /\ y.x \in Sound /\ y.x \in P => y \in P
           /\ IsJunction(y) /\ y.l \in Sound /\ y.r \in Sound /\ y.l \in P /\ y.r \in P => y \in P
  PROVE  Sound \subseteq P
<1>1. ASSUME NEW y \in Compound(P \cap Sound) \cap Sound PROVE y \in P
  <2>1. /\ y.k \in CompoundKind
        /\ y.k \in {"test", "not"} => y.x \in P \cap Sound
        /\ IsJunction(y) => y.l \in P \cap Sound /\ y.r \in P \cap Sound
    BY CompoundIs
  <2> QED
    BY <2>1 DEF CompoundKind, IsJunction
<1> QED
  BY <1>1, SoundIs, AllPredicates DEF Sound

\* A predicate nests less deep than it is large.
LEMMA SizeDepth ==
  ASSUME NEW y \in Sound
  PROVE  Size[y] \in Nat /\ Size[y] # 0 /\ y \in Nested(WellTyped, Size[y] - 1)
<1> DEFINE P == {z \in Sound : Size[z] \in Nat /\ Size[z] # 0
                              /\ z \in Nested(WellTyped, Size[z] - 1)}
<1>1. ASSUME NEW z \in WellTyped PROVE z \in P
  <2>1. z \in Sound /\ z.k \in LeafKind
    BY SoundIs, LeafIs
  <2>2. Size[z] = 1
    BY <2>1, SoundIs, SizeIs
  <2>3. Nested(WellTyped, 0) = WellTyped /\ 1 - 1 = 0
    BY NestedIs
  <2> QED
    BY <2>1, <2>2, <2>3
<1>2. ASSUME NEW z \in Sound, z.k \in {"test", "not"}, z.x \in Sound, z.x \in P PROVE z \in P
  <2> DEFINE n == Size[z.x] - 1
  <2>1. n \in Nat /\ z.x \in Nested(WellTyped, n)
    BY <1>2
  <2>2. z \in Predicate /\ Size[z] = Size[z.x] + 1
    BY <1>2, SoundParts, SizeIs
  <2>3. z \in Compound(Sound)
    BY <1>2, SoundParts DEF LeafKind
  <2>4. z \in Compound(Nested(WellTyped, n))
    BY <1>2, <2>1, <2>3, CompoundIn DEF IsJunction
  <2>5. z \in Nested(WellTyped, n + 1)
    BY <2>1, <2>4, NestedIs
  <2>6. Size[z] - 1 = n + 1 /\ Size[z] \in Nat /\ Size[z] # 0
    BY <1>2, <2>2
  <2> QED
    BY <2>5, <2>6
<1>3. ASSUME NEW z \in Sound, IsJunction(z), z.l \in Sound, z.r \in Sound, z.l \in P, z.r \in P
      PROVE  z \in P
  <2> DEFINE a == Size[z.l] - 1
             b == Size[z.r] - 1
             n == a + b
  <2>1. /\ a \in Nat /\ z.l \in Nested(WellTyped, a) /\ Size[z.l] = a + 1
        /\ b \in Nat /\ z.r \in Nested(WellTyped, b) /\ Size[z.r] = b + 1
    BY <1>3
  <2> HIDE DEF a, b
  <2>2. n \in Nat /\ a \in 0..n /\ b \in 0..n
    BY <2>1
  <2>3. z.l \in Nested(WellTyped, n) /\ z.r \in Nested(WellTyped, n)
    <3> HIDE DEF n
    <3> QED
      BY <2>1, <2>2, NestedMonotone
  <2>4. z \in Predicate /\ Size[z] = Size[z.l] + Size[z.r]
    BY <1>3, SoundParts, SizeIs
  <2>5. z \in Compound(Sound)
    BY <1>3, SoundParts DEF LeafKind, IsJunction
  <2>6. z \in Compound(Nested(WellTyped, n))
    BY <1>3, <2>3, <2>5, CompoundIn DEF IsJunction
  <2>7. z \in Nested(WellTyped, n + 1)
    BY <2>2, <2>6, NestedIs
  <2>8. Size[z] - 1 = n + 1 /\ Size[z] \in Nat /\ Size[z] # 0
    BY <2>1, <2>4
  <2> QED
    BY <2>7, <2>8
<1> HIDE DEF P
<1>4. Sound \subseteq P
  BY <1>1, <1>2, <1>3, AllSound
<1> QED
  BY <1>4 DEF P

\* A predicate made of others that are not too large together is well typed.
LEMMA JunctionFits ==
  ASSUME NEW op \in {"AND", "OR"}, NEW l \in Sound, NEW r \in Sound,
         Size[l] + Size[r] <= MaxSize
  PROVE  /\ Junction(op, l, r) \in Sound /\ IsJunction(Junction(op, l, r))
         /\ Size[Junction(op, l, r)] = Size[l] + Size[r]
<1> DEFINE j == Junction(op, l, r)
           a == Size[l] - 1
           b == Size[r] - 1
           n == a + b
<1>1. /\ a \in Nat /\ l \in Nested(WellTyped, a) /\ Size[l] = a + 1
      /\ b \in Nat /\ r \in Nested(WellTyped, b) /\ Size[r] = b + 1
  BY SizeDepth
<1> HIDE DEF a, b
<1>2. n \in Nat /\ a \in 0..n /\ b \in 0..n /\ n + 1 \in 0..MaxSize
  BY <1>1, SoundIs
<1>3. l \in Nested(WellTyped, n) /\ r \in Nested(WellTyped, n)
  <2> HIDE DEF n
  <2> QED
    BY <1>1, <1>2, NestedMonotone
<1>4. j \in Compound(Nested(WellTyped, n))
  BY <1>3 DEF Compound, Junction
<1>5. j \in Nested(WellTyped, n + 1)
  BY <1>2, <1>4, NestedIs
<1>6. j \in Sound
  <2> HIDE DEF j, n
  <2> QED
    BY <1>2, <1>5, SoundIs, NestedMonotone DEF Sound
<1>7. IsJunction(j) /\ j.l = l /\ j.r = r
  BY DEF Junction, IsJunction
<1> QED
  BY <1>6, <1>7, SoundParts, SizeIs

LEMMA UnaryFits ==
  ASSUME NEW x \in Sound, Size[x] + 1 <= MaxSize,
         NEW truth \in Truths, NEW neg \in BOOLEAN,
         NEW y \in {Not(x), [k |-> "test", x |-> x, truth |-> truth, neg |-> neg]}
  PROVE  y \in Sound /\ Size[y] = Size[x] + 1
<1> DEFINE n == Size[x] - 1
<1>1. n \in Nat /\ x \in Nested(WellTyped, n) /\ n + 1 = Size[x]
  BY SizeDepth
<1>2. n + 1 \in 0..MaxSize
  BY <1>1, SoundIs
<1>3. y \in Compound(Nested(WellTyped, n))
  BY <1>1 DEF Compound, Not
<1>4. y \in Nested(WellTyped, n + 1)
  BY <1>1, <1>3, NestedIs
<1>5. y \in Sound
  <2> HIDE DEF n
  <2> QED
    BY <1>2, <1>4, SoundIs, NestedMonotone DEF Sound
<1>6. y.k \in {"test", "not"} /\ y.x = x
  BY DEF Not
<1> QED
  BY <1>5, <1>6, SoundParts, SizeIs

-----------------------------------------------------------------------------
(* Sequences of operands *)

LEMMA ToSetOf ==
  ASSUME NEW T, NEW s \in Seq(T), NEW e \in T
  PROVE  /\ ToSet(<<>>) = {} /\ ToSet(<<e>>) = {e} /\ ToSet(s) \subseteq T
         /\ ToSet(Append(s, e)) = ToSet(s) \cup {e}
         /\ Contains(s, e) <=> e \in ToSet(s)
         /\ \A i \in 1..Len(s) : s[i] \in ToSet(s)
<1>1. ToSet(<<>>) = {} /\ ToSet(<<e>>) = {e}
  BY DEF ToSet
<1>2. DOMAIN s = 1..Len(s) /\ Len(s) \in Nat /\ \A i \in 1..Len(s) : s[i] \in T
  BY LenProperties, ElementOfSeq
<1>3. ToSet(Append(s, e)) = ToSet(s) \cup {e}
  <2> DEFINE u == Append(s, e)
  <2>1. /\ DOMAIN u = 1..(Len(s) + 1) /\ u[Len(s) + 1] = e
        /\ \A i \in 1..Len(s) : u[i] = s[i]
    BY <1>2, AppendProperties, LenProperties
  <2> HIDE DEF u
  <2> QED
    BY <1>2, <2>1 DEF ToSet, u
<1> QED
  BY <1>1, <1>2, <1>3 DEF ToSet, Contains

LEMMA ToSetConcat ==
  ASSUME NEW T, NEW s \in Seq(T), NEW t \in Seq(T)
  PROVE  ToSet(s \o t) = ToSet(s) \cup ToSet(t)
<1>1. DOMAIN s = 1..Len(s) /\ Len(s) \in Nat
  BY LenProperties
<1>2. DOMAIN t = 1..Len(t) /\ Len(t) \in Nat
  BY LenProperties
<1> DEFINE u == s \o t
<1>3. /\ DOMAIN u = 1..(Len(s) + Len(t))
      /\ \A i \in 1..Len(s) : u[i] = s[i]
      /\ \A i \in 1..Len(t) : u[Len(s) + i] = t[i]
  BY <1>1, <1>2
<1> HIDE DEF u
<1>4. ASSUME NEW x \in ToSet(u) PROVE x \in ToSet(s) \cup ToSet(t)
  <2>1. PICK i \in 1..(Len(s) + Len(t)) : u[i] = x
    BY <1>3 DEF ToSet
  <2>2. CASE i <= Len(s)
    BY <1>1, <1>3, <2>1, <2>2 DEF ToSet
  <2>3. CASE i > Len(s)
    <3> DEFINE j == i - Len(s)
    <3>1. j \in 1..Len(t) /\ Len(s) + j = i
      BY <1>1, <1>2, <2>3
    <3>2. t[j] = x
      BY <1>3, <2>1, <3>1
    <3> QED
      BY <1>2, <3>1, <3>2 DEF ToSet
  <2> QED
    BY <1>1, <2>2, <2>3
<1>5. ASSUME NEW x \in ToSet(s) PROVE x \in ToSet(u)
  <2>1. PICK i \in 1..Len(s) : s[i] = x
    BY <1>1 DEF ToSet
  <2>2. i \in 1..(Len(s) + Len(t)) /\ u[i] = x
    BY <1>1, <1>2, <1>3, <2>1
  <2> QED
    BY <1>3, <2>2 DEF ToSet
<1>6. ASSUME NEW x \in ToSet(t) PROVE x \in ToSet(u)
  <2>1. PICK i \in 1..Len(t) : t[i] = x
    BY <1>2 DEF ToSet
  <2>2. Len(s) + i \in 1..(Len(s) + Len(t)) /\ u[Len(s) + i] = x
    BY <1>1, <1>2, <1>3, <2>1
  <2> QED
    BY <1>3, <2>2 DEF ToSet
<1> QED
  BY <1>4, <1>5, <1>6 DEF u

\* _deduplicate_terms keeps one of each.
LEMMA UniqueIs ==
  ASSUME NEW T, NEW s \in Seq(T)
  PROVE  Unique(s) \in Seq(T) /\ ToSet(Unique(s)) = ToSet(s)
<1> DEFINE P == {r \in Seq(T) : Unique(r) \in Seq(T) /\ ToSet(Unique(r)) = ToSet(r)}
<1>1. <<>> \in P
  <2>1. <<>> \in Seq({1}) /\ 1 \in {1}
    BY EmptySeq
  <2>2. Unique(<<>>) = <<>>
    BY <2>1, UniqueAppend
  <2> QED
    BY <2>2, EmptySeq
<1>2. ASSUME NEW r \in P \cap Seq(T), NEW e \in T PROVE Append(r, e) \in P
  <2>1. Unique(Append(r, e)) = IF Contains(Unique(r), e) THEN Unique(r) ELSE Append(Unique(r), e)
    BY UniqueAppend
  <2>2. Contains(Unique(r), e) <=> e \in ToSet(r)
    BY ToSetOf
  <2>3. ToSet(Append(r, e)) = ToSet(r) \cup {e}
    BY ToSetOf
  <2>4. /\ r \in Seq(T) /\ Append(r, e) \in Seq(T)
        /\ Unique(r) \in Seq(T) /\ Append(Unique(r), e) \in Seq(T)
        /\ ToSet(Unique(r)) = ToSet(r)
    OBVIOUS
  <2>5. ToSet(Append(Unique(r), e)) = ToSet(Unique(r)) \cup {e}
    BY <2>4, ToSetOf
  <2>6. Unique(Append(r, e)) \in Seq(T)
    BY <2>1, <2>4
  <2>7. ToSet(Unique(Append(r, e))) = ToSet(Append(r, e))
    <3> HIDE DEF P
    <3> QED
      BY <2>1, <2>2, <2>3, <2>4, <2>5
  <2> QED
    BY <2>4, <2>6, <2>7
<1> HIDE DEF P
<1>3. Seq(T) \subseteq P
  BY <1>1, <1>2, AllSequences
<1> QED
  BY <1>3 DEF P

LEMMA TotalIs ==
  ASSUME NEW s \in Seq(Sound)
  PROVE  Total(s) \in Nat /\ Total(Unique(s)) \in Nat /\ Total(Unique(s)) <= Total(s)
<1> DEFINE P == {r \in Seq(Sound) : /\ Total(r) \in Nat /\ Total(Unique(r)) \in Nat
                                    /\ Total(Unique(r)) <= Total(r)}
<1>1. <<>> \in P
  <2>1. <<>> \in Seq({1}) /\ 1 \in {1}
    BY EmptySeq
  <2>2. Unique(<<>>) = <<>> /\ Total(<<>>) = 0
    BY <2>1, UniqueAppend, TotalAppend
  <2> QED
    BY <2>2, EmptySeq
<1>2. ASSUME NEW r \in P \cap Seq(Sound), NEW e \in Sound PROVE Append(r, e) \in P
  <2>1. Unique(Append(r, e)) = IF Contains(Unique(r), e) THEN Unique(r) ELSE Append(Unique(r), e)
    BY UniqueAppend
  <2>2. Total(Append(r, e)) = Total(r) + Size[e] /\ Size[e] \in Nat
    BY TotalAppend, SizeDepth
  <2>3. Unique(r) \in Seq(Sound)
    BY UniqueIs
  <2>4. Total(Append(Unique(r), e)) = Total(Unique(r)) + Size[e]
    BY <2>3, TotalAppend
  <2>5. /\ Append(r, e) \in Seq(Sound) /\ Total(r) \in Nat /\ Total(Unique(r)) \in Nat
        /\ Total(Unique(r)) <= Total(r)
    OBVIOUS
  <2>6. /\ Total(Append(r, e)) \in Nat /\ Total(Unique(Append(r, e))) \in Nat
        /\ Total(Unique(Append(r, e))) <= Total(Append(r, e))
    <3> HIDE DEF P
    <3>1. CASE Contains(Unique(r), e)
      BY <2>1, <2>2, <2>5, <3>1
    <3>2. CASE ~Contains(Unique(r), e)
      BY <2>1, <2>2, <2>4, <2>5, <3>2
    <3> QED
      BY <3>1, <3>2
  <2> QED
    BY <2>5, <2>6
<1> HIDE DEF P
<1>3. Seq(Sound) \subseteq P
  BY <1>1, <1>2, AllSequences
<1> QED
  BY <1>3 DEF P

LEMMA TotalConcat ==
  ASSUME NEW s \in Seq(Sound), NEW t \in Seq(Sound)
  PROVE  Total(s \o t) = Total(s) + Total(t)
<1> DEFINE P == {r \in Seq(Sound) : Total(s \o r) = Total(s) + Total(r)}
<1>1. <<>> \in P
  <2>1. <<>> \in Seq({1}) /\ 1 \in {1}
    BY EmptySeq
  <2>2. Total(<<>>) = 0
    BY <2>1, TotalAppend
  <2>3. s \o <<>> = s /\ Total(s) \in Nat
    BY ConcatEmptySeq, TotalIs
  <2> QED
    BY <2>2, <2>3, EmptySeq
<1>2. ASSUME NEW r \in P \cap Seq(Sound), NEW e \in Sound PROVE Append(r, e) \in P
  <2>1. s \o Append(r, e) = Append(s \o r, e) /\ s \o r \in Seq(Sound)
    OBVIOUS
  <2>2. Total(Append(r, e)) = Total(r) + Size[e] /\ Size[e] \in Nat
    BY TotalAppend, SizeDepth
  <2>3. Total(Append(s \o r, e)) = Total(s \o r) + Size[e]
    BY <2>1, TotalAppend
  <2>4. Total(s) \in Nat /\ Total(r) \in Nat
    BY TotalIs
  <2>5. Append(r, e) \in Seq(Sound) /\ Total(s \o r) = Total(s) + Total(r)
    OBVIOUS
  <2>6. Total(s \o Append(r, e)) = Total(s) + Total(Append(r, e))
    <3> HIDE DEF P
    <3> QED
      BY <2>1, <2>2, <2>3, <2>4, <2>5
  <2> QED
    BY <2>5, <2>6
<1> HIDE DEF P
<1>3. Seq(Sound) \subseteq P
  BY <1>1, <1>2, AllSequences
<1> QED
  BY <1>3 DEF P

\* A sequence without one of its elements.
LEMMA RemoveAtIs ==
  ASSUME NEW s \in Seq(Sound), NEW i \in 1..Len(s)
  PROVE  /\ RemoveAt(s, i) \in Seq(Sound)
         /\ Total(RemoveAt(s, i)) \in Nat /\ Total(RemoveAt(s, i)) <= Total(s)
         /\ ToSet(s) = ToSet(RemoveAt(s, i)) \cup {s[i]}
         /\ \A j \in 1..Len(s) : j # i => s[j] \in ToSet(RemoveAt(s, i))
<1> DEFINE a == SubSeq(s, 1, i - 1)
           b == SubSeq(s, i + 1, Len(s))
           e == s[i]
<1>1. Len(s) \in Nat /\ s[i] \in Sound
  BY LenProperties, ElementOfSeq
<1>2. /\ a \in Seq(Sound) /\ Len(a) = i - 1 /\ \A j \in 1..(i - 1) : a[j] = s[j]
      /\ b \in Seq(Sound) /\ Len(b) = Len(s) - i /\ \A j \in 1..(Len(s) - i) : b[j] = s[i + j]
  <2>1. \A j \in 1..(i - 1) : s[j] \in Sound
    BY <1>1, ElementOfSeq
  <2>2. \A j \in (i + 1)..Len(s) : s[j] \in Sound
    BY <1>1, ElementOfSeq
  <2>3. a \in Seq(Sound) /\ Len(a) = i - 1 /\ \A j \in 1..(i - 1) : a[j] = s[j]
    BY <1>1, <2>1, SubSeqProperties
  <2>4. b \in Seq(Sound) /\ Len(b) = Len(s) - i /\ \A j \in 1..(Len(s) - i) : b[j] = s[i + j]
    BY <1>1, <2>2, SubSeqProperties
  <2> QED
    BY <2>3, <2>4
<1>3. RemoveAt(s, i) = a \o b
  BY DEF RemoveAt
<1> HIDE DEF a, b
<1>4. s = Append(a, e) \o b
  <2> DEFINE u == Append(a, e) \o b
  <2>1. u \in Seq(Sound) /\ Len(u) = Len(s)
    BY <1>1, <1>2
  <2>2. ASSUME NEW j \in 1..Len(s) PROVE u[j] = s[j]
    <3>1. Append(a, e) \in Seq(Sound) /\ Len(Append(a, e)) = i
      BY <1>1, <1>2
    <3>2. CASE j <= i - 1
      BY <1>1, <1>2, <3>1, <3>2
    <3>3. CASE j = i
      BY <1>1, <1>2, <3>1, <3>3
    <3>4. CASE j > i
      <4> DEFINE k == j - i
      <4>1. k \in 1..Len(b) /\ i + k = j
        BY <1>1, <1>2, <3>4
      <4>2. u[j] = b[k]
        BY <1>1, <1>2, <3>1, <4>1
      <4> QED
        BY <1>2, <4>1, <4>2
    <3> HIDE DEF u
    <3> QED
      BY <1>1, <3>2, <3>3, <3>4
  <2> HIDE DEF u
  <2> QED
    BY <2>1, <2>2, SeqEqual DEF u
<1>5. Append(a, e) \in Seq(Sound)
  BY <1>1, <1>2
<1>6. Total(s) = (Total(a) + Size[e]) + Total(b)
  <2>1. Total(Append(a, e) \o b) = Total(Append(a, e)) + Total(b)
    BY <1>2, <1>5, TotalConcat
  <2>2. Total(Append(a, e)) = Total(a) + Size[e]
    BY <1>1, <1>2, TotalAppend
  <2> QED
    BY <1>4, <2>1, <2>2
<1>7. Total(a \o b) = Total(a) + Total(b) /\ Total(a) \in Nat /\ Total(b) \in Nat /\ Size[e] \in Nat
  BY <1>1, <1>2, TotalConcat, TotalIs, SizeDepth
<1>8. /\ ToSet(s) = (ToSet(a) \cup {e}) \cup ToSet(b)
      /\ ToSet(a \o b) = ToSet(a) \cup ToSet(b)
  <2>1. ToSet(Append(a, e) \o b) = ToSet(Append(a, e)) \cup ToSet(b)
    BY <1>2, <1>5, ToSetConcat
  <2>2. ToSet(Append(a, e)) = ToSet(a) \cup {e}
    <3>1. e \in Sound
      BY <1>1
    <3> HIDE DEF e
    <3> QED
      BY <1>2, <3>1, ToSetOf
  <2>3. ToSet(a \o b) = ToSet(a) \cup ToSet(b)
    BY <1>2, ToSetConcat
  <2> HIDE DEF e
  <2> QED
    BY <1>4, <2>1, <2>2, <2>3
<1>9. ASSUME NEW j \in 1..Len(s), j # i PROVE s[j] \in ToSet(a \o b)
  <2>1. CASE j <= i - 1
    <3>1. j \in 1..Len(a) /\ a[j] = s[j]
      BY <1>1, <1>2, <2>1
    <3>2. s[j] \in ToSet(a)
      BY <1>1, <1>2, <3>1, ToSetOf
    <3> QED
      BY <1>8, <3>2
  <2>2. CASE j > i
    <3> DEFINE k == j - i
    <3>1. k \in 1..Len(b) /\ i + k = j
      BY <1>1, <1>2, <2>2
    <3>2. s[j] = b[k]
      BY <1>2, <3>1
    <3>3. s[j] \in ToSet(b)
      BY <1>1, <1>2, <3>1, <3>2, ToSetOf
    <3> QED
      BY <1>8, <3>3
  <2> QED
    BY <1>1, <1>9, <2>1, <2>2
<1> QED
  BY <1>2, <1>3, <1>6, <1>7, <1>8, <1>9

-----------------------------------------------------------------------------
(* The truth of the operands of a connective, in whatever order *)

Decider(op) == IF op = "AND" THEN "F" ELSE "T"

\* What a connective makes of operands with these truth values.
Joint(op, S) ==
  IF Decider(op) \in S THEN Decider(op)
  ELSE IF "U" \in S THEN "U" ELSE IF op = "AND" THEN "T" ELSE "F"

TruthsOf(s, row) == {Evaluate(x, row) : x \in ToSet(s)}

LEMMA JointOne ==
  ASSUME NEW op \in {"AND", "OR"}, NEW t \in Truths PROVE Joint(op, {t}) = t
BY DEF Joint, Decider, Truths

LEMMA JointBoth ==
  ASSUME NEW op \in {"AND", "OR"}, NEW S \in SUBSET Truths, NEW T \in SUBSET Truths,
         S # {}, T # {}
  PROVE  Connect(op, Joint(op, S), Joint(op, T)) = Joint(op, S \cup T)
<1>1. CASE op = "AND"
  BY <1>1 DEF Joint, Decider, Connect, And3, Truths
<1>2. CASE op = "OR"
  BY <1>2 DEF Joint, Decider, Connect, Or3, Truths
<1> QED
  BY <1>1, <1>2

\* An operand that adds nothing to another may go.
LEMMA JointWithout ==
  ASSUME NEW op \in {"AND", "OR"}, NEW S \in SUBSET Truths, NEW t \in S, NEW u \in Truths,
         Connect(op, t, u) = t \/ Connect(op, u, t) = t
  PROVE  Joint(op, S \cup {u}) = Joint(op, S)
<1>1. CASE op = "AND"
  BY <1>1 DEF Joint, Decider, Connect, And3, Truths
<1>2. CASE op = "OR"
  BY <1>2 DEF Joint, Decider, Connect, Or3, Truths
<1> QED
  BY <1>1, <1>2

LEMMA TruthsOfAppend ==
  ASSUME NEW s \in Seq(Sound), NEW e \in Sound, NEW row
  PROVE  /\ TruthsOf(<<e>>, row) = {Evaluate(e, row)}
         /\ TruthsOf(Append(s, e), row) = TruthsOf(s, row) \cup {Evaluate(e, row)}
<1>1. ToSet(<<e>>) = {e}
  BY ToSetOf
<1>2. ToSet(Append(s, e)) = ToSet(s) \cup {e}
  BY ToSetOf
<1> QED
  BY <1>1, <1>2 DEF TruthsOf

LEMMA TruthsOfConcat ==
  ASSUME NEW s \in Seq(Sound), NEW t \in Seq(Sound), NEW row
  PROVE  TruthsOf(s \o t, row) = TruthsOf(s, row) \cup TruthsOf(t, row)
<1>1. ToSet(s \o t) = ToSet(s) \cup ToSet(t)
  BY ToSetConcat
<1> QED
  BY <1>1 DEF TruthsOf

\* A well typed predicate has one of the three truth values on a row.
LEMMA TestedTruth ==
  ASSUME NEW x \in Leaf, NEW row \in Row PROVE Tested(x, row) \in Truths
<1>1. x.k \in LeafKind
  BY LeafIs
<1>2. CASE x.k = "lit"
  BY <1>2, LeafIs DEF Tested
<1>3. CASE x.k = "cmp"
  BY <1>3, TruthOfComparison DEF Tested
<1>4. CASE x.k = "distinct"
  BY <1>4 DEF Tested, Bool3, Truths
<1>5. CASE x.k = "between"
  BY <1>5 DEF Tested, Bool3, Truths
<1>6. CASE x.k = "in"
  <2> DEFINE among == Member(ComparisonValue(x.f, row[x.f]),
                             {ComparisonValue(x.f, v) : v \in ToSet(x.vs)})
  <2>1. among \in Truths
    BY TruthOfComparison
  <2>2. Tested(x, row) = IF x.neg THEN Not3(among) ELSE among
    BY <1>6 DEF Tested
  <2> HIDE DEF among
  <2> QED
    BY <2>1, <2>2 DEF Not3, Truths
<1>7. CASE x.k = "null"
  BY <1>7 DEF Tested, Bool3, Truths
<1> QED
  BY <1>1, <1>2, <1>3, <1>4, <1>5, <1>6, <1>7 DEF LeafKind

LEMMA EvaluateTruth ==
  ASSUME NEW y \in Sound, NEW row \in Row PROVE Evaluate(y, row) \in Truths
<1> DEFINE P == {z \in Sound : Evaluate(z, row) \in Truths}
<1>1. ASSUME NEW z \in WellTyped PROVE z \in P
  <2>1. z \in Leaf /\ z \in Sound /\ z \in Predicate /\ z.k \in LeafKind
    BY SoundIs, LeafIs
  <2> QED
    BY <2>1, EvaluateIs, TestedTruth
<1>2. ASSUME NEW z \in Sound, z.k \in {"test", "not"}, z.x \in Sound, z.x \in P PROVE z \in P
  <2>1. z \in Predicate
    BY SoundIs
  <2> QED
    BY <1>2, <2>1, EvaluateIs DEF Bool3, Not3, Truths
<1>3. ASSUME NEW z \in Sound, IsJunction(z), z.l \in Sound, z.r \in Sound, z.l \in P, z.r \in P
      PROVE  z \in P
  <2>1. z \in Predicate
    BY SoundIs
  <2> QED
    BY <1>3, <2>1, EvaluateIs DEF Connect, And3, Or3, Truths
<1> HIDE DEF P
<1>4. Sound \subseteq P
  BY <1>1, <1>2, <1>3, AllSound
<1> QED
  BY <1>4 DEF P

LEMMA TruthsOfType ==
  ASSUME NEW s \in Seq(Sound), NEW row \in Row
  PROVE  /\ TruthsOf(s, row) \in SUBSET Truths
         /\ s # <<>> => TruthsOf(s, row) # {}
<1>1. DOMAIN s = 1..Len(s) /\ Len(s) \in Nat /\ \A i \in 1..Len(s) : s[i] \in Sound
  BY LenProperties, ElementOfSeq
<1>2. ToSet(s) \subseteq Sound
  BY <1>1 DEF ToSet
<1>3. ASSUME s # <<>> PROVE ToSet(s) # {}
  <2>1. Len(s) # 0
    BY <1>3, EmptySeq
  <2>2. 1 \in DOMAIN s
    BY <1>1, <2>1
  <2> QED
    BY <2>2 DEF ToSet
<1> QED
  BY <1>2, <1>3, EvaluateTruth DEF TruthsOf

\* _flatten: the operands of a chain have together its truth and its size.
LEMMA FlattenKeeps ==
  ASSUME NEW op \in {"AND", "OR"}, NEW y \in Sound
  PROVE  /\ Flatten(op, y) \in Seq(Sound) /\ Flatten(op, y) # <<>>
         /\ Total(Flatten(op, y)) = Size[y]
         /\ \A row \in Row : Joint(op, TruthsOf(Flatten(op, y), row)) = Evaluate(y, row)
<1> DEFINE Kept(z) == /\ Flatten(op, z) \in Seq(Sound) /\ Flatten(op, z) # <<>>
                      /\ Total(Flatten(op, z)) = Size[z]
                      /\ \A row \in Row :
                           Joint(op, TruthsOf(Flatten(op, z), row)) = Evaluate(z, row)
           P == {z \in Sound : Kept(z)}
<1>1. ASSUME NEW z \in Sound, z.k # op PROVE z \in P
  <2>1. Flatten(op, z) = <<z>>
    BY <1>1, SoundIs, FlattenIs
  <2>2. <<z>> \in Seq(Sound) /\ <<z>> # <<>>
    OBVIOUS
  <2>3. Total(<<z>>) = Size[z]
    <3>1. <<>> \in Seq(Sound) /\ Append(<<>>, z) = <<z>>
      BY EmptySeq
    <3>2. Total(Append(<<>>, z)) = Total(<<>>) + Size[z] /\ Total(<<>>) = 0
      BY <3>1, TotalAppend
    <3>3. Size[z] \in Nat
      BY SizeDepth
    <3> QED
      BY <3>1, <3>2, <3>3
  <2>4. ASSUME NEW row \in Row PROVE Joint(op, TruthsOf(<<z>>, row)) = Evaluate(z, row)
    <3>1. TruthsOf(<<z>>, row) = {Evaluate(z, row)}
      BY <2>2, TruthsOfAppend
    <3> QED
      BY <3>1, EvaluateTruth, JointOne
  <2> QED
    BY <2>1, <2>2, <2>3, <2>4
<1>2. ASSUME NEW z \in Sound, z.k = op, z.l \in Sound, z.r \in Sound, z.l \in P, z.r \in P
      PROVE  z \in P
  <2> DEFINE a == Flatten(op, z.l)
             b == Flatten(op, z.r)
  <2>1. /\ a \in Seq(Sound) /\ a # <<>> /\ Total(a) = Size[z.l]
        /\ b \in Seq(Sound) /\ b # <<>> /\ Total(b) = Size[z.r]
        /\ \A row \in Row : Joint(op, TruthsOf(a, row)) = Evaluate(z.l, row)
        /\ \A row \in Row : Joint(op, TruthsOf(b, row)) = Evaluate(z.r, row)
    BY <1>2
  <2>2. z \in Predicate /\ IsJunction(z)
    BY <1>2, SoundIs DEF IsJunction
  <2>3. Flatten(op, z) = a \o b
    BY <1>2, <2>2, FlattenIs
  <2>4. Size[z] = Size[z.l] + Size[z.r]
    BY <2>2, SizeIs
  <2> HIDE DEF a, b, P
  <2>5. a \o b \in Seq(Sound) /\ a \o b # <<>>
    BY <2>1, ConcatEqualIffEmpty
  <2>6. Total(a \o b) = Size[z]
    BY <2>1, <2>4, TotalConcat
  <2>7. ASSUME NEW row \in Row PROVE Joint(op, TruthsOf(a \o b, row)) = Evaluate(z, row)
    <3>1. TruthsOf(a \o b, row) = TruthsOf(a, row) \cup TruthsOf(b, row)
      BY <2>1, TruthsOfConcat
    <3>2. /\ TruthsOf(a, row) \in SUBSET Truths /\ TruthsOf(a, row) # {}
          /\ TruthsOf(b, row) \in SUBSET Truths /\ TruthsOf(b, row) # {}
      BY <2>1, TruthsOfType
    <3>3. Evaluate(z, row) = Connect(op, Evaluate(z.l, row), Evaluate(z.r, row))
      BY <1>2, <2>2, EvaluateIs
    <3>4. Joint(op, TruthsOf(a, row)) = Evaluate(z.l, row) /\ Joint(op, TruthsOf(b, row)) = Evaluate(z.r, row)
      BY <2>1
    <3>5. Connect(op, Joint(op, TruthsOf(a, row)), Joint(op, TruthsOf(b, row)))
            = Joint(op, TruthsOf(a, row) \cup TruthsOf(b, row))
      BY <3>2, JointBoth
    <3> QED
      BY <3>1, <3>3, <3>4, <3>5
  <2>8. Kept(z)
    BY <2>3, <2>5, <2>6, <2>7
  <2> HIDE DEF Kept
  <2> QED
    BY <2>8 DEF P
<1>3. WellTyped \subseteq P
  <2>1. ASSUME NEW z \in WellTyped PROVE z \in Sound /\ z.k # op
    <3>1. z \in Sound /\ z.k \in LeafKind
      BY SoundIs, LeafIs
    <3> QED
      BY <3>1 DEF LeafKind
  <2> HIDE DEF P
  <2> QED
    BY <1>1, <2>1
<1>4. Sound \subseteq P
  <2>1. \A z \in Sound :
           /\ z.k \in {"test", "not"} /\ z.x \in Sound /\ z.x \in P => z \in P
           /\ IsJunction(z) /\ z.l \in Sound /\ z.r \in Sound /\ z.l \in P /\ z.r \in P => z \in P
    <3> HIDE DEF P
    <3> QED
      BY <1>1, <1>2 DEF IsJunction
  <2> HIDE DEF P
  <2> QED
    BY <1>3, <2>1, AllSound
<1> HIDE DEF Kept
<1>5. Kept(y)
  BY <1>4
<1> QED
  BY <1>5 DEF Kept

-----------------------------------------------------------------------------
(* Which of two operands may go *)

\* A comparison and a membership of a row's value.
LEMMA LeafTruth ==
  ASSUME NEW x \in WellTyped, NEW row
  PROVE  /\ x.k \in LeafKind => Evaluate(x, row) = Tested(x, row)
         /\ x.k = "cmp" =>
              Evaluate(x, row) = Compare(x.op, ComparisonValue(x.f, row[x.f]),
                                         ComparisonValue(x.f, x.v))
         /\ x.k = "in" /\ ~x.neg =>
              Evaluate(x, row) = Member(ComparisonValue(x.f, row[x.f]),
                                        {ComparisonValue(x.f, v) : v \in ToSet(x.vs)})
<1>1. x \in Predicate /\ x.k \in LeafKind
  BY SoundIs, LeafIs
<1>2. Evaluate(x, row) = Tested(x, row)
  BY <1>1, EvaluateIs
<1>3. x.k = "cmp" => Tested(x, row) = Compare(x.op, ComparisonValue(x.f, row[x.f]),
                                         ComparisonValue(x.f, x.v))
  BY DEF Tested
<1>4. x.k = "in" /\ ~x.neg =>
        Tested(x, row) = Member(ComparisonValue(x.f, row[x.f]),
                                {ComparisonValue(x.f, v) : v \in ToSet(x.vs)})
  BY DEF Tested
<1> QED
  BY <1>2, <1>3, <1>4

LEMMA DominantIs ==
  ASSUME NEW op, NEW opl, NEW a, NEW opr, NEW b
  PROVE  /\ Dominant(op, opl, a, opr, b) \in {0, 1, 2}
         /\ {opl, opr} \subseteq {"=", "!="} => Dominant(op, opl, a, opr, b) = 0
<1>1. StrongerBound(opl, a, opr, b) = 1 \/ StrongerBound(opl, a, opr, b) = 2
  BY DEF StrongerBound
<1>2. SelectBound(op, opl, a, opr, b) = 1 \/ SelectBound(op, opl, a, opr, b) = 2
  BY <1>1 DEF SelectBound
<1>3. Dominant(op, opl, a, opr, b) \in {0, 1, 2}
  BY <1>2 DEF Dominant
<1>4. ASSUME {opl, opr} \subseteq {"=", "!="} PROVE Dominant(op, opl, a, opr, b) = 0
  BY <1>4 DEF Dominant, Lower, Upper
<1> QED
  BY <1>3, <1>4

\* _dominant_comparison on terms
LEMMA BoundKeeperKeeps ==
  ASSUME NEW op \in {"AND", "OR"}, NEW l \in Sound, NEW r \in Sound, NEW row \in Row
  PROVE  /\ BoundKeeper(op, l, r) \in {0, 1, 2}
         /\ BoundKeeper(op, l, r) = 1 =>
              Connect(op, Evaluate(l, row), Evaluate(r, row)) = Evaluate(l, row)
         /\ BoundKeeper(op, l, r) = 2 =>
              Connect(op, Evaluate(l, row), Evaluate(r, row)) = Evaluate(r, row)
<1>1. CASE ~(l.k = "cmp" /\ r.k = "cmp" /\ l.f = r.f)
  BY <1>1 DEF BoundKeeper
<1>2. CASE l.k = "cmp" /\ r.k = "cmp" /\ l.f = r.f
  <2>1. BoundKeeper(op, l, r) = Dominant(op, l.op, l.v, r.op, r.v)
    BY <1>2 DEF BoundKeeper
  <2>2. l \in WellTyped /\ r \in WellTyped
    BY <1>2, SoundParts DEF LeafKind
  <2>3. /\ l \in Leaf /\ l.f \in Field /\ l.op \in Operator /\ l.v \in Value
        /\ r \in Leaf /\ r.op \in Operator /\ r.v \in Value
    BY <1>2, <2>2, SoundIs, LeafIs
  <2>4. row[l.f] \in Value
    BY <2>3, RewriteAssumption
  <2> DEFINE seen == ComparisonValue(l.f, row[l.f])
  <2>5. /\ Evaluate(l, row) = Compare(l.op, seen, ComparisonValue(l.f, l.v))
        /\ Evaluate(r, row) = Compare(r.op, seen, ComparisonValue(l.f, r.v))
    BY <1>2, <2>2, LeafTruth
  <2>6. CASE l.f \in Enum
    <3>1. l.op \in {"=", "!="} /\ r.op \in {"=", "!="}
      BY <1>2, <2>2, <2>6 DEF WellTyped
    <3>2. BoundKeeper(op, l, r) = 0
      BY <2>1, <3>1, DominantIs
    <3> QED
      BY <3>2
  <2>7. CASE l.f \notin Enum
    <3>1. /\ seen = row[l.f] /\ ComparisonValue(l.f, l.v) = l.v
          /\ ComparisonValue(l.f, r.v) = r.v
      BY <2>7 DEF ComparisonValue
    <3> HIDE DEF seen
    <3>2. /\ Dominant(op, l.op, l.v, r.op, r.v) = 1 =>
               Connect(op, Compare(l.op, seen, l.v), Compare(r.op, seen, r.v))
                 = Compare(l.op, seen, l.v)
          /\ Dominant(op, l.op, l.v, r.op, r.v) = 2 =>
               Connect(op, Compare(l.op, seen, l.v), Compare(r.op, seen, r.v))
                 = Compare(r.op, seen, r.v)
      BY <2>3, <2>4, <3>1, DominantKeepsTruth
    <3> QED
      BY <2>1, <2>5, <3>1, <3>2, DominantIs
  <2> QED
    BY <2>6, <2>7
<1> QED
  BY <1>1, <1>2

\* _simplify_memberships on two terms
LEMMA MembershipKeeperKeeps ==
  ASSUME NEW op \in {"AND", "OR"}, NEW l \in Sound, NEW r \in Sound, NEW row \in Row
  PROVE  /\ MembershipKeeper(op, l, r) \in {0, 1, 2}
         /\ MembershipKeeper(op, l, r) = 1 =>
              Connect(op, Evaluate(l, row), Evaluate(r, row)) = Evaluate(l, row)
         /\ MembershipKeeper(op, l, r) = 2 =>
              Connect(op, Evaluate(l, row), Evaluate(r, row)) = Evaluate(r, row)
<1> DEFINE IsList(x) == x.k = "in" /\ ~x.neg
           IsEquality(x) == x.k = "cmp" /\ x.op = "="
           Values(x) == IF x.k = "in" THEN ToSet(x.vs) ELSE {x.v}
           keepLeft == IF op = "AND" THEN 1 ELSE 2
           keep == MembershipKeeper(op, l, r)
           seen == ComparisonValue(l.f, row[l.f])
           Image(S) == {ComparisonValue(l.f, v) : v \in S}
<1>1. \/ keep = 0
      \/ /\ (IsList(l) \/ IsEquality(l)) /\ (IsList(r) \/ IsEquality(r)) /\ l.f = r.f
         /\ \/ IsList(r) /\ Values(l) \subseteq Values(r) /\ keep = keepLeft
            \/ IsList(l) /\ Values(r) \subseteq Values(l) /\ keep = 3 - keepLeft
  BY DEF MembershipKeeper
<1> HIDE DEF keep
<1>2. \* The truth of either as a membership.
      ASSUME NEW x \in Sound, IsList(x) \/ IsEquality(x), x.f = l.f,
             IsEquality(x) => ~IsNullValue(x.v)
      PROVE  Evaluate(x, row) = Member(seen, Image(Values(x)))
  <2>1. x \in WellTyped
    BY <1>2, SoundParts DEF LeafKind
  <2>2. CASE IsList(x)
    BY <1>2, <2>1, <2>2, LeafTruth
  <2>3. CASE IsEquality(x)
    <3> DEFINE w == ComparisonValue(l.f, x.v)
    <3>1. Evaluate(x, row) = Compare("=", seen, w)
      BY <1>2, <2>1, <2>3, LeafTruth
    <3>2. ~IsNullValue(w)
      BY <1>2, <2>3 DEF ComparisonValue, IsNullValue, String
    <3>3. Image(Values(x)) = {w}
      BY <2>3
    <3> HIDE DEF w, seen
    <3>4. Member(seen, {w}) = Compare("=", seen, w)
      BY <3>2, SingletonListIsEquality
    <3> QED
      BY <3>1, <3>3, <3>4
  <2> QED
    BY <1>2, <2>2, <2>3
<1>3. \* An equality that a list contains is about a value.
      ASSUME NEW x \in Sound, NEW y \in Sound, IsEquality(x), IsList(y), Values(x) \subseteq Values(y)
      PROVE  ~IsNullValue(x.v)
  <2>1. y \in WellTyped
    BY <1>3, SoundParts DEF LeafKind
  <2>2. x.v \in ToSet(y.vs)
    BY <1>3
  <2> QED
    BY <1>3, <2>1, <2>2 DEF WellTyped
<1> DEFINE ml == Member(seen, Image(Values(l)))
           mr == Member(seen, Image(Values(r)))
<1>4. ml \in Truths /\ mr \in Truths
  BY TruthOfComparison
<1>5. CASE /\ IsList(l) \/ IsEquality(l)
           /\ IsList(r) /\ Values(l) \subseteq Values(r) /\ keep = keepLeft
           /\ l.f = r.f
  <2>1. Evaluate(l, row) = ml
    BY <1>2, <1>3, <1>5
  <2>2. Evaluate(r, row) = mr
    BY <1>2, <1>5
  <2>3. Image(Values(l)) \subseteq Image(Values(r))
    BY <1>5
  <2>4. And3(ml, mr) = ml /\ Or3(ml, mr) = mr
    <3> HIDE DEF Image, Values, seen
    <3> QED
      BY <2>3, ContainedListDecides
  <2> HIDE DEF ml, mr
  <2> QED
    BY <1>5, <2>1, <2>2, <2>4 DEF Connect, keep
<1>6. CASE /\ IsList(r) \/ IsEquality(r)
           /\ IsList(l) /\ Values(r) \subseteq Values(l) /\ keep = 3 - keepLeft
           /\ l.f = r.f
  <2>1. Evaluate(l, row) = ml
    BY <1>2, <1>6
  <2>2. Evaluate(r, row) = mr
    BY <1>2, <1>3, <1>6
  <2>3. Image(Values(r)) \subseteq Image(Values(l))
    BY <1>6
  <2>4. And3(mr, ml) = mr /\ Or3(mr, ml) = ml
    <3> HIDE DEF Image, Values, seen
    <3> QED
      BY <2>3, ContainedListDecides
  <2> HIDE DEF ml, mr
  <2>5. Connect(op, ml, mr) = Connect(op, mr, ml)
    BY <1>4, ConnectRegroups
  <2> QED
    BY <1>6, <2>1, <2>2, <2>4, <2>5 DEF Connect, keep
<1> HIDE DEF IsList, IsEquality, Values, seen, Image, ml, mr
<1> QED
  BY <1>1, <1>5, <1>6 DEF keep

\* Of the operands l and r of op, k alone is enough.
Enough(op, k, l, r) ==
  \A row \in Row : Connect(op, Evaluate(l, row), Evaluate(r, row)) = Evaluate(k, row)

LEMMA KeeperKeeps ==
  ASSUME NEW rule, NEW op \in {"AND", "OR"}, NEW l \in Sound, NEW r \in Sound
  PROVE  /\ Keeper(rule, op, l, r) \in {0, 1, 2}
         /\ Keeper(rule, op, l, r) = 1 => Enough(op, l, l, r)
         /\ Keeper(rule, op, l, r) = 2 => Enough(op, r, l, r)
<1>1. BoundKeeper(op, l, r) \in {0, 1, 2} /\ MembershipKeeper(op, l, r) \in {0, 1, 2}
  <2>1. CASE Row = {}
    <3>1. MembershipKeeper(op, l, r) \in {0, 1, 2}
      BY DEF MembershipKeeper
    <3>2. BoundKeeper(op, l, r) \in {0, 1, 2}
      BY DominantIs DEF BoundKeeper
    <3> QED
      BY <3>1, <3>2
  <2>2. CASE Row # {}
    BY <2>2, BoundKeeperKeeps, MembershipKeeperKeeps
  <2> QED
    BY <2>1, <2>2
<1>2. ASSUME NEW row \in Row
      PROVE  /\ Keeper(rule, op, l, r) = 1 =>
                  Connect(op, Evaluate(l, row), Evaluate(r, row)) = Evaluate(l, row)
             /\ Keeper(rule, op, l, r) = 2 =>
                  Connect(op, Evaluate(l, row), Evaluate(r, row)) = Evaluate(r, row)
  BY BoundKeeperKeeps, MembershipKeeperKeeps DEF Keeper
<1>3. Keeper(rule, op, l, r) \in {0, 1, 2}
  BY <1>1 DEF Keeper
<1> QED
  BY <1>2, <1>3 DEF Enough

-----------------------------------------------------------------------------
(* The first of the pairs of positions *)

LEMMA Least ==
  ASSUME NEW X, X \subseteq Nat, X # {}
  PROVE  \E x \in X : \A y \in X : x <= y
<1>1. PICK x \in X : \A y \in X : ~ (<<y, x>> \in OpToRel(<, Nat))
  BY NatLessThanWellFounded, WFMin
<1>2. ASSUME NEW y \in X PROVE x <= y
  <2>1. x \in Nat /\ y \in Nat
    OBVIOUS
  <2>2. ~ (y < x)
    BY <1>1, <2>1 DEF OpToRel
  <2> QED
    BY <2>1, <2>2
<1> QED
  BY <1>2

LEMMA FirstPair ==
  ASSUME NEW n \in Nat, NEW pairs, pairs \subseteq (1..n) \X (1..n), pairs # {}
  PROVE  \E p \in pairs : \A q \in pairs : p[1] < q[1] \/ (p[1] = q[1] /\ p[2] <= q[2])
<1> DEFINE A == {q[1] : q \in pairs}
<1>1. A \subseteq Nat /\ A # {}
  OBVIOUS
<1>2. PICK a \in A : \A y \in A : a <= y
  <2> HIDE DEF A
  <2> QED
    BY <1>1, Least
<1> DEFINE B == {q[2] : q \in {p \in pairs : p[1] = a}}
<1>3. B \subseteq Nat /\ B # {}
  BY <1>2
<1>4. PICK b \in B : \A y \in B : b <= y
  <2> HIDE DEF B
  <2> QED
    BY <1>3, Least
<1>5. PICK p \in pairs : p[1] = a /\ p[2] = b
  BY <1>4
<1>6. ASSUME NEW q \in pairs PROVE p[1] < q[1] \/ (p[1] = q[1] /\ p[2] <= q[2])
  <2>1. a <= q[1] /\ a \in Nat /\ q[1] \in Nat
    BY <1>1, <1>2
  <2>2. q[1] = a => b <= q[2]
    BY <1>4
  <2> QED
    BY <1>5, <2>1, <2>2
<1> QED
  BY <1>6

-----------------------------------------------------------------------------
(* The operands that remain *)

\* These operands stand for those: no larger together, and of the same truth.
StandsFor(op, t, s) ==
  /\ t \in Seq(Sound) /\ t # <<>> /\ Total(t) <= Total(s)
  /\ \A row \in Row : Joint(op, TruthsOf(t, row)) = Joint(op, TruthsOf(s, row))

LEMMA StandsForTransitive ==
  ASSUME NEW op, NEW s \in Seq(Sound), NEW t, NEW u,
         StandsFor(op, t, s), StandsFor(op, u, t)
  PROVE  StandsFor(op, u, s)
<1>1. Total(s) \in Nat /\ Total(t) \in Nat /\ Total(u) \in Nat
  BY TotalIs DEF StandsFor
<1> QED
  BY <1>1 DEF StandsFor

LEMMA UniqueStands ==
  ASSUME NEW op, NEW s \in Seq(Sound), s # <<>>
  PROVE  StandsFor(op, Unique(s), s)
<1>1. Unique(s) \in Seq(Sound) /\ ToSet(Unique(s)) = ToSet(s)
  BY UniqueIs
<1>2. Total(Unique(s)) <= Total(s)
  BY TotalIs
<1>3. Unique(s) # <<>>
  <2>1. Len(s) \in Nat /\ Len(s) # 0 /\ DOMAIN s = 1..Len(s)
    BY EmptySeq, LenProperties
  <2>2. ToSet(s) # {}
    <3>1. 1 \in DOMAIN s
      BY <2>1
    <3> QED
      BY <3>1 DEF ToSet
  <2>3. ToSet(<<>>) = {}
    BY DEF ToSet
  <2> QED
    BY <1>1, <2>2, <2>3
<1> QED
  BY <1>1, <1>2, <1>3 DEF StandsFor, TruthsOf

LEMMA ReducedStands ==
  ASSUME NEW rule, NEW op \in {"AND", "OR"}, NEW s \in Seq(Sound), s # <<>>
  PROVE  StandsFor(op, Reduced(rule, op, s), s)
<1> DEFINE pairs == {p \in (DOMAIN s) \X (DOMAIN s) :
                       p[1] < p[2] /\ Keeper(rule, op, s[p[1]], s[p[2]]) # 0}
           first == CHOOSE p \in pairs :
                      \A q \in pairs : p[1] < q[1] \/ (p[1] = q[1] /\ p[2] <= q[2])
           keep == Keeper(rule, op, s[first[1]], s[first[2]])
<1>1. Reduced(rule, op, s) = IF pairs = {} THEN s ELSE RemoveAt(s, first[3 - keep])
  BY DEF Reduced
<1>2. Len(s) \in Nat /\ DOMAIN s = 1..Len(s) /\ \A i \in 1..Len(s) : s[i] \in Sound
  BY LenProperties, ElementOfSeq
<1>3. CASE pairs = {}
  <2>1. Reduced(rule, op, s) = s
    BY <1>1, <1>3
  <2>2. Total(s) \in Nat
    BY TotalIs
  <2> QED
    BY <2>1, <2>2 DEF StandsFor
<1>4. CASE pairs # {}
  <2>1. pairs \subseteq (1..Len(s)) \X (1..Len(s))
    BY <1>2
  <2>2. \E p \in pairs : \A q \in pairs : p[1] < q[1] \/ (p[1] = q[1] /\ p[2] <= q[2])
    <3> HIDE DEF pairs
    <3> QED
      BY <1>2, <1>4, <2>1, FirstPair
  <2>3. first \in pairs
    <3> HIDE DEF pairs
    <3> QED
      BY <2>2
  <2> DEFINE i == first[1]
             j == first[2]
  <2>4. i \in 1..Len(s) /\ j \in 1..Len(s) /\ i < j /\ keep # 0
    <3> HIDE DEF first
    <3> QED
      BY <1>2, <2>3
  <2>5. Reduced(rule, op, s) = RemoveAt(s, first[3 - keep])
    BY <1>1, <1>4
  <2>6. keep = Keeper(rule, op, s[i], s[j])
    OBVIOUS
  <2> HIDE DEF pairs, keep
  <2>7. /\ keep \in {1, 2}
        /\ \A row \in Row :
             /\ keep = 1 => Connect(op, Evaluate(s[i], row), Evaluate(s[j], row)) = Evaluate(s[i], row)
             /\ keep = 2 => Connect(op, Evaluate(s[i], row), Evaluate(s[j], row)) = Evaluate(s[j], row)
    <3> DEFINE l == s[i]
               r == s[j]
    <3>1. l \in Sound /\ r \in Sound
      BY <1>2, <2>4
    <3>2. keep = Keeper(rule, op, l, r)
      BY <2>6
    <3> HIDE DEF l, r, i, j, first
    <3>3. /\ Keeper(rule, op, l, r) \in {0, 1, 2}
          /\ Keeper(rule, op, l, r) = 1 => Enough(op, l, l, r)
          /\ Keeper(rule, op, l, r) = 2 => Enough(op, r, l, r)
      BY <3>1, KeeperKeeps
    <3>4. keep \in {1, 2}
      BY <2>4, <3>2, <3>3
    <3>5. \A row \in Row :
            /\ keep = 1 => Connect(op, Evaluate(l, row), Evaluate(r, row)) = Evaluate(l, row)
            /\ keep = 2 => Connect(op, Evaluate(l, row), Evaluate(r, row)) = Evaluate(r, row)
      BY <3>2, <3>3 DEF Enough
    <3> QED
      BY <3>4, <3>5 DEF l, r
  <2>8. PICK gone \in 1..Len(s), kept \in 1..Len(s) :
          /\ gone # kept /\ Reduced(rule, op, s) = RemoveAt(s, gone)
          /\ \A row \in Row :
               \/ Connect(op, Evaluate(s[kept], row), Evaluate(s[gone], row)) = Evaluate(s[kept], row)
               \/ Connect(op, Evaluate(s[gone], row), Evaluate(s[kept], row)) = Evaluate(s[kept], row)
    <3>1. CASE keep = 1
      <4>1. first[3 - keep] = j
        BY <3>1
      <4> HIDE DEF i, j
      <4>2. Reduced(rule, op, s) = RemoveAt(s, j) /\ i # j
        BY <2>4, <2>5, <4>1
      <4> QED
        BY <2>4, <2>7, <3>1, <4>2
    <3>2. CASE keep = 2
      <4>1. first[3 - keep] = i
        BY <3>2
      <4> HIDE DEF i, j
      <4>2. Reduced(rule, op, s) = RemoveAt(s, i) /\ i # j
        BY <2>4, <2>5, <4>1
      <4> QED
        BY <2>4, <2>7, <3>2, <4>2
    <3> QED
      BY <2>7, <3>1, <3>2
  <2> HIDE DEF first, i, j
  <2> DEFINE t == RemoveAt(s, gone)
  <2>9. /\ t \in Seq(Sound) /\ Total(t) <= Total(s)
        /\ ToSet(s) = ToSet(t) \cup {s[gone]} /\ s[kept] \in ToSet(t)
    BY <2>8, RemoveAtIs
  <2> HIDE DEF t
  <2>10. t # <<>>
    <3>1. ToSet(<<>>) = {}
      BY DEF ToSet
    <3> QED
      BY <2>9, <3>1
  <2>11. ASSUME NEW row \in Row PROVE Joint(op, TruthsOf(t, row)) = Joint(op, TruthsOf(s, row))
    <3> DEFINE S == TruthsOf(t, row)
               a == Evaluate(s[kept], row)
               b == Evaluate(s[gone], row)
    <3>1. S \in SUBSET Truths
      BY <2>9, TruthsOfType
    <3>2. a \in S
      BY <2>9 DEF TruthsOf
    <3>3. b \in Truths
      BY <1>2, <2>8, EvaluateTruth
    <3>4. Connect(op, a, b) = a \/ Connect(op, b, a) = a
      BY <2>8
    <3>5. TruthsOf(s, row) = S \cup {b}
      BY <2>9 DEF TruthsOf
    <3> HIDE DEF S, a, b
    <3>6. Joint(op, S \cup {b}) = Joint(op, S)
      BY <3>1, <3>2, <3>3, <3>4, JointWithout
    <3> QED
      BY <3>5, <3>6 DEF S
  <2> QED
    BY <2>8, <2>9, <2>10, <2>11 DEF StandsFor, t
<1> QED
  BY <1>3, <1>4

\* _simplify_memberships, _simplify_bounds: after any number of turns.
LEMMA SimplifyStands ==
  ASSUME NEW rule, NEW op \in {"AND", "OR"}, NEW s \in Seq(Sound), s # <<>>
  PROVE  StandsFor(op, Simplify(rule, op, s), s)
<1>1. Len(s) \in Nat
  BY LenProperties
<1>2. PICK g : SimplifyRun(g, rule, op, s)
  BY <1>1, SimplifyRuns
<1> DEFINE N == {n \in Nat : n <= Len(s) => StandsFor(op, g[n], s)}
<1>3. 0 \in N
  <2>1. Total(s) \in Nat
    BY TotalIs
  <2>2. StandsFor(op, s, s)
    BY <2>1 DEF StandsFor
  <2> QED
    BY <1>2, <2>2 DEF SimplifyRun
<1>4. ASSUME NEW n \in N \cap Nat PROVE n + 1 \in N
  <2> SUFFICES ASSUME n + 1 <= Len(s) PROVE StandsFor(op, g[n + 1], s)
    OBVIOUS
  <2>1. StandsFor(op, g[n], s) /\ n + 1 \in 1..Len(s) /\ (n + 1) - 1 = n
    BY <1>1
  <2>2. g[n + 1] = Reduced(rule, op, g[n])
    BY <1>2, <2>1 DEF SimplifyStep, SimplifyRun
  <2>3. g[n] \in Seq(Sound) /\ g[n] # <<>>
    BY <2>1 DEF StandsFor
  <2>4. StandsFor(op, g[n + 1], g[n])
    BY <2>2, <2>3, ReducedStands
  <2> QED
    BY <2>1, <2>4, StandsForTransitive
<1> HIDE DEF N
<1>5. Nat \subseteq N
  BY <1>3, <1>4, AllNumbers
<1> QED
  BY <1>1, <1>2, <1>5 DEF N, SimplifyRun

\* _rebuild: the connective of operands that are not too large together.
LEMMA RebuildKeeps ==
  ASSUME NEW op \in {"AND", "OR"}, NEW s \in Seq(Sound), s # <<>>, Total(s) <= MaxSize
  PROVE  /\ Rebuild(op, s) \in Sound /\ Size[Rebuild(op, s)] = Total(s)
         /\ \A row \in Row : Evaluate(Rebuild(op, s), row) = Joint(op, TruthsOf(s, row))
<1> DEFINE Kept(r) == /\ Rebuild(op, r) \in Sound /\ Size[Rebuild(op, r)] = Total(r)
                      /\ \A row \in Row :
                           Evaluate(Rebuild(op, r), row) = Joint(op, TruthsOf(r, row))
           P == {r \in Seq(Sound) : r # <<>> /\ Total(r) <= MaxSize => Kept(r)}
<1>1. <<>> \in P
  BY EmptySeq
<1>2. ASSUME NEW r \in P \cap Seq(Sound), NEW e \in Sound PROVE Append(r, e) \in P
  <2> SUFFICES ASSUME Total(Append(r, e)) <= MaxSize PROVE Kept(Append(r, e))
    BY DEF P
  <2>0. r \in Seq(Sound)
    OBVIOUS
  <2>1. /\ Total(Append(r, e)) = Total(r) + Size[e]
        /\ Total(r) \in Nat /\ Size[e] \in Nat /\ MaxSize \in Nat
    BY TotalAppend, TotalIs, SizeDepth, SoundIs
  <2>2. CASE r = <<>>
    <3>1. Append(r, e) = <<e>> /\ Rebuild(op, <<e>>) = e
      <4> HIDE DEF P, Kept
      <4>1. Append(r, e) = <<e>>
        BY <2>2
      <4> QED
        BY <4>1, RebuildOne
    <3>2. Total(r) = 0
      <4> HIDE DEF P, Kept
      <4> QED
        BY <2>0, <2>2, TotalAppend
    <3>3. Size[e] = Total(<<e>>)
      BY <2>1, <3>1, <3>2
    <3>4. ASSUME NEW row \in Row PROVE Evaluate(e, row) = Joint(op, TruthsOf(<<e>>, row))
      <4>1. TruthsOf(<<e>>, row) = {Evaluate(e, row)}
        BY TruthsOfAppend
      <4> QED
        BY <4>1, EvaluateTruth, JointOne
    <3> QED
      BY <3>1, <3>3, <3>4
  <2>3. CASE r # <<>>
    <3> DEFINE x == Rebuild(op, r)
    <3>1. Total(r) <= MaxSize
      <4> HIDE DEF P, Kept
      <4> QED
        BY <2>1
    <3>2. Kept(r)
      <4> HIDE DEF Kept
      <4> QED
        BY <2>3, <3>1 DEF P
    <3>3. /\ x \in Sound /\ Size[x] = Total(r)
          /\ \A row \in Row : Evaluate(x, row) = Joint(op, TruthsOf(r, row))
      BY <3>2
    <3>4. Rebuild(op, Append(r, e)) = Junction(op, x, e)
      BY <2>0, <2>3, RebuildAppend
    <3> HIDE DEF x, P
    <3> DEFINE j == Junction(op, x, e)
    <3>5. j \in Sound /\ IsJunction(j) /\ Size[j] = Size[x] + Size[e]
      <4>1. Size[x] + Size[e] <= MaxSize
        BY <2>1, <3>3
      <4> QED
        BY <3>3, <4>1, JunctionFits
    <3>6. j.k = op /\ j.l = x /\ j.r = e
      BY DEF Junction
    <3>7. ASSUME NEW row \in Row PROVE Evaluate(j, row) = Joint(op, TruthsOf(Append(r, e), row))
      <4> DEFINE A == TruthsOf(r, row)
                 b == Evaluate(e, row)
      <4>1. Evaluate(j, row) = Connect(op, Evaluate(x, row), b)
        <5>1. j \in Predicate
          BY <3>5, SoundIs
        <5> HIDE DEF j
        <5> QED
          BY <3>5, <3>6, <5>1, EvaluateIs
      <4>2. A \in SUBSET Truths /\ A # {} /\ b \in Truths
        <5> HIDE DEF Kept, j
        <5>1. TruthsOf(r, row) \in SUBSET Truths /\ TruthsOf(r, row) # {}
          BY <2>0, <2>3, TruthsOfType
        <5>2. Evaluate(e, row) \in Truths
          BY EvaluateTruth
        <5> QED
          BY <5>1, <5>2
      <4>3. Evaluate(x, row) = Joint(op, A)
        BY <3>3
      <4>4. TruthsOf(Append(r, e), row) = A \cup {b}
        BY <2>0, TruthsOfAppend
      <4> HIDE DEF A, b, j
      <4>5. Joint(op, {b}) = b
        BY <4>2, JointOne
      <4>6. Connect(op, Joint(op, A), Joint(op, {b})) = Joint(op, A \cup {b})
        BY <4>2, JointBoth
      <4> QED
        BY <4>1, <4>3, <4>4, <4>5, <4>6
    <3> HIDE DEF j
    <3> QED
      BY <2>1, <3>3, <3>4, <3>5, <3>7 DEF j
  <2> QED
    BY <2>2, <2>3
<1> HIDE DEF P
<1>3. Seq(Sound) \subseteq P
  BY <1>1, <1>2, AllSequences
<1> HIDE DEF Kept
<1>4. Kept(s)
  BY <1>3 DEF P
<1> QED
  BY <1>4 DEF Kept

-----------------------------------------------------------------------------
(* A rewriting *)

\* y is a rewriting of x: well typed, no larger, of the same truth on every row.
Rewrites(y, x) ==
  /\ y \in Sound /\ Size[y] <= Size[x]
  /\ \A row \in Row : Evaluate(y, row) = Evaluate(x, row)

LEMMA RewritesIs ==
  ASSUME NEW x \in Sound
  PROVE  /\ Rewrites(x, x)
         /\ \A y, z : Rewrites(y, x) /\ Rewrites(z, y) => Rewrites(z, x)
<1>1. \A y \in Sound : Size[y] \in Nat
  BY SizeDepth
<1>2. Rewrites(x, x)
  BY <1>1 DEF Rewrites
<1>3. ASSUME NEW y, NEW z, Rewrites(y, x), Rewrites(z, y) PROVE Rewrites(z, x)
  <2>1. Size[z] \in Nat /\ Size[y] \in Nat /\ Size[x] \in Nat
    BY <1>1, <1>3 DEF Rewrites
  <2> QED
    BY <1>3, <2>1 DEF Rewrites
<1> QED
  BY <1>2, <1>3

\* A literal of a sound predicate's truth.
LEMMA LiteralFits ==
  ASSUME NEW t \in Truths
  PROVE  /\ Literal(t) \in WellTyped /\ Literal(t) \in Sound
         /\ Size[Literal(t)] = 1 /\ \A row : Evaluate(Literal(t), row) = t
<1> DEFINE x == Literal(t)
<1>1. x.k = "lit" /\ x.t = t
  BY DEF Literal
<1>2. x \in Leaf
  BY DEF Leaf, Literal
<1>3. x \in WellTyped
  BY <1>1, <1>2 DEF WellTyped
<1>4. x \in Sound /\ x \in Predicate /\ x.k \in LeafKind
  BY <1>1, <1>3, SoundIs DEF LeafKind
<1> HIDE DEF x
<1>5. ASSUME NEW row PROVE Evaluate(x, row) = t
  <2>1. Evaluate(x, row) = Tested(x, row)
    BY <1>4, EvaluateIs
  <2>2. Tested(x, row) = t
    BY <1>1 DEF Tested
  <2> QED
    BY <2>1, <2>2
<1>6. Size[x] = 1
  BY <1>4, SizeIs
<1> QED
  BY <1>3, <1>4, <1>5, <1>6 DEF x

LEMMA NeutralIs ==
  ASSUME NEW op \in {"AND", "OR"}, NEW t \in Truths
  PROVE  /\ \E n \in Truths : /\ Neutral(op) = Literal(n)
                              /\ Connect(op, n, t) = t /\ Connect(op, t, n) = t
         /\ \E d \in Truths : Dominating(op) = Literal(d) /\ Connect(op, d, t) = d
<1>1. CASE op = "AND"
  BY <1>1 DEF Neutral, Dominating, Truths, Connect, And3
<1>2. CASE op = "OR"
  BY <1>2 DEF Neutral, Dominating, Truths, Connect, Or3
<1> QED
  BY <1>1, <1>2

\* The end of the junction's branch of _optimise_node.
LEMMA OptimiseJunctionKeeps ==
  ASSUME NEW op \in {"AND", "OR"}, NEW l \in Sound, NEW r \in Sound,
         Size[l] + Size[r] <= MaxSize
  PROVE  Rewrites(OptimiseJunction(op, l, r), Junction(op, l, r))
<1> DEFINE j == Junction(op, l, r)
<1>1. /\ j \in Sound /\ Size[j] = Size[l] + Size[r] /\ IsJunction(j) /\ j \in Predicate
      /\ Size[l] \in Nat /\ Size[r] \in Nat /\ MaxSize \in Nat
  BY JunctionFits, SizeDepth, SoundIs
<1>2. j.k = op /\ j.l = l /\ j.r = r
  BY DEF Junction
<1>3. OptimiseJunction(op, l, r) =
        IF l = Neutral(op) THEN r
        ELSE IF r = Neutral(op) THEN l
        ELSE Rebuild(op, Simplify("bounds", op,
               Simplify("memberships", op, Unique(Flatten(op, j)))))
  BY DEF OptimiseJunction
<1> HIDE DEF j
<1>4. ASSUME NEW row PROVE Evaluate(j, row) = Connect(op, Evaluate(l, row), Evaluate(r, row))
  BY <1>1, <1>2, EvaluateIs
<1>5. CASE l = Neutral(op)
  <2>1. ASSUME NEW row \in Row PROVE Evaluate(r, row) = Evaluate(j, row)
    <3>1. Evaluate(r, row) \in Truths
      BY EvaluateTruth
    <3>2. PICK n \in Truths : l = Literal(n) /\ Connect(op, n, Evaluate(r, row)) = Evaluate(r, row)
      BY <1>5, <3>1, NeutralIs
    <3>3. Evaluate(l, row) = n
      BY <3>2, LiteralFits
    <3> QED
      BY <1>4, <3>2, <3>3
  <2> QED
    BY <1>1, <1>3, <1>5, <2>1 DEF Rewrites, j
<1>6. CASE l # Neutral(op) /\ r = Neutral(op)
  <2>1. ASSUME NEW row \in Row PROVE Evaluate(l, row) = Evaluate(j, row)
    <3>1. Evaluate(l, row) \in Truths
      BY EvaluateTruth
    <3>2. PICK n \in Truths : r = Literal(n) /\ Connect(op, Evaluate(l, row), n) = Evaluate(l, row)
      BY <1>6, <3>1, NeutralIs
    <3>3. Evaluate(r, row) = n
      BY <3>2, LiteralFits
    <3> QED
      BY <1>4, <3>2, <3>3
  <2> QED
    BY <1>1, <1>3, <1>6, <2>1 DEF Rewrites, j
<1>7. CASE l # Neutral(op) /\ r # Neutral(op)
  <2> DEFINE s == Flatten(op, j)
             s1 == Unique(s)
             s2 == Simplify("memberships", op, s1)
             s3 == Simplify("bounds", op, s2)
  <2>1. OptimiseJunction(op, l, r) = Rebuild(op, s3)
    BY <1>3, <1>7
  <2>2. /\ s \in Seq(Sound) /\ s # <<>> /\ Total(s) = Size[j]
        /\ \A row \in Row : Joint(op, TruthsOf(s, row)) = Evaluate(j, row)
    BY <1>1, FlattenKeeps
  <2>3. StandsFor(op, s1, s)
    <3> HIDE DEF s
    <3> QED
      BY <2>2, UniqueStands
  <2> HIDE DEF s, s1
  <2>4. s1 \in Seq(Sound) /\ s1 # <<>>
    BY <2>3 DEF StandsFor
  <2>5. StandsFor(op, s2, s1)
    BY <2>4, SimplifyStands
  <2> HIDE DEF s2
  <2>6. s2 \in Seq(Sound) /\ s2 # <<>>
    BY <2>5 DEF StandsFor
  <2>7. StandsFor(op, s3, s2)
    BY <2>6, SimplifyStands
  <2> HIDE DEF s3
  <2>8. StandsFor(op, s2, s)
    BY <2>2, <2>3, <2>5, StandsForTransitive
  <2>9. StandsFor(op, s3, s)
    BY <2>2, <2>7, <2>8, StandsForTransitive
  <2>10. /\ s3 \in Seq(Sound) /\ s3 # <<>> /\ Total(s3) <= Total(s)
         /\ \A row \in Row : Joint(op, TruthsOf(s3, row)) = Joint(op, TruthsOf(s, row))
    BY <2>9 DEF StandsFor
  <2>11. Total(s3) \in Nat
    BY <2>10, TotalIs
  <2>12. Total(s3) <= Size[j] /\ Total(s3) <= MaxSize
    BY <1>1, <2>2, <2>10, <2>11
  <2>13. /\ Rebuild(op, s3) \in Sound /\ Size[Rebuild(op, s3)] = Total(s3)
         /\ \A row \in Row : Evaluate(Rebuild(op, s3), row) = Joint(op, TruthsOf(s3, row))
    BY <2>10, <2>12, RebuildKeeps
  <2>14. Rewrites(Rebuild(op, s3), j)
    BY <2>2, <2>10, <2>12, <2>13 DEF Rewrites
  <2> QED
    BY <2>1, <2>14 DEF j
<1> QED
  BY <1>5, <1>6, <1>7

-----------------------------------------------------------------------------
(* What the capabilities of the source prove *)

\* A proof about x is its truth on every row.
Proven(x) ==
  /\ ProveTruth[x] \in Truths \cup {"?"}
  /\ ProveTruth[x] # "?" => \A row \in Row : Evaluate(x, row) = ProveTruth[x]

\* A field the source lacks is NULL, and one it always has is not.
LEMMA ProvenTestIs ==
  ASSUME NEW x \in WellTyped
  PROVE  /\ ProvenTest(x) \in Truths \cup {"?"}
         /\ ProvenTest(x) # "?" => \A row \in Row : Tested(x, row) = ProvenTest(x)
<1>1. x \in Leaf /\ x.k \in LeafKind
  BY SoundIs, LeafIs
<1>2. CASE x.k = "lit"
  <2>1. x.t \in Truths /\ ProvenTest(x) = x.t
    BY <1>1, <1>2, LeafIs DEF ProvenTest
  <2>2. \A row \in Row : Tested(x, row) = x.t
    BY <1>2 DEF Tested
  <2> QED
    BY <2>1, <2>2
<1>3. CASE x.k = "distinct"
  BY <1>3 DEF ProvenTest
<1>4. CASE x.k = "null"
  <2>1. x.neg \in BOOLEAN
    BY <1>1, <1>4, LeafIs
  <2>2. \A row \in Row : Tested(x, row) = Bool3(IsNullValue(row[x.f]) # x.neg)
    BY <1>4 DEF Tested
  <2>3. CASE Unavailable(x.f)
    <3>1. ProvenTest(x) = Bool3(~x.neg)
      BY <1>4, <2>3 DEF ProvenTest
    <3>2. \A row \in Row : IsNullValue(row[x.f])
      BY <2>3, RewriteAssumption DEF Unavailable
    <3>3. Bool3(~x.neg) \in Truths
      BY <2>1 DEF Bool3, Truths
    <3>4. ASSUME NEW row \in Row PROVE Tested(x, row) = Bool3(~x.neg)
      BY <2>1, <2>2, <3>2 DEF Bool3
    <3> QED
      BY <3>1, <3>3, <3>4
  <2>4. CASE ~Unavailable(x.f) /\ NeverNull(x.f)
    <3>1. ProvenTest(x) = Bool3(x.neg)
      BY <1>4, <2>4 DEF ProvenTest
    <3>2. \A row \in Row : ~IsNullValue(row[x.f])
      BY <2>4, RewriteAssumption DEF NeverNull
    <3>3. Bool3(x.neg) \in Truths
      BY <2>1 DEF Bool3, Truths
    <3>4. ASSUME NEW row \in Row PROVE Tested(x, row) = Bool3(x.neg)
      <4>1. IsNullValue(row[x.f]) = FALSE
        BY <3>2 DEF IsNullValue
      <4>2. Tested(x, row) = Bool3(FALSE # x.neg)
        BY <2>2, <4>1
      <4>3. CASE x.neg = TRUE
        BY <4>2, <4>3 DEF Bool3
      <4>4. CASE x.neg = FALSE
        BY <4>2, <4>4 DEF Bool3
      <4> QED
        BY <2>1, <4>3, <4>4
    <3> QED
      BY <3>1, <3>3, <3>4
  <2>5. CASE ~Unavailable(x.f) /\ ~NeverNull(x.f)
    BY <1>4, <2>5 DEF ProvenTest
  <2> QED
    BY <2>3, <2>4, <2>5
<1>5. CASE x.k \in {"cmp", "between", "in"}
  <2>1. CASE ~Unavailable(x.f)
    BY <1>5, <2>1 DEF ProvenTest
  <2>2. CASE Unavailable(x.f)
    <3>1. ProvenTest(x) = "U"
      BY <1>5, <2>2 DEF ProvenTest
    <3>2. ASSUME NEW row \in Row PROVE Tested(x, row) = "U"
      <4>1. IsNullValue(row[x.f])
        BY <2>2, RewriteAssumption DEF Unavailable
      <4>2. IsNullValue(ComparisonValue(x.f, row[x.f]))
        BY <4>1 DEF ComparisonValue, IsNullValue
      <4>3. CASE x.k = "cmp"
        BY <4>2, <4>3 DEF Tested, Compare
      <4>4. CASE x.k = "between"
        BY <4>1, <4>4 DEF Tested
      <4>5. CASE x.k = "in"
        <5>1. \A S : Member(ComparisonValue(x.f, row[x.f]), S) = "U"
          BY <4>2 DEF Member
        <5> QED
          BY <4>5, <5>1 DEF Tested, Not3
      <4> QED
        BY <1>5, <4>3, <4>4, <4>5
    <3> QED
      BY <3>1, <3>2 DEF Truths
  <2> QED
    BY <2>1, <2>2
<1> QED
  BY <1>1, <1>2, <1>3, <1>4, <1>5 DEF LeafKind

LEMMA ProvenJunctionIs ==
  ASSUME NEW op \in {"AND", "OR"}, NEW l \in Truths, NEW r \in Truths,
         NEW pl \in {"?", l}, NEW pr \in {"?", r}
  PROVE  ProvenJunction(op, pl, pr) \in {"?", Connect(op, l, r)}
BY DEF ProvenJunction, Connect, And3, Or3, Truths

\* prove_predicate_truth never errs, whatever the predicate.
LEMMA AllProven ==
  ASSUME NEW x \in Sound
  PROVE  Proven(x)
<1> DEFINE P == {y \in Sound : Proven(y)}
<1>1. WellTyped \subseteq P
  <2> SUFFICES ASSUME NEW y \in WellTyped PROVE Proven(y)
    BY SoundIs
  <2>1. y \in Predicate /\ y.k \in LeafKind
    BY SoundIs, LeafIs
  <2>2. ProveTruth[y] = ProvenTest(y)
    BY <2>1, ProveTruthIs
  <2>3. \A row \in Row : Evaluate(y, row) = Tested(y, row)
    BY <2>1, EvaluateIs
  <2>4. /\ ProvenTest(y) \in Truths \cup {"?"}
        /\ ProvenTest(y) # "?" => \A row \in Row : Tested(y, row) = ProvenTest(y)
    BY ProvenTestIs
  <2> QED
    BY <2>2, <2>3, <2>4 DEF Proven
<1>2. ASSUME NEW y \in Sound, y.k = "test", y.x \in Sound, Proven(y.x) PROVE Proven(y)
  <2>1. y \in Predicate /\ y.neg \in BOOLEAN
    BY <1>2, SoundParts, CompoundIs DEF LeafKind
  <2>2. ProveTruth[y] = IF ProveTruth[y.x] = "?" THEN "?"
                        ELSE Bool3((ProveTruth[y.x] = y.truth) # y.neg)
    BY <1>2, <2>1, ProveTruthIs
  <2>3. \A row \in Row : Evaluate(y, row) = Bool3((Evaluate(y.x, row) = y.truth) # y.neg)
    BY <1>2, <2>1, EvaluateIs
  <2>4. Bool3((ProveTruth[y.x] = y.truth) # y.neg) \in Truths
    BY <2>1 DEF Bool3, Truths
  <2>5. CASE ProveTruth[y.x] = "?"
    BY <2>2, <2>5 DEF Proven
  <2>6. CASE ProveTruth[y.x] # "?"
    <3>1. \A row \in Row : Evaluate(y.x, row) = ProveTruth[y.x]
      BY <1>2, <2>6 DEF Proven
    <3> QED
      BY <2>2, <2>3, <2>4, <2>6, <3>1 DEF Proven
  <2> QED
    BY <2>5, <2>6
<1>3. ASSUME NEW y \in Sound, y.k = "not", y.x \in Sound, Proven(y.x) PROVE Proven(y)
  <2>1. y \in Predicate
    BY SoundParts
  <2>2. ProveTruth[y] = IF ProveTruth[y.x] = "?" THEN "?" ELSE Not3(ProveTruth[y.x])
    BY <1>3, <2>1, ProveTruthIs
  <2>3. \A row \in Row : Evaluate(y, row) = Not3(Evaluate(y.x, row))
    BY <1>3, <2>1, EvaluateIs
  <2>4. Not3(ProveTruth[y.x]) \in Truths
    BY DEF Not3, Truths
  <2>5. CASE ProveTruth[y.x] = "?"
    BY <2>2, <2>5 DEF Proven
  <2>6. CASE ProveTruth[y.x] # "?"
    <3>1. \A row \in Row : Evaluate(y.x, row) = ProveTruth[y.x]
      BY <1>3, <2>6 DEF Proven
    <3> QED
      BY <2>2, <2>3, <2>4, <2>6, <3>1 DEF Proven
  <2> QED
    BY <2>5, <2>6
<1>4. ASSUME NEW y \in Sound, IsJunction(y), y.l \in Sound, y.r \in Sound,
             Proven(y.l), Proven(y.r)
      PROVE  Proven(y)
  <2>1. y \in Predicate /\ y.k \in {"AND", "OR"}
    BY <1>4, SoundParts DEF IsJunction
  <2>2. ProveTruth[y] = ProvenJunction(y.k, ProveTruth[y.l], ProveTruth[y.r])
    BY <1>4, <2>1, ProveTruthIs
  <2>3. ASSUME NEW row \in Row
        PROVE  ProvenJunction(y.k, ProveTruth[y.l], ProveTruth[y.r]) \in {"?", Evaluate(y, row)}
    <3>1. Evaluate(y, row) = Connect(y.k, Evaluate(y.l, row), Evaluate(y.r, row))
      BY <1>4, <2>1, EvaluateIs
    <3>2. Evaluate(y.l, row) \in Truths /\ Evaluate(y.r, row) \in Truths
      BY <1>4, EvaluateTruth
    <3>3. ProveTruth[y.l] \in {"?", Evaluate(y.l, row)} /\ ProveTruth[y.r] \in {"?", Evaluate(y.r, row)}
      BY <1>4 DEF Proven
    <3> QED
      BY <2>1, <3>1, <3>2, <3>3, ProvenJunctionIs
  <2>4. ProvenJunction(y.k, ProveTruth[y.l], ProveTruth[y.r]) \in Truths \cup {"?"}
    <3>1. ProveTruth[y.l] \in Truths \cup {"?"} /\ ProveTruth[y.r] \in Truths \cup {"?"}
      BY <1>4 DEF Proven
    <3> QED
      BY <2>1, <3>1 DEF ProvenJunction, Connect, And3, Or3, Truths
  <2> QED
    BY <2>2, <2>3, <2>4 DEF Proven
<1>5. \A y \in Sound :
        /\ y.k \in {"test", "not"} /\ y.x \in Sound /\ y.x \in P => y \in P
        /\ IsJunction(y) /\ y.l \in Sound /\ y.r \in Sound /\ y.l \in P /\ y.r \in P => y \in P
  BY <1>2, <1>3, <1>4
<1> HIDE DEF P
<1>6. Sound \subseteq P
  BY <1>1, <1>5, AllSound
<1> QED
  BY <1>6 DEF P

-----------------------------------------------------------------------------
(* Single predicates *)

LEMMA UnequalIsNot ==
  ASSUME NEW a, NEW b
  PROVE  /\ Compare("!=", a, b) = Not3(Compare("=", a, b))
         /\ Compare("=", a, b) = Not3(Compare("!=", a, b))
<1>1. Holds("=", a, b) <=> ~Holds("!=", a, b)
  BY DEF Holds, Ordered
<1> QED
  BY <1>1 DEF Compare, Not3, Bool3

\* BETWEEN a value and itself is an equality.
LEMMA PointRange ==
  ASSUME NEW a \in Value, NEW v \in Value, ~IsNullValue(v), NEW neg \in BOOLEAN
  PROVE  Compare(IF neg THEN "!=" ELSE "=", a, v)
           = IF IsNullValue(a) THEN "U" ELSE Bool3(Within(a, v, v) # neg)
<1>1. a.n \in Int /\ v.n \in Int
  BY DEF Value
<1>2. Within(a, v, v) <=> Holds("=", a, v)
  BY <1>1 DEF Within, Holds, Ordered
<1>3. Holds("!=", a, v) <=> ~Holds("=", a, v)
  BY DEF Holds, Ordered
<1>4. CASE neg = TRUE
  <2>1. Bool3(Within(a, v, v) # TRUE) = Bool3(Holds("!=", a, v))
    BY <1>2, <1>3 DEF Bool3
  <2> QED
    BY <1>4, <2>1 DEF Compare
<1>5. CASE neg = FALSE
  <2>1. CASE Holds("=", a, v)
    <3>1. Within(a, v, v) = TRUE
      BY <1>2, <2>1 DEF Within
    <3> QED
      BY <1>5, <2>1, <3>1 DEF Compare, Bool3
  <2>2. CASE ~Holds("=", a, v)
    <3>1. Within(a, v, v) = FALSE
      BY <1>2, <2>2 DEF Within
    <3> QED
      BY <1>5, <2>2, <3>1 DEF Compare, Bool3
  <2> QED
    BY <2>1, <2>2
<1> QED
  BY <1>4, <1>5

\* An equality is well typed whatever its field.
LEMMA EqualityFits ==
  ASSUME NEW f \in Field, NEW op \in {"=", "!="}, NEW v \in Value
  PROVE  /\ Binary(f, op, v) \in WellTyped
         /\ \A row : Tested(Binary(f, op, v), row)
                       = Compare(op, ComparisonValue(f, row[f]), ComparisonValue(f, v))
<1> DEFINE y == Binary(f, op, v)
<1>1. y.k = "cmp" /\ y.f = f /\ y.op = op /\ y.v = v
  BY DEF Binary
<1>2. y \in Leaf
  BY DEF Leaf, Binary, Operator
<1> HIDE DEF y
<1>3. y \in WellTyped
  BY <1>1, <1>2 DEF WellTyped
<1>4. \A row : Tested(y, row) = Compare(op, ComparisonValue(f, row[f]), ComparisonValue(f, v))
  BY <1>1 DEF Tested
<1> QED
  BY <1>3, <1>4 DEF y

\* A membership of a row's value in a list.
Listed(f, vs, neg, row) ==
  LET among == Member(ComparisonValue(f, row[f]), {ComparisonValue(f, v) : v \in ToSet(vs)})
  IN IF neg THEN Not3(among) ELSE among

MemberOf(f, vs, neg) == [k |-> "in", f |-> f, vs |-> vs, neg |-> neg]

LEMMA MemberOfFits ==
  ASSUME NEW f \in Field, NEW vs \in Seq(Value), vs # <<>>,
         \A v \in ToSet(vs) : ~IsNullValue(v), NEW neg \in BOOLEAN
  PROVE  /\ MemberOf(f, vs, neg) \in WellTyped
         /\ \A row : Tested(MemberOf(f, vs, neg), row) = Listed(f, vs, neg, row)
<1> DEFINE y == MemberOf(f, vs, neg)
<1>1. y.k = "in" /\ y.f = f /\ y.vs = vs /\ y.neg = neg
  BY DEF MemberOf
<1>2. y \in Leaf
  BY DEF MemberOf, Leaf
<1> HIDE DEF y
<1>3. y \in WellTyped
  BY <1>1, <1>2 DEF WellTyped
<1>4. \A row : Tested(y, row) = Listed(f, vs, neg, row)
  BY <1>1 DEF Tested, Listed
<1> QED
  BY <1>3, <1>4 DEF y

LEMMA MemberOfIs ==
  ASSUME NEW x \in WellTyped, x.k = "in"
  PROVE  /\ x.f \in Field /\ x.vs \in Seq(Value) /\ x.vs # <<>> /\ x.neg \in BOOLEAN
         /\ \A v \in ToSet(x.vs) : ~IsNullValue(v)
         /\ \A vs : [x EXCEPT !.vs = vs] = MemberOf(x.f, vs, x.neg)
         /\ \A neg : [x EXCEPT !.neg = neg] = MemberOf(x.f, x.vs, neg)
         /\ \A row : Tested(x, row) = Listed(x.f, x.vs, x.neg, row)
<1>1. x \in [k : {"in"}, f : Field, vs : Seq(Value) \ {<<>>}, neg : BOOLEAN]
  BY SoundIs DEF Leaf
<1>2. x.f \in Field /\ x.vs \in Seq(Value) /\ x.vs # <<>> /\ x.neg \in BOOLEAN
  BY <1>1
<1>3. ASSUME NEW vs PROVE [x EXCEPT !.vs = vs] = MemberOf(x.f, vs, x.neg)
  BY <1>1 DEF MemberOf
<1>4. ASSUME NEW neg PROVE [x EXCEPT !.neg = neg] = MemberOf(x.f, x.vs, neg)
  BY <1>1 DEF MemberOf
<1>5. \A row : Tested(x, row) = Listed(x.f, x.vs, x.neg, row)
  BY DEF Tested, Listed
<1>6. \A v \in ToSet(x.vs) : ~IsNullValue(v)
  BY DEF WellTyped
<1> QED
  BY <1>2, <1>3, <1>4, <1>5, <1>6

LEMMA OneOfList ==
  ASSUME NEW s \in Seq(Value), Len(s) = 1
  PROVE  ToSet(s) = {s[1]} /\ s[1] \in Value
<1>1. DOMAIN s = {1}
  <2>1. DOMAIN s = 1..Len(s)
    BY LenProperties
  <2> QED
    BY <2>1
<1> QED
  BY <1>1, ElementOfSeq DEF ToSet

\* BETWEEN and IN of one value become an equality.
LEMMA OptimiseLeafKeeps ==
  ASSUME NEW x \in WellTyped
  PROVE  /\ OptimiseLeaf(x) \in WellTyped
         /\ \A row \in Row : Tested(OptimiseLeaf(x), row) = Tested(x, row)
<1>1. x \in Leaf
  BY SoundIs
<1> DEFINE equality == IF x.neg THEN "!=" ELSE "="
           values == Unique(x.vs)
<1>2. CASE x.k = "between" /\ x.lo = x.hi
  <2>1. /\ x.f \in Field /\ x.lo \in Value /\ x.neg \in BOOLEAN
        /\ x.f \notin Enum /\ ~IsNullValue(x.lo)
    BY <1>1, <1>2, LeafIs DEF WellTyped
  <2>2. OptimiseLeaf(x) = Binary(x.f, equality, x.lo)
    BY <1>2 DEF OptimiseLeaf
  <2>3. equality \in {"=", "!="}
    OBVIOUS
  <2>4. ASSUME NEW row \in Row PROVE Tested(Binary(x.f, equality, x.lo), row) = Tested(x, row)
    <3>1. row[x.f] \in Value
      BY <2>1, RewriteAssumption
    <3>2. Tested(x, row) = IF IsNullValue(row[x.f]) THEN "U"
                           ELSE Bool3(Within(row[x.f], x.lo, x.lo) # x.neg)
      BY <1>2 DEF Tested
    <3>3. Tested(x, row) = Compare(equality, row[x.f], x.lo)
      BY <2>1, <3>1, <3>2, PointRange
    <3>4. ComparisonValue(x.f, row[x.f]) = row[x.f] /\ ComparisonValue(x.f, x.lo) = x.lo
      BY <2>1 DEF ComparisonValue
    <3> HIDE DEF equality
    <3> QED
      BY <2>1, <2>3, <3>3, <3>4, EqualityFits
  <2> HIDE DEF equality
  <2> QED
    BY <2>1, <2>2, <2>3, <2>4, EqualityFits
<1>3. CASE x.k = "in"
  <2>1. /\ x.f \in Field /\ x.neg \in BOOLEAN /\ x.vs \in Seq(Value) /\ x.vs # <<>>
        /\ \A v \in ToSet(x.vs) : ~IsNullValue(v)
    BY <1>3, MemberOfIs
  <2>2. values \in Seq(Value) /\ ToSet(values) = ToSet(x.vs)
    BY <2>1, UniqueIs
  <2>3. ASSUME NEW row PROVE Tested(x, row) = Listed(x.f, values, x.neg, row)
    <3>1. Listed(x.f, values, x.neg, row) = Listed(x.f, x.vs, x.neg, row)
      BY <2>2 DEF Listed
    <3> QED
      BY <1>3, <3>1, MemberOfIs
  <2>4. CASE Len(values) = 1
    <3>1. OptimiseLeaf(x) = Binary(x.f, equality, values[1])
      BY <1>3, <2>4 DEF OptimiseLeaf
    <3> HIDE DEF values
    <3>2. ToSet(values) = {values[1]} /\ values[1] \in Value /\ ~IsNullValue(values[1])
      BY <2>1, <2>2, <2>4, OneOfList
    <3>3. ASSUME NEW row PROVE Tested(Binary(x.f, equality, values[1]), row) = Tested(x, row)
      <4> DEFINE a == ComparisonValue(x.f, row[x.f])
                 w == ComparisonValue(x.f, values[1])
      <4>1. ~IsNullValue(w)
        BY <3>2 DEF ComparisonValue, IsNullValue, String
      <4>2. {ComparisonValue(x.f, v) : v \in ToSet(values)} = {w}
        BY <3>2
      <4>3. Tested(x, row) = IF x.neg THEN Not3(Member(a, {w})) ELSE Member(a, {w})
        BY <2>3, <4>2 DEF Listed
      <4>4. Tested(Binary(x.f, equality, values[1]), row) = Compare(equality, a, w)
        BY <2>1, <3>2, EqualityFits
      <4> HIDE DEF a, w
      <4>5. Member(a, {w}) = Compare("=", a, w)
        BY <4>1, SingletonListIsEquality
      <4> QED
        BY <4>3, <4>4, <4>5, UnequalIsNot
    <3>4. equality \in {"=", "!="}
      OBVIOUS
    <3> HIDE DEF equality
    <3> QED
      BY <2>1, <3>1, <3>2, <3>3, <3>4, EqualityFits
  <2>5. CASE Len(values) # 1
    <3>1. OptimiseLeaf(x) = [x EXCEPT !.vs = values]
      BY <1>3, <2>5 DEF OptimiseLeaf
    <3> HIDE DEF values
    <3>2. values # <<>>
      <4>1. ToSet(<<>>) = {}
        BY DEF ToSet
      <4>2. Len(x.vs) # 0 /\ Len(x.vs) \in Nat /\ DOMAIN x.vs = 1..Len(x.vs)
        BY <2>1, EmptySeq, LenProperties
      <4>3. 1 \in DOMAIN x.vs
        BY <4>2
      <4>4. ToSet(x.vs) # {}
        BY <4>3 DEF ToSet
      <4> QED
        BY <2>2, <4>1, <4>4
    <3>3. OptimiseLeaf(x) = MemberOf(x.f, values, x.neg)
      BY <1>3, <3>1, MemberOfIs
    <3>4. \A v \in ToSet(values) : ~IsNullValue(v)
      BY <2>1, <2>2
    <3>5. /\ MemberOf(x.f, values, x.neg) \in WellTyped
          /\ \A row : Tested(MemberOf(x.f, values, x.neg), row) = Listed(x.f, values, x.neg, row)
      BY <2>1, <2>2, <3>2, <3>4, MemberOfFits
    <3> QED
      BY <2>3, <3>3, <3>5
  <2> QED
    BY <2>4, <2>5
<1>4. CASE ~(x.k = "between" /\ x.lo = x.hi) /\ x.k # "in"
  <2>1. OptimiseLeaf(x) = x
    BY <1>4 DEF OptimiseLeaf
  <2> QED
    BY <2>1
<1> QED
  BY <1>2, <1>3, <1>4

-----------------------------------------------------------------------------
(* NOT *)

\* The NOT of each truth with a sign.
LEMMA NotOfSign ==
  ASSUME NEW A \in BOOLEAN, NEW neg \in BOOLEAN
  PROVE  Bool3(A # ~neg) = Not3(Bool3(A # neg))
<1>1. CASE neg = TRUE
  BY <1>1 DEF Bool3, Not3
<1>2. CASE neg = FALSE
  BY <1>2 DEF Bool3, Not3
<1> QED
  BY <1>1, <1>2

LEMMA NotTwice ==
  ASSUME NEW t \in Truths PROVE Not3(Not3(t)) = t
BY DEF Not3, Truths

\* NOT of a comparison: the comparison with the inverted operator.
LEMMA NotOfComparison ==
  ASSUME NEW x \in WellTyped, x.k = "cmp", NEW y, y = [x EXCEPT !.op = Inverted[x.op]]
  PROVE  y \in WellTyped /\ \A row \in Row : Tested(y, row) = Not3(Tested(x, row))
<1>1. x \in [k : {"cmp"}, f : Field, op : Operator, v : Value]
  BY SoundIs DEF Leaf
<1>2. Inverted[x.op] \in Operator
  BY <1>1, InvertedTwice
<1>3. y.k = "cmp" /\ y.f = x.f /\ y.op = Inverted[x.op] /\ y.v = x.v
  BY <1>1
<1>4. y \in Leaf
  <2>1. y \in [k : {"cmp"}, f : Field, op : Operator, v : Value]
    BY <1>1, <1>2
  <2> QED
    BY <2>1 DEF Leaf
<1>5. x.op \in {"=", "!="} <=> Inverted[x.op] \in {"=", "!="}
  BY <1>1, InvertedIs DEF Operator, Lower, Upper
<1>6. y \in WellTyped
  BY <1>3, <1>4, <1>5 DEF WellTyped
<1>7. ASSUME NEW row \in Row PROVE Tested(y, row) = Not3(Tested(x, row))
  <2> DEFINE a == ComparisonValue(x.f, row[x.f])
             b == ComparisonValue(x.f, x.v)
  <2>1. Tested(y, row) = Compare(Inverted[x.op], a, b) /\ Tested(x, row) = Compare(x.op, a, b)
    BY <1>3 DEF Tested
  <2>2. CASE x.op \in {"=", "!="}
    <3>1. \/ x.op = "=" /\ Inverted[x.op] = "!="
          \/ x.op = "!=" /\ Inverted[x.op] = "="
      BY <2>2, InvertedIs
    <3> HIDE DEF a, b
    <3> QED
      BY <2>1, <3>1, UnequalIsNot
  <2>3. CASE x.op \notin {"=", "!="}
    <3>1. /\ x.f \notin Enum
          /\ IsNullValue(row[x.f]) \/ IsNullValue(x.v) \/ row[x.f].kind = x.v.kind
      BY <2>3 DEF WellTyped
    <3>2. a = row[x.f] /\ b = x.v
      BY <3>1 DEF ComparisonValue
    <3>3. a \in Value /\ b \in Value /\ x.op \in Operator
      BY <1>1, <3>2, RewriteAssumption
    <3>4. a.kind = b.kind \/ IsNullValue(a) \/ IsNullValue(b)
      BY <3>1, <3>2
    <3> HIDE DEF a, b
    <3> QED
      BY <2>1, <3>3, <3>4, InvertedIsNot
  <2> QED
    BY <2>2, <2>3
<1> QED
  BY <1>6, <1>7

\* NOT of a BETWEEN, of an IN, of an IS NULL: its own NOT.
LEMMA NotOfSigned ==
  ASSUME NEW x \in WellTyped, x.k \in {"between", "in", "null"}, NEW y, y = [x EXCEPT !.neg = ~x.neg]
  PROVE  y \in WellTyped /\ \A row \in Row : Tested(y, row) = Not3(Tested(x, row))
<1>1. CASE x.k = "between"
  <2>1. x \in [k : {"between"}, f : Field, lo : Value, hi : Value, neg : BOOLEAN]
    BY <1>1, SoundIs DEF Leaf
  <2>2. /\ y.k = "between" /\ y.f = x.f /\ y.lo = x.lo /\ y.hi = x.hi /\ y.neg = ~x.neg
        /\ x.neg \in BOOLEAN
    BY <2>1
  <2>3. y \in Leaf
    <3>1. y \in [k : {"between"}, f : Field, lo : Value, hi : Value, neg : BOOLEAN]
      BY <2>1
    <3> QED
      BY <3>1 DEF Leaf
  <2>4. y \in WellTyped
    BY <1>1, <2>2, <2>3 DEF WellTyped
  <2>5. ASSUME NEW row \in Row PROVE Tested(y, row) = Not3(Tested(x, row))
    <3> DEFINE A == Within(row[x.f], x.lo, x.hi)
    <3>1. Tested(y, row) = IF IsNullValue(row[x.f]) THEN "U" ELSE Bool3(A # ~x.neg)
      BY <2>2 DEF Tested
    <3>2. Tested(x, row) = IF IsNullValue(row[x.f]) THEN "U" ELSE Bool3(A # x.neg)
      BY <1>1 DEF Tested
    <3>3. A \in BOOLEAN
      BY DEF Within
    <3> HIDE DEF A
    <3>4. Bool3(A # ~x.neg) = Not3(Bool3(A # x.neg))
      BY <2>2, <3>3, NotOfSign
    <3> QED
      BY <3>1, <3>2, <3>4 DEF Not3
  <2> QED
    BY <2>4, <2>5
<1>2. CASE x.k = "null"
  <2>1. x \in [k : {"null"}, f : Field, neg : BOOLEAN]
    BY <1>2, SoundIs DEF Leaf
  <2>2. y.k = "null" /\ y.f = x.f /\ y.neg = ~x.neg /\ x.neg \in BOOLEAN
    BY <2>1
  <2>3. y \in Leaf
    <3>1. y \in [k : {"null"}, f : Field, neg : BOOLEAN]
      BY <2>1
    <3> QED
      BY <3>1 DEF Leaf
  <2>4. y \in WellTyped
    BY <2>2, <2>3 DEF WellTyped
  <2>5. ASSUME NEW row \in Row PROVE Tested(y, row) = Not3(Tested(x, row))
    <3> DEFINE A == IsNullValue(row[x.f])
    <3>1. Tested(y, row) = Bool3(A # ~x.neg)
      BY <2>2 DEF Tested
    <3>2. Tested(x, row) = Bool3(A # x.neg)
      BY <1>2 DEF Tested
    <3>3. A \in BOOLEAN
      BY DEF IsNullValue
    <3> HIDE DEF A
    <3> QED
      BY <2>2, <3>1, <3>2, <3>3, NotOfSign
  <2> QED
    BY <2>4, <2>5
<1>3. CASE x.k = "in"
  <2>1. /\ x.f \in Field /\ x.vs \in Seq(Value) /\ x.vs # <<>> /\ x.neg \in BOOLEAN
        /\ \A v \in ToSet(x.vs) : ~IsNullValue(v)
        /\ y = MemberOf(x.f, x.vs, ~x.neg)
    BY <1>3, MemberOfIs
  <2>2. \A row : Tested(x, row) = Listed(x.f, x.vs, x.neg, row)
    BY <1>3, MemberOfIs
  <2> DEFINE flipped == ~x.neg
  <2>3. flipped \in BOOLEAN
    OBVIOUS
  <2> HIDE DEF flipped
  <2>4. /\ MemberOf(x.f, x.vs, flipped) \in WellTyped
        /\ \A row : Tested(MemberOf(x.f, x.vs, flipped), row) = Listed(x.f, x.vs, flipped, row)
    BY <2>1, <2>3, MemberOfFits
  <2>5. ASSUME NEW row PROVE Listed(x.f, x.vs, flipped, row) = Not3(Listed(x.f, x.vs, x.neg, row))
    <3> DEFINE among == Member(ComparisonValue(x.f, row[x.f]),
                               {ComparisonValue(x.f, v) : v \in ToSet(x.vs)})
    <3>1. /\ Listed(x.f, x.vs, flipped, row) = IF flipped THEN Not3(among) ELSE among
          /\ Listed(x.f, x.vs, x.neg, row) = IF x.neg THEN Not3(among) ELSE among
      BY DEF Listed
    <3>2. among \in Truths
      BY TruthOfComparison
    <3> HIDE DEF among
    <3>3. Not3(Not3(among)) = among
      BY <3>2, NotTwice
    <3> QED
      BY <2>1, <3>1, <3>3 DEF flipped
  <2> QED
    BY <2>1, <2>2, <2>4, <2>5 DEF flipped
<1> QED
  BY <1>1, <1>2, <1>3

\* A leaf that stands for a NOT is no larger.
LEMMA LeafForNot ==
  ASSUME NEW x \in WellTyped, NEW y \in WellTyped, Size[x] + 1 <= MaxSize,
         \A row \in Row : Tested(y, row) = Not3(Tested(x, row))
  PROVE  Rewrites(y, Not(x))
<1>1. x \in Sound /\ y \in Sound /\ x \in Predicate /\ y \in Predicate
  BY SoundIs
<1>2. x.k \in LeafKind /\ y.k \in LeafKind
  BY SoundIs, LeafIs
<1>3. Size[y] = 1 /\ Size[x] = 1
  BY <1>1, <1>2, SizeIs
<1>4. Not(x) \in Sound /\ Size[Not(x)] = Size[x] + 1
  BY <1>1, UnaryFits DEF Truths
<1>5. ASSUME NEW row \in Row PROVE Evaluate(y, row) = Evaluate(Not(x), row)
  <2> DEFINE n == Not(x)
  <2>1. n.k = "not" /\ n.x = x /\ n \in Predicate
    BY <1>4, SoundIs DEF Not
  <2> HIDE DEF n
  <2>2. Evaluate(n, row) = Not3(Evaluate(x, row))
    BY <2>1, EvaluateIs
  <2>3. Evaluate(x, row) = Tested(x, row) /\ Evaluate(y, row) = Tested(y, row)
    BY <1>1, <1>2, EvaluateIs
  <2> QED
    BY <2>2, <2>3 DEF n
<1> QED
  BY <1>1, <1>3, <1>4, <1>5 DEF Rewrites

\* _normalise_not: NOT x without the NOT.
LEMMA NormaliseNotKeeps ==
  ASSUME NEW x \in Sound, Size[x] + 1 <= MaxSize
  PROVE  Rewrites(NormaliseNot(x), Not(x))
<1> DEFINE n == Not(x)
<1>1. n \in Sound /\ Size[n] = Size[x] + 1 /\ n \in Predicate
  BY UnaryFits, SoundIs DEF Truths
<1>2. n.k = "not" /\ n.x = x
  BY DEF Not
<1>3. NormaliseNot(x) =
        IF x.k = "not" THEN x.x
        ELSE IF x.k = "cmp" THEN [x EXCEPT !.op = Inverted[x.op]]
        ELSE IF x.k \in {"between", "in", "null", "test"} THEN [x EXCEPT !.neg = ~x.neg]
        ELSE n
  BY DEF NormaliseNot
<1> HIDE DEF n
<1>4. \A row : Evaluate(n, row) = Not3(Evaluate(x, row))
  BY <1>1, <1>2, EvaluateIs
<1>5. Size[x] \in Nat /\ x \in Predicate /\ Size[n] \in Nat
  BY <1>1, SizeDepth, SoundIs
<1>6. CASE x.k = "not"
  <2>1. x.x \in Sound /\ Size[x] = Size[x.x] + 1 /\ Size[x.x] \in Nat
    BY <1>5, <1>6, SoundParts, SizeIs, SizeDepth
  <2>2. ASSUME NEW row \in Row PROVE Evaluate(x.x, row) = Evaluate(n, row)
    <3>1. Evaluate(x, row) = Not3(Evaluate(x.x, row))
      BY <1>5, <1>6, EvaluateIs
    <3>2. Evaluate(x.x, row) \in Truths
      BY <2>1, EvaluateTruth
    <3> QED
      BY <1>4, <3>1, <3>2, NotTwice
  <2>3. Rewrites(x.x, n)
    BY <1>1, <2>1, <2>2 DEF Rewrites
  <2> QED
    BY <1>3, <1>6, <2>3 DEF n
<1>7. CASE x.k = "cmp"
  <2>1. x \in WellTyped
    BY <1>7, SoundParts DEF LeafKind
  <2> DEFINE y == NormaliseNot(x)
  <2>2. y = [x EXCEPT !.op = Inverted[x.op]]
    BY <1>3, <1>7
  <2> HIDE DEF y
  <2>3. y \in WellTyped /\ \A row \in Row : Tested(y, row) = Not3(Tested(x, row))
    BY <1>7, <2>1, <2>2, NotOfComparison
  <2>4. Rewrites(y, Not(x))
    BY <2>1, <2>3, LeafForNot
  <2> QED
    BY <2>4 DEF y
<1>8. CASE x.k \in {"between", "in", "null"}
  <2>1. x \in WellTyped
    BY <1>8, SoundParts DEF LeafKind
  <2> DEFINE y == NormaliseNot(x)
  <2>2. y = [x EXCEPT !.neg = ~x.neg]
    BY <1>3, <1>8
  <2> HIDE DEF y
  <2>3. y \in WellTyped /\ \A row \in Row : Tested(y, row) = Not3(Tested(x, row))
    BY <1>8, <2>1, <2>2, NotOfSigned
  <2>4. Rewrites(y, Not(x))
    BY <2>1, <2>3, LeafForNot
  <2> QED
    BY <2>4 DEF y
<1>9. CASE x.k = "test"
  <2> DEFINE c == x.x
             truth == x.truth
             neg == x.neg
             flipped == ~x.neg
             y == [k |-> "test", x |-> c, truth |-> truth, neg |-> flipped]
  <2>1. /\ x \in [k : {"test"}, x : Sound, truth : Truths, neg : BOOLEAN]
    BY <1>9, SoundParts DEF Compound, LeafKind
  <2>2. NormaliseNot(x) = y
    BY <1>3, <1>9, <2>1
  <2>3. c \in Sound /\ truth \in Truths /\ neg \in BOOLEAN /\ flipped \in BOOLEAN
    BY <2>1
  <2>4. Size[x] = Size[c] + 1 /\ Size[c] \in Nat /\ MaxSize \in Nat
    BY <1>5, <1>9, <2>3, SizeIs, SizeDepth, SoundIs
  <2>5. Size[c] + 1 <= MaxSize
    BY <2>4
  <2>6. y.k = "test" /\ y.x = c /\ y.truth = truth /\ y.neg = flipped
    OBVIOUS
  <2> HIDE DEF c, truth, flipped
  <2>7. y \in Sound /\ Size[y] = Size[c] + 1
    BY <2>3, <2>5, UnaryFits
  <2> HIDE DEF y
  <2>8. ASSUME NEW row \in Row PROVE Evaluate(y, row) = Evaluate(n, row)
    <3> DEFINE A == Evaluate(c, row) = truth
    <3>1. y \in Predicate
      BY <2>7, SoundIs
    <3>2. Evaluate(y, row) = Bool3(A # flipped)
      BY <2>6, <3>1, EvaluateIs
    <3>3. Evaluate(x, row) = Bool3(A # neg)
      BY <1>5, <1>9, EvaluateIs DEF c, truth
    <3> HIDE DEF A
    <3>4. A \in BOOLEAN
      BY DEF A
    <3> HIDE DEF neg
    <3>5. Bool3(A # ~neg) = Not3(Bool3(A # neg))
      BY <2>3, <3>4, NotOfSign
    <3> QED
      BY <1>4, <3>2, <3>3, <3>5 DEF flipped, neg
  <2>9. Rewrites(y, n)
    BY <1>1, <2>4, <2>7, <2>8 DEF Rewrites
  <2> QED
    BY <2>2, <2>9 DEF n
<1>10. CASE x.k \notin {"not", "cmp", "between", "in", "null", "test"}
  <2>1. NormaliseNot(x) = n
    BY <1>3, <1>10
  <2> QED
    BY <1>1, <2>1, RewritesIs DEF n
<1> QED
  BY <1>6, <1>7, <1>8, <1>9, <1>10

-----------------------------------------------------------------------------
(* One pass *)

LEMMA CapabilityRewrites ==
  ASSUME NEW x \in Sound
  PROVE  Rewrites(ByCapability(x), x)
<1>1. CASE IsJunction(x) \/ ProveTruth[x] = "?"
  BY <1>1, RewritesIs DEF ByCapability
<1>2. CASE ~(IsJunction(x) \/ ProveTruth[x] = "?")
  <2> DEFINE t == ProveTruth[x]
  <2>1. ByCapability(x) = Literal(t)
    BY <1>2 DEF ByCapability
  <2>2. t \in Truths /\ \A row \in Row : Evaluate(x, row) = t
    BY <1>2, AllProven DEF Proven
  <2> HIDE DEF t
  <2>3. Literal(t) \in Sound /\ Size[Literal(t)] = 1 /\ \A row : Evaluate(Literal(t), row) = t
    BY <2>2, LiteralFits
  <2>4. Size[x] \in Nat /\ Size[x] # 0
    BY SizeDepth
  <2> QED
    BY <2>1, <2>2, <2>3, <2>4 DEF Rewrites
<1> QED
  BY <1>1, <1>2

\* A rewriting of its operand is a rewriting of a NOT or of a truth test.
LEMMA UnaryRewrites ==
  ASSUME NEW y \in Sound, Size[y] <= MaxSize, y.k \in {"test", "not"}, NEW c, Rewrites(c, y.x),
         NEW z \in {Not(c), [k |-> "test", x |-> c, truth |-> y.truth, neg |-> y.neg]}, z.k = y.k
  PROVE  Rewrites(z, y) /\ Size[c] + 1 <= MaxSize
<1>1. y \in Predicate /\ y.x \in Sound
  BY SoundParts
<1>2. c \in Sound /\ Size[c] <= Size[y.x] /\ \A row \in Row : Evaluate(c, row) = Evaluate(y.x, row)
  BY DEF Rewrites
<1>3. Size[y] = Size[y.x] + 1
  BY <1>1, SizeIs
<1>4. /\ Size[c] \in Nat /\ Size[y.x] \in Nat /\ MaxSize \in Nat
      /\ Size[c] + 1 <= MaxSize /\ Size[c] + 1 <= Size[y]
  <2>1. Size[c] \in Nat /\ Size[y.x] \in Nat /\ MaxSize \in Nat
    BY <1>1, <1>2, SizeDepth, SoundIs
  <2> QED
    BY <1>2, <1>3, <2>1
<1>5. CASE y.k = "not"
  <2>1. z = Not(c) /\ z.x = c
    BY <1>5 DEF Not
  <2>2. z \in Sound /\ Size[z] = Size[c] + 1
    BY <1>2, <1>4, <2>1, UnaryFits DEF Truths
  <2>3. \A row : Evaluate(z, row) = Not3(Evaluate(c, row))
    BY <1>5, <2>1, <2>2, SoundIs, EvaluateIs
  <2>4. \A row : Evaluate(y, row) = Not3(Evaluate(y.x, row))
    BY <1>1, <1>5, EvaluateIs
  <2>5. \A row \in Row : Evaluate(z, row) = Evaluate(y, row)
    BY <1>2, <2>3, <2>4
  <2> QED
    BY <1>4, <2>2, <2>5 DEF Rewrites
<1>6. CASE y.k = "test"
  <2> DEFINE truth == y.truth
             neg == y.neg
  <2>1. z = [k |-> "test", x |-> c, truth |-> truth, neg |-> neg]
    BY <1>6 DEF Not
  <2>2. truth \in Truths /\ neg \in BOOLEAN
    BY <1>6, SoundParts, CompoundIs DEF LeafKind
  <2>3. z.k = "test" /\ z.x = c /\ z.truth = truth /\ z.neg = neg
    BY <2>1
  <2> HIDE DEF truth, neg
  <2>4. z \in Sound /\ Size[z] = Size[c] + 1
    BY <1>2, <1>4, <2>1, <2>2, UnaryFits
  <2>5. ASSUME NEW row \in Row PROVE Evaluate(z, row) = Evaluate(y, row)
    <3>1. Evaluate(z, row) = Bool3((Evaluate(c, row) = truth) # neg)
      BY <2>3, <2>4, SoundIs, EvaluateIs
    <3>2. Evaluate(y, row) = Bool3((Evaluate(y.x, row) = truth) # neg)
      BY <1>1, <1>6, EvaluateIs DEF truth, neg
    <3> QED
      BY <1>2, <3>1, <3>2
  <2> QED
    BY <1>4, <2>4, <2>5 DEF Rewrites
<1> QED
  BY <1>4, <1>5, <1>6

\* Rewritings of its operands make a rewriting of a connective.
LEMMA JunctionRewrites ==
  ASSUME NEW y \in Sound, Size[y] <= MaxSize, IsJunction(y),
         NEW l, NEW r, Rewrites(l, y.l), Rewrites(r, y.r)
  PROVE  Rewrites(Junction(y.k, l, r), y) /\ Size[l] + Size[r] <= MaxSize /\ Size[l] <= Size[y]
<1>1. y \in Predicate /\ y.l \in Sound /\ y.r \in Sound /\ y.k \in {"AND", "OR"}
  BY SoundParts DEF IsJunction
<1>2. /\ l \in Sound /\ Size[l] <= Size[y.l]
      /\ \A row \in Row : Evaluate(l, row) = Evaluate(y.l, row)
      /\ r \in Sound /\ Size[r] <= Size[y.r]
      /\ \A row \in Row : Evaluate(r, row) = Evaluate(y.r, row)
  BY DEF Rewrites
<1>3. Size[y] = Size[y.l] + Size[y.r]
  BY <1>1, SizeIs
<1>4. /\ Size[l] \in Nat /\ Size[r] \in Nat /\ Size[y.l] \in Nat /\ Size[y.r] \in Nat
      /\ MaxSize \in Nat
  BY <1>1, <1>2, SizeDepth, SoundIs
<1>5. Size[l] + Size[r] <= MaxSize /\ Size[l] <= Size[y] /\ Size[l] + Size[r] <= Size[y]
  BY <1>2, <1>3, <1>4
<1> DEFINE j == Junction(y.k, l, r)
<1>6. j \in Sound /\ IsJunction(j) /\ Size[j] = Size[l] + Size[r]
  BY <1>1, <1>2, <1>5, JunctionFits
<1>7. j.k = y.k /\ j.l = l /\ j.r = r
  BY DEF Junction
<1> HIDE DEF j
<1>8. ASSUME NEW row \in Row PROVE Evaluate(j, row) = Evaluate(y, row)
  <2>1. Evaluate(j, row) = Connect(y.k, Evaluate(l, row), Evaluate(r, row))
    BY <1>6, <1>7, SoundIs, EvaluateIs
  <2>2. Evaluate(y, row) = Connect(y.k, Evaluate(y.l, row), Evaluate(y.r, row))
    BY <1>1, EvaluateIs
  <2> QED
    BY <1>2, <2>1, <2>2
<1> QED
  BY <1>5, <1>6, <1>8 DEF Rewrites, j

\* _optimise_node
LEMMA PassRewrites ==
  ASSUME NEW x \in Sound, Size[x] <= MaxSize
  PROVE  Rewrites(OptimiseNode[x], x)
<1> DEFINE P == {y \in Sound : Size[y] <= MaxSize => Rewrites(OptimiseNode[y], y)}
<1>1. ASSUME NEW y \in Sound, ByCapability(y) # y PROVE Rewrites(OptimiseNode[y], y)
  <2>1. OptimiseNode[y] = ByCapability(y)
    BY <1>1, SoundIs, OptimiseNodeIs
  <2> QED
    BY <2>1, CapabilityRewrites
<1>2. WellTyped \subseteq P
  <2> SUFFICES ASSUME NEW y \in WellTyped PROVE Rewrites(OptimiseNode[y], y)
    BY SoundIs
  <2>1. y \in Sound /\ y \in Predicate /\ y.k \in LeafKind
    BY SoundIs, LeafIs
  <2>2. CASE ByCapability(y) # y
    BY <1>1, <2>1, <2>2
  <2>3. CASE ByCapability(y) = y
    <3> DEFINE z == OptimiseLeaf(y)
    <3>1. OptimiseNode[y] = z
      BY <2>1, <2>3, OptimiseNodeIs
    <3>2. z \in WellTyped /\ \A row \in Row : Tested(z, row) = Tested(y, row)
      BY OptimiseLeafKeeps
    <3> HIDE DEF z
    <3>3. z \in Sound /\ z \in Predicate /\ z.k \in LeafKind
      BY <3>2, SoundIs, LeafIs
    <3>4. Size[z] = 1 /\ Size[y] = 1
      BY <2>1, <3>3, SizeIs
    <3>5. \A row : Evaluate(z, row) = Tested(z, row) /\ Evaluate(y, row) = Tested(y, row)
      BY <2>1, <3>3, EvaluateIs
    <3> QED
      BY <3>1, <3>2, <3>3, <3>4, <3>5 DEF Rewrites
  <2> QED
    BY <2>2, <2>3
<1>3. ASSUME NEW y \in Sound, y.k \in {"test", "not"}, y.x \in P, Size[y] <= MaxSize
      PROVE  Rewrites(OptimiseNode[y], y)
  <2> DEFINE c == OptimiseNode[y.x]
  <2>1. y \in Predicate /\ y.x \in Sound
    BY <1>3, SoundParts
  <2>2. Size[y.x] <= MaxSize
    <3>1. Size[y] = Size[y.x] + 1 /\ Size[y.x] \in Nat /\ MaxSize \in Nat
      BY <1>3, <2>1, SizeIs, SizeDepth, SoundIs
    <3> QED
      BY <1>3, <3>1
  <2>3. Rewrites(c, y.x)
    BY <1>3, <2>2
  <2>4. CASE ByCapability(y) # y
    BY <1>1, <2>4
  <2>5. CASE ByCapability(y) = y /\ y.k = "test"
    <3>1. OptimiseNode[y] = [y EXCEPT !.x = c]
      BY <2>1, <2>5, OptimiseNodeIs
    <3>2. y \in [k : {"test"}, x : Sound, truth : Truths, neg : BOOLEAN]
      BY <2>5, SoundParts DEF Compound, LeafKind
    <3> HIDE DEF c
    <3> DEFINE z == [k |-> "test", x |-> c, truth |-> y.truth, neg |-> y.neg]
    <3>3. OptimiseNode[y] = z /\ z.k = y.k
      BY <2>5, <3>1, <3>2
    <3>4. z \in {Not(c), [k |-> "test", x |-> c, truth |-> y.truth, neg |-> y.neg]}
      OBVIOUS
    <3> HIDE DEF z
    <3>5. Rewrites(z, y)
      BY <1>3, <2>3, <3>3, <3>4, UnaryRewrites
    <3> QED
      BY <3>3, <3>5
  <2>6. CASE ByCapability(y) = y /\ y.k = "not"
    <3>1. OptimiseNode[y] = NormaliseNot(c)
      BY <2>1, <2>6, OptimiseNodeIs
    <3> HIDE DEF c
    <3> DEFINE z == Not(c)
    <3>2. z.k = y.k /\ z \in {Not(c), [k |-> "test", x |-> c, truth |-> y.truth, neg |-> y.neg]}
      BY <2>6 DEF Not
    <3> HIDE DEF z
    <3>3. Rewrites(z, y) /\ Size[c] + 1 <= MaxSize
      BY <1>3, <2>3, <3>2, UnaryRewrites
    <3>4. Rewrites(NormaliseNot(c), z)
      BY <2>3, <3>3, NormaliseNotKeeps DEF z, Rewrites
    <3> QED
      BY <3>1, <3>3, <3>4, RewritesIs
  <2> QED
    BY <1>3, <2>4, <2>5, <2>6
<1>4. ASSUME NEW y \in Sound, IsJunction(y), y.l \in P, y.r \in P, Size[y] <= MaxSize
      PROVE  Rewrites(OptimiseNode[y], y)
  <2> DEFINE l == OptimiseNode[y.l]
             r == OptimiseNode[y.r]
  <2>1. y \in Predicate /\ y.l \in Sound /\ y.r \in Sound /\ y.k \in {"AND", "OR"}
    BY <1>4, SoundParts DEF IsJunction
  <2>2. Size[y.l] <= MaxSize /\ Size[y.r] <= MaxSize
    <3>1. /\ Size[y] = Size[y.l] + Size[y.r] /\ Size[y.l] \in Nat /\ Size[y.r] \in Nat
          /\ MaxSize \in Nat
      BY <1>4, <2>1, SizeIs, SizeDepth, SoundIs
    <3> QED
      BY <1>4, <3>1
  <2>3. Rewrites(l, y.l) /\ Rewrites(r, y.r)
    BY <1>4, <2>2
  <2>4. OptimiseNode[y] = IF l = Dominating(y.k) THEN l ELSE OptimiseJunction(y.k, l, r)
    <3>1. ByCapability(y) = y
      BY <1>4 DEF ByCapability
    <3> QED
      BY <1>4, <2>1, <3>1, OptimiseNodeIs
  <2> HIDE DEF l, r
  <2>5. /\ Rewrites(Junction(y.k, l, r), y) /\ Size[l] + Size[r] <= MaxSize /\ Size[l] <= Size[y]
        /\ l \in Sound /\ r \in Sound
    BY <1>4, <2>3, JunctionRewrites DEF Rewrites
  <2>6. CASE l = Dominating(y.k)
    <3>1. ASSUME NEW row \in Row PROVE Evaluate(l, row) = Evaluate(y, row)
      <4>1. Evaluate(y.r, row) \in Truths
        BY <2>1, EvaluateTruth
      <4>2. PICK d \in Truths : l = Literal(d) /\ Connect(y.k, d, Evaluate(y.r, row)) = d
        BY <2>1, <2>6, <4>1, NeutralIs
      <4>3. Evaluate(l, row) = d /\ Evaluate(y.l, row) = d
        BY <2>3, <4>2, LiteralFits DEF Rewrites
      <4>4. Evaluate(y, row) = Connect(y.k, Evaluate(y.l, row), Evaluate(y.r, row))
        BY <1>4, <2>1, EvaluateIs
      <4> QED
        BY <4>2, <4>3, <4>4
    <3> QED
      BY <2>4, <2>5, <2>6, <3>1 DEF Rewrites
  <2>7. CASE l # Dominating(y.k)
    <3>1. Rewrites(OptimiseJunction(y.k, l, r), Junction(y.k, l, r))
      BY <2>1, <2>5, OptimiseJunctionKeeps
    <3> QED
      BY <2>4, <2>5, <2>7, <3>1, RewritesIs
  <2> QED
    BY <2>6, <2>7
<1>5. \A y \in Sound :
        /\ y.k \in {"test", "not"} /\ y.x \in Sound /\ y.x \in P => y \in P
        /\ IsJunction(y) /\ y.l \in Sound /\ y.r \in Sound /\ y.l \in P /\ y.r \in P => y \in P
  <2> SUFFICES ASSUME NEW y \in Sound
               PROVE  /\ y.k \in {"test", "not"} /\ y.x \in P => y \in P
                      /\ IsJunction(y) /\ y.l \in P /\ y.r \in P => y \in P
    OBVIOUS
  <2>1. y.k \in {"test", "not"} /\ y.x \in P /\ Size[y] <= MaxSize => Rewrites(OptimiseNode[y], y)
    BY <1>3
  <2>2. IsJunction(y) /\ y.l \in P /\ y.r \in P /\ Size[y] <= MaxSize => Rewrites(OptimiseNode[y], y)
    BY <1>4
  <2> QED
    BY <2>1, <2>2
<1> HIDE DEF P
<1>6. Sound \subseteq P
  BY <1>2, <1>5, AllSound
<1> QED
  BY <1>6 DEF P

-----------------------------------------------------------------------------
(* Every pass *)

\* What holds of the predicate in every state: it is well typed and no larger
\* than the query's, whose size the parser counts, and says the same of every
\* row.  SameTruth alone does not survive a pass: the rules are sound only for
\* well typed predicates, and the operands they regroup stay within the bound
\* only because none of them makes a predicate larger.
RewriteInv ==
  /\ origin \in Sound /\ Size[origin] = size /\ size \in Nat /\ size <= MaxSize
  /\ Rewrites(node, origin)
  /\ phase = "build" => node = origin

LEMMA RewriteInvInit ==
  ASSUME Atoms \subseteq WellTyped, Init
  PROVE  RewriteInv
<1>1. origin \in WellTyped /\ node = origin /\ size = 1
  BY DEF Init
<1>2. origin \in Sound /\ origin \in Predicate /\ origin.k \in LeafKind
  BY <1>1, SoundIs, LeafIs
<1>3. Size[origin] = 1
  BY <1>2, SizeIs
<1>4. Rewrites(node, origin)
  BY <1>1, <1>2, RewritesIs
<1>5. size \in Nat /\ size <= MaxSize
  <2>1. MaxSize \in Nat /\ MaxSize # 0
    BY SoundIs
  <2> QED
    BY <1>1, <2>1
<1> QED
  BY <1>1, <1>2, <1>3, <1>4, <1>5 DEF RewriteInv

\* The parser adds to what it has.
LEMMA BuildKeeps ==
  ASSUME RewriteInv, NEW x, Build(x),
         size + 1 <= MaxSize => x \in Sound /\ Size[x] = size + 1
  PROVE  RewriteInv'
<1>1. /\ size + 1 <= MaxSize /\ size + 1 \in Nat
      /\ origin' = x /\ node' = x /\ size' = size + 1
  <2>1. size \in Nat /\ MaxSize \in Nat /\ size < MaxSize
    BY SoundIs DEF RewriteInv, Build
  <2> QED
    BY <2>1 DEF Build
<1>2. x \in Sound /\ Size[x] = size + 1
  BY <1>1
<1>3. Rewrites(x, x)
  BY <1>2, RewritesIs
<1>4. Rewrites(node', origin')
  BY <1>1, <1>3
<1> QED
  BY <1>1, <1>2, <1>4 DEF RewriteInv

LEMMA RewriteInvNext ==
  ASSUME Atoms \subseteq WellTyped, RewriteInv, [Next]_vars
  PROVE  RewriteInv'
<1>1. ASSUME NEW atom \in Atoms, NEW op \in {"AND", "OR"}, Join(op, atom)
      PROVE  RewriteInv'
  <2>1. atom \in Sound /\ Size[atom] = 1
    <3>1. atom \in WellTyped
      OBVIOUS
    <3>2. atom \in Sound /\ atom \in Predicate /\ atom.k \in LeafKind
      BY <3>1, SoundIs, LeafIs
    <3> QED
      BY <3>2, SizeIs
  <2>2. origin \in Sound /\ Size[origin] = size /\ size \in Nat
    BY DEF RewriteInv
  <2>3. CASE Build(Junction(op, origin, atom))
    <3>1. size + 1 <= MaxSize =>
            Junction(op, origin, atom) \in Sound /\ Size[Junction(op, origin, atom)] = size + 1
      BY <2>1, <2>2, JunctionFits
    <3> QED
      BY <2>3, <3>1, BuildKeeps
  <2>4. CASE Build(Junction(op, atom, origin))
    <3>1. size + 1 <= MaxSize =>
            Junction(op, atom, origin) \in Sound /\ Size[Junction(op, atom, origin)] = size + 1
      <4>1. Size[atom] + Size[origin] = size + 1
        BY <2>1, <2>2
      <4> QED
        BY <2>1, <2>2, <4>1, JunctionFits
    <3> QED
      BY <2>4, <3>1, BuildKeeps
  <2> QED
    BY <1>1, <2>3, <2>4 DEF Join
<1>2. ASSUME Negate PROVE RewriteInv'
  <2>1. origin \in Sound /\ Size[origin] = size
    BY DEF RewriteInv
  <2>2. size + 1 <= MaxSize => Not(origin) \in Sound /\ Size[Not(origin)] = size + 1
    BY <2>1, UnaryFits DEF Truths
  <2>3. Build(Not(origin))
    BY <1>2 DEF Negate
  <2> QED
    BY <2>2, <2>3, BuildKeeps
<1>3. ASSUME NEW truth \in Truths, NEW neg \in BOOLEAN, TestTruth(truth, neg)
      PROVE  RewriteInv'
  <2> DEFINE x == [k |-> "test", x |-> origin, truth |-> truth, neg |-> neg]
  <2>1. origin \in Sound /\ Size[origin] = size
    BY DEF RewriteInv
  <2>2. size + 1 <= MaxSize => x \in Sound /\ Size[x] = size + 1
    BY <2>1, UnaryFits
  <2>3. Build(x)
    BY <1>3 DEF TestTruth
  <2> HIDE DEF x
  <2> QED
    BY <2>2, <2>3, BuildKeeps
<1>4. ASSUME Parsed PROVE RewriteInv'
  <2>1. UNCHANGED <<origin, node, size>> /\ phase' = "optimise"
    BY <1>4 DEF Parsed
  <2>2. Rewrites(node', origin')
    BY <2>1 DEF RewriteInv
  <2> QED
    BY <2>1, <2>2 DEF RewriteInv
<1>5. ASSUME Pass PROVE RewriteInv'
  <2>1. /\ UNCHANGED <<origin, size>> /\ node' = OptimiseNode[node]
        /\ phase' # "build"
    BY <1>5 DEF Pass
  <2>2. node \in Sound /\ Size[node] <= Size[origin] /\ Rewrites(node, origin) /\ origin \in Sound
    BY DEF RewriteInv, Rewrites
  <2>3. Size[node] <= MaxSize
    <3>1. Size[node] \in Nat /\ MaxSize \in Nat
      BY <2>2, SizeDepth, SoundIs
    <3> QED
      BY <2>2, <3>1 DEF RewriteInv
  <2>4. Rewrites(OptimiseNode[node], node)
    BY <2>2, <2>3, PassRewrites
  <2>5. Rewrites(OptimiseNode[node], origin)
    BY <2>2, <2>4, RewritesIs
  <2>6. Rewrites(node', origin')
    BY <2>1, <2>5
  <2> QED
    BY <2>1, <2>6 DEF RewriteInv
<1>6. ASSUME UNCHANGED vars PROVE RewriteInv'
  <2>1. UNCHANGED <<origin, node, size, phase>>
    BY <1>6 DEF vars
  <2>2. Rewrites(node', origin')
    BY <2>1 DEF RewriteInv
  <2> QED
    BY <2>1, <2>2 DEF RewriteInv
<1> QED
  BY <1>1, <1>2, <1>3, <1>4, <1>5, <1>6 DEF Next

LEMMA RewriteInvAlways ==
  ASSUME Atoms \subseteq WellTyped
  PROVE  Spec => []RewriteInv
<1>1. Init => RewriteInv
  BY RewriteInvInit
<1>2. RewriteInv /\ [Next]_vars => RewriteInv'
  BY RewriteInvNext
<1> QED
  BY <1>1, <1>2, PTL DEF Spec

\* SameTruth, for every row, every predicate however deep and any number of
\* passes: _optimise_predicate_fixed_point returns the query's own predicate.
THEOREM TruthKept ==
  ASSUME Atoms \subseteq WellTyped
  PROVE  Spec => []SameTruth
<1>1. RewriteInv => SameTruth
  BY DEF RewriteInv, Rewrites, SameTruth
<1>2. Spec => []RewriteInv
  BY RewriteInvAlways
<1> QED
  BY <1>1, <1>2, PTL

\* ProofsHold: what prove_predicate_truth says of the rewritten predicate is
\* the truth of the query's on every row the source can give.
THEOREM ProofsAreTrue ==
  ASSUME Atoms \subseteq WellTyped
  PROVE  Spec => []ProofsHold
<1>1. RewriteInv => ProofsHold
  <2> SUFFICES ASSUME RewriteInv, ProveTruth[node] # "?", NEW row \in Row
               PROVE  Evaluate(origin, row) = ProveTruth[node]
    BY DEF ProofsHold
  <2>1. node \in Sound /\ Evaluate(node, row) = Evaluate(origin, row)
    BY DEF RewriteInv, Rewrites
  <2>2. Evaluate(node, row) = ProveTruth[node]
    BY <2>1, AllProven DEF Proven
  <2> QED
    BY <2>1, <2>2
<1>2. Spec => []RewriteInv
  BY RewriteInvAlways
<1> QED
  BY <1>1, <1>2, PTL

-----------------------------------------------------------------------------
(* What an enumeration decides *)

WrittenBody(y, text) ==
  CASE y.k \in {"test", "not"} -> [y EXCEPT !.x = text[y.x]]
    [] IsJunction(y) -> Junction(y.k, text[y.l], text[y.r])
    [] OTHER -> WrittenLeaf(y)

LEMMA WrittenExists ==
  \E g : g = [y \in Predicate |-> WrittenBody(y, g)]
<1> DEFINE Upto(m, g) == g = [y \in Nested(Leaf, m) |-> WrittenBody(y, g)]
           N == {m \in Nat : \E g : Upto(m, g)}
<1>1. 0 \in N
  <2> DEFINE h == [y \in Leaf |-> WrittenBody(y, <<>>)]
  <2>1. ASSUME NEW y \in Leaf PROVE h[y] = WrittenBody(y, h)
    <3>1. y.k \in LeafKind
      BY LeafIs
    <3>2. WrittenBody(y, <<>>) = WrittenBody(y, h)
      <4> HIDE DEF h
      <4> QED
        BY <3>1 DEF WrittenBody, LeafKind, IsJunction
    <3> QED
      BY <3>2
  <2>2. h = [y \in Leaf |-> h[y]]
    OBVIOUS
  <2>3. Nested(Leaf, 0) = Leaf
    BY NestedIs
  <2> HIDE DEF h
  <2>4. h = [y \in Leaf |-> WrittenBody(y, h)]
    BY <2>1, <2>2
  <2>5. Upto(0, h)
    BY <2>3, <2>4
  <2> HIDE DEF Upto
  <2> QED
    BY <2>5
<1>2. ASSUME NEW m \in N \cap Nat PROVE m + 1 \in N
  <2>1. PICK g : Upto(m, g)
    BY DEF N
  <2> DEFINE h == [y \in Nested(Leaf, m + 1) |-> WrittenBody(y, g)]
  <2>2. ASSUME NEW y \in Nested(Leaf, m) PROVE h[y] = g[y]
    <3>1. y \in Nested(Leaf, m + 1)
      BY NestedGrows
    <3>2. h[y] = WrittenBody(y, g)
      BY <3>1
    <3>3. g[y] = WrittenBody(y, g)
      <4> HIDE DEF h
      <4> QED
        BY <2>1
    <3> QED
      BY <3>2, <3>3
  <2>3. ASSUME NEW y \in Nested(Leaf, m + 1) PROVE h[y] = WrittenBody(y, h)
    <3>1. h[y] = WrittenBody(y, g)
      OBVIOUS
    <3> HIDE DEF h, Upto
    <3>2. /\ y.k \in {"test", "not"} => h[y.x] = g[y.x]
          /\ IsJunction(y) => h[y.l] = g[y.l] /\ h[y.r] = g[y.r]
      BY <2>2, PartsBelow
    <3>3. WrittenBody(y, g) = WrittenBody(y, h)
      BY <3>2 DEF WrittenBody, IsJunction
    <3> QED
      BY <3>1, <3>3
  <2>4. h = [y \in Nested(Leaf, m + 1) |-> h[y]]
    OBVIOUS
  <2> HIDE DEF h
  <2>5. Upto(m + 1, h)
    BY <2>3, <2>4
  <2> HIDE DEF Upto
  <2> QED
    BY <2>5
<1>3. Nat \subseteq N
  <2> HIDE DEF N
  <2> QED
    BY <1>1, <1>2, AllNumbers
<1>4. MaxSize \in Nat
  BY RewriteAssumption
<1>5. PICK g : Upto(MaxSize, g)
  <2> HIDE DEF Upto
  <2> QED
    BY <1>3, <1>4
<1> QED
  BY <1>5 DEF Predicate

\* The parsed predicate from its parsed operands.
LEMMA WrittenIs ==
  ASSUME NEW y \in Predicate
  PROVE  /\ y.k \in {"test", "not"} => Written[y] = [y EXCEPT !.x = Written[y.x]]
         /\ IsJunction(y) => Written[y] = Junction(y.k, Written[y.l], Written[y.r])
         /\ y.k \in LeafKind => Written[y] = WrittenLeaf(y)
<1> DEFINE Recurses(g) == g = [z \in Predicate |-> WrittenBody(z, g)]
<1>1. \E g : Recurses(g)
  BY WrittenExists
<1>2. Written = CHOOSE g : Recurses(g)
  BY DEF Written, WrittenBody
<1>3. Recurses(Written)
  <2> HIDE DEF Recurses
  <2> QED
    BY <1>1, <1>2
<1>4. Written[y] = WrittenBody(y, Written)
  BY <1>3
<1> QED
  BY <1>4 DEF WrittenBody, IsJunction, LeafKind, OnField

RequiredFieldsBody(y, fields) ==
  CASE y.k \in {"test", "not"} -> fields[y.x]
    [] IsJunction(y) -> fields[y.l] \cup fields[y.r]
    [] OnField(y) -> {y.f}
    [] y.k = "lit" -> {}

LEMMA RequiredFieldsExists ==
  \E g : g = [y \in Predicate |-> RequiredFieldsBody(y, g)]
<1> DEFINE Upto(m, g) == g = [y \in Nested(Leaf, m) |-> RequiredFieldsBody(y, g)]
           N == {m \in Nat : \E g : Upto(m, g)}
<1>1. 0 \in N
  <2> DEFINE h == [y \in Leaf |-> RequiredFieldsBody(y, <<>>)]
  <2>1. ASSUME NEW y \in Leaf PROVE h[y] = RequiredFieldsBody(y, h)
    <3>1. y.k \in LeafKind
      BY LeafIs
    <3>2. RequiredFieldsBody(y, <<>>) = RequiredFieldsBody(y, h)
      <4> HIDE DEF h
      <4> QED
        BY <3>1 DEF RequiredFieldsBody, LeafKind, IsJunction, OnField
    <3> QED
      BY <3>2
  <2>2. h = [y \in Leaf |-> h[y]]
    OBVIOUS
  <2>3. Nested(Leaf, 0) = Leaf
    BY NestedIs
  <2> HIDE DEF h
  <2>4. h = [y \in Leaf |-> RequiredFieldsBody(y, h)]
    BY <2>1, <2>2
  <2>5. Upto(0, h)
    BY <2>3, <2>4
  <2> HIDE DEF Upto
  <2> QED
    BY <2>5
<1>2. ASSUME NEW m \in N \cap Nat PROVE m + 1 \in N
  <2>1. PICK g : Upto(m, g)
    BY DEF N
  <2> DEFINE h == [y \in Nested(Leaf, m + 1) |-> RequiredFieldsBody(y, g)]
  <2>2. ASSUME NEW y \in Nested(Leaf, m) PROVE h[y] = g[y]
    <3>1. y \in Nested(Leaf, m + 1)
      BY NestedGrows
    <3>2. h[y] = RequiredFieldsBody(y, g)
      BY <3>1
    <3>3. g[y] = RequiredFieldsBody(y, g)
      <4> HIDE DEF h
      <4> QED
        BY <2>1
    <3> QED
      BY <3>2, <3>3
  <2>3. ASSUME NEW y \in Nested(Leaf, m + 1) PROVE h[y] = RequiredFieldsBody(y, h)
    <3>1. h[y] = RequiredFieldsBody(y, g)
      OBVIOUS
    <3> HIDE DEF h, Upto
    <3>2. /\ y.k \in {"test", "not"} => h[y.x] = g[y.x]
          /\ IsJunction(y) => h[y.l] = g[y.l] /\ h[y.r] = g[y.r]
      BY <2>2, PartsBelow
    <3>3. RequiredFieldsBody(y, g) = RequiredFieldsBody(y, h)
      BY <3>2, PartsBelow DEF RequiredFieldsBody, IsJunction, OnField, LeafKind, CompoundKind
    <3> QED
      BY <3>1, <3>3
  <2>4. h = [y \in Nested(Leaf, m + 1) |-> h[y]]
    OBVIOUS
  <2> HIDE DEF h
  <2>5. Upto(m + 1, h)
    BY <2>3, <2>4
  <2> HIDE DEF Upto
  <2> QED
    BY <2>5
<1>3. Nat \subseteq N
  <2> HIDE DEF N
  <2> QED
    BY <1>1, <1>2, AllNumbers
<1>4. MaxSize \in Nat
  BY RewriteAssumption
<1>5. PICK g : Upto(MaxSize, g)
  <2> HIDE DEF Upto
  <2> QED
    BY <1>3, <1>4
<1> QED
  BY <1>5 DEF Predicate

\* The fields of a predicate from those of its operands.
LEMMA RequiredFieldsIs ==
  ASSUME NEW y \in Predicate
  PROVE  /\ y.k \in {"test", "not"} => RequiredFields[y] = RequiredFields[y.x]
         /\ IsJunction(y) => RequiredFields[y] = RequiredFields[y.l] \cup RequiredFields[y.r]
         /\ OnField(y) => RequiredFields[y] = {y.f}
         /\ y.k = "lit" => RequiredFields[y] = {}
<1> DEFINE Recurses(g) == g = [z \in Predicate |-> RequiredFieldsBody(z, g)]
<1>1. \E g : Recurses(g)
  BY RequiredFieldsExists
<1>2. RequiredFields = CHOOSE g : Recurses(g)
  BY DEF RequiredFields, RequiredFieldsBody
<1>3. Recurses(RequiredFields)
  <2> HIDE DEF Recurses
  <2> QED
    BY <1>1, <1>2
<1>4. RequiredFields[y] = RequiredFieldsBody(y, RequiredFields)
  BY <1>3
<1> QED
  BY <1>4 DEF RequiredFieldsBody, IsJunction, LeafKind, OnField

\* Parsing a single predicate keeps its kind and its field.
LEMMA WrittenLeafIs ==
  ASSUME NEW x \in Leaf
  PROVE  /\ WrittenLeaf(x) \in Leaf /\ WrittenLeaf(x).k = x.k
         /\ OnField(x) => WrittenLeaf(x).f = x.f
<1>1. \A v \in Value : WrittenValue(v) \in Value
  BY RewriteAssumption DEF WrittenValue, Value, Kind, String
<1>2. CASE x \in [k : {"lit"}, t : Truths] \cup [k : {"null"}, f : Field, neg : BOOLEAN]
  BY <1>2 DEF WrittenLeaf, OnField, Leaf
<1>3. CASE x \in [k : {"cmp"}, f : Field, op : Operator, v : Value]
  <2>1. WrittenLeaf(x) = [x EXCEPT !.v = WrittenValue(x.v)] /\ WrittenValue(x.v) \in Value
    BY <1>1, <1>3 DEF WrittenLeaf
  <2> QED
    BY <1>3, <2>1 DEF Leaf
<1>4. CASE x \in [k : {"distinct"}, f : Field, v : Value, neg : BOOLEAN]
  <2>1. WrittenLeaf(x) = [x EXCEPT !.v = WrittenValue(x.v)] /\ WrittenValue(x.v) \in Value
    BY <1>1, <1>4 DEF WrittenLeaf
  <2> QED
    BY <1>4, <2>1 DEF Leaf
<1>5. CASE x \in [k : {"between"}, f : Field, lo : Value, hi : Value, neg : BOOLEAN]
  <2>1. /\ WrittenLeaf(x) = [x EXCEPT !.lo = WrittenValue(x.lo), !.hi = WrittenValue(x.hi)]
        /\ WrittenValue(x.lo) \in Value /\ WrittenValue(x.hi) \in Value
    BY <1>1, <1>5 DEF WrittenLeaf
  <2> QED
    BY <1>5, <2>1 DEF Leaf
<1>6. CASE x \in [k : {"in"}, f : Field, vs : Seq(Value) \ {<<>>}, neg : BOOLEAN]
  <2> DEFINE texts == [i \in DOMAIN x.vs |-> WrittenValue(x.vs[i])]
  <2>1. WrittenLeaf(x) = [x EXCEPT !.vs = texts]
    BY <1>6 DEF WrittenLeaf
  <2>2. x.vs \in Seq(Value) /\ x.vs # <<>>
    BY <1>6
  <2>3. texts \in Seq(Value) /\ texts # <<>>
    <3>1. DOMAIN x.vs = 1..Len(x.vs) /\ Len(x.vs) \in Nat /\ Len(x.vs) # 0
      BY <2>2, LenProperties, EmptySeq
    <3>2. \A i \in 1..Len(x.vs) : x.vs[i] \in Value
      BY <2>2, ElementOfSeq
    <3>3. texts \in [1..Len(x.vs) -> Value]
      BY <1>1, <3>1, <3>2
    <3>4. texts \in Seq(Value) /\ Len(texts) = Len(x.vs)
      <4> HIDE DEF texts
      <4> QED
        BY <3>1, <3>3
    <3> QED
      BY <3>1, <3>4
  <2> HIDE DEF texts
  <2> QED
    BY <1>6, <2>1, <2>3 DEF Leaf
<1> QED
  BY <1>2, <1>3, <1>4, <1>5, <1>6 DEF Leaf

\* The predicates that queries are built to be.
Queried == Nested(Atoms, MaxSize)

LEMMA QueriedIs == Atoms \subseteq Queried /\ Queried \subseteq Predicate
<1>1. Atoms \subseteq Leaf /\ MaxSize \in Nat /\ 0 \in 0..MaxSize
  BY RewriteAssumption
<1>2. Nested(Atoms, 0) = Atoms
  BY <1>1, NestedIs
<1> QED
  BY <1>1, <1>2, NestedMonotone, NestedWithin DEF Queried, Predicate

LEMMA QueriedParts ==
  ASSUME NEW y \in Queried
  PROVE  /\ y \in Predicate
         /\ y.k \in LeafKind => y \in Atoms
         /\ y.k \in CompoundKind => y \in Compound(Queried)
         /\ y.k \in LeafKind \cup CompoundKind
         /\ y.k \in {"test", "not"} => y.x \in Queried
         /\ IsJunction(y) => y.l \in Queried /\ y.r \in Queried
<1>1. \/ y \in Atoms /\ y.k \in LeafKind
      \/ y.k \in CompoundKind /\ y \in Compound(Queried)
  BY RewriteAssumption, Parts DEF Queried
<1>2. CASE y \in Atoms /\ y.k \in LeafKind
  BY <1>2, QueriedIs, KindsDiffer DEF LeafKind, IsJunction
<1>3. CASE y.k \in CompoundKind /\ y \in Compound(Queried)
  BY <1>3, QueriedIs, CompoundIs, KindsDiffer
<1> QED
  BY <1>1, <1>2, <1>3

\* What holds of the leaves in L, and of what is made of predicates of which it
\* holds, holds of every predicate over L.
LEMMA AllOver ==
  ASSUME NEW L, L \subseteq Leaf, NEW P, L \subseteq P,
         \A y \in Nested(L, MaxSize) :
           /\ y.k \in {"test", "not"} /\ y.x \in P /\ y.x \in Nested(L, MaxSize) => y \in P
           /\ /\ IsJunction(y) /\ y.l \in P /\ y.r \in P
              /\ y.l \in Nested(L, MaxSize) /\ y.r \in Nested(L, MaxSize)
              => y \in P
  PROVE  Nested(L, MaxSize) \subseteq P
<1>1. ASSUME NEW y \in Compound(P \cap Nested(L, MaxSize)) \cap Nested(L, MaxSize)
      PROVE  y \in P
  <2>1. /\ y.k \in CompoundKind
        /\ y.k \in {"test", "not"} => y.x \in P \cap Nested(L, MaxSize)
        /\ IsJunction(y) => y.l \in P \cap Nested(L, MaxSize) /\ y.r \in P \cap Nested(L, MaxSize)
    BY CompoundIs
  <2> QED
    BY <2>1 DEF CompoundKind, IsJunction
<1> QED
  BY <1>1, RewriteAssumption, AllPredicates

\* The parsed predicate is one, of the same depth and over the same fields.
LEMMA WrittenDepth ==
  ASSUME NEW n \in 0..MaxSize, NEW y \in Nested(Leaf, n)
  PROVE  Written[y] \in Nested(Leaf, n) /\ Written[y].k = y.k
<1> DEFINE N == {m \in Nat : m <= MaxSize =>
                   \A z \in Nested(Leaf, m) : Written[z] \in Nested(Leaf, m) /\ Written[z].k = z.k}
<1>1. MaxSize \in Nat
  BY RewriteAssumption
<1>2. ASSUME NEW m \in Nat, m <= MaxSize PROVE Nested(Leaf, m) \subseteq Predicate
  BY <1>1, <1>2, NestedMonotone DEF Predicate
<1>3. ASSUME NEW m \in Nat, NEW z \in Leaf PROVE z \in Nested(Leaf, m) /\ z.k \in LeafKind
  BY <1>3, NestedIs, NestedMonotone, LeafIs
<1>4. ASSUME NEW z \in Leaf PROVE Written[z] \in Leaf /\ Written[z].k = z.k
  <2>1. z \in Predicate /\ z.k \in LeafKind
    BY <1>1, <1>3 DEF Predicate
  <2> QED
    BY <2>1, WrittenIs, WrittenLeafIs
<1>5. 0 \in N
  BY <1>4, NestedIs
<1>6. ASSUME NEW m \in N \cap Nat PROVE m + 1 \in N
  <2> SUFFICES ASSUME m + 1 <= MaxSize, NEW z \in Nested(Leaf, m + 1)
               PROVE  Written[z] \in Nested(Leaf, m + 1) /\ Written[z].k = z.k
    OBVIOUS
  <2>1. \A x \in Nested(Leaf, m) : Written[x] \in Nested(Leaf, m)
    BY <1>1
  <2>2. z \in Predicate /\ Nested(Leaf, m + 1) = Leaf \cup Compound(Nested(Leaf, m))
    BY <1>2, NestedIs
  <2>3. CASE z \in Leaf
    BY <1>4, <2>2, <2>3
  <2>4. CASE z \in [k : {"test"}, x : Nested(Leaf, m), truth : Truths, neg : BOOLEAN]
    <3>1. Written[z] = [z EXCEPT !.x = Written[z.x]]
      BY <2>2, <2>4, WrittenIs
    <3>2. Written[z] \in Compound(Nested(Leaf, m)) /\ Written[z].k = z.k
      BY <2>1, <2>4, <3>1 DEF Compound
    <3> QED
      BY <2>2, <3>2
  <2>5. CASE z \in [k : {"not"}, x : Nested(Leaf, m)]
    <3>1. Written[z] = [z EXCEPT !.x = Written[z.x]]
      BY <2>2, <2>5, WrittenIs
    <3>2. Written[z] \in Compound(Nested(Leaf, m)) /\ Written[z].k = z.k
      BY <2>1, <2>5, <3>1 DEF Compound
    <3> QED
      BY <2>2, <3>2
  <2>6. CASE z \in [k : {"AND", "OR"}, l : Nested(Leaf, m), r : Nested(Leaf, m)]
    <3>1. Written[z] = Junction(z.k, Written[z.l], Written[z.r])
      BY <2>2, <2>6, WrittenIs DEF IsJunction
    <3>2. Written[z] \in Compound(Nested(Leaf, m)) /\ Written[z].k = z.k
      BY <2>1, <2>6, <3>1 DEF Compound, Junction
    <3> QED
      BY <2>2, <3>2
  <2> QED
    BY <2>2, <2>3, <2>4, <2>5, <2>6 DEF Compound
<1> HIDE DEF N
<1>7. n \in N
  BY <1>5, <1>6, AllNumbers
<1> QED
  BY <1>7 DEF N

LEMMA WrittenIsPredicate ==
  ASSUME NEW y \in Predicate PROVE Written[y] \in Predicate /\ Written[y].k = y.k
BY RewriteAssumption, WrittenDepth DEF Predicate

LEMMA WrittenFields ==
  ASSUME NEW y \in Predicate
  PROVE  RequiredFields[Written[y]] = RequiredFields[y] /\ RequiredFields[y] \subseteq Field
<1> DEFINE P == {z \in Predicate : /\ RequiredFields[Written[z]] = RequiredFields[z]
                                  /\ RequiredFields[z] \subseteq Field}
<1>1. ASSUME NEW z \in Leaf PROVE z \in P
  <2>1. z \in Predicate /\ z.k \in LeafKind
    BY RewriteAssumption, NestedIs, NestedMonotone, LeafIs DEF Predicate
  <2>2. Written[z] = WrittenLeaf(z) /\ Written[z] \in Predicate
    BY <2>1, WrittenIs, WrittenIsPredicate
  <2>3. WrittenLeaf(z).k = z.k /\ OnField(z) => WrittenLeaf(z).f = z.f
    BY WrittenLeafIs
  <2>4. CASE z.k = "lit"
    BY <2>1, <2>2, <2>3, <2>4, WrittenLeafIs, RequiredFieldsIs
  <2>5. CASE OnField(z)
    <3>1. OnField(Written[z]) /\ Written[z].f = z.f
      BY <2>2, <2>5, WrittenLeafIs DEF OnField
    <3>2. z.f \in Field
      BY <2>5, LeafIs DEF OnField
    <3>3. RequiredFields[z] = {z.f}
      BY <2>1, <2>5, RequiredFieldsIs
    <3>4. RequiredFields[Written[z]] = {z.f}
      BY <2>2, <3>1, RequiredFieldsIs
    <3> QED
      BY <2>1, <3>2, <3>3, <3>4
  <2> QED
    BY <2>1, <2>4, <2>5 DEF LeafKind, OnField
<1>2. ASSUME NEW z \in Predicate, z.k \in {"test", "not"}, z.x \in P PROVE z \in P
  <2>1. Written[z] = [z EXCEPT !.x = Written[z.x]] /\ Written[z] \in Predicate /\ Written[z].k = z.k
    BY <1>2, WrittenIs, WrittenIsPredicate
  <2>2. Written[z].x = Written[z.x]
    <3>1. z \in Compound(Predicate)
      BY <1>2, RewriteAssumption, Parts DEF Predicate, LeafKind
    <3> QED
      BY <1>2, <2>1, <3>1 DEF Compound
  <2>3. RequiredFields[z] = RequiredFields[z.x]
    BY <1>2, RequiredFieldsIs
  <2>4. RequiredFields[Written[z]] = RequiredFields[Written[z.x]]
    BY <1>2, <2>1, <2>2, RequiredFieldsIs
  <2> QED
    BY <1>2, <2>3, <2>4
<1>3. ASSUME NEW z \in Predicate, IsJunction(z), z.l \in P, z.r \in P PROVE z \in P
  <2>1. Written[z] = Junction(z.k, Written[z.l], Written[z.r]) /\ Written[z] \in Predicate
    BY <1>3, WrittenIs, WrittenIsPredicate
  <2>2. Written[z].l = Written[z.l] /\ Written[z].r = Written[z.r] /\ IsJunction(Written[z])
    BY <1>3, <2>1 DEF Junction, IsJunction
  <2>3. RequiredFields[z] = RequiredFields[z.l] \cup RequiredFields[z.r]
    BY <1>3, RequiredFieldsIs
  <2>4. RequiredFields[Written[z]] = RequiredFields[Written[z.l]] \cup RequiredFields[Written[z.r]]
    BY <2>1, <2>2, RequiredFieldsIs
  <2> QED
    BY <1>3, <2>3, <2>4
<1> HIDE DEF P
<1>4. Predicate \subseteq P
  BY <1>1, <1>2, <1>3, AllOver DEF Predicate
<1> QED
  BY <1>4 DEF P

\* What an enumeration decides is parsed as it is resolved.
LEMMA WrittenSame ==
  ASSUME WrittenAlike, NEW y \in Queried, RequiredFields[y] \subseteq Enumerated
  PROVE  Written[y] = y
<1> DEFINE P == {z \in Queried : RequiredFields[z] \subseteq Enumerated => Written[z] = z}
<1>1. ASSUME NEW z \in Atoms PROVE z \in P
  <2>1. z \in Queried /\ z \in Predicate /\ z \in Leaf /\ z.k \in LeafKind
    BY QueriedIs, RewriteAssumption, LeafIs
  <2>2. Written[z] = WrittenLeaf(z)
    BY <2>1, WrittenIs
  <2>3. CASE z.k = "lit"
    BY <2>1, <2>2, <2>3 DEF WrittenLeaf
  <2>4. CASE OnField(z)
    <3>1. RequiredFields[z] = {z.f}
      BY <2>1, <2>4, RequiredFieldsIs
    <3> QED
      BY <2>1, <2>2, <2>4, <3>1 DEF WrittenAlike
  <2> QED
    BY <2>1, <2>3, <2>4 DEF LeafKind, OnField
<1>2. ASSUME NEW z \in Queried, z.k \in {"test", "not"}, z.x \in P PROVE z \in P
  <2>1. z \in Predicate /\ z \in Compound(Queried)
    BY <1>2, QueriedParts DEF CompoundKind
  <2>2. RequiredFields[z] = RequiredFields[z.x] /\ Written[z] = [z EXCEPT !.x = Written[z.x]]
    BY <1>2, <2>1, WrittenIs, RequiredFieldsIs
  <2>3. [z EXCEPT !.x = z.x] = z
    BY <1>2, <2>1 DEF Compound
  <2> QED
    BY <1>2, <2>2, <2>3
<1>3. ASSUME NEW z \in Queried, IsJunction(z), z.l \in P, z.r \in P PROVE z \in P
  <2>1. z \in Predicate /\ z \in Compound(Queried)
    BY <1>3, QueriedParts DEF CompoundKind, IsJunction
  <2>2. /\ RequiredFields[z] = RequiredFields[z.l] \cup RequiredFields[z.r]
        /\ Written[z] = Junction(z.k, Written[z.l], Written[z.r])
    BY <1>3, <2>1, WrittenIs, RequiredFieldsIs
  <2>3. Junction(z.k, z.l, z.r) = z
    BY <1>3, <2>1, CompoundIs
  <2> QED
    BY <1>3, <2>2, <2>3
<1> HIDE DEF P
<1>4. Queried \subseteq P
  <2>1. Atoms \subseteq Leaf /\ Atoms \subseteq P
    BY <1>1, RewriteAssumption
  <2> QED
    BY <1>2, <1>3, <2>1, AllOver DEF Queried
<1> QED
  BY <1>4 DEF P

\* The truth of a predicate is that of its own fields' values.
LEMMA EvaluateLocal ==
  ASSUME NEW row, NEW partial, NEW y \in Predicate,
         \A f \in RequiredFields[y] : partial[f] = row[f]
  PROVE  Evaluate(y, partial) = Evaluate(y, row)
<1> DEFINE P == {z \in Predicate : (\A f \in RequiredFields[z] : partial[f] = row[f])
                                     => Evaluate(z, partial) = Evaluate(z, row)}
<1>1. ASSUME NEW z \in Leaf PROVE z \in P
  <2>1. z \in Predicate /\ z.k \in LeafKind
    BY RewriteAssumption, NestedIs, NestedMonotone, LeafIs DEF Predicate
  <2>2. Evaluate(z, partial) = Tested(z, partial)
    BY <2>1, EvaluateIs
  <2>3. Evaluate(z, row) = Tested(z, row)
    BY <2>1, EvaluateIs
  <2>4. CASE z.k = "lit"
    BY <2>1, <2>2, <2>3, <2>4 DEF Tested
  <2>5. CASE OnField(z)
    <3>1. RequiredFields[z] = {z.f}
      BY <2>1, <2>5, RequiredFieldsIs
    <3>2. partial[z.f] = row[z.f] => Tested(z, partial) = Tested(z, row)
      BY DEF Tested
    <3> QED
      BY <2>1, <2>2, <2>3, <3>1, <3>2
  <2> QED
    BY <2>1, <2>4, <2>5 DEF LeafKind, OnField
<1>2. ASSUME NEW z \in Predicate, z.k \in {"test", "not"}, z.x \in P PROVE z \in P
  <2>1. RequiredFields[z] = RequiredFields[z.x]
    BY <1>2, RequiredFieldsIs
  <2>2. CASE z.k = "test"
    <3>1. Evaluate(z, partial) = Bool3((Evaluate(z.x, partial) = z.truth) # z.neg)
      BY <2>2, EvaluateIs
    <3>2. Evaluate(z, row) = Bool3((Evaluate(z.x, row) = z.truth) # z.neg)
      BY <2>2, EvaluateIs
    <3> QED
      BY <1>2, <2>1, <3>1, <3>2
  <2>3. CASE z.k = "not"
    <3>1. Evaluate(z, partial) = Not3(Evaluate(z.x, partial))
      BY <2>3, EvaluateIs
    <3>2. Evaluate(z, row) = Not3(Evaluate(z.x, row))
      BY <2>3, EvaluateIs
    <3> QED
      BY <1>2, <2>1, <3>1, <3>2
  <2> QED
    BY <1>2, <2>2, <2>3
<1>3. ASSUME NEW z \in Predicate, IsJunction(z), z.l \in P, z.r \in P PROVE z \in P
  <2>1. RequiredFields[z] = RequiredFields[z.l] \cup RequiredFields[z.r]
    BY <1>3, RequiredFieldsIs
  <2>2. Evaluate(z, partial) = Connect(z.k, Evaluate(z.l, partial), Evaluate(z.r, partial))
    BY <1>3, EvaluateIs
  <2>3. Evaluate(z, row) = Connect(z.k, Evaluate(z.l, row), Evaluate(z.r, row))
    BY <1>3, EvaluateIs
  <2> QED
    BY <1>3, <2>1, <2>2, <2>3
<1> HIDE DEF P
<1>4. Predicate \subseteq P
  BY <1>1, <1>2, <1>3, AllOver DEF Predicate
<1> QED
  BY <1>4 DEF P

\* The terms of the parsed query are its terms, parsed.
LEMMA FlattenWritten ==
  ASSUME NEW y \in Queried
  PROVE  /\ Flatten("AND", y) \in Seq(Queried)
         /\ Flatten("AND", Written[y]) \in Seq(Predicate)
         /\ ToSet(Flatten("AND", Written[y])) = {Written[u] : u \in ToSet(Flatten("AND", y))}
<1> DEFINE Kept(z) == /\ Flatten("AND", z) \in Seq(Queried)
                      /\ Flatten("AND", Written[z]) \in Seq(Predicate)
                      /\ ToSet(Flatten("AND", Written[z]))
                           = {Written[u] : u \in ToSet(Flatten("AND", z))}
           P == {z \in Queried : Kept(z)}
<1>1. ASSUME NEW z \in Queried, z.k # "AND" PROVE z \in P
  <2>1. z \in Predicate /\ Written[z] \in Predicate /\ Written[z].k # "AND"
    BY <1>1, QueriedIs, WrittenIsPredicate
  <2>2. Flatten("AND", z) = <<z>> /\ Flatten("AND", Written[z]) = <<Written[z]>>
    BY <1>1, <2>1, FlattenIs
  <2>3. ToSet(<<z>>) = {z} /\ ToSet(<<Written[z]>>) = {Written[z]}
    BY DEF ToSet
  <2>4. <<z>> \in Seq(Queried) /\ <<Written[z]>> \in Seq(Predicate)
    BY <2>1
  <2>5. Kept(z)
    BY <2>2, <2>3, <2>4
  <2> QED
    BY <2>5
<1>2. ASSUME NEW z \in Queried, z.k = "AND", z.l \in P, z.r \in P PROVE z \in P
  <2> DEFINE a == Flatten("AND", z.l)
             b == Flatten("AND", z.r)
             c == Flatten("AND", Written[z.l])
             d == Flatten("AND", Written[z.r])
  <2>1. /\ a \in Seq(Queried) /\ c \in Seq(Predicate) /\ ToSet(c) = {Written[u] : u \in ToSet(a)}
        /\ b \in Seq(Queried) /\ d \in Seq(Predicate) /\ ToSet(d) = {Written[u] : u \in ToSet(b)}
    BY <1>2
  <2>2. z \in Predicate /\ IsJunction(z) /\ Written[z] \in Predicate /\ Written[z].k = "AND"
    BY <1>2, QueriedIs, WrittenIsPredicate DEF IsJunction
  <2>3. Written[z] = Junction(z.k, Written[z.l], Written[z.r])
    BY <2>2, WrittenIs
  <2>4. Written[z].l = Written[z.l] /\ Written[z].r = Written[z.r]
    BY <2>3 DEF Junction
  <2>5. Flatten("AND", z) = a \o b
    BY <1>2, <2>2, FlattenIs
  <2>6. Flatten("AND", Written[z]) = c \o d
    BY <2>2, <2>4, FlattenIs
  <2> HIDE DEF a, b, c, d, P
  <2>7. ToSet(a \o b) = ToSet(a) \cup ToSet(b)
    BY <2>1, ToSetConcat
  <2>8. ToSet(c \o d) = ToSet(c) \cup ToSet(d)
    BY <2>1, ToSetConcat
  <2>9. a \o b \in Seq(Queried) /\ c \o d \in Seq(Predicate)
    BY <2>1
  <2>10. ToSet(c \o d) = {Written[u] : u \in ToSet(a \o b)}
    BY <2>1, <2>7, <2>8
  <2>11. Kept(z)
    BY <2>5, <2>6, <2>9, <2>10
  <2> HIDE DEF Kept
  <2> QED
    BY <2>11 DEF P
<1>3. Atoms \subseteq P
  <2>1. ASSUME NEW z \in Atoms PROVE z \in Queried /\ z.k # "AND"
    <3>1. z \in Queried /\ z.k \in LeafKind
      BY QueriedIs, RewriteAssumption, LeafIs
    <3> QED
      BY <3>1 DEF LeafKind
  <2> HIDE DEF P
  <2> QED
    BY <1>1, <2>1
<1> HIDE DEF Kept
<1>4. Queried \subseteq P
  <2> HIDE DEF P
  <2>1. \A z \in Nested(Atoms, MaxSize) :
          /\ z.k \in {"test", "not"} /\ z.x \in P /\ z.x \in Nested(Atoms, MaxSize) => z \in P
          /\ /\ IsJunction(z) /\ z.l \in P /\ z.r \in P
             /\ z.l \in Nested(Atoms, MaxSize) /\ z.r \in Nested(Atoms, MaxSize)
             => z \in P
    BY <1>1, <1>2 DEF IsJunction, Queried
  <2> QED
    BY <1>3, <2>1, RewriteAssumption, AllOver DEF Queried
<1>5. Kept(y)
  BY <1>4
<1> QED
  BY <1>5 DEF Kept

\* A query of well typed predicates is TRUE of a row where all its terms are.
LEMMA AcceptedByTerms ==
  ASSUME Atoms \subseteq WellTyped, NEW y \in Queried, NEW row \in Row
  PROVE  Accepts(y, row) <=> \A u \in ToSet(Flatten("AND", y)) : Accepts(u, row)
<1> DEFINE s == Flatten("AND", y)
           S == TruthsOf(s, row)
<1>1. y \in Sound
  BY RewriteAssumption, NestedWithin DEF Queried, Sound
<1>2. s \in Seq(Sound) /\ s # <<>> /\ Joint("AND", S) = Evaluate(y, row)
  BY <1>1, FlattenKeeps
<1>3. S \in SUBSET Truths
  BY <1>2, TruthsOfType
<1>4. S = {Evaluate(u, row) : u \in ToSet(s)}
  BY DEF TruthsOf
<1> HIDE DEF s, S
<1>5. Joint("AND", S) = "T" <=> \A t \in S : t = "T"
  BY <1>3 DEF Joint, Decider, Truths
<1> QED
  BY <1>2, <1>4, <1>5 DEF Accepts, s

\* What the parsed terms with these fields say of the acquired fields is what
\* the query's own say of the row.
LEMMA EarlyTerm ==
  ASSUME WrittenAlike, NEW y \in Queried, NEW row \in Row, NEW acquired \in SUBSET Enumerated,
         NEW t \in StagePlan(Written[y]).terms, t[2] \subseteq acquired
  PROVE  /\ t[1] \in ToSet(Flatten("AND", y))
         /\ Accepts(t[1], Acquired(row, acquired)) <=> Accepts(t[1], row)
<1> DEFINE terms == ToSet(Flatten("AND", Written[y]))
<1>1. /\ t[1] \in terms /\ t[2] = RequiredFields[t[1]]
      /\ RequiredFields[t[1]] \subseteq Enumerated
  BY DEF StagePlan
<1>2. PICK u \in ToSet(Flatten("AND", y)) : t[1] = Written[u]
  BY <1>1, FlattenWritten
<1>3. u \in Queried /\ u \in Predicate
  <2>1. Flatten("AND", y) \in Seq(Queried)
    BY FlattenWritten
  <2>2. ToSet(Flatten("AND", y)) \subseteq Queried
    BY <2>1, ToSetOf
  <2> QED
    BY <2>2, QueriedIs
<1>4. RequiredFields[u] \subseteq Field /\ RequiredFields[t[1]] = RequiredFields[u]
  BY <1>2, <1>3, WrittenFields
<1>5. t[1] = u
  BY <1>1, <1>2, <1>3, <1>4, WrittenSame
<1>6. \A f \in RequiredFields[u] : Acquired(row, acquired)[f] = row[f]
  BY <1>1, <1>4 DEF Acquired
<1>7. Evaluate(u, Acquired(row, acquired)) = Evaluate(u, row)
  BY <1>3, <1>6, EvaluateLocal
<1> QED
  BY <1>5, <1>7 DEF Accepts

LEMMA StagesDecide ==
  ASSUME Atoms \subseteq WellTyped, WrittenAlike, NEW y \in Queried, NEW row \in Row,
         NEW acquired \in SUBSET Enumerated
  PROVE  LET plan == StagePlan(Written[y])
         IN /\ RejectsAtEnumeration(plan, row, acquired) => ~Accepts(y, row)
            /\ MatchesAtEnumeration(plan, row, acquired) => Accepts(y, row)
<1> DEFINE plan == StagePlan(Written[y])
<1>1. ASSUME RejectsAtEnumeration(plan, row, acquired) PROVE ~Accepts(y, row)
  <2>1. PICK t \in plan.terms : t[2] \subseteq acquired /\ ~Accepts(t[1], Acquired(row, acquired))
    BY <1>1 DEF RejectsAtEnumeration
  <2>2. t[1] \in ToSet(Flatten("AND", y)) /\ ~Accepts(t[1], row)
    BY <2>1, EarlyTerm
  <2> QED
    BY <2>2, AcceptedByTerms
<1>2. ASSUME MatchesAtEnumeration(plan, row, acquired) PROVE Accepts(y, row)
  <2> SUFFICES ASSUME NEW u \in ToSet(Flatten("AND", y)) PROVE Accepts(u, row)
    BY AcceptedByTerms
  <2>1. u \in Queried
    <3>1. Flatten("AND", y) \in Seq(Queried)
      BY FlattenWritten
    <3>2. ToSet(Flatten("AND", y)) \subseteq Queried
      BY <3>1, ToSetOf
    <3> QED
      BY <3>2
  <2> DEFINE w == Written[u]
             t == <<w, RequiredFields[w]>>
  <2>2. w \in ToSet(Flatten("AND", Written[y]))
    BY FlattenWritten
  <2>3. RequiredFields[w] \subseteq Enumerated /\ t \in plan.terms
    BY <1>2, <2>2 DEF MatchesAtEnumeration, StagePlan
  <2>4. t[2] \subseteq acquired /\ Accepts(t[1], Acquired(row, acquired))
    BY <1>2, <2>3 DEF MatchesAtEnumeration
  <2>5. Accepts(w, row)
    BY <2>3, <2>4, EarlyTerm
  <2>6. w = u
    BY <2>1, <2>3, QueriedIs, WrittenFields, WrittenSame
  <2> QED
    BY <2>5, <2>6
<1> QED
  BY <1>1, <1>2

\* The parser's query is made of single predicates: one more NOT, test or
\* connective each time.
Grown == origin \in Nested(Atoms, size - 1) /\ size \in 1..MaxSize

LEMMA GrownKept == Grown /\ [Next]_vars => Grown'
<1> SUFFICES ASSUME Grown, [Next]_vars PROVE Grown'
  OBVIOUS
<1>1. MaxSize \in Nat /\ Atoms \subseteq Leaf
  BY RewriteAssumption
<1>2. origin \in Nested(Atoms, size - 1) /\ size \in 1..MaxSize /\ size - 1 \in Nat
  BY <1>1 DEF Grown
<1>3. ASSUME NEW x \in Compound(Nested(Atoms, size - 1)), Build(x) PROVE Grown'
  <2>1. origin' = x /\ size' = size + 1 /\ size + 1 \in 1..MaxSize
    BY <1>1, <1>2, <1>3 DEF Build
  <2>2. Nested(Atoms, (size - 1) + 1) = Atoms \cup Compound(Nested(Atoms, size - 1))
    BY <1>2, NestedIs
  <2>3. (size - 1) + 1 = size /\ (size + 1) - 1 = size
    BY <1>1, <1>2
  <2>4. x \in Nested(Atoms, (size + 1) - 1)
    BY <2>2, <2>3
  <2> QED
    BY <2>1, <2>4 DEF Grown
<1>4. ASSUME NEW atom \in Atoms, NEW op \in {"AND", "OR"}, Join(op, atom) PROVE Grown'
  <2>1. atom \in Nested(Atoms, size - 1)
    <3>1. 0 \in Nat /\ 0 <= size - 1
      BY <1>1, <1>2
    <3>2. Nested(Atoms, 0) = Atoms
      BY <3>1, NestedIs
    <3> QED
      BY <1>2, <3>1, <3>2, NestedMonotone
  <2>2. /\ Junction(op, origin, atom) \in Compound(Nested(Atoms, size - 1))
        /\ Junction(op, atom, origin) \in Compound(Nested(Atoms, size - 1))
    BY <1>2, <2>1 DEF Junction, Compound
  <2> QED
    BY <1>3, <1>4, <2>2 DEF Join
<1>5. CASE Negate
  <2>1. Not(origin) \in Compound(Nested(Atoms, size - 1))
    BY <1>2 DEF Not, Compound
  <2> QED
    BY <1>3, <1>5, <2>1 DEF Negate
<1>6. ASSUME NEW truth \in Truths, NEW neg \in BOOLEAN, TestTruth(truth, neg) PROVE Grown'
  <2>1. [k |-> "test", x |-> origin, truth |-> truth, neg |-> neg]
          \in Compound(Nested(Atoms, size - 1))
    BY <1>2 DEF Compound
  <2> QED
    BY <1>3, <1>6, <2>1 DEF TestTruth
<1>7. CASE Parsed \/ Pass \/ UNCHANGED vars
  <2>1. UNCHANGED <<origin, size>>
    BY <1>7 DEF Parsed, Pass, vars
  <2> QED
    BY <2>1 DEF Grown
<1> QED
  BY <1>4, <1>5, <1>6, <1>7 DEF Next

LEMMA GrownInit == Init => Grown
<1>1. 0 \in Nat /\ 1 \in 1..MaxSize /\ 1 - 1 = 0
  BY RewriteAssumption
<1> QED
  BY <1>1, NestedIs, RewriteAssumption DEF Init, Grown

LEMMA GrownQueried == Grown => origin \in Queried
<1> SUFFICES ASSUME Grown PROVE origin \in Queried
  OBVIOUS
<1>1. size - 1 \in 0..MaxSize /\ MaxSize \in Nat
  BY RewriteAssumption DEF Grown
<1> QED
  BY <1>1, NestedMonotone, RewriteAssumption DEF Grown, Queried

\* StagesHold, for every row and every query however deep: a video rejected or
\* accepted on the listing alone is one the query rejects or accepts.
THEOREM StagesAreRight ==
  ASSUME Atoms \subseteq WellTyped, WrittenAlike
  PROVE  Spec => []StagesHold
<1>1. Init => Grown
  BY GrownInit
<1>2. Grown /\ [Next]_vars => Grown'
  BY GrownKept
<1>3. Grown => StagesHold
  BY GrownQueried, StagesDecide DEF StagesHold
<1> QED
  BY <1>1, <1>2, <1>3, PTL DEF Spec

-----------------------------------------------------------------------------
(* The constraints of a field *)

ConstraintsOf(x, f) ==
  IF ~OnField(x) \/ x.f # f THEN <<>>
  ELSE CASE x.k = "cmp" /\ ~IsNullValue(x.v) -> <<<<x.op, x.v>>>>
         [] x.k = "between" /\ ~x.neg /\ ~IsNullValue(x.lo) /\ ~IsNullValue(x.hi)
              -> <<<<">=", x.lo>>, <<"<=", x.hi>>>>
         [] OTHER -> <<>>

ConstraintsStep(i, found, s, f) == found \o ConstraintsOf(s[i], f)

LEMMA ConstraintsRuns ==
  ASSUME NEW s, NEW f, Len(s) \in Nat
  PROVE  \E g : /\ g[0] = <<>> /\ \A i \in 1..(Len(s)) : g[i] = ConstraintsStep(i, g[i - 1], s, f)
                /\ Constraints(s, f) = g[Len(s)]
<1> DEFINE Upto(m, g) ==
      g = [i \in 0..m |-> IF i = 0 THEN <<>> ELSE ConstraintsStep(i, g[i - 1], s, f)]
           N == {m \in Nat : \E g : Upto(m, g)}
<1>1. 0 \in N
  <2>1. Upto(0, [i \in 0..0 |-> <<>>])
    OBVIOUS
  <2> HIDE DEF Upto
  <2> QED
    BY <2>1
<1>2. ASSUME NEW m \in N \cap Nat PROVE m + 1 \in N
  <2>1. PICK g : Upto(m, g)
    BY DEF N
  <2> DEFINE h == [i \in 0..(m + 1) |-> IF i <= m THEN g[i] ELSE ConstraintsStep(m + 1, g[m], s, f)]
             k == [i \in 0..(m + 1) |-> IF i = 0 THEN <<>> ELSE ConstraintsStep(i, h[i - 1], s, f)]
  <2>2. ASSUME NEW i \in 0..(m + 1) PROVE h[i] = k[i]
    <3>1. CASE i = 0
      BY <2>1, <3>1
    <3>2. CASE i \in 1..m
      <4>1. i \in 0..m /\ i - 1 \in 0..m /\ i # 0 /\ i - 1 \in 0..(m + 1)
        BY <3>2
      <4>2. h[i] = g[i] /\ h[i - 1] = g[i - 1]
        BY <4>1
      <4>3. g[i] = ConstraintsStep(i, g[i - 1], s, f)
        BY <2>1, <4>1
      <4> HIDE DEF h
      <4> QED
        BY <4>1, <4>2, <4>3
    <3>3. CASE i = m + 1
      <4>1. h[i] = ConstraintsStep(m + 1, g[m], s, f) /\ h[i - 1] = g[m] /\ i # 0
        BY <3>3
      <4> HIDE DEF h
      <4> QED
        BY <3>3, <4>1
    <3> QED
      BY <3>1, <3>2, <3>3
  <2>3. h = [i \in 0..(m + 1) |-> h[i]] /\ k = [i \in 0..(m + 1) |-> k[i]]
    <3>1. h = [i \in 0..(m + 1) |-> h[i]]
      OBVIOUS
    <3> HIDE DEF h
    <3> QED
      BY <3>1
  <2>4. h = k
    <3> HIDE DEF h, k
    <3> QED
      BY <2>2, <2>3
  <2>5. Upto(m + 1, h)
    <3> HIDE DEF h
    <3> QED
      BY <2>4
  <2> HIDE DEF Upto
  <2> QED
    BY <2>5
<1>3. Nat \subseteq N
  <2> HIDE DEF N
  <2> QED
    BY <1>1, <1>2, AllNumbers
<1> DEFINE run == CHOOSE g : Upto(Len(s), g)
<1>4. \E g : Upto(Len(s), g)
  BY <1>3
<1>5. Upto(Len(s), run)
  <2> HIDE DEF Upto
  <2> QED
    BY <1>4
<1>6. Constraints(s, f) = run[Len(s)]
  BY DEF Constraints, ConstraintsStep, ConstraintsOf
<1> HIDE DEF run
<1>7. run[0] = <<>>
  BY <1>5
<1>8. ASSUME NEW i \in 1..(Len(s)) PROVE run[i] = ConstraintsStep(i, run[i - 1], s, f)
  <2>1. i \in 0..(Len(s)) /\ i # 0
    OBVIOUS
  <2> QED
    BY <1>5, <2>1
<1> HIDE DEF Upto
<1> QED
  BY <1>6, <1>7, <1>8

StrongestStep(i, best, s, ops) ==
  LET strict == IF ops = Lower THEN ">" ELSE "<"
      Stronger(c, b) ==
        IF b = <<>> THEN <<c>>
        ELSE IF Holds(strict, c[2], b[1][2]) \/ (c[2] = b[1][2] /\ c[1] = strict)
        THEN <<c>> ELSE b
  IN IF s[i][1] \in ops THEN Stronger(s[i], best) ELSE best

LEMMA StrongestRuns ==
  ASSUME NEW ops, NEW s, Len(s) \in Nat
  PROVE  \E g : /\ g[0] = <<>> /\ \A i \in 1..(Len(s)) : g[i] = StrongestStep(i, g[i - 1], s, ops)
                /\ Strongest(ops, s) = g[Len(s)]
<1> DEFINE Upto(m, g) ==
      g = [i \in 0..m |-> IF i = 0 THEN <<>> ELSE StrongestStep(i, g[i - 1], s, ops)]
           N == {m \in Nat : \E g : Upto(m, g)}
<1>1. 0 \in N
  <2>1. Upto(0, [i \in 0..0 |-> <<>>])
    OBVIOUS
  <2> HIDE DEF Upto
  <2> QED
    BY <2>1
<1>2. ASSUME NEW m \in N \cap Nat PROVE m + 1 \in N
  <2>1. PICK g : Upto(m, g)
    BY DEF N
  <2> DEFINE h == [i \in 0..(m + 1) |-> IF i <= m THEN g[i] ELSE StrongestStep(m + 1, g[m], s, ops)]
             k == [i \in 0..(m + 1) |-> IF i = 0 THEN <<>> ELSE StrongestStep(i, h[i - 1], s, ops)]
  <2>2. ASSUME NEW i \in 0..(m + 1) PROVE h[i] = k[i]
    <3>1. CASE i = 0
      BY <2>1, <3>1
    <3>2. CASE i \in 1..m
      <4>1. i \in 0..m /\ i - 1 \in 0..m /\ i # 0 /\ i - 1 \in 0..(m + 1)
        BY <3>2
      <4>2. h[i] = g[i] /\ h[i - 1] = g[i - 1]
        BY <4>1
      <4>3. g[i] = StrongestStep(i, g[i - 1], s, ops)
        BY <2>1, <4>1
      <4> HIDE DEF h
      <4> QED
        BY <4>1, <4>2, <4>3
    <3>3. CASE i = m + 1
      <4>1. h[i] = StrongestStep(m + 1, g[m], s, ops) /\ h[i - 1] = g[m] /\ i # 0
        BY <3>3
      <4> HIDE DEF h
      <4> QED
        BY <3>3, <4>1
    <3> QED
      BY <3>1, <3>2, <3>3
  <2>3. h = [i \in 0..(m + 1) |-> h[i]] /\ k = [i \in 0..(m + 1) |-> k[i]]
    <3>1. h = [i \in 0..(m + 1) |-> h[i]]
      OBVIOUS
    <3> HIDE DEF h
    <3> QED
      BY <3>1
  <2>4. h = k
    <3> HIDE DEF h, k
    <3> QED
      BY <2>2, <2>3
  <2>5. Upto(m + 1, h)
    <3> HIDE DEF h
    <3> QED
      BY <2>4
  <2> HIDE DEF Upto
  <2> QED
    BY <2>5
<1>3. Nat \subseteq N
  <2> HIDE DEF N
  <2> QED
    BY <1>1, <1>2, AllNumbers
<1> DEFINE run == CHOOSE g : Upto(Len(s), g)
<1>4. \E g : Upto(Len(s), g)
  BY <1>3
<1>5. Upto(Len(s), run)
  <2> HIDE DEF Upto
  <2> QED
    BY <1>4
<1>6. Strongest(ops, s) = run[Len(s)]
  BY DEF Strongest, StrongestStep
<1> HIDE DEF run
<1>7. run[0] = <<>>
  BY <1>5
<1>8. ASSUME NEW i \in 1..(Len(s)) PROVE run[i] = StrongestStep(i, run[i - 1], s, ops)
  <2>1. i \in 0..(Len(s)) /\ i # 0
    OBVIOUS
  <2> QED
    BY <1>5, <2>1
<1> HIDE DEF Upto
<1> QED
  BY <1>6, <1>7, <1>8

\* A constraint comes from a comparison or from an end of a range.
Constraint == Operator \X Value

IsConstraintOf(c, x, f) ==
  /\ OnField(x) /\ x.f = f
  /\ \/ x.k = "cmp" /\ ~IsNullValue(x.v) /\ c = <<x.op, x.v>>
     \/ /\ x.k = "between" /\ ~x.neg /\ ~IsNullValue(x.lo) /\ ~IsNullValue(x.hi)
        /\ c = <<">=", x.lo>> \/ c = <<"<=", x.hi>>

LEMMA ConstraintsOfIs ==
  ASSUME NEW x \in Predicate, NEW f
  PROVE  /\ ConstraintsOf(x, f) \in Seq(Constraint)
         /\ \A c \in ToSet(ConstraintsOf(x, f)) : IsConstraintOf(c, x, f)
<1>1. OnField(x) => x \in Leaf
  <2>1. OnField(x) => x.k \notin CompoundKind
    BY DEF OnField, CompoundKind
  <2> QED
    BY <2>1, RewriteAssumption, Parts DEF Predicate
<1>2. CASE OnField(x) /\ x.f = f /\ x.k = "cmp" /\ ~IsNullValue(x.v)
  <2>1. ConstraintsOf(x, f) = <<<<x.op, x.v>>>>
    BY <1>2 DEF ConstraintsOf
  <2>2. x.op \in Operator /\ x.v \in Value
    BY <1>1, <1>2, LeafIs
  <2>3. <<x.op, x.v>> \in Constraint
    BY <2>2 DEF Constraint
  <2>4. ToSet(<<<<x.op, x.v>>>>) = {<<x.op, x.v>>}
    BY DEF ToSet
  <2> QED
    BY <1>2, <2>1, <2>3, <2>4 DEF IsConstraintOf
<1>3. CASE /\ OnField(x) /\ x.f = f /\ x.k = "between" /\ ~x.neg
           /\ ~IsNullValue(x.lo) /\ ~IsNullValue(x.hi)
  <2>1. ConstraintsOf(x, f) = <<<<">=", x.lo>>, <<"<=", x.hi>>>>
    BY <1>3 DEF ConstraintsOf
  <2>2. x.lo \in Value /\ x.hi \in Value
    BY <1>1, <1>3, LeafIs
  <2>3. <<">=", x.lo>> \in Constraint /\ <<"<=", x.hi>> \in Constraint
    BY <2>2 DEF Constraint, Operator, Lower, Upper
  <2>4. ToSet(<<<<">=", x.lo>>, <<"<=", x.hi>>>>) = {<<">=", x.lo>>, <<"<=", x.hi>>}
    BY DEF ToSet
  <2> QED
    BY <1>3, <2>1, <2>3, <2>4 DEF IsConstraintOf
<1>4. CASE /\ ~(OnField(x) /\ x.f = f /\ x.k = "cmp" /\ ~IsNullValue(x.v))
           /\ ~(/\ OnField(x) /\ x.f = f /\ x.k = "between" /\ ~x.neg
                /\ ~IsNullValue(x.lo) /\ ~IsNullValue(x.hi))
  <2>1. ConstraintsOf(x, f) = <<>>
    BY <1>4 DEF ConstraintsOf
  <2> QED
    BY <2>1 DEF ToSet
<1> QED
  BY <1>2, <1>3, <1>4

\* _comparison_constraint and _between_constraints, over all terms.
LEMMA ConstraintsFrom ==
  ASSUME NEW s \in Seq(Predicate), NEW f
  PROVE  /\ Constraints(s, f) \in Seq(Constraint)
         /\ \A c \in ToSet(Constraints(s, f)) : \E x \in ToSet(s) : IsConstraintOf(c, x, f)
<1>1. Len(s) \in Nat /\ \A i \in 1..Len(s) : s[i] \in Predicate /\ s[i] \in ToSet(s)
  <2>1. DOMAIN s = 1..Len(s) /\ Len(s) \in Nat
    BY LenProperties
  <2>2. \A i \in 1..Len(s) : s[i] \in Predicate
    BY ElementOfSeq
  <2> QED
    BY <2>1, <2>2 DEF ToSet
<1>2. PICK g : /\ g[0] = <<>> /\ \A i \in 1..Len(s) : g[i] = ConstraintsStep(i, g[i - 1], s, f)
               /\ Constraints(s, f) = g[Len(s)]
  BY <1>1, ConstraintsRuns
<1> DEFINE From(t) == /\ t \in Seq(Constraint)
                      /\ \A c \in ToSet(t) : \E x \in ToSet(s) : IsConstraintOf(c, x, f)
           N == {n \in Nat : n <= Len(s) => From(g[n])}
<1>3. 0 \in N
  <2>1. ToSet(<<>>) = {} /\ <<>> \in Seq(Constraint)
    BY DEF ToSet
  <2> QED
    BY <1>2, <2>1
<1>4. ASSUME NEW n \in N \cap Nat PROVE n + 1 \in N
  <2> SUFFICES ASSUME n + 1 <= Len(s) PROVE From(g[n + 1])
    OBVIOUS
  <2>1. n + 1 \in 1..Len(s) /\ (n + 1) - 1 = n /\ n <= Len(s)
    BY <1>1
  <2>2. From(g[n])
    BY <2>1
  <2> DEFINE t == ConstraintsOf(s[n + 1], f)
             x == s[n + 1]
  <2>3. x \in Predicate /\ x \in ToSet(s)
    BY <1>1, <2>1
  <2>4. t \in Seq(Constraint) /\ \A c \in ToSet(t) : IsConstraintOf(c, x, f)
    BY <2>3, ConstraintsOfIs
  <2>5. g[n + 1] = g[n] \o t
    BY <1>2, <2>1 DEF ConstraintsStep
  <2> HIDE DEF t, x, N
  <2>6. ToSet(g[n] \o t) = ToSet(g[n]) \cup ToSet(t) /\ g[n] \o t \in Seq(Constraint)
    BY <2>2, <2>4, ToSetConcat
  <2> QED
    BY <2>2, <2>3, <2>4, <2>5, <2>6
<1> HIDE DEF N, From
<1>5. Len(s) \in N
  BY <1>1, <1>3, <1>4, AllNumbers
<1>6. From(g[Len(s)])
  BY <1>1, <1>5 DEF N
<1> QED
  BY <1>2, <1>6 DEF From

\* _stronger_lower, _stronger_upper: what is kept is one of the constraints.
LEMMA StrongestFrom ==
  ASSUME NEW ops, NEW s \in Seq(Constraint)
  PROVE  \/ Strongest(ops, s) = <<>>
         \/ \E c \in ToSet(s) : c[1] \in ops /\ Strongest(ops, s) = <<c>>
<1>1. Len(s) \in Nat /\ \A i \in 1..Len(s) : s[i] \in ToSet(s)
  <2>1. DOMAIN s = 1..Len(s) /\ Len(s) \in Nat
    BY LenProperties
  <2> QED
    BY <2>1 DEF ToSet
<1>2. PICK g : /\ g[0] = <<>> /\ \A i \in 1..Len(s) : g[i] = StrongestStep(i, g[i - 1], s, ops)
               /\ Strongest(ops, s) = g[Len(s)]
  BY <1>1, StrongestRuns
<1> DEFINE From(t) == t = <<>> \/ \E c \in ToSet(s) : c[1] \in ops /\ t = <<c>>
           N == {n \in Nat : n <= Len(s) => From(g[n])}
<1>3. 0 \in N
  BY <1>2
<1>4. ASSUME NEW n \in N \cap Nat PROVE n + 1 \in N
  <2> SUFFICES ASSUME n + 1 <= Len(s) PROVE From(g[n + 1])
    OBVIOUS
  <2>1. n + 1 \in 1..Len(s) /\ (n + 1) - 1 = n /\ n <= Len(s)
    BY <1>1
  <2>2. From(g[n]) /\ s[n + 1] \in ToSet(s)
    BY <1>1, <2>1
  <2>3. g[n + 1] = StrongestStep(n + 1, g[n], s, ops)
    BY <1>2, <2>1
  <2>4. g[n + 1] = g[n] \/ (s[n + 1][1] \in ops /\ g[n + 1] = <<s[n + 1]>>)
    BY <2>3 DEF StrongestStep
  <2> QED
    BY <2>2, <2>4
<1> HIDE DEF N, From
<1>5. Len(s) \in N
  BY <1>1, <1>3, <1>4, AllNumbers
<1>6. From(g[Len(s)])
  BY <1>1, <1>5 DEF N
<1> QED
  BY <1>2, <1>6 DEF From

-----------------------------------------------------------------------------
(* What is proved never TRUE *)

NeverTrueBody(y, never) ==
  \/ ProveTruth[y] \in {"F", "U"}
  \/ y.k = "AND" /\ (never[y.l] \/ never[y.r] \/ Contradiction(Flatten("AND", y)))
  \/ y.k = "OR" /\ never[y.l] /\ never[y.r]

LEMMA NeverTrueExists ==
  \E g : g = [y \in Predicate |-> NeverTrueBody(y, g)]
<1> DEFINE Upto(m, g) == g = [y \in Nested(Leaf, m) |-> NeverTrueBody(y, g)]
           N == {m \in Nat : \E g : Upto(m, g)}
<1>1. 0 \in N
  <2> DEFINE h == [y \in Leaf |-> NeverTrueBody(y, <<>>)]
  <2>1. ASSUME NEW y \in Leaf PROVE h[y] = NeverTrueBody(y, h)
    <3>1. y.k \in LeafKind
      BY LeafIs
    <3>2. NeverTrueBody(y, <<>>) = NeverTrueBody(y, h)
      <4> HIDE DEF h
      <4> QED
        BY <3>1 DEF NeverTrueBody, LeafKind, IsJunction
    <3> QED
      BY <3>2
  <2>2. h = [y \in Leaf |-> h[y]]
    OBVIOUS
  <2>3. Nested(Leaf, 0) = Leaf
    BY NestedIs
  <2> HIDE DEF h
  <2>4. h = [y \in Leaf |-> NeverTrueBody(y, h)]
    BY <2>1, <2>2
  <2>5. Upto(0, h)
    BY <2>3, <2>4
  <2> HIDE DEF Upto
  <2> QED
    BY <2>5
<1>2. ASSUME NEW m \in N \cap Nat PROVE m + 1 \in N
  <2>1. PICK g : Upto(m, g)
    BY DEF N
  <2> DEFINE h == [y \in Nested(Leaf, m + 1) |-> NeverTrueBody(y, g)]
  <2>2. ASSUME NEW y \in Nested(Leaf, m) PROVE h[y] = g[y]
    <3>1. y \in Nested(Leaf, m + 1)
      BY NestedGrows
    <3>2. h[y] = NeverTrueBody(y, g)
      BY <3>1
    <3>3. g[y] = NeverTrueBody(y, g)
      <4> HIDE DEF h
      <4> QED
        BY <2>1
    <3> QED
      BY <3>2, <3>3
  <2>3. ASSUME NEW y \in Nested(Leaf, m + 1) PROVE h[y] = NeverTrueBody(y, h)
    <3>1. h[y] = NeverTrueBody(y, g)
      OBVIOUS
    <3> HIDE DEF h, Upto
    <3>2. /\ y.k \in {"test", "not"} => h[y.x] = g[y.x]
          /\ IsJunction(y) => h[y.l] = g[y.l] /\ h[y.r] = g[y.r]
      BY <2>2, PartsBelow
    <3>3. NeverTrueBody(y, g) = NeverTrueBody(y, h)
      BY <3>2 DEF NeverTrueBody, IsJunction
    <3> QED
      BY <3>1, <3>3
  <2>4. h = [y \in Nested(Leaf, m + 1) |-> h[y]]
    OBVIOUS
  <2> HIDE DEF h
  <2>5. Upto(m + 1, h)
    BY <2>3, <2>4
  <2> HIDE DEF Upto
  <2> QED
    BY <2>5
<1>3. Nat \subseteq N
  <2> HIDE DEF N
  <2> QED
    BY <1>1, <1>2, AllNumbers
<1>4. MaxSize \in Nat
  BY RewriteAssumption
<1>5. PICK g : Upto(MaxSize, g)
  <2> HIDE DEF Upto
  <2> QED
    BY <1>3, <1>4
<1> QED
  BY <1>5 DEF Predicate

LEMMA NeverTrueIs ==
  ASSUME NEW y \in Predicate
  PROVE  NeverTrue[y] <=>
           \/ ProveTruth[y] \in {"F", "U"}
           \/ y.k = "AND" /\ (NeverTrue[y.l] \/ NeverTrue[y.r] \/ Contradiction(Flatten("AND", y)))
           \/ y.k = "OR" /\ NeverTrue[y.l] /\ NeverTrue[y.r]
<1> DEFINE Recurses(g) == g = [z \in Predicate |-> NeverTrueBody(z, g)]
<1>1. \E g : Recurses(g)
  BY NeverTrueExists
<1>2. NeverTrue = CHOOSE g : Recurses(g)
  BY DEF NeverTrue, NeverTrueBody
<1>3. Recurses(NeverTrue)
  <2> HIDE DEF Recurses
  <2> QED
    BY <1>1, <1>2
<1>4. NeverTrue[y] = NeverTrueBody(y, NeverTrue)
  BY <1>3
<1> QED
  BY <1>4 DEF NeverTrueBody

\* What parsing does to a single predicate.
LEMMA WrittenLeafParts ==
  ASSUME NEW x \in Leaf
  PROVE  LET w == WrittenLeaf(x)
         IN /\ x.k = "lit" => w = x
            /\ x.k = "cmp" => w.op = x.op /\ w.v = WrittenValue(x.v)
            /\ x.k = "distinct" => w.v = WrittenValue(x.v) /\ w.neg = x.neg
            /\ x.k = "between" => /\ w.lo = WrittenValue(x.lo) /\ w.hi = WrittenValue(x.hi)
                                  /\ w.neg = x.neg
            /\ x.k = "in" => /\ ToSet(w.vs) = {WrittenValue(v) : v \in ToSet(x.vs)}
                             /\ w.neg = x.neg
            /\ x.k = "null" => w = x
<1>1. CASE x \in [k : {"lit"}, t : Truths] \cup [k : {"null"}, f : Field, neg : BOOLEAN]
  BY <1>1 DEF WrittenLeaf
<1>2. CASE x \in [k : {"cmp"}, f : Field, op : Operator, v : Value]
  <2>1. WrittenLeaf(x) = [x EXCEPT !.v = WrittenValue(x.v)]
    BY <1>2 DEF WrittenLeaf
  <2> QED
    BY <1>2, <2>1
<1>3. CASE x \in [k : {"distinct"}, f : Field, v : Value, neg : BOOLEAN]
  <2>1. WrittenLeaf(x) = [x EXCEPT !.v = WrittenValue(x.v)]
    BY <1>3 DEF WrittenLeaf
  <2> QED
    BY <1>3, <2>1
<1>4. CASE x \in [k : {"between"}, f : Field, lo : Value, hi : Value, neg : BOOLEAN]
  <2>1. WrittenLeaf(x) = [x EXCEPT !.lo = WrittenValue(x.lo), !.hi = WrittenValue(x.hi)]
    BY <1>4 DEF WrittenLeaf
  <2> QED
    BY <1>4, <2>1
<1>5. CASE x \in [k : {"in"}, f : Field, vs : Seq(Value) \ {<<>>}, neg : BOOLEAN]
  <2> DEFINE texts == [i \in DOMAIN x.vs |-> WrittenValue(x.vs[i])]
  <2>1. WrittenLeaf(x) = [x EXCEPT !.vs = texts]
    BY <1>5 DEF WrittenLeaf
  <2>2. ToSet(texts) = {WrittenValue(v) : v \in ToSet(x.vs)}
    BY DEF ToSet
  <2> HIDE DEF texts
  <2> QED
    BY <1>5, <2>1, <2>2
<1> QED
  BY <1>1, <1>2, <1>3, <1>4, <1>5 DEF Leaf

\* The proofs from capabilities do not look at values.
LEMMA WrittenProven ==
  ASSUME NEW y \in Predicate PROVE ProveTruth[Written[y]] = ProveTruth[y]
<1> DEFINE P == {z \in Predicate : ProveTruth[Written[z]] = ProveTruth[z]}
<1>1. ASSUME NEW z \in Leaf PROVE z \in P
  <2>1. z \in Predicate /\ z.k \in LeafKind
    BY RewriteAssumption, NestedIs, NestedMonotone, LeafIs DEF Predicate
  <2>2. Written[z] = WrittenLeaf(z) /\ Written[z] \in Predicate /\ Written[z].k = z.k
    BY <2>1, WrittenIs, WrittenIsPredicate
  <2>3. ProveTruth[z] = ProvenTest(z)
    BY <2>1, ProveTruthIs
  <2>4. ProveTruth[Written[z]] = ProvenTest(WrittenLeaf(z))
    BY <2>1, <2>2, ProveTruthIs
  <2>5. /\ WrittenLeaf(z).k = z.k
        /\ OnField(z) => WrittenLeaf(z).f = z.f
        /\ z.k \in {"lit", "null"} => WrittenLeaf(z) = z
    BY WrittenLeafIs, WrittenLeafParts
  <2>6. ProvenTest(WrittenLeaf(z)) = ProvenTest(z)
    BY <2>1, <2>5 DEF ProvenTest, OnField, LeafKind
  <2> QED
    BY <2>1, <2>3, <2>4, <2>6
<1>2. ASSUME NEW z \in Predicate, z.k \in {"test", "not"}, z.x \in P PROVE z \in P
  <2>1. Written[z] = [z EXCEPT !.x = Written[z.x]] /\ Written[z] \in Predicate
    BY <1>2, WrittenIs, WrittenIsPredicate
  <2>2. z \in Compound(Predicate)
    BY <1>2, RewriteAssumption, Parts DEF Predicate, LeafKind
  <2>3. CASE z.k = "test"
    <3>1. /\ Written[z].k = "test" /\ Written[z].x = Written[z.x]
          /\ Written[z].truth = z.truth /\ Written[z].neg = z.neg
      BY <2>1, <2>2, <2>3 DEF Compound
    <3>2. ProveTruth[z] = IF ProveTruth[z.x] = "?" THEN "?"
                          ELSE Bool3((ProveTruth[z.x] = z.truth) # z.neg)
      BY <2>3, ProveTruthIs
    <3>3. ProveTruth[Written[z]]
            = IF ProveTruth[Written[z.x]] = "?" THEN "?"
              ELSE Bool3((ProveTruth[Written[z.x]] = z.truth) # z.neg)
      BY <2>1, <3>1, ProveTruthIs
    <3> QED
      BY <1>2, <3>2, <3>3
  <2>4. CASE z.k = "not"
    <3>1. Written[z].k = "not" /\ Written[z].x = Written[z.x]
      BY <2>1, <2>2, <2>4 DEF Compound
    <3>2. ProveTruth[z] = IF ProveTruth[z.x] = "?" THEN "?" ELSE Not3(ProveTruth[z.x])
      BY <2>4, ProveTruthIs
    <3>3. ProveTruth[Written[z]]
            = IF ProveTruth[Written[z.x]] = "?" THEN "?" ELSE Not3(ProveTruth[Written[z.x]])
      BY <2>1, <3>1, ProveTruthIs
    <3> QED
      BY <1>2, <3>2, <3>3
  <2> QED
    BY <1>2, <2>3, <2>4
<1>3. ASSUME NEW z \in Predicate, IsJunction(z), z.l \in P, z.r \in P PROVE z \in P
  <2>1. Written[z] = Junction(z.k, Written[z.l], Written[z.r]) /\ Written[z] \in Predicate
    BY <1>3, WrittenIs, WrittenIsPredicate
  <2>2. /\ Written[z].l = Written[z.l] /\ Written[z].r = Written[z.r]
        /\ Written[z].k = z.k /\ IsJunction(Written[z])
    BY <1>3, <2>1 DEF Junction, IsJunction
  <2>3. ProveTruth[z] = ProvenJunction(z.k, ProveTruth[z.l], ProveTruth[z.r])
    BY <1>3, ProveTruthIs
  <2>4. ProveTruth[Written[z]]
          = ProvenJunction(z.k, ProveTruth[Written[z.l]], ProveTruth[Written[z.r]])
    BY <2>1, <2>2, ProveTruthIs
  <2> QED
    BY <1>3, <2>3, <2>4
<1> HIDE DEF P
<1>4. Predicate \subseteq P
  BY <1>1, <1>2, <1>3, AllOver DEF Predicate
<1> QED
  BY <1>4 DEF P

-----------------------------------------------------------------------------
(* A row on which every term is TRUE *)

AllTrue(y, row) == \A u \in ToSet(Flatten("AND", y)) : Accepts(u, row)

\* A parsed term about a field is an atom's, which is TRUE.
LEMMA TermIs ==
  ASSUME NEW y \in Queried, NEW row, AllTrue(y, row),
         NEW w \in ToSet(Flatten("AND", Written[y])), OnField(w)
  PROVE  \E u \in Atoms : /\ w = WrittenLeaf(u) /\ w.k = u.k /\ w.f = u.f
                          /\ Tested(u, row) = "T" /\ OnField(u) /\ u \in Leaf
<1>1. PICK u \in ToSet(Flatten("AND", y)) : w = Written[u]
  BY FlattenWritten
<1>2. u \in Queried
  <2>1. Flatten("AND", y) \in Seq(Queried)
    BY FlattenWritten
  <2>2. ToSet(Flatten("AND", y)) \subseteq Queried
    BY <2>1, ToSetOf
  <2> QED
    BY <2>2
<1>3. u \in Predicate /\ w.k = u.k
  BY <1>1, <1>2, QueriedIs, WrittenIsPredicate
<1>4. u.k \in LeafKind /\ OnField(u)
  BY <1>3 DEF OnField, LeafKind
<1>5. u \in Atoms /\ u \in Leaf
  BY <1>2, <1>4, QueriedParts, RewriteAssumption
<1>6. w = WrittenLeaf(u)
  BY <1>1, <1>3, <1>4, WrittenIs
<1>7. w.f = u.f
  BY <1>4, <1>5, <1>6, WrittenLeafIs
<1>8. Evaluate(u, row) = Tested(u, row) /\ Evaluate(u, row) = "T"
  BY <1>3, <1>4, EvaluateIs DEF AllTrue, Accepts
<1> QED
  BY <1>3, <1>4, <1>5, <1>6, <1>7, <1>8

LEMMA NullKept ==
  ASSUME NEW v \in Value, NEW f
  PROVE  /\ IsNullValue(ComparisonValue(f, v)) <=> IsNullValue(v)
         /\ IsNullValue(WrittenValue(v)) <=> IsNullValue(v)
         /\ WrittenValue(v) \in Value
         /\ f \notin Enum => ComparisonValue(f, v) = v
BY RewriteAssumption DEF IsNullValue, ComparisonValue, WrittenValue, String, Value, Kind

\* What a single predicate says that is TRUE of a row.
LEMMA TrueOf ==
  ASSUME NEW u \in Leaf, NEW row \in Row, Tested(u, row) = "T"
  PROVE  /\ u.k = "cmp" =>
              /\ ~IsNullValue(row[u.f]) /\ ~IsNullValue(u.v)
              /\ Holds(u.op, ComparisonValue(u.f, row[u.f]), ComparisonValue(u.f, u.v))
         /\ u.k = "distinct" => (IsNullValue(row[u.f]) /\ ~IsNullValue(u.v) => ~u.neg)
         /\ u.k = "between" =>
              /\ ~IsNullValue(row[u.f])
              /\ ~u.neg => Holds(">=", row[u.f], u.lo) /\ Holds("<=", row[u.f], u.hi)
         /\ u.k = "in" =>
              /\ ~IsNullValue(row[u.f])
              /\ ~u.neg => \E v \in ToSet(u.vs) :
                             Holds("=", ComparisonValue(u.f, row[u.f]), ComparisonValue(u.f, v))
         /\ u.k = "null" => (u.neg => ~IsNullValue(row[u.f])) /\ (~u.neg => IsNullValue(row[u.f]))
<1>1. OnField(u) => row[u.f] \in Value
  BY LeafIs, RewriteAssumption DEF OnField
<1>2. CASE u.k = "cmp"
  <2>1. row[u.f] \in Value /\ u.v \in Value
    BY <1>1, <1>2, LeafIs DEF OnField
  <2>2. Compare(u.op, ComparisonValue(u.f, row[u.f]), ComparisonValue(u.f, u.v)) = "T"
    BY <1>2 DEF Tested
  <2>3. /\ ~IsNullValue(ComparisonValue(u.f, row[u.f])) /\ ~IsNullValue(ComparisonValue(u.f, u.v))
        /\ Holds(u.op, ComparisonValue(u.f, row[u.f]), ComparisonValue(u.f, u.v))
    BY <2>2 DEF Compare, Bool3
  <2> QED
    BY <1>2, <2>1, <2>3, NullKept
<1>3. CASE u.k = "distinct"
  <2>1. Bool3(Distinct(row[u.f], u.v) # u.neg) = "T" /\ u.neg \in BOOLEAN
    BY <1>3, LeafIs DEF Tested
  <2>2. IsNullValue(row[u.f]) /\ ~IsNullValue(u.v) => Distinct(row[u.f], u.v) = TRUE
    BY DEF Distinct
  <2> QED
    BY <1>3, <2>1, <2>2 DEF Bool3
<1>4. CASE u.k = "between"
  <2>1. /\ u.neg \in BOOLEAN
        /\ (IF IsNullValue(row[u.f]) THEN "U"
            ELSE Bool3(Within(row[u.f], u.lo, u.hi) # u.neg)) = "T"
    BY <1>4, LeafIs DEF Tested
  <2>2. ~IsNullValue(row[u.f]) /\ (~u.neg => Within(row[u.f], u.lo, u.hi))
    BY <2>1 DEF Bool3, Within
  <2> QED
    BY <1>4, <2>2 DEF Within
<1>5. CASE u.k = "in"
  <2> DEFINE seen == ComparisonValue(u.f, row[u.f])
             among == Member(seen, {ComparisonValue(u.f, v) : v \in ToSet(u.vs)})
  <2>1. (IF u.neg THEN Not3(among) ELSE among) = "T"
    BY <1>5 DEF Tested
  <2>2. row[u.f] \in Value
    BY <1>1, <1>5 DEF OnField
  <2>3. among # "U" /\ (~u.neg => among = "T")
    <3> HIDE DEF among
    <3> QED
      BY <2>1 DEF Not3
  <2>4. ~IsNullValue(seen)
    BY <2>3 DEF Member
  <2>5. among = "T" => \E v \in ToSet(u.vs) : Holds("=", seen, ComparisonValue(u.f, v))
    BY <2>4 DEF Member, Bool3
  <2> QED
    BY <1>5, <2>2, <2>3, <2>4, <2>5, NullKept
<1>6. CASE u.k = "null"
  <2>1. Bool3(IsNullValue(row[u.f]) # u.neg) = "T" /\ u.neg \in BOOLEAN
    BY <1>6, LeafIs DEF Tested
  <2> QED
    BY <1>6, <2>1 DEF Bool3, IsNullValue
<1> QED
  BY <1>2, <1>3, <1>4, <1>5, <1>6

\* The literals of a single predicate.
LEMMA LiteralsAre ==
  ASSUME NEW u \in Atoms, OnField(u)
  PROVE  /\ u.k = "cmp" => u.v \in LiteralsOf(u.f)
         /\ u.k = "between" => u.lo \in LiteralsOf(u.f) /\ u.hi \in LiteralsOf(u.f)
         /\ u.k = "in" => ToSet(u.vs) \subseteq LiteralsOf(u.f)
BY DEF LiteralsOf

\* The row's value meets the bound that a parsed constraint was.
Met(c, f, row) ==
  \E a \in LiteralsOf(f) :
    /\ a \in Value /\ c[2] = WrittenValue(a)
    /\ Holds(c[1], ComparisonValue(f, row[f]), ComparisonValue(f, a))
    /\ c[1] \in Lower \cup Upper => f \notin Enum /\ Holds(c[1], row[f], a)

LEMMA ConstraintMet ==
  ASSUME Atoms \subseteq WellTyped, NEW f \in Field, PlainTests(f),
         NEW y \in Queried, NEW row \in Row, AllTrue(y, row),
         NEW w \in ToSet(Flatten("AND", Written[y])), NEW c, IsConstraintOf(c, w, f)
  PROVE  Met(c, f, row)
<1>1. OnField(w) /\ w.f = f
  BY DEF IsConstraintOf
<1>2. PICK u \in Atoms : /\ w = WrittenLeaf(u) /\ w.k = u.k /\ w.f = u.f
                         /\ Tested(u, row) = "T" /\ OnField(u) /\ u \in Leaf
  BY <1>1, TermIs
<1>3. row[f] \in Value
  BY RewriteAssumption
<1>4. CASE w.k = "cmp"
  <2>1. c = <<w.op, w.v>> /\ w.op = u.op /\ w.v = WrittenValue(u.v)
    BY <1>2, <1>4, WrittenLeafParts DEF IsConstraintOf
  <2>2. u.v \in LiteralsOf(f) /\ u.v \in Value /\ u.op \in Operator
    BY <1>1, <1>2, <1>4, LeafIs, LiteralsAre
  <2>3. Holds(u.op, ComparisonValue(f, row[f]), ComparisonValue(f, u.v))
    BY <1>1, <1>2, <1>4, TrueOf
  <2>4. u.op \in Lower \cup Upper => f \notin Enum
    <3>1. u \in WellTyped /\ u.k = "cmp" /\ u.f = f
      BY <1>1, <1>2, <1>4
    <3>2. u.op \notin {"=", "!="} => u.f \notin Enum
      BY <3>1 DEF WellTyped
    <3>3. u.op \in Lower \cup Upper => u.op \notin {"=", "!="}
      BY DEF Lower, Upper
    <3> QED
      BY <3>1, <3>2, <3>3
  <2>5. u.op \in Lower \cup Upper => Holds(u.op, row[f], u.v)
    BY <1>3, <2>2, <2>3, <2>4, NullKept
  <2> QED
    BY <2>1, <2>2, <2>3, <2>4, <2>5 DEF Met
<1>5. CASE w.k = "between"
  <2>1. /\ c = <<">=", w.lo>> \/ c = <<"<=", w.hi>>
        /\ ~w.neg /\ w.neg = u.neg /\ w.lo = WrittenValue(u.lo) /\ w.hi = WrittenValue(u.hi)
    BY <1>2, <1>5, WrittenLeafParts DEF IsConstraintOf
  <2>2. /\ u.lo \in LiteralsOf(f) /\ u.lo \in Value
        /\ u.hi \in LiteralsOf(f) /\ u.hi \in Value
    BY <1>1, <1>2, <1>5, LeafIs, LiteralsAre
  <2>3. Holds(">=", row[f], u.lo) /\ Holds("<=", row[f], u.hi)
    BY <1>1, <1>2, <1>5, <2>1, TrueOf
  <2>4. f \notin Enum
    BY <1>1, <1>2, <1>5 DEF PlainTests
  <2>5. /\ ComparisonValue(f, row[f]) = row[f]
        /\ ComparisonValue(f, u.lo) = u.lo /\ ComparisonValue(f, u.hi) = u.hi
    BY <1>3, <2>2, <2>4, NullKept
  <2>6. CASE c = <<">=", w.lo>>
    BY <2>1, <2>2, <2>3, <2>4, <2>5, <2>6 DEF Met
  <2>7. CASE c = <<"<=", w.hi>>
    BY <2>1, <2>2, <2>3, <2>4, <2>5, <2>7 DEF Met
  <2> QED
    BY <2>1, <2>6, <2>7
<1> QED
  BY <1>4, <1>5 DEF IsConstraintOf

LEMMA AllMet ==
  ASSUME Atoms \subseteq WellTyped, NEW f \in Field, PlainTests(f),
         NEW y \in Queried, NEW row \in Row, AllTrue(y, row)
  PROVE  LET constraints == Constraints(Flatten("AND", Written[y]), f)
         IN constraints \in Seq(Constraint) /\ \A c \in ToSet(constraints) : Met(c, f, row)
<1> DEFINE terms == Flatten("AND", Written[y])
<1>1. terms \in Seq(Predicate)
  BY FlattenWritten
<1>2. /\ Constraints(terms, f) \in Seq(Constraint)
      /\ \A c \in ToSet(Constraints(terms, f)) : \E w \in ToSet(terms) : IsConstraintOf(c, w, f)
  BY <1>1, ConstraintsFrom
<1> QED
  BY <1>2, ConstraintMet

\* A value equals one literal of its field only.
LEMMA OneLiteral ==
  ASSUME NEW f \in Field, LiteralsKept(f), NEW a \in LiteralsOf(f), NEW b \in LiteralsOf(f),
         a \in Value, b \in Value, NEW seen,
         Holds("=", seen, ComparisonValue(f, a)), Holds("=", seen, ComparisonValue(f, b))
  PROVE  a = b
<1>1. /\ ComparisonValue(f, a).kind = ComparisonValue(f, b).kind
      /\ ComparisonValue(f, a).n = ComparisonValue(f, b).n
  BY DEF Holds, Ordered
<1>2. ComparisonValue(f, a) = ComparisonValue(f, b)
  BY <1>1 DEF ComparisonValue, String, Value, Kind
<1> QED
  BY <1>2 DEF LiteralsKept

\* Bounds that the numbers keep, their texts keep.
LEMMA OrderKept ==
  ASSUME NEW f \in Field, LiteralsKept(f), NEW a \in LiteralsOf(f), NEW b \in LiteralsOf(f),
         a \in Value, b \in Value, a.kind = b.kind, WrittenValue(a).kind = WrittenValue(b).kind
  PROVE  /\ WrittenValue(a).n \in Int /\ WrittenValue(b).n \in Int /\ a.n \in Int /\ b.n \in Int
         /\ a.n < b.n <=> WrittenValue(a).n < WrittenValue(b).n
         /\ a.n = b.n <=> WrittenValue(a).n = WrittenValue(b).n
<1>1. WrittenValue(a) \in Value /\ WrittenValue(b) \in Value
  BY NullKept
<1>2. WrittenValue(a).n \in Int /\ WrittenValue(b).n \in Int /\ a.n \in Int /\ b.n \in Int
  BY <1>1 DEF Value
<1>3. a.n < b.n => WrittenValue(a).n < WrittenValue(b).n
  BY DEF LiteralsKept
<1>4. b.n < a.n => WrittenValue(b).n < WrittenValue(a).n
  BY DEF LiteralsKept
<1>5. a.n = b.n => WrittenValue(a).n = WrittenValue(b).n
  <2>1. a.n = b.n => a = b
    BY DEF Value
  <2> QED
    BY <2>1
<1> QED
  BY <1>2, <1>3, <1>4, <1>5

\* Order and equality decide a bound.
LEMMA OrderedSame ==
  ASSUME NEW op \in Lower \cup Upper, NEW m \in Int, NEW n \in Int, NEW p \in Int, NEW q \in Int,
         m < n <=> p < q, m = n <=> p = q, Ordered(op, m, n)
  PROVE  Ordered(op, p, q)
<1>1. op \in {"<", "<=", ">", ">="}
  BY DEF Lower, Upper
<1> QED
  BY <1>1, OrderedIs

LEMMA BoundIs ==
  ASSUME NEW op, NEW m \in Int, NEW n \in Int, Ordered(op, m, n)
  PROVE  /\ op \in Lower => n <= m /\ (op = ">" => n < m)
         /\ op \in Upper => m <= n /\ (op = "<" => m < n)
BY OrderedIs DEF Lower, Upper

\* What _prove_and_contradiction makes of the constraints: not of a row that is.
LEMMA MetBounds ==
  ASSUME NEW f \in Field, LiteralsKept(f), NEW row \in Row, NEW s \in Seq(Constraint),
         \A c \in ToSet(s) : Met(c, f, row)
  PROVE  LET lower == Strongest(Lower, s)
             upper == Strongest(Upper, s)
             equal == {c[2] : c \in {d \in ToSet(s) : d[1] = "="}}
         IN /\ \A v \in equal : ~OutsideBounds(v, lower, upper)
            /\ lower # <<>> /\ upper # <<>> =>
                 ~BoundsCross(lower[1][1], lower[1][2], upper[1][1], upper[1][2])
<1> DEFINE lower == Strongest(Lower, s)
           upper == Strongest(Upper, s)
           equal == {c[2] : c \in {d \in ToSet(s) : d[1] = "="}}
<1>1. row[f] \in Value /\ row[f].n \in Int
  BY RewriteAssumption DEF Value
<1>2. ASSUME NEW v \in equal, NEW c \in ToSet(s), c[1] \in Lower \cup Upper, Comparable(v, c[2])
      PROVE  Ordered(c[1], v.n, c[2].n)
  <2>1. PICK a \in LiteralsOf(f) :
          /\ a \in Value /\ v = WrittenValue(a)
          /\ Holds("=", ComparisonValue(f, row[f]), ComparisonValue(f, a))
    BY DEF Met
  <2>2. PICK b \in LiteralsOf(f) :
          /\ b \in Value /\ c[2] = WrittenValue(b) /\ f \notin Enum /\ Holds(c[1], row[f], b)
    BY <1>2 DEF Met
  <2>3. Holds("=", row[f], a)
    BY <1>1, <2>1, <2>2, NullKept
  <2>4. row[f].kind = a.kind /\ row[f].n = a.n
    BY <2>3 DEF Holds, Ordered
  <2>5. row[f].kind = b.kind /\ Ordered(c[1], row[f].n, b.n)
    BY <1>2, <2>2 DEF Holds, Lower, Upper
  <2>6. /\ v.n \in Int /\ c[2].n \in Int /\ a.n \in Int /\ b.n \in Int
        /\ a.n < b.n <=> v.n < c[2].n
        /\ a.n = b.n <=> v.n = c[2].n
    <3>1. a.kind = b.kind /\ WrittenValue(a).kind = WrittenValue(b).kind
      BY <1>2, <2>1, <2>2, <2>4, <2>5 DEF Comparable
    <3> QED
      BY <2>1, <2>2, <3>1, OrderKept
  <2>7. Ordered(c[1], a.n, b.n)
    BY <2>4, <2>5
  <2> QED
    BY <1>2, <2>6, <2>7, OrderedSame
<1>3. ASSUME NEW b \in ToSet(s), b[1] \in Lower, NEW c \in ToSet(s), c[1] \in Upper
      PROVE  ~BoundsCross(b[1], b[2], c[1], c[2])
  <2>1. PICK m \in LiteralsOf(f) :
          /\ m \in Value /\ b[2] = WrittenValue(m) /\ Holds(b[1], row[f], m)
    BY <1>3 DEF Met
  <2>2. PICK n \in LiteralsOf(f) :
          /\ n \in Value /\ c[2] = WrittenValue(n) /\ Holds(c[1], row[f], n)
    BY <1>3 DEF Met
  <2>3. row[f].kind = m.kind /\ Ordered(b[1], row[f].n, m.n)
    BY <1>3, <2>1 DEF Holds, Lower
  <2>4. row[f].kind = n.kind /\ Ordered(c[1], row[f].n, n.n)
    BY <1>3, <2>2 DEF Holds, Upper
  <2>5. m.n \in Int /\ n.n \in Int
    BY <2>1, <2>2 DEF Value
  <2>6. m.n <= n.n /\ (b[1] = ">" \/ c[1] = "<" => m.n < n.n)
    <3>1. m.n <= row[f].n /\ (b[1] = ">" => m.n < row[f].n)
      BY <1>1, <1>3, <2>3, <2>5, BoundIs
    <3>2. row[f].n <= n.n /\ (c[1] = "<" => row[f].n < n.n)
      BY <1>1, <1>3, <2>4, <2>5, BoundIs
    <3> QED
      BY <1>1, <2>5, <3>1, <3>2
  <2>7. CASE b[2].kind = c[2].kind
    <3>1. /\ b[2].n \in Int /\ c[2].n \in Int
          /\ m.n < n.n <=> b[2].n < c[2].n
          /\ m.n = n.n <=> b[2].n = c[2].n
      <4>1. m.kind = n.kind /\ WrittenValue(m).kind = WrittenValue(n).kind
        BY <2>1, <2>2, <2>3, <2>4, <2>7
      <4>2. /\ WrittenValue(m).n \in Int /\ WrittenValue(n).n \in Int
            /\ m.n < n.n <=> WrittenValue(m).n < WrittenValue(n).n
            /\ m.n = n.n <=> WrittenValue(m).n = WrittenValue(n).n
        BY <2>1, <2>2, <4>1, OrderKept
      <4> QED
        BY <2>1, <2>2, <4>2
    <3>2. b[2].n <= c[2].n /\ (b[1] = ">" \/ c[1] = "<" => b[2].n < c[2].n)
      <4>1. m.n <= n.n => m.n < n.n \/ m.n = n.n
        BY <2>5
      <4>2. b[2].n < c[2].n \/ b[2].n = c[2].n
        BY <2>6, <3>1, <4>1
      <4> QED
        BY <2>6, <3>1, <4>2
    <3>3. ~Ordered(">", b[2].n, c[2].n)
      BY <3>1, <3>2, OrderedIs
    <3>4. (b[1] = ">" \/ c[1] = "<") => ~Ordered("=", b[2].n, c[2].n)
      BY <3>1, <3>2, OrderedIs
    <3> QED
      BY <2>7, <3>3, <3>4 DEF BoundsCross, Holds
  <2>8. CASE b[2].kind # c[2].kind
    BY <2>8 DEF BoundsCross, Holds
  <2> QED
    BY <2>7, <2>8
<1>4. lower = <<>> \/ \E c \in ToSet(s) : c[1] \in Lower /\ lower = <<c>>
  BY StrongestFrom
<1>5. upper = <<>> \/ \E c \in ToSet(s) : c[1] \in Upper /\ upper = <<c>>
  BY StrongestFrom
<1> HIDE DEF lower, upper, equal
<1>6. ASSUME NEW v \in equal PROVE ~OutsideBounds(v, lower, upper)
  <2>1. ~(lower # <<>> /\ Comparable(v, lower[1][2]) /\ ~Ordered(lower[1][1], v.n, lower[1][2].n))
    BY <1>2, <1>4
  <2>2. ~(upper # <<>> /\ Comparable(v, upper[1][2]) /\ ~Ordered(upper[1][1], v.n, upper[1][2].n))
    BY <1>2, <1>5
  <2> QED
    BY <2>1, <2>2 DEF OutsideBounds
<1>7. lower # <<>> /\ upper # <<>> =>
        ~BoundsCross(lower[1][1], lower[1][2], upper[1][1], upper[1][2])
  BY <1>3, <1>4, <1>5
<1> QED
  BY <1>6, <1>7 DEF lower, upper, equal

LEMMA MetEqualities ==
  ASSUME NEW f \in Field, LiteralsKept(f), NEW row \in Row, NEW s,
         \A c \in ToSet(s) : Met(c, f, row)
  PROVE  LET equal == {c[2] : c \in {d \in ToSet(s) : d[1] = "="}}
             unequal == {c[2] : c \in {d \in ToSet(s) : d[1] = "!="}}
         IN ~(Cardinality(equal) > 1) /\ equal \cap unequal = {}
<1> DEFINE equal == {c[2] : c \in {d \in ToSet(s) : d[1] = "="}}
           unequal == {c[2] : c \in {d \in ToSet(s) : d[1] = "!="}}
           seen == ComparisonValue(f, row[f])
<1>1. ASSUME NEW v \in equal
      PROVE  \E a \in LiteralsOf(f) : /\ a \in Value /\ v = WrittenValue(a)
                                      /\ Holds("=", seen, ComparisonValue(f, a))
  BY DEF Met
<1>2. ASSUME NEW v \in unequal
      PROVE  \E a \in LiteralsOf(f) : /\ a \in Value /\ v = WrittenValue(a)
                                      /\ Holds("!=", seen, ComparisonValue(f, a))
  BY DEF Met
<1> HIDE DEF equal, unequal, seen
<1>3. ASSUME NEW v \in equal, NEW w \in equal PROVE v = w
  BY <1>1, OneLiteral
<1>4. ~(Cardinality(equal) > 1)
  <2>1. CASE equal = {}
    BY <2>1, FS_EmptySet
  <2>2. CASE equal # {}
    <3>1. PICK v : equal = {v}
      BY <1>3, <2>2
    <3>2. Cardinality({v}) = 1
      BY FS_Singleton
    <3> QED
      BY <3>1, <3>2
  <2> QED
    BY <2>1, <2>2
<1>5. equal \cap unequal = {}
  <2> SUFFICES ASSUME NEW v \in equal, v \in unequal PROVE FALSE
    OBVIOUS
  <2>1. PICK a \in LiteralsOf(f) : /\ a \in Value /\ v = WrittenValue(a)
                                   /\ Holds("=", seen, ComparisonValue(f, a))
    BY <1>1
  <2>2. PICK b \in LiteralsOf(f) : /\ b \in Value /\ v = WrittenValue(b)
                                   /\ Holds("!=", seen, ComparisonValue(f, b))
    BY <1>2
  <2>3. a = b
    BY <2>1, <2>2 DEF LiteralsKept
  <2> QED
    BY <2>1, <2>2, <2>3 DEF Holds, Ordered
<1> QED
  BY <1>4, <1>5 DEF equal, unequal

\* The values that a field must equal, the lists it must be in, and what is in
\* all of them.
EqualTo(s) == {c[2] : c \in {d \in ToSet(s) : d[1] = "="}}
ListsOf(y, f) ==
  LET about == {x \in ToSet(Flatten("AND", Written[y])) : OnField(x) /\ x.f = f}
  IN {ToSet(x.vs) \ {Null} : x \in {z \in about : z.k = "in" /\ ~z.neg}}
InAll(D) == {v \in UNION D : \A d \in D : v \in d}

\* The lists of a field all have the row's value.
LEMMA MetLists ==
  ASSUME NEW f \in Field, LiteralsKept(f), NEW y \in Queried, NEW row \in Row, AllTrue(y, row), NEW s,
         \A c \in ToSet(s) : Met(c, f, row)
  PROVE  ListsOf(y, f) # {} => InAll(ListsOf(y, f)) # {} /\ EqualTo(s) \subseteq InAll(ListsOf(y, f))
<1> DEFINE equal == EqualTo(s)
           domains == ListsOf(y, f)
           allowed == InAll(domains)
           seen == ComparisonValue(f, row[f])
<1>1. ASSUME NEW v \in equal
      PROVE  \E a \in LiteralsOf(f) : /\ a \in Value /\ v = WrittenValue(a)
                                      /\ Holds("=", seen, ComparisonValue(f, a))
  BY DEF Met, EqualTo
<1>2. ASSUME NEW d \in domains
      PROVE  \E a \in LiteralsOf(f) : /\ a \in Value /\ WrittenValue(a) \in d
                                      /\ Holds("=", seen, ComparisonValue(f, a))
  <2>1. PICK w \in ToSet(Flatten("AND", Written[y])) :
          OnField(w) /\ w.f = f /\ w.k = "in" /\ ~w.neg /\ d = ToSet(w.vs) \ {Null}
    BY DEF ListsOf
  <2>2. PICK u \in Atoms : /\ w = WrittenLeaf(u) /\ w.k = u.k /\ w.f = u.f
                           /\ Tested(u, row) = "T" /\ OnField(u) /\ u \in Leaf
    BY <2>1, TermIs
  <2>3. ToSet(w.vs) = {WrittenValue(v) : v \in ToSet(u.vs)} /\ w.neg = u.neg
    BY <2>1, <2>2, WrittenLeafParts
  <2>4. ~IsNullValue(row[f]) /\ \E v \in ToSet(u.vs) : Holds("=", seen, ComparisonValue(f, v))
    BY <2>1, <2>2, <2>3, TrueOf
  <2>5. PICK v \in ToSet(u.vs) : Holds("=", seen, ComparisonValue(f, v))
    BY <2>4
  <2>6. v \in LiteralsOf(f)
    BY <2>1, <2>2, LiteralsAre
  <2>7. v \in Value
    <3>1. u.vs \in Seq(Value)
      BY <2>1, <2>2, LeafIs
    <3>2. DOMAIN u.vs = 1..Len(u.vs) /\ \A i \in 1..Len(u.vs) : u.vs[i] \in Value
      BY <3>1, LenProperties, ElementOfSeq
    <3> QED
      BY <3>2 DEF ToSet
  <2>8. WrittenValue(v) # Null
    <3>1. row[f] \in Value
      BY RewriteAssumption
    <3>2. ~IsNullValue(seen)
      BY <2>4, <3>1, NullKept
    <3>3. seen.kind = ComparisonValue(f, v).kind
      BY <2>5 DEF Holds
    <3>4. ~IsNullValue(ComparisonValue(f, v))
      BY <3>2, <3>3 DEF IsNullValue
    <3>5. ~IsNullValue(WrittenValue(v))
      BY <2>7, <3>4, NullKept
    <3> QED
      BY <3>5 DEF IsNullValue, Null
  <2>9. WrittenValue(v) \in d
    BY <2>1, <2>3, <2>8
  <2> QED
    BY <2>5, <2>6, <2>7, <2>9
<1> HIDE DEF equal, domains, seen
<1> SUFFICES ASSUME domains # {} PROVE allowed # {} /\ equal \subseteq allowed
  BY DEF equal, domains
<1>3. PICK e \in domains : TRUE
  OBVIOUS
<1>4. PICK a \in LiteralsOf(f) : /\ a \in Value /\ WrittenValue(a) \in e
                                 /\ Holds("=", seen, ComparisonValue(f, a))
  BY <1>2, <1>3
<1>5. ASSUME NEW b \in LiteralsOf(f), b \in Value, Holds("=", seen, ComparisonValue(f, b))
      PROVE  b = a
  BY <1>4, <1>5, OneLiteral
<1>6. ASSUME NEW d \in domains PROVE WrittenValue(a) \in d
  BY <1>2, <1>5
<1>7. WrittenValue(a) \in allowed
  BY <1>3, <1>4, <1>6 DEF InAll
<1>8. ASSUME NEW v \in equal PROVE v = WrittenValue(a)
  BY <1>1, <1>5
<1> HIDE DEF allowed
<1> QED
  BY <1>7, <1>8

\* IS NULL and IS NOT NULL, and what is not TRUE of a NULL field.
LEMMA MetNulls ==
  ASSUME NEW f \in Field, PlainTests(f), NEW y \in Queried, NEW row \in Row, AllTrue(y, row)
  PROVE  LET about == {x \in ToSet(Flatten("AND", Written[y])) : OnField(x) /\ x.f = f}
             nulls == {~x.neg : x \in {z \in about : z.k = "null"}}
         IN /\ nulls # {TRUE, FALSE}
            /\ TRUE \in nulls => \A x \in about : ~NullRejecting(x)
<1> DEFINE about == {x \in ToSet(Flatten("AND", Written[y])) : OnField(x) /\ x.f = f}
           nulls == {~x.neg : x \in {z \in about : z.k = "null"}}
<1>1. ASSUME NEW w \in about, w.k = "null"
      PROVE  /\ w.neg \in BOOLEAN /\ w \in Atoms
             /\ w.neg => ~IsNullValue(row[f])
             /\ ~w.neg => IsNullValue(row[f])
  <2>1. PICK u \in Atoms : /\ w = WrittenLeaf(u) /\ w.k = u.k /\ w.f = u.f
                           /\ Tested(u, row) = "T" /\ OnField(u) /\ u \in Leaf
    BY TermIs
  <2>2. w = u /\ u.k = "null" /\ u.f = f
    BY <1>1, <2>1, WrittenLeafParts
  <2> QED
    BY <2>1, <2>2, LeafIs, TrueOf
<1>2. nulls # {TRUE, FALSE}
  <2> SUFFICES ASSUME TRUE \in nulls, FALSE \in nulls PROVE FALSE
    OBVIOUS
  <2>1. PICK w \in about : w.k = "null" /\ TRUE = ~w.neg
    OBVIOUS
  <2>2. PICK x \in about : x.k = "null" /\ FALSE = ~x.neg
    OBVIOUS
  <2> HIDE DEF about, nulls
  <2> QED
    BY <1>1, <2>1, <2>2
<1>3. ASSUME TRUE \in nulls, NEW x \in about, NullRejecting(x) PROVE FALSE
  <2>1. PICK w \in about : w.k = "null" /\ TRUE = ~w.neg
    BY <1>3
  <2>2. w \in Atoms /\ IsNullValue(row[f]) /\ ~w.neg /\ w.f = f
    BY <1>1, <2>1
  <2>3. PICK u \in Atoms : /\ x = WrittenLeaf(u) /\ x.k = u.k /\ x.f = u.f
                           /\ Tested(u, row) = "T" /\ OnField(u) /\ u \in Leaf
    BY TermIs
  <2>4. x.f = f
    OBVIOUS
  <2> HIDE DEF about, nulls
  <2>5. CASE x.k = "cmp"
    BY <2>2, <2>3, <2>4, <2>5, TrueOf
  <2>6. CASE x.k = "distinct"
    <3>1. ~IsNullValue(x.v) /\ x.v = WrittenValue(u.v)
      BY <1>3, <2>3, <2>6, WrittenLeafParts DEF NullRejecting
    <3>2. u.v \in Value
      BY <2>3, <2>6, LeafIs
    <3>3. ~IsNullValue(u.v)
      BY <3>1, <3>2, NullKept
    <3>4. ~u.neg
      BY <2>2, <2>3, <2>4, <2>6, <3>3, TrueOf
    <3> QED
      <4>1. u \in {z \in Atoms : OnField(z) /\ z.f = f} /\ u.k = "distinct"
        BY <2>3, <2>4, <2>6
      <4>2. w \in {z \in Atoms : OnField(z) /\ z.f = f} /\ w.k = "null"
        BY <2>1, <2>2 DEF OnField
      <4> QED
        BY <2>2, <3>3, <3>4, <4>1, <4>2 DEF PlainTests
  <2>7. CASE x.k \in {"between", "in"}
    BY <2>2, <2>3, <2>4, <2>7, TrueOf
  <2>8. CASE x.k = "null" /\ x.neg
    BY <1>1, <2>2, <2>8
  <2> QED
    BY <1>3, <2>5, <2>6, <2>7, <2>8 DEF NullRejecting
<1> HIDE DEF about, nulls
<1>4. TRUE \in nulls => \A x \in about : ~NullRejecting(x)
  BY <1>3
<1> QED
  BY <1>2, <1>4 DEF about, nulls

\* The terms of a query read fields that it reads.
LEMMA TermsRead ==
  ASSUME NEW y \in Queried, NEW u \in ToSet(Flatten("AND", y))
  PROVE  RequiredFields[u] \subseteq RequiredFields[y]
<1> DEFINE ReadsNoMore(z) ==
             \A t \in ToSet(Flatten("AND", z)) : RequiredFields[t] \subseteq RequiredFields[z]
           P == {z \in Queried : ReadsNoMore(z)}
<1>1. ASSUME NEW z \in Queried, z.k # "AND" PROVE z \in P
  <2>1. Flatten("AND", z) = <<z>>
    BY <1>1, QueriedIs, FlattenIs
  <2>2. ToSet(<<z>>) = {z}
    BY DEF ToSet
  <2> QED
    BY <2>1, <2>2
<1>2. ASSUME NEW z \in Queried, z.k = "AND", z.l \in P, z.r \in P PROVE z \in P
  <2> DEFINE a == Flatten("AND", z.l)
             b == Flatten("AND", z.r)
  <2>1. a \in Seq(Queried) /\ b \in Seq(Queried)
    BY <1>2, FlattenWritten
  <2>2. z \in Predicate /\ IsJunction(z)
    BY <1>2, QueriedIs DEF IsJunction
  <2>3. Flatten("AND", z) = a \o b
    BY <1>2, <2>2, FlattenIs
  <2>4. RequiredFields[z] = RequiredFields[z.l] \cup RequiredFields[z.r]
    BY <2>2, RequiredFieldsIs
  <2>5. ReadsNoMore(z.l) /\ ReadsNoMore(z.r)
    BY <1>2
  <2> HIDE DEF a, b
  <2>6. ToSet(a \o b) = ToSet(a) \cup ToSet(b)
    BY <2>1, ToSetConcat
  <2>7. ReadsNoMore(z)
    BY <2>3, <2>4, <2>5, <2>6 DEF a, b
  <2> QED
    BY <2>7
<1>3. Atoms \subseteq P
  <2>1. ASSUME NEW z \in Atoms PROVE z \in Queried /\ z.k # "AND"
    <3>1. z \in Queried /\ z.k \in LeafKind
      BY QueriedIs, RewriteAssumption, LeafIs
    <3> QED
      BY <3>1 DEF LeafKind
  <2> HIDE DEF P
  <2> QED
    BY <1>1, <2>1
<1> HIDE DEF P
<1>4. Queried \subseteq P
  <2>1. \A z \in Nested(Atoms, MaxSize) :
          /\ z.k \in {"test", "not"} /\ z.x \in P /\ z.x \in Nested(Atoms, MaxSize) => z \in P
          /\ /\ IsJunction(z) /\ z.l \in P /\ z.r \in P
             /\ z.l \in Nested(Atoms, MaxSize) /\ z.r \in Nested(Atoms, MaxSize)
             => z \in P
    BY <1>1, <1>2 DEF IsJunction, Queried
  <2> QED
    BY <1>3, <2>1, RewriteAssumption, AllOver DEF Queried
<1> QED
  BY <1>4 DEF P

LEMMA TermFields ==
  ASSUME NEW y \in Queried, NEW w \in ToSet(Flatten("AND", Written[y])), OnField(w)
  PROVE  w.f \in RequiredFields[y]
<1>1. PICK u \in ToSet(Flatten("AND", y)) : w = Written[u]
  BY FlattenWritten
<1>2. u \in Predicate
  BY FlattenWritten, ToSetOf, QueriedIs
<1>3. RequiredFields[w] = RequiredFields[u] /\ w \in Predicate
  BY <1>1, <1>2, WrittenFields, WrittenIsPredicate
<1>4. RequiredFields[w] = {w.f}
  BY <1>3, RequiredFieldsIs
<1> QED
  BY <1>3, <1>4, TermsRead

\* _prove_and_contradiction finds no contradiction where a row meets all terms.
LEMMA NoContradiction ==
  ASSUME Atoms \subseteq WellTyped, NEW y \in Queried, ReadAsMeant(y), NEW row \in Row, AllTrue(y, row)
  PROVE  ~Contradiction(Flatten("AND", Written[y]))
<1> DEFINE terms == Flatten("AND", Written[y])
<1> SUFFICES ASSUME NEW f \in Field
             PROVE  LET about == {x \in ToSet(terms) : OnField(x) /\ x.f = f}
                        nulls == {~x.neg : x \in {z \in about : z.k = "null"}}
                        constraints == Constraints(terms, f)
                        equal == {c[2] : c \in {d \in ToSet(constraints) : d[1] = "="}}
                        unequal == {c[2] : c \in {d \in ToSet(constraints) : d[1] = "!="}}
                        domains == {ToSet(x.vs) \ {Null} : x \in {z \in about : z.k = "in" /\ ~z.neg}}
                        allowed == {v \in UNION domains : \A d \in domains : v \in d}
                        lower == Strongest(Lower, constraints)
                        upper == Strongest(Upper, constraints)
                    IN ~(\/ nulls = {TRUE, FALSE}
                         \/ TRUE \in nulls /\ \E x \in about : NullRejecting(x)
                         \/ Cardinality(equal) > 1
                         \/ equal \cap unequal # {}
                         \/ domains # {} /\ (allowed = {} \/ ~(equal \subseteq allowed))
                         \/ \E v \in equal : OutsideBounds(v, lower, upper)
                         \/ /\ lower # <<>> /\ upper # <<>>
                            /\ BoundsCross(lower[1][1], lower[1][2], upper[1][1], upper[1][2]))
  BY Zenon DEF Contradiction
<1> DEFINE about == {x \in ToSet(terms) : OnField(x) /\ x.f = f}
           nulls == {~x.neg : x \in {z \in about : z.k = "null"}}
           constraints == Constraints(terms, f)
           equal == {c[2] : c \in {d \in ToSet(constraints) : d[1] = "="}}
           unequal == {c[2] : c \in {d \in ToSet(constraints) : d[1] = "!="}}
           domains == {ToSet(x.vs) \ {Null} : x \in {z \in about : z.k = "in" /\ ~z.neg}}
           allowed == {v \in UNION domains : \A d \in domains : v \in d}
           lower == Strongest(Lower, constraints)
           upper == Strongest(Upper, constraints)
<1>a. CASE f \notin RequiredFields[y]
  <2>1. about = {}
    BY <1>a, TermFields
  <2>2. nulls = {} /\ domains = {}
    BY <2>1
  <2>3. constraints \in Seq(Constraint) /\ ToSet(constraints) = {}
    <3>1. terms \in Seq(Predicate)
      BY FlattenWritten
    <3>2. /\ constraints \in Seq(Constraint)
          /\ \A c \in ToSet(constraints) : \E x \in ToSet(terms) : IsConstraintOf(c, x, f)
      BY <3>1, ConstraintsFrom
    <3> QED
      BY <1>a, <3>2, TermFields DEF IsConstraintOf
  <2> HIDE DEF constraints, about, nulls, domains
  <2>4. equal = {} /\ unequal = {} /\ ~(Cardinality(equal) > 1)
    <3>1. equal = {} /\ unequal = {}
      BY <2>3
    <3> HIDE DEF equal, unequal
    <3> QED
      BY <3>1, FS_EmptySet
  <2>5. lower = <<>> /\ upper = <<>>
    BY <2>3, StrongestFrom
  <2>6. ~(\/ nulls = {TRUE, FALSE}
          \/ TRUE \in nulls /\ \E x \in about : NullRejecting(x)
          \/ Cardinality(equal) > 1
          \/ equal \cap unequal # {}
          \/ domains # {} /\ (allowed = {} \/ ~(equal \subseteq allowed))
          \/ \E v \in equal : OutsideBounds(v, lower, upper)
          \/ /\ lower # <<>> /\ upper # <<>>
             /\ BoundsCross(lower[1][1], lower[1][2], upper[1][1], upper[1][2]))
    <3>1. TRUE \notin nulls /\ nulls # {TRUE, FALSE}
      BY <2>2
    <3> HIDE DEF equal, unequal, allowed, lower, upper
    <3> QED
      BY <3>1, <2>2, <2>4, <2>5
  <2> QED
    BY <2>6 DEF constraints, about, nulls, domains
<1> SUFFICES ASSUME f \in RequiredFields[y]
             PROVE  ~(\/ nulls = {TRUE, FALSE}
                      \/ TRUE \in nulls /\ \E x \in about : NullRejecting(x)
                      \/ Cardinality(equal) > 1
                      \/ equal \cap unequal # {}
                      \/ domains # {} /\ (allowed = {} \/ ~(equal \subseteq allowed))
                      \/ \E v \in equal : OutsideBounds(v, lower, upper)
                      \/ /\ lower # <<>> /\ upper # <<>>
                         /\ BoundsCross(lower[1][1], lower[1][2], upper[1][1], upper[1][2]))
  BY <1>a
<1>b. LiteralsKept(f) /\ PlainTests(f)
  BY DEF ReadAsMeant
<1>1. constraints \in Seq(Constraint) /\ \A c \in ToSet(constraints) : Met(c, f, row)
  BY <1>b, AllMet
<1>2. nulls # {TRUE, FALSE} /\ (TRUE \in nulls => \A x \in about : ~NullRejecting(x))
  BY <1>b, MetNulls
<1> HIDE DEF constraints
<1>3. ~(Cardinality(equal) > 1) /\ equal \cap unequal = {}
  BY <1>1, <1>b, MetEqualities
<1>4. domains # {} => allowed # {} /\ equal \subseteq allowed
  <2>1. /\ ListsOf(y, f) # {} => /\ InAll(ListsOf(y, f)) # {}
                                /\ EqualTo(constraints) \subseteq InAll(ListsOf(y, f))
    BY <1>1, <1>b, MetLists
  <2>2. equal = EqualTo(constraints) /\ domains = ListsOf(y, f) /\ allowed = InAll(domains)
    BY DEF EqualTo, ListsOf, InAll
  <2> HIDE DEF equal, domains, allowed
  <2> QED
    BY <2>1, <2>2
<1>5. /\ \A v \in equal : ~OutsideBounds(v, lower, upper)
      /\ lower # <<>> /\ upper # <<>> =>
           ~BoundsCross(lower[1][1], lower[1][2], upper[1][1], upper[1][2])
  BY <1>1, <1>b, MetBounds
<1>6. ~(\/ nulls = {TRUE, FALSE}
        \/ TRUE \in nulls /\ \E x \in about : NullRejecting(x)
        \/ Cardinality(equal) > 1
        \/ equal \cap unequal # {}
        \/ domains # {} /\ (allowed = {} \/ ~(equal \subseteq allowed))
        \/ \E v \in equal : OutsideBounds(v, lower, upper)
        \/ /\ lower # <<>> /\ upper # <<>>
           /\ BoundsCross(lower[1][1], lower[1][2], upper[1][1], upper[1][2]))
  <2> HIDE DEF about, nulls, equal, unequal, domains, allowed, lower, upper
  <2> QED
    BY <1>2, <1>3, <1>4, <1>5
<1> QED
  BY <1>6 DEF constraints

-----------------------------------------------------------------------------
(* What is never TRUE *)

\* What is proven never to be TRUE is TRUE of no row.
LEMMA NeverTrueRight ==
  ASSUME Atoms \subseteq WellTyped,
         NEW y \in Queried, ReadAsMeant(y), NeverTrue[Written[y]], NEW row \in Row
  PROVE  ~Accepts(y, row)
<1> DEFINE P == {z \in Queried : ReadAsMeant(z) /\ NeverTrue[Written[z]] => ~Accepts(z, row)}
<1>1. ASSUME NEW z \in Queried, ProveTruth[Written[z]] \in {"F", "U"} PROVE ~Accepts(z, row)
  <2>1. z \in Sound /\ z \in Predicate
    BY RewriteAssumption, NestedWithin, QueriedIs DEF Queried, Sound
  <2>2. ProveTruth[z] \in {"F", "U"}
    BY <1>1, <2>1, WrittenProven
  <2>3. Evaluate(z, row) = ProveTruth[z]
    BY <2>1, <2>2, AllProven DEF Proven
  <2> QED
    BY <2>2, <2>3 DEF Accepts
<1>2. ASSUME NEW z \in Queried, z.k \notin {"AND", "OR"}, NeverTrue[Written[z]]
      PROVE  ProveTruth[Written[z]] \in {"F", "U"}
  BY <1>2, QueriedIs, WrittenIsPredicate, NeverTrueIs
<1>3. ASSUME NEW z \in Queried, z.k \notin {"AND", "OR"} PROVE z \in P
  BY <1>1, <1>2, <1>3
<1>4. ASSUME NEW z \in Queried, IsJunction(z), z.l \in P, z.r \in P PROVE z \in P
  <2> SUFFICES ASSUME ReadAsMeant(z), NeverTrue[Written[z]] PROVE ~Accepts(z, row)
    BY <1>4
  <2>1. /\ z \in Predicate /\ z.k \in {"AND", "OR"}
        /\ z.l \in Queried /\ z.l \in Predicate /\ z.r \in Queried /\ z.r \in Predicate
    BY <1>4, QueriedIs DEF IsJunction
  <2>2. /\ Written[z] \in Predicate /\ Written[z].k = z.k
        /\ Written[z].l = Written[z.l] /\ Written[z].r = Written[z.r]
    <3>1. Written[z] = Junction(z.k, Written[z.l], Written[z.r])
      BY <1>4, <2>1, WrittenIs
    <3> QED
      BY <2>1, <3>1, WrittenIsPredicate DEF Junction
  <2>3. \/ ProveTruth[Written[z]] \in {"F", "U"}
        \/ z.k = "AND" /\ (NeverTrue[Written[z.l]] \/ NeverTrue[Written[z.r]])
        \/ z.k = "AND" /\ Contradiction(Flatten("AND", Written[z]))
        \/ z.k = "OR" /\ NeverTrue[Written[z.l]] /\ NeverTrue[Written[z.r]]
    BY <2>2, NeverTrueIs
  <2>4. Evaluate(z, row) = Connect(z.k, Evaluate(z.l, row), Evaluate(z.r, row))
    BY <1>4, <2>1, EvaluateIs
  <2>5. Evaluate(z.l, row) \in Truths /\ Evaluate(z.r, row) \in Truths
    <3>1. z.l \in Sound /\ z.r \in Sound
      BY <2>1, RewriteAssumption, NestedWithin DEF Queried, Sound
    <3> QED
      BY <3>1, EvaluateTruth
  <2>a. ReadAsMeant(z.l) /\ ReadAsMeant(z.r)
    <3>1. RequiredFields[z] = RequiredFields[z.l] \cup RequiredFields[z.r]
      BY <1>4, <2>1, RequiredFieldsIs
    <3> QED
      BY <3>1 DEF ReadAsMeant
  <2>6. CASE z.k = "AND" /\ (NeverTrue[Written[z.l]] \/ NeverTrue[Written[z.r]])
    <3>1. Evaluate(z.l, row) # "T" \/ Evaluate(z.r, row) # "T"
      BY <1>4, <2>6, <2>a DEF Accepts
    <3> QED
      BY <2>4, <2>5, <2>6, <3>1 DEF Accepts, Connect, And3, Truths
  <2>7. CASE z.k = "AND" /\ Contradiction(Flatten("AND", Written[z]))
    <3>1. ~AllTrue(z, row)
      BY <2>7, NoContradiction
    <3> QED
      BY <3>1, AcceptedByTerms DEF AllTrue
  <2>8. CASE z.k = "OR" /\ NeverTrue[Written[z.l]] /\ NeverTrue[Written[z.r]]
    <3>1. Evaluate(z.l, row) # "T" /\ Evaluate(z.r, row) # "T"
      BY <1>4, <2>8, <2>a DEF Accepts
    <3> QED
      BY <2>4, <2>5, <2>8, <3>1 DEF Accepts, Connect, Or3, Truths
  <2> QED
    BY <1>1, <2>3, <2>6, <2>7, <2>8
<1>5. \A z \in Queried :
        /\ z.k \in {"test", "not"} /\ z.x \in P /\ z.x \in Queried => z \in P
        /\ IsJunction(z) /\ z.l \in P /\ z.r \in P /\ z.l \in Queried /\ z.r \in Queried
             => z \in P
  BY <1>3, <1>4
<1>6. Atoms \subseteq P /\ Atoms \subseteq Leaf
  <2> SUFFICES ASSUME NEW z \in Atoms PROVE z \in P
    BY RewriteAssumption
  <2>1. z \in Queried /\ z.k \in LeafKind
    BY RewriteAssumption, QueriedIs, LeafIs
  <2>2. z.k \notin {"AND", "OR"}
    BY <2>1, KindsDiffer DEF LeafKind
  <2> QED
    BY <1>3, <2>1, <2>2
<1> HIDE DEF P
<1>7. Queried \subseteq P
  BY <1>5, <1>6, AllOver DEF Queried
<1> QED
  BY <1>7 DEF P

\* Where NeverTrueHolds, for every row and every query however deep: what
\* prove_predicate_never_true says is empty, from the capabilities of the source
\* or from a contradiction among the terms of an AND, selects nothing, unless the
\* query reads a field whose literals' texts stand otherwise to each other than
\* their values do, or one with tests that the proof takes for contradictory.
THEOREM EmptinessIsRight ==
  ASSUME Atoms \subseteq WellTyped
  PROVE  Spec => [](ReadAsMeant(origin) => NeverTrueHolds)
<1>1. Init => Grown
  BY GrownInit
<1>2. Grown /\ [Next]_vars => Grown'
  BY GrownKept
<1>3. Grown => (ReadAsMeant(origin) => NeverTrueHolds)
  <2> SUFFICES ASSUME Grown, ReadAsMeant(origin), NeverTrue[Written[origin]], NEW row \in Row
               PROVE  ~Accepts(origin, row)
    BY DEF NeverTrueHolds
  <2> QED
    BY GrownQueried, NeverTrueRight
<1> QED
  BY <1>1, <1>2, <1>3, PTL DEF Spec

================================================================================
