------------------------------ MODULE Query_proofs ------------------------------
(***************************************************************************)
(* The execution of whole queries: the types of QueryAcquisition, the      *)
(* agreement of the equality index with the nested loop, and the plan of   *)
(* the source boundaries, which leaves out nothing a query shows.          *)
(***************************************************************************)
EXTENDS QueryAcquisition, SequenceTheorems, WellFoundedInduction, TLAPS

-----------------------------------------------------------------------------
(* Induction on numbers and on sequences, for a set of them *)

LEMMA AllNumbers ==
  ASSUME NEW P, 0 \in P, \A n \in P \cap Nat : n + 1 \in P
  PROVE  Nat \subseteq P
<1> SUFFICES ASSUME Nat \ P # {} PROVE FALSE
  OBVIOUS
<1>1. PICK x \in Nat \ P : \A y \in Nat \ P : ~ (<<y, x>> \in OpToRel(<, Nat))
  BY NatLessThanWellFounded, WFMin
<1>2. x \in Nat /\ x # 0
  OBVIOUS
<1>3. x - 1 \in Nat /\ x - 1 < x
  BY <1>2
<1>4. x - 1 \in P
  BY <1>1, <1>2, <1>3 DEF OpToRel
<1>5. x - 1 + 1 \in P
  BY <1>3, <1>4
<1> QED
  BY <1>2, <1>5

LEMMA AllSequences ==
  ASSUME NEW T, NEW P, <<>> \in P,
         \A s \in P \cap Seq(T), e \in T : Append(s, e) \in P
  PROVE  Seq(T) \subseteq P
<1> DEFINE N == {n \in Nat : \A s \in Seq(T) : Len(s) = n => s \in P}
<1>1. 0 \in N
  BY EmptySeq
<1>2. ASSUME NEW n \in N PROVE n + 1 \in N
  <2>1. ASSUME NEW s \in Seq(T), Len(s) = n + 1 PROVE s \in P
    <3> DEFINE front == [i \in 1..n |-> s[i]]
    <3>1. front \in Seq(T) /\ Len(front) = n
      BY <2>1
    <3>2. front \in P /\ s[n + 1] \in T
      BY <2>1, <3>1
    <3>3. s = Append(front, s[n + 1])
      BY <2>1, <3>1, <3>2
    <3> QED
      BY <3>1, <3>2, <3>3
  <2> QED
    BY <2>1
<1> HIDE DEF N
<1>3. Nat \subseteq N
  BY <1>1, <1>2, AllNumbers, Zenon
<1> QED
  BY <1>3, LenProperties DEF N

LEMMA Recursion ==
  ASSUME NEW n \in Nat, NEW V, NEW first \in V, NEW Step \in [1..n -> [V -> V]]
  PROVE  \E g \in [0..n -> V] : g[0] = first /\ \A i \in 1..n : g[i] = Step[i][g[i - 1]]
<1> DEFINE Upto(m, g) ==
      g \in [0..m -> V] /\ g[0] = first /\ \A i \in 1..m : g[i] = Step[i][g[i - 1]]
<1> DEFINE N == {m \in Nat : m <= n => \E g : Upto(m, g)}
<1>1. 0 \in N
  <2>1. Upto(0, [i \in 0..0 |-> first])
    OBVIOUS
  <2> HIDE DEF Upto
  <2> QED
    BY <2>1
<1>2. ASSUME NEW m \in N \cap Nat PROVE m + 1 \in N
  <2>1. ASSUME m + 1 <= n PROVE \E g : Upto(m + 1, g)
    <3>1. PICK g : Upto(m, g)
      <4> HIDE DEF Upto
      <4> QED
        BY <2>1
    <3> DEFINE x == Step[m + 1][g[m]]
               h == [i \in 0..(m + 1) |-> IF i <= m THEN g[i] ELSE x]
    <3>2. x \in V
      BY <2>1, <3>1
    <3>3. h \in [0..(m + 1) -> V]
      <4>1. ASSUME NEW i \in 0..(m + 1), i <= m PROVE g[i] \in V
        BY <3>1, <4>1
      <4> HIDE DEF x
      <4> QED
        BY <3>2, <4>1
    <3>4. h[0] = first
      BY <3>1
    <3>5. ASSUME NEW i \in 1..(m + 1) PROVE h[i] = Step[i][h[i - 1]]
      <4>1. CASE i <= m
        <5>1. i \in 1..m /\ i - 1 \in 0..m /\ i \in 0..(m + 1) /\ i - 1 \in 0..(m + 1)
          BY <4>1
        <5>2. h[i] = g[i] /\ h[i - 1] = g[i - 1]
          BY <4>1, <5>1
        <5> HIDE DEF h
        <5> QED
          BY <3>1, <5>1, <5>2
      <4>2. CASE i = m + 1
        <5>1. h[i] = x /\ h[i - 1] = g[m]
          BY <4>2
        <5> HIDE DEF h
        <5> QED
          BY <4>2, <5>1
      <4> QED
        BY <4>1, <4>2
    <3> HIDE DEF h
    <3>6. Upto(m + 1, h)
      BY <3>3, <3>4, <3>5
    <3> HIDE DEF Upto
    <3> QED
      BY <3>6
  <2> HIDE DEF Upto
  <2> QED
    BY <2>1
<1>3. Nat \subseteq N
  <2> HIDE DEF N
  <2> QED
    BY <1>1, <1>2, AllNumbers
<1>4. n \in N
  <2> HIDE DEF N
  <2> QED
    BY <1>3
<1>5. PICK g : Upto(n, g)
  <2> HIDE DEF Upto
  <2> QED
    BY <1>4
<1> QED
  BY <1>5

\* Two functions that take the same steps are the same.
LEMMA SameRecursion ==
  ASSUME NEW n \in Nat, NEW g, NEW h, g[0] = h[0],
         \A i \in 1..n : g[i - 1] = h[i - 1] => g[i] = h[i]
  PROVE  g[n] = h[n]
<1> DEFINE N == {m \in Nat : m <= n => g[m] = h[m]}
<1>1. 0 \in N
  OBVIOUS
<1>2. ASSUME NEW m \in N \cap Nat PROVE m + 1 \in N
  <2> SUFFICES ASSUME m + 1 <= n PROVE g[m + 1] = h[m + 1]
    OBVIOUS
  <2>1. g[m] = h[m] /\ m + 1 \in 1..n /\ m + 1 - 1 = m
    OBVIOUS
  <2> QED
    BY <2>1
<1> HIDE DEF N
<1>3. Nat \subseteq N
  BY <1>1, <1>2, AllNumbers
<1> QED
  BY <1>3 DEF N

-----------------------------------------------------------------------------
(* The rows that are in a set *)

Keeps(s, S, g) ==
  /\ g[0] = <<>>
  /\ \A n \in 1..Len(s) :
       g[n] = IF s[n] \in S THEN Append(g[n - 1], s[n]) ELSE g[n - 1]

LEMMA KeptExists ==
  ASSUME NEW T, NEW s \in Seq(T), NEW S
  PROVE  \E g : DOMAIN g = 0..Len(s) /\ Keeps(s, S, g) /\ g \in [0..Len(s) -> Seq(T)]
<1> DEFINE Step == [i \in 1..Len(s) |->
                      [x \in Seq(T) |-> IF s[i] \in S THEN Append(x, s[i]) ELSE x]]
<1>1. Step \in [1..Len(s) -> [Seq(T) -> Seq(T)]]
  <2>1. ASSUME NEW i \in 1..Len(s), NEW x \in Seq(T)
        PROVE  (IF s[i] \in S THEN Append(x, s[i]) ELSE x) \in Seq(T)
    <3>1. s[i] \in T
      BY ElementOfSeq
    <3> QED
      BY <3>1
  <2> QED
    BY <2>1
<1>2. \A i \in 1..Len(s), y \in Seq(T) :
        Step[i][y] = IF s[i] \in S THEN Append(y, s[i]) ELSE y
  OBVIOUS
<1> HIDE DEF Step
<1>3. Len(s) \in Nat /\ <<>> \in Seq(T)
  BY LenProperties, EmptySeq
<1>4. PICK g \in [0..Len(s) -> Seq(T)] :
        g[0] = <<>> /\ \A i \in 1..Len(s) : g[i] = Step[i][g[i - 1]]
  <2> DEFINE n == Len(s)
             V == Seq(T)
             none == <<>>
  <2>1. n \in Nat /\ none \in V /\ Step \in [1..n -> [V -> V]]
    BY <1>1, <1>3
  <2> HIDE DEF n, V, none
  <2>2. \E g \in [0..n -> V] : g[0] = none /\ \A i \in 1..n : g[i] = Step[i][g[i - 1]]
    BY <2>1, Recursion
  <2> QED
    BY <2>2 DEF n, V, none
<1>5. Keeps(s, S, g)
  <2>1. ASSUME NEW i \in 1..Len(s)
        PROVE  g[i] = IF s[i] \in S THEN Append(g[i - 1], s[i]) ELSE g[i - 1]
    <3>1. i - 1 \in 0..Len(s)
      BY <1>3
    <3>2. g[i - 1] \in Seq(T)
      BY <3>1
    <3> QED
      BY <1>2, <1>4, <3>2
  <2> QED
    BY <1>4, <2>1 DEF Keeps
<1> QED
  BY <1>4, <1>5

LEMMA AmongIs ==
  ASSUME NEW T, NEW s \in Seq(T), NEW S
  PROVE  \E g : /\ DOMAIN g = 0..Len(s) /\ Keeps(s, S, g) /\ g \in [0..Len(s) -> Seq(T)]
                /\ Among(s, S) = g[Len(s)]
<1> DEFINE Recurses(g) ==
      g = [n \in 0..Len(s) |->
             IF n = 0 THEN <<>>
             ELSE IF s[n] \in S THEN Append(g[n - 1], s[n]) ELSE g[n - 1]]
<1> DEFINE kept == CHOOSE g : Recurses(g)
<1>1. PICK g : DOMAIN g = 0..Len(s) /\ Keeps(s, S, g) /\ g \in [0..Len(s) -> Seq(T)]
  BY KeptExists
<1>2. Recurses(g)
  <2>1. ASSUME NEW n \in 0..Len(s)
        PROVE  g[n] = IF n = 0 THEN <<>>
                      ELSE IF s[n] \in S THEN Append(g[n - 1], s[n]) ELSE g[n - 1]
    <3>1. n = 0 \/ (n # 0 /\ n \in 1..Len(s))
      BY LenProperties
    <3>2. n # 0 /\ n \in 1..Len(s) => g[n] = IF s[n] \in S THEN Append(g[n - 1], s[n]) ELSE g[n - 1]
      BY <1>1 DEF Keeps
    <3>3. g[0] = <<>>
      BY <1>1 DEF Keeps
    <3> QED
      BY <3>1, <3>2, <3>3
  <2> QED
    BY <1>1, <2>1
<1>3. Recurses(kept)
  BY <1>2
<1>4. Among(s, S) = kept[Len(s)]
  BY DEF Among
<1> HIDE DEF kept
<1>5. DOMAIN kept = 0..Len(s) /\ Keeps(s, S, kept)
  <2>1. DOMAIN kept = 0..Len(s) /\ kept[0] = <<>>
    BY <1>3, LenProperties
  <2>2. ASSUME NEW n \in 1..Len(s)
        PROVE  kept[n] = IF s[n] \in S THEN Append(kept[n - 1], s[n]) ELSE kept[n - 1]
    <3>1. n \in 0..Len(s) /\ n # 0
      BY LenProperties
    <3> QED
      BY <1>3, <3>1
  <2> QED
    BY <2>1, <2>2 DEF Keeps
<1>6. kept[Len(s)] = g[Len(s)]
  <2>1. Len(s) \in Nat /\ kept[0] = g[0]
    BY <1>1, <1>5, LenProperties DEF Keeps
  <2>2. ASSUME NEW i \in 1..Len(s), kept[i - 1] = g[i - 1] PROVE kept[i] = g[i]
    BY <1>1, <1>5, <2>2 DEF Keeps
  <2> QED
    BY <2>1, <2>2, SameRecursion
<1> QED
  BY <1>1, <1>4, <1>6

LEMMA AmongEmpty ==
  ASSUME NEW S
  PROVE  Among(<<>>, S) = <<>>
<1>1. <<>> \in Seq({}) /\ Len(<<>>) = 0
  BY EmptySeq
<1>2. PICK g : Keeps(<<>>, S, g) /\ Among(<<>>, S) = g[Len(<<>>)]
  BY <1>1, AmongIs
<1> QED
  BY <1>1, <1>2 DEF Keeps

LEMMA AmongAppend ==
  ASSUME NEW T, NEW s \in Seq(T), NEW e \in T, NEW S
  PROVE  Among(Append(s, e), S) = IF e \in S THEN Append(Among(s, S), e) ELSE Among(s, S)
<1> DEFINE t == Append(s, e)
<1>1. /\ t \in Seq(T) /\ Len(t) = Len(s) + 1 /\ t[Len(s) + 1] = e /\ Len(s) \in Nat
      /\ \A n \in 1..Len(s) : t[n] = s[n]
  BY LenProperties
<1> HIDE DEF t
<1>2. PICK g : Keeps(s, S, g) /\ Among(s, S) = g[Len(s)]
  BY AmongIs
<1>3. PICK h : Keeps(t, S, h) /\ Among(t, S) = h[Len(t)]
  BY <1>1, AmongIs
<1>4. h[0] = g[0] /\ \A i \in 1..Len(s) : h[i - 1] = g[i - 1] => h[i] = g[i]
  <2>1. ASSUME NEW i \in 1..Len(s), h[i - 1] = g[i - 1] PROVE h[i] = g[i]
    <3>1. i \in 1..Len(t) /\ t[i] = s[i]
      BY <1>1
    <3> QED
      BY <1>2, <1>3, <2>1, <3>1 DEF Keeps
  <2> QED
    BY <1>2, <1>3, <2>1 DEF Keeps
<1>5. h[Len(s)] = g[Len(s)]
  BY <1>1, <1>4, SameRecursion
<1>6. Len(t) \in 1..Len(t) /\ Len(t) - 1 = Len(s) /\ t[Len(t)] = e
  BY <1>1
<1>7. h[Len(t)] = IF t[Len(t)] \in S THEN Append(h[Len(t) - 1], t[Len(t)]) ELSE h[Len(t) - 1]
  BY <1>3, <1>6 DEF Keeps
<1> QED
  BY <1>2, <1>3, <1>5, <1>6, <1>7 DEF t

LEMMA AmongType ==
  ASSUME NEW T, NEW s \in Seq(T), NEW S
  PROVE  Among(s, S) \in Seq(T \cap S)
<1> DEFINE P == {r \in Seq(T) : Among(r, S) \in Seq(T \cap S)}
<1>1. <<>> \in P
  BY EmptySeq, AmongEmpty
<1>2. ASSUME NEW r \in P \cap Seq(T), NEW e \in T PROVE Append(r, e) \in P
  <2>1. Among(Append(r, e), S) = IF e \in S THEN Append(Among(r, S), e) ELSE Among(r, S)
    BY AmongAppend
  <2>2. Among(Append(r, e), S) \in Seq(T \cap S)
    BY <2>1
  <2> QED
    BY <2>2
<1>3. Seq(T) \subseteq P
  <2> HIDE DEF P
  <2> QED
    BY <1>1, <1>2, AllSequences
<1> QED
  BY <1>3

\* Only what the sequence holds matters of the set.
LEMMA AmongAgree ==
  ASSUME NEW T, NEW s \in Seq(T), NEW A, NEW B, A \cap T = B \cap T
  PROVE  Among(s, A) = Among(s, B)
<1> DEFINE P == {r \in Seq(T) : Among(r, A) = Among(r, B)}
<1>1. <<>> \in P
  BY EmptySeq, AmongEmpty
<1>2. ASSUME NEW r \in P \cap Seq(T), NEW e \in T PROVE Append(r, e) \in P
  <2>1. /\ Among(Append(r, e), A) = IF e \in A THEN Append(Among(r, A), e) ELSE Among(r, A)
        /\ Among(Append(r, e), B) = IF e \in B THEN Append(Among(r, B), e) ELSE Among(r, B)
    BY AmongAppend
  <2> QED
    BY <2>1
<1>3. Seq(T) \subseteq P
  <2> HIDE DEF P
  <2> QED
    BY <1>1, <1>2, AllSequences
<1> QED
  BY <1>3

\* What one set lets pass and another one is asked to take from it.
LEMMA AmongTwice ==
  ASSUME NEW T, NEW s \in Seq(T), NEW A, NEW B, B \cap T \subseteq A
  PROVE  Among(Among(s, A), B) = Among(s, B)
<1> DEFINE P == {r \in Seq(T) : Among(Among(r, A), B) = Among(r, B)}
<1>1. <<>> \in P
  BY EmptySeq, AmongEmpty
<1>2. ASSUME NEW r \in P \cap Seq(T), NEW e \in T PROVE Append(r, e) \in P
  <2>1. /\ Among(Append(r, e), A) = IF e \in A THEN Append(Among(r, A), e) ELSE Among(r, A)
        /\ Among(Append(r, e), B) = IF e \in B THEN Append(Among(r, B), e) ELSE Among(r, B)
    BY AmongAppend
  <2> DEFINE a == Among(r, A)
  <2>2. a \in Seq(T)
    <3>1. a \in Seq(T \cap A) /\ T \cap A \subseteq T
      BY AmongType
    <3> HIDE DEF a
    <3> QED
      BY <3>1, SeqMonotonic
  <2>3. Among(a, B) = Among(r, B)
    OBVIOUS
  <2> HIDE DEF a, P
  <2>4. Among(Append(a, e), B) = IF e \in B THEN Append(Among(a, B), e) ELSE Among(a, B)
    BY <2>2, AmongAppend
  <2>5. e \in B => e \in A
    OBVIOUS
  <2>6. Among(Among(Append(r, e), A), B) = Among(Append(r, e), B)
    BY <2>1, <2>3, <2>4, <2>5 DEF a
  <2> QED
    BY <2>6 DEF P
<1>3. Seq(T) \subseteq P
  <2> HIDE DEF P
  <2> QED
    BY <1>1, <1>2, AllSequences
<1> QED
  BY <1>3

LEMMA AmongNone ==
  ASSUME NEW T, NEW s \in Seq(T), NEW S, S \cap T = {}
  PROVE  Among(s, S) = <<>>
<1>1. Among(s, S) \in Seq(T \cap S)
  BY AmongType
<1>2. T \cap S = {}
  OBVIOUS
<1> QED
  BY <1>1, <1>2

-----------------------------------------------------------------------------
(* The index and the nested loop *)

LEMMA RowFacts ==
  /\ NullRow \in Row
  /\ \A r \in Row, f \in FieldName : r[f] \in FieldValue
  /\ \A s \in Seq(Row) : s \in Seq(ToSet(s)) /\ ToSet(s) \subseteq Row
BY DEF NullRow, Row, FieldName, FieldValue, Null, Kind, ToSet

\* Two values are equal by Compare when they are the same value, and not NULL.
LEMMA EqualValues ==
  ASSUME NEW a \in FieldValue, NEW b \in FieldValue
  PROVE  Compare("=", a, b) = "T" <=> ~ IsNullValue(a) /\ a = b
<1>1. /\ a = [kind |-> a.kind, n |-> a.n] /\ a.n \in Int
      /\ b = [kind |-> b.kind, n |-> b.n] /\ b.n \in Int
  BY DEF FieldValue
<1>2. a = b <=> a.kind = b.kind /\ a.n = b.n
  BY <1>1
<1>3. Compare("=", a, b) = "T"
      <=> ~ IsNullValue(a) /\ ~ IsNullValue(b) /\ a.kind = b.kind /\ a.n = b.n
  BY DEF Compare, Bool3, Holds, Ordered
<1> QED
  BY <1>2, <1>3 DEF IsNullValue

LEMMA IndexedIsReference ==
  ASSUME NEW on, on.op = "=", on.f \in FieldName, NEW l \in Row, NEW right \in Seq(Row)
  PROVE  /\ Indexed(on, l, right) = Reference(on, l, right)
         /\ Reference(on, l, Indexed(on, l, right)) = Reference(on, l, right)
<1> DEFINE M == {r \in ToSet(right) : Matches(on, l, r)}
<1> DEFINE A == {r \in ToSet(right) : r[on.f] = l[on.f]}
<1>1. right \in Seq(ToSet(right)) /\ ToSet(right) \subseteq Row
  BY RowFacts
<1>2. on.f # "never"
  BY DEF FieldName
<1>3. ASSUME NEW r \in Row
      PROVE  Matches(on, l, r) <=> ~ IsNullValue(l[on.f]) /\ l[on.f] = r[on.f]
  <2>1. l[on.f] \in FieldValue /\ r[on.f] \in FieldValue
    BY RowFacts
  <2> QED
    BY <1>2, <2>1, EqualValues DEF Matches
<1>4. Indexed(on, l, right) = Among(right, M)
  <2>1. CASE IsNullValue(l[on.f])
    <3>1. M \cap ToSet(right) = {}
      BY <1>1, <1>3, <2>1
    <3> HIDE DEF M
    <3>2. Among(right, M) = <<>>
      BY <1>1, <3>1, AmongNone
    <3> QED
      BY <2>1, <3>2 DEF Indexed
  <2>2. CASE ~ IsNullValue(l[on.f])
    <3>1. A = M
      BY <1>1, <1>3, <2>2
    <3>2. Indexed(on, l, right) = Among(right, A)
      BY <2>2 DEF Indexed
    <3> QED
      BY <3>1, <3>2
  <2> QED
    BY <2>1, <2>2
<1>5. Reference(on, l, right) = Among(right, M)
  BY DEF Reference
<1> DEFINE s == Among(right, M)
<1>6. Reference(on, l, s) = s
  <2> DEFINE B == {r \in ToSet(s) : Matches(on, l, r)}
  <2>1. s \in Seq(ToSet(right) \cap M)
    <3> HIDE DEF M
    <3> QED
      BY <1>1, AmongType
  <2>2. ToSet(s) \subseteq M
    <3> HIDE DEF s
    <3> QED
      BY <2>1 DEF ToSet
  <2>3. B \cap (ToSet(right) \cap M) = ToSet(s)
    BY <2>2
  <2>4. M \cap ToSet(s) = B \cap ToSet(s)
    BY <2>2
  <2>5. s \in Seq(ToSet(s))
    <3> HIDE DEF s
    <3> QED
      BY <2>1 DEF ToSet
  <2>6. Among(s, B) = Among(s, M)
    <3> HIDE DEF s, M, B
    <3> QED
      BY <2>4, <2>5, AmongAgree
  <2>7. Among(s, M) = s
    <3>1. M \cap ToSet(right) \subseteq M
      OBVIOUS
    <3> HIDE DEF M
    <3> QED
      BY <1>1, <3>1, AmongTwice
  <2>8. Reference(on, l, s) = Among(s, B)
    <3> HIDE DEF s
    <3> QED
      BY DEF Reference
  <2> QED
    BY <2>6, <2>7, <2>8
<1> QED
  BY <1>4, <1>5, <1>6

LEMMA ExistenceSame ==
  ASSUME NEW join, NEW left \in Seq(Row), NEW right \in Seq(Row),
         join.on.f \in FieldName \cup {"never"}
  PROVE  Existence(join, left, right, TRUE) = Existence(join, left, right, FALSE)
<1> DEFINE Index(fast) == UsesIndex(join.on, right, fast)
                          /\ \A i \in DOMAIN left : Hashable(left[i][join.on.f])
<1> DEFINE Found(fast, l) == IF Index(fast) THEN Indexed(join.on, l, right)
                             ELSE Reference(join.on, l, right)
<1> DEFINE Rest(fast) == {l \in ToSet(left) : (Found(fast, l) # <<>>) = (join.kind = "SEMI")}
<1>1. \A fast \in BOOLEAN :
        Existence(join, left, right, fast) = Single(Among(left, Rest(fast)))
  BY DEF Existence
<1>2. ASSUME NEW l \in ToSet(left) PROVE Found(TRUE, l) = Found(FALSE, l)
  <2>1. l \in Row
    BY RowFacts
  <2>2. ~ Index(FALSE)
    BY DEF UsesIndex
  <2>3. CASE ~ Index(TRUE)
    BY <2>2, <2>3
  <2>4. CASE Index(TRUE)
    <3>1. join.on.op = "=" /\ join.on.f \in FieldName
      BY <2>4 DEF UsesIndex
    <3>2. Indexed(join.on, l, right) = Reference(join.on, l, right)
      BY <2>1, <3>1, IndexedIsReference
    <3> QED
      BY <2>2, <2>4, <3>2
  <2> QED
    BY <2>3, <2>4
<1> HIDE DEF Found
<1>3. Rest(TRUE) = Rest(FALSE)
  BY <1>2
<1> HIDE DEF Rest
<1> QED
  BY <1>1, <1>3

LEMMA RowProducingSame ==
  ASSUME NEW join, NEW left \in Seq(Row), NEW right \in Seq(Row),
         join.on.f \in FieldName \cup {"never"}
  PROVE  RowProducing(join, left, right, TRUE) = RowProducing(join, left, right, FALSE)
<1> DEFINE Candidates(fast, l) ==
      IF UsesIndex(join.on, right, fast) /\ Hashable(l[join.on.f])
      THEN Indexed(join.on, l, right) ELSE right
<1> DEFINE Found(fast, l) == Reference(join.on, l, Candidates(fast, l))
<1> DEFINE Of(fast, l) ==
      IF Found(fast, l) = <<>> /\ join.kind = "LEFT" THEN Single(<<l>>)
      ELSE [i \in DOMAIN Found(fast, l) |-> [x |-> l, y |-> Found(fast, l)[i]]]
<1>1. \A fast \in BOOLEAN :
        RowProducing(join, left, right, fast) =
          FlattenSeq([i \in DOMAIN left |-> Of(fast, left[i])])
  BY DEF RowProducing
<1>2. ASSUME NEW i \in DOMAIN left PROVE Found(TRUE, left[i]) = Found(FALSE, left[i])
  <2>1. left[i] \in Row
    OBVIOUS
  <2>2. Candidates(FALSE, left[i]) = right
    BY DEF UsesIndex
  <2>3. CASE Candidates(TRUE, left[i]) = right
    BY <2>2, <2>3
  <2>4. CASE Candidates(TRUE, left[i]) # right
    <3>1. join.on.op = "=" /\ join.on.f \in FieldName
      BY <2>4 DEF UsesIndex
    <3>2. Candidates(TRUE, left[i]) = Indexed(join.on, left[i], right)
      BY <2>4
    <3>3. Reference(join.on, left[i], Indexed(join.on, left[i], right))
            = Reference(join.on, left[i], right)
      BY <2>1, <3>1, IndexedIsReference
    <3> QED
      BY <2>2, <3>2, <3>3
  <2> QED
    BY <2>3, <2>4
<1> HIDE DEF Found
<1>3. \A i \in DOMAIN left : Of(TRUE, left[i]) = Of(FALSE, left[i])
  BY <1>2
<1> HIDE DEF Of
<1>4. [i \in DOMAIN left |-> Of(TRUE, left[i])] = [i \in DOMAIN left |-> Of(FALSE, left[i])]
  BY <1>3
<1> QED
  BY <1>1, <1>4

LEMMA JoinedSame ==
  ASSUME NEW join, NEW left \in Seq(Row), NEW right \in Seq(Row),
         join.on.f \in FieldName \cup {"never"}
  PROVE  Joined(join, left, right, TRUE) = Joined(join, left, right, FALSE)
BY ExistenceSame, RowProducingSame DEF Joined

-----------------------------------------------------------------------------
(* Types of what is executed *)

Pair == [x : Row, y : Row]
Data == [Source -> Seq(Row)]

LEMMA SingleType ==
  ASSUME NEW rows \in Seq(Row)
  PROVE  Single(rows) \in Seq(Pair)
<1> DEFINE At(i) == [x |-> rows[i], y |-> NullRow]
<1>1. \A i \in 1..Len(rows) : At(i) \in Pair
  BY RowFacts DEF Pair
<1>2. Single(rows) = [i \in 1..Len(rows) |-> At(i)]
  BY DEF Single
<1> HIDE DEF At
<1> QED
  BY <1>1, <1>2, LenProperties

LEMMA FilterType ==
  ASSUME NEW where, NEW rows \in Seq(Pair)
  PROVE  Filter(where, rows) \in Seq(Pair)
<1> DEFINE S == {r \in ToSet(rows) : \A i \in DOMAIN where : Passes(where[i], r.x, r.y)}
<1>1. Filter(where, rows) = Among(rows, S)
  BY DEF Filter
<1> HIDE DEF S
<1>2. Among(rows, S) \in Seq(Pair \cap S) /\ Pair \cap S \subseteq Pair
  BY AmongType
<1> QED
  BY <1>1, <1>2, SeqMonotonic

LEMMA LeftType ==
  ASSUME NEW rows \in Seq(Pair)
  PROVE  [i \in DOMAIN rows |-> rows[i].x] \in Seq(Row)
<1> DEFINE At(i) == rows[i].x
<1>1. \A i \in 1..Len(rows) : At(i) \in Row
  <2>1. \A i \in 1..Len(rows) : rows[i] \in Pair
    BY ElementOfSeq
  <2> QED
    BY <2>1 DEF Pair
<1>2. [i \in DOMAIN rows |-> rows[i].x] = [i \in 1..Len(rows) |-> At(i)]
  OBVIOUS
<1> HIDE DEF At
<1> QED
  BY <1>1, <1>2, LenProperties

LEMMA ExistenceType ==
  ASSUME NEW join, NEW left \in Seq(Row), NEW right, NEW fast
  PROVE  Existence(join, left, right, fast) \in Seq(Pair)
<1> DEFINE index == UsesIndex(join.on, right, fast)
                    /\ \A i \in DOMAIN left : Hashable(left[i][join.on.f])
<1> DEFINE Found(l) == IF index THEN Indexed(join.on, l, right) ELSE Reference(join.on, l, right)
<1> DEFINE S == {l \in ToSet(left) : (Found(l) # <<>>) = (join.kind = "SEMI")}
<1>1. Existence(join, left, right, fast) = Single(Among(left, S))
  BY DEF Existence
<1> HIDE DEF S
<1>2. Among(left, S) \in Seq(Row \cap S) /\ Row \cap S \subseteq Row
  BY AmongType
<1>3. Among(left, S) \in Seq(Row)
  BY <1>2, SeqMonotonic
<1> QED
  BY <1>1, <1>3, SingleType

LEMMA RowsType ==
  ASSUME NEW o \in Operands, NEW data \in Data, NEW cte \in Seq(Row)
  PROVE  Rows(o, data, cte) \in Seq(Row)
<1> DEFINE of == IF o.s = "cte" THEN cte ELSE data[o.s]
<1> DEFINE inner == Filter(o.where, Single(of))
<1>1. of \in Seq(Row)
  BY OperandAssumption DEF Data, TheCte
<1>2. Rows(o, data, cte) = IF o.k # "derived" THEN of ELSE [i \in DOMAIN inner |-> inner[i].x]
  BY DEF Rows
<1> HIDE DEF of
<1>3. inner \in Seq(Pair)
  BY <1>1, SingleType, FilterType
<1> HIDE DEF inner
<1> QED
  BY <1>1, <1>2, <1>3, LeftType

-----------------------------------------------------------------------------
(* Queries *)

LEMMA BodyFacts ==
  ASSUME NEW b \in BodyClauses
  PROVE  /\ b.from \in Operands
         /\ b.joins # <<>> => /\ b.joins[1].relation \in Operands
                             /\ b.joins[1].on.f \in FieldName \cup {"never"}
<1>1. b.from \in Operands /\ b.joins \in Seq(JoinClause)
  BY DEF BodyClauses
<1>2. ASSUME b.joins # <<>>
      PROVE  b.joins[1] \in JoinClause
  BY <1>1, <1>2, EmptySeq, ElementOfSeq
<1> QED
  BY <1>1, <1>2, OperandAssumption DEF JoinClause

LEMMA BodyRowsSame ==
  ASSUME NEW b \in BodyClauses, NEW data \in Data, NEW cte \in Seq(Row)
  PROVE  BodyRows(b, data, cte, TRUE) = BodyRows(b, data, cte, FALSE)
<1>1. CASE b.joins = <<>>
  BY <1>1 DEF BodyRows
<1>2. CASE b.joins # <<>>
  <2> DEFINE left == Rows(b.from, data, cte)
             right == Rows(b.joins[1].relation, data, cte)
  <2>1. left \in Seq(Row) /\ right \in Seq(Row)
    BY <1>2, BodyFacts, RowsType
  <2>2. \A fast \in BOOLEAN :
          BodyRows(b, data, cte, fast) = Filter(b.where, Joined(b.joins[1], left, right, fast))
    BY <1>2 DEF BodyRows
  <2> HIDE DEF left, right
  <2>3. b.joins[1].on.f \in FieldName \cup {"never"}
    BY <1>2, BodyFacts
  <2>4. Joined(b.joins[1], left, right, TRUE) = Joined(b.joins[1], left, right, FALSE)
    BY <2>1, <2>3, JoinedSame
  <2> QED
    BY <2>2, <2>4
<1> QED
  BY <1>1, <1>2

LEMMA QueryFacts ==
  ASSUME NEW q \in Query
  PROVE  /\ \A i \in DOMAIN q.branches : q.branches[i] \in BodyClauses
         /\ q.cte # <<>> => q.cte[1] \in CteBody
<1>1. q.branches \in Seq(BodyClauses) /\ q.cte \in Seq(CteBody)
  BY DEF Query
<1> QED
  BY <1>1, EmptySeq, ElementOfSeq, LenProperties

LEMMA CteRowsFacts ==
  ASSUME NEW q \in Query, NEW data \in Data
  PROVE  /\ CteRows(q, data, TRUE) \in Seq(Row)
         /\ CteRows(q, data, TRUE) = CteRows(q, data, FALSE)
<1>1. CASE q.cte = <<>>
  BY <1>1, EmptySeq DEF CteRows
<1>2. CASE q.cte # <<>>
  <2> DEFINE b == q.cte[1]
             rows == BodyRows(b, data, <<>>, TRUE)
  <2>1. /\ b \in BodyClauses /\ b \in CteBody
        /\ b.joins # <<>> => b.joins[1].kind = "SEMI"
    <3>1. b \in CteBody
      BY <1>2, QueryFacts
    <3>2. b \in BodyClauses /\ b.joins \in Seq(JoinClause)
      BY <3>1 DEF CteBody, BodyClauses
    <3>3. b.joins # <<>> => 1 \in DOMAIN b.joins
      BY <3>2, EmptySeq, LenProperties
    <3> QED
      BY <3>1, <3>2, <3>3 DEF CteBody
  <2>2. <<>> \in Seq(Row)
    BY EmptySeq
  <2>3. \A fast \in BOOLEAN :
          CteRows(q, data, fast) = [i \in DOMAIN BodyRows(b, data, <<>>, fast) |->
                                      BodyRows(b, data, <<>>, fast)[i].x]
    BY <1>2 DEF CteRows
  <2> HIDE DEF b
  <2>4. rows = BodyRows(b, data, <<>>, FALSE)
    BY <2>1, <2>2, BodyRowsSame
  <2>5. rows \in Seq(Pair)
    <3>1. Rows(b.from, data, <<>>) \in Seq(Row)
      BY <2>1, <2>2, BodyFacts, RowsType
    <3>2. CASE b.joins = <<>>
      <4>1. rows = Filter(b.where, Single(Rows(b.from, data, <<>>)))
        BY <3>2 DEF BodyRows
      <4> QED
        BY <3>1, <4>1, SingleType, FilterType
    <3>3. CASE b.joins # <<>>
      <4>1. b.joins[1].kind \notin {"INNER", "LEFT"}
        BY <2>1, <3>3
      <4>2. rows = Filter(b.where,
                          Existence(b.joins[1], Rows(b.from, data, <<>>),
                                    Rows(b.joins[1].relation, data, <<>>), TRUE))
        BY <3>3, <4>1 DEF BodyRows, Joined
      <4> QED
        BY <3>1, <4>2, ExistenceType, FilterType
    <3> QED
      BY <3>2, <3>3
  <2> HIDE DEF rows
  <2> QED
    BY <2>3, <2>4, <2>5, LeftType DEF rows
<1> QED
  BY <1>1, <1>2

LEMMA ResultSame ==
  ASSUME NEW q \in Query, NEW data \in Data
  PROVE  Result(q, data, TRUE) = Result(q, data, FALSE)
<1> DEFINE cte == CteRows(q, data, TRUE)
<1>1. cte \in Seq(Row) /\ cte = CteRows(q, data, FALSE)
  BY CteRowsFacts
<1> HIDE DEF cte
<1>2. ASSUME NEW i \in DOMAIN q.branches
      PROVE  Values(q.branches[i], data, cte, TRUE) = Values(q.branches[i], data, cte, FALSE)
  <2>1. BodyRows(q.branches[i], data, cte, TRUE) = BodyRows(q.branches[i], data, cte, FALSE)
    BY <1>1, QueryFacts, BodyRowsSame
  <2> QED
    BY <2>1 DEF Values
<1>3. Branches(q, data, cte, TRUE) = Branches(q, data, cte, FALSE)
  BY <1>2 DEF Branches
<1> QED
  BY <1>1, <1>3 DEF Result, cte

-----------------------------------------------------------------------------
(* Building a query *)

TypeInv ==
  /\ content \in Contents /\ query \in Query
  /\ clauses \in 0..MaxClauses /\ phase \in {"build", "answer"}
  /\ acquired \in Data

LEMMA OneIsASequence ==
  ASSUME NEW T, NEW e \in T
  PROVE  <<e>> \in Seq(T)
OBVIOUS

\* Replacing one clause of a query, or of a body, by one of its type.
LEMMA ReplacedClause ==
  ASSUME NEW q \in Query
  PROVE  /\ \A b \in CteBody : [q EXCEPT !.cte = <<b>>] \in Query
         /\ \A branches \in Seq(BodyClauses) \ {<<>>} :
              /\ [q EXCEPT !.branches = branches] \in Query
              /\ \A all \in BOOLEAN : [q EXCEPT !.branches = branches, !.all = all] \in Query
         /\ [q EXCEPT !.order = TRUE] \in Query
         /\ \A n \in 1..2 : [q EXCEPT !.limit = <<n>>] \in Query
<1> DEFINE Ctes == Seq(CteBody)
           Parts == Seq(BodyClauses) \ {<<>>}
           Limits == Seq(1..2)
<1>1. Query = [cte : Ctes, branches : Parts, all : BOOLEAN, order : BOOLEAN, limit : Limits]
  BY DEF Query
<1>2. (\A b \in CteBody : <<b>> \in Ctes) /\ \A n \in 1..2 : <<n>> \in Limits
  BY OneIsASequence
<1> HIDE DEF Ctes, Parts, Limits
<1> QED
  BY <1>1, <1>2 DEF Parts

LEMMA ReplacedPart ==
  ASSUME NEW b \in BodyClauses, NEW joins \in Seq(JoinClause), NEW where \in Seq(Tests)
  PROVE  /\ [b EXCEPT !.joins = joins] \in BodyClauses
         /\ [b EXCEPT !.where = where] \in BodyClauses
<1> DEFINE Joins == Seq(JoinClause)
           Wheres == Seq(Tests)
<1>1. BodyClauses = [sel : FieldName, from : Operands, joins : Joins, where : Wheres]
  BY DEF BodyClauses
<1> HIDE DEF Joins, Wheres
<1> QED
  BY <1>1 DEF Joins, Wheres

LEMMA BodyType ==
  ASSUME NEW sel \in FieldName, NEW o \in Operands
  PROVE  Body(sel, o) \in BodyClauses
BY EmptySeq DEF Body, BodyClauses

LEMMA InitType == Init => TypeInv
<1> SUFFICES ASSUME Init PROVE TypeInv
  OBVIOUS
<1>1. PICK sel \in FieldName, o \in Operands :
        query = [NoQuery EXCEPT !.branches = <<Body(sel, o)>>]
  BY DEF Init
<1>2. query \in Query
  <2> DEFINE branches == <<Body(sel, o)>>
  <2>2. branches \in Seq(BodyClauses) /\ branches # <<>>
    BY BodyType, OneIsASequence
  <2>3. query = [cte |-> <<>>, branches |-> branches, all |-> FALSE,
                 order |-> FALSE, limit |-> <<>>]
    BY <1>1 DEF NoQuery
  <2> HIDE DEF branches
  <2>4. <<>> \in Seq(CteBody) /\ <<>> \in Seq(1..2)
    BY EmptySeq
  <2> QED
    BY <2>2, <2>3, <2>4 DEF Query
<1>3. acquired \in Data
  BY DEF Init, Data
<1>4. MaxClauses \in Nat
  BY ContentAssumption
<1> QED
  BY <1>2, <1>3, <1>4 DEF Init, TypeInv

LEMMA ClauseType ==
  ASSUME TypeInv, NEW q \in Query, Clause(q)
  PROVE  TypeInv'
BY ContentAssumption DEF TypeInv, Clause

LEMMA LatestFacts ==
  ASSUME query \in Query
  PROVE  /\ query.branches \in Seq(BodyClauses) /\ Latest \in 1..Len(query.branches)
         /\ query.branches[Latest] \in BodyClauses
         /\ \A b \in BodyClauses :
              [query EXCEPT !.branches = [query.branches EXCEPT ![Latest] = b]] \in Query
<1>1. query.branches \in Seq(BodyClauses) /\ query.branches # <<>>
  BY DEF Query
<1>2. Latest \in 1..Len(query.branches)
  BY <1>1, EmptySeq DEF Latest
<1>3. ASSUME NEW b \in BodyClauses
      PROVE  [query EXCEPT !.branches = [query.branches EXCEPT ![Latest] = b]] \in Query
  <2> DEFINE branches == [query.branches EXCEPT ![Latest] = b]
  <2>1. branches \in Seq(BodyClauses) /\ Len(branches) = Len(query.branches)
    BY <1>1, <1>2, ExceptSeq
  <2>2. branches # <<>>
    BY <1>1, <2>1, EmptySeq
  <2> HIDE DEF branches
  <2>3. [query EXCEPT !.branches = branches] \in Query
    BY <2>1, <2>2, ReplacedClause
  <2> QED
    BY <2>3 DEF branches
<1> QED
  BY <1>1, <1>2, <1>3

LEMMA JoinType ==
  ASSUME TypeInv, NEW kind \in Kinds, NEW o \in Operands, NEW on \in Ons, Join(kind, o, on)
  PROVE  TypeInv'
<1> DEFINE join == [kind |-> kind, relation |-> o, on |-> on]
<1> DEFINE b == [query.branches[Latest] EXCEPT !.joins = <<join>>]
<1>1. query \in Query
  BY DEF TypeInv
<1>2. join \in JoinClause
  BY DEF JoinClause
<1> HIDE DEF join
<1>3. b \in BodyClauses
  <2>1. <<join>> \in Seq(JoinClause) /\ <<>> \in Seq(Tests)
    BY <1>2, OneIsASequence, EmptySeq
  <2> QED
    BY <1>1, <2>1, LatestFacts, ReplacedPart
<1>4. [query EXCEPT !.branches[Latest].joins = <<join>>]
        = [query EXCEPT !.branches = [query.branches EXCEPT ![Latest] = b]]
  BY <1>1, LatestFacts DEF BodyClauses, Query
<1>5. Clause([query EXCEPT !.branches[Latest].joins = <<join>>])
  BY DEF Join, join
<1> HIDE DEF b
<1> QED
  BY <1>1, <1>3, <1>4, <1>5, LatestFacts, ClauseType

LEMMA WhereType ==
  ASSUME TypeInv, NEW test \in Tests, Where(test)
  PROVE  TypeInv'
<1> DEFINE b == [query.branches[Latest] EXCEPT !.where = <<test>>]
<1>1. query \in Query
  BY DEF TypeInv
<1>2. b \in BodyClauses
  <2>1. <<test>> \in Seq(Tests) /\ <<>> \in Seq(JoinClause)
    BY OneIsASequence, EmptySeq
  <2> QED
    BY <1>1, <2>1, LatestFacts, ReplacedPart
<1>3. [query EXCEPT !.branches[Latest].where = <<test>>]
        = [query EXCEPT !.branches = [query.branches EXCEPT ![Latest] = b]]
  BY <1>1, LatestFacts DEF BodyClauses, Query
<1>4. Clause([query EXCEPT !.branches[Latest].where = <<test>>])
  BY DEF Where
<1> HIDE DEF b
<1> QED
  BY <1>1, <1>2, <1>3, <1>4, LatestFacts, ClauseType

LEMMA UnionType ==
  ASSUME TypeInv, NEW all \in BOOLEAN, NEW sel \in FieldName, NEW o \in Operands,
         Union(all, sel, o)
  PROVE  TypeInv'
<1> DEFINE branches == Append(query.branches, Body(sel, o))
<1>1. query \in Query
  BY DEF TypeInv
<1>2. branches \in Seq(BodyClauses) \ {<<>>}
  BY <1>1, LatestFacts, BodyType
<1>3. Clause([query EXCEPT !.branches = branches, !.all = all])
  BY DEF Union
<1> HIDE DEF branches
<1>4. [query EXCEPT !.branches = branches, !.all = all] \in Query
  BY <1>1, <1>2, ReplacedClause
<1> QED
  BY <1>3, <1>4, ClauseType

LEMMA OrderLimitType ==
  ASSUME TypeInv, OrderBy \/ \E n \in 1..2 : Limit(n)
  PROVE  TypeInv'
<1>1. query \in Query
  BY DEF TypeInv
<1>2. CASE OrderBy
  <2>1. [query EXCEPT !.order = TRUE] \in Query
    BY <1>1, ReplacedClause
  <2> QED
    BY <1>2, <2>1, ClauseType DEF OrderBy
<1>3. ASSUME NEW n \in 1..2, Limit(n) PROVE TypeInv'
  <2>1. [query EXCEPT !.limit = <<n>>] \in Query
    BY <1>1, ReplacedClause
  <2> QED
    BY <1>3, <2>1, ClauseType DEF Limit
<1> QED
  BY <1>2, <1>3

LEMMA WithType ==
  ASSUME TypeInv, NEW o \in PhysicalOperands, NEW joins \in CteJoins,
         NEW where \in {<<>>} \cup {<<test>> : test \in LeftTests}, With(o, joins, where)
  PROVE  TypeInv'
<1> DEFINE b == [Body("t", o) EXCEPT !.joins = joins, !.where = where]
<1>1. query \in Query
  BY DEF TypeInv
<1>2. joins \in Seq(JoinClause)
  <2>1. CASE joins = <<>>
    BY <2>1, EmptySeq
  <2>2. CASE joins # <<>>
    <3>1. PICK r \in PhysicalOperands, on \in Ons :
            joins = <<[kind |-> "SEMI", relation |-> r, on |-> on]>>
      BY <2>2 DEF CteJoins
    <3> DEFINE join == [kind |-> "SEMI", relation |-> r, on |-> on]
    <3>2. join \in JoinClause
      BY DEF JoinClause, PhysicalOperands, Kinds
    <3> HIDE DEF join
    <3>3. <<join>> \in Seq(JoinClause)
      BY <3>2, OneIsASequence
    <3> QED
      BY <3>1, <3>3 DEF join
  <2> QED
    BY <2>1, <2>2
<1>3. where \in Seq(Tests)
  BY EmptySeq, OneIsASequence DEF LeftTests
<1>4. b \in BodyClauses /\ b.joins = joins /\ b.from = o
  BY <1>2, <1>3 DEF Body, BodyClauses, FieldName, PhysicalOperands
<1>5. \A i \in DOMAIN joins : /\ joins[i].kind = "SEMI" /\ joins[i].relation \in PhysicalOperands
  BY DEF CteJoins
<1> HIDE DEF b
<1>6. b \in CteBody
  BY <1>4, <1>5 DEF CteBody
<1>7. [query EXCEPT !.cte = <<b>>] \in Query
  BY <1>1, <1>6, ReplacedClause
<1>8. Clause([query EXCEPT !.cte = <<b>>])
  BY DEF With, b
<1> QED
  BY <1>7, <1>8, ClauseType

-----------------------------------------------------------------------------
(* What is acquired *)

LEMMA LeastCut ==
  ASSUME NEW S \in SUBSET Nat, S # {}
  PROVE  (CHOOSE n \in S : \A m \in S : n <= m) \in S
<1>1. PICK x \in S : \A y \in S : ~ (<<y, x>> \in OpToRel(<, Nat))
  BY NatLessThanWellFounded, WFMin
<1>2. \A y \in S : x <= y
  <2>1. ASSUME NEW y \in S PROVE x <= y
    <3>1. x \in Nat /\ y \in Nat
      OBVIOUS
    <3>2. ~ (y < x)
      BY <1>1, <3>1 DEF OpToRel
    <3> QED
      BY <3>1, <3>2
  <2> QED
    BY <2>1
<1> QED
  BY <1>2

LEMMA CutAfterType ==
  ASSUME NEW q, NEW s, NEW rows \in Seq(Row)
  PROVE  CutAfter(q, s, rows) \in Seq(Row)
<1> DEFINE step == IF Boundary(q, s).detailed THEN Batch ELSE 1
           enough == {n \in 0..Len(rows) :
                        /\ n = Len(rows) \/ n % step = 0
                        /\ n > 0 /\ Len(Counted(q, s, SubSeq(rows, 1, n))) >= q.limit[1]}
           cut == CHOOSE n \in enough : \A m \in enough : n <= m
<1>1. CutAfter(q, s, rows) = IF enough = {} THEN rows ELSE SubSeq(rows, 1, cut)
  BY DEF CutAfter
<1>2. enough \subseteq 0..Len(rows)
  OBVIOUS
<1>3. enough # {} => cut \in enough
  <2> HIDE DEF enough
  <2> QED
    BY <1>2, LenProperties, LeastCut
<1> HIDE DEF enough, cut
<1>4. ASSUME enough # {} PROVE SubSeq(rows, 1, cut) \in Seq(Row)
  <2>1. cut \in 0..Len(rows) /\ Len(rows) \in Nat
    BY <1>2, <1>3, <1>4, LenProperties
  <2>2. cut \in Int /\ 1 \in Int /\ \A i \in 1..cut : i \in 1..Len(rows)
    BY <2>1
  <2>3. \A i \in 1..cut : rows[i] \in Row
    BY <2>2, ElementOfSeq
  <2> QED
    BY <2>2, <2>3, SubSeqProperties
<1> QED
  BY <1>1, <1>4

LEMMA AcquiredRowsType ==
  ASSUME NEW q, NEW s, NEW rows \in Seq(Row)
  PROVE  AcquiredRows(q, s, rows) \in Seq(Row)
<1> DEFINE wanted == {r \in ToSet(rows) : /\ ~RejectedEarly(q, s, r)
                                          /\ MultiSource(q) \/ ~RejectedLightly(q, r)}
           candidates == Among(rows, wanted)
           kept == IF Plan(q, s).limited THEN CutAfter(q, s, candidates) ELSE candidates
           Bare(i) == [kept[i] EXCEPT !.d = Null]
<1>1. AcquiredRows(q, s, rows) = IF Plan(q, s).boundary.detailed THEN kept
                                 ELSE [i \in DOMAIN kept |-> Bare(i)]
  BY DEF AcquiredRows, Materialised
<1>2. candidates \in Seq(Row)
  <2> HIDE DEF wanted
  <2>1. candidates \in Seq(Row \cap wanted) /\ Row \cap wanted \subseteq Row
    BY AmongType
  <2> QED
    BY <2>1, SeqMonotonic
<1> HIDE DEF candidates
<1>3. kept \in Seq(Row)
  BY <1>2, CutAfterType
<1> HIDE DEF kept
<1>4. \A i \in 1..Len(kept) : Bare(i) \in Row
  <2>1. Null \in FieldValue
    BY DEF Null, FieldValue, Kind
  <2> QED
    BY <1>3, <2>1 DEF Row, FieldName
<1>5. [i \in DOMAIN kept |-> Bare(i)] = [i \in 1..Len(kept) |-> Bare(i)]
  BY <1>3
<1> HIDE DEF Bare
<1>6. [i \in 1..Len(kept) |-> Bare(i)] \in Seq(Row)
  BY <1>3, <1>4, LenProperties
<1> QED
  BY <1>1, <1>3, <1>5, <1>6

LEMMA AcquireType ==
  ASSUME TypeInv, Acquire
  PROVE  TypeInv'
<1>1. content \in Data
  BY ContentAssumption DEF TypeInv, Data
<1>2. ASSUME NEW s \in Source
      PROVE  (IF s \notin Requests(query) \/ Boundary(query, s).empty THEN <<>>
              ELSE AcquiredRows(query, s, content[s])) \in Seq(Row)
  BY <1>1, EmptySeq, AcquiredRowsType DEF Data
<1>3. acquired' \in Data
  BY <1>2 DEF Acquire, Data
<1> QED
  BY <1>3 DEF Acquire, TypeInv

LEMMA TypeNext == TypeInv /\ [Next]_vars => TypeInv'
<1> SUFFICES ASSUME TypeInv, [Next]_vars PROVE TypeInv'
  OBVIOUS
<1>1. ASSUME NEW kind \in Kinds, NEW o \in Operands, NEW on \in Ons, Join(kind, o, on)
      PROVE  TypeInv'
  BY <1>1, JoinType
<1>2. ASSUME NEW test \in Tests, Where(test) PROVE TypeInv'
  BY <1>2, WhereType
<1>3. ASSUME NEW all \in BOOLEAN, NEW sel \in FieldName, NEW o \in Operands, Union(all, sel, o)
      PROVE  TypeInv'
  BY <1>3, UnionType
<1>4. CASE OrderBy \/ \E n \in 1..2 : Limit(n)
  BY <1>4, OrderLimitType
<1>5. ASSUME NEW o \in PhysicalOperands, NEW joins \in CteJoins,
             NEW where \in {<<>>} \cup {<<test>> : test \in LeftTests}, With(o, joins, where)
      PROVE  TypeInv'
  BY <1>5, WithType
<1>6. CASE Acquire
  BY <1>6, AcquireType
<1>7. CASE UNCHANGED vars
  BY <1>7 DEF TypeInv, vars
<1> QED
  BY <1>1, <1>2, <1>3, <1>4, <1>5, <1>6, <1>7 DEF Next

-----------------------------------------------------------------------------
(* Sequences related element by element *)

Related(R, s, t) == Len(s) = Len(t) /\ \A i \in 1..Len(s) : <<s[i], t[i]>> \in R

LEMMA RelatedEmpty ==
  ASSUME NEW R
  PROVE  Related(R, <<>>, <<>>)
BY DEF Related

LEMMA RelatedAppend ==
  ASSUME NEW T, NEW U, NEW R, NEW s \in Seq(T), NEW t \in Seq(U), Related(R, s, t),
         NEW a \in T, NEW b \in U, <<a, b>> \in R
  PROVE  Related(R, Append(s, a), Append(t, b))
BY DEF Related

LEMMA RelatedConcat ==
  ASSUME NEW T, NEW U, NEW R, NEW s \in Seq(T), NEW t \in Seq(U), Related(R, s, t),
         NEW v \in Seq(T), NEW w \in Seq(U), Related(R, v, w)
  PROVE  Related(R, s \o v, t \o w)
<1>1. /\ Len(s \o v) = Len(s) + Len(v) /\ Len(t \o w) = Len(t) + Len(w)
      /\ Len(s) \in Nat /\ Len(t) \in Nat /\ Len(v) \in Nat /\ Len(w) \in Nat
  BY ConcatProperties, LenProperties
<1>2. Len(s) = Len(t) /\ Len(v) = Len(w)
  BY DEF Related
<1>3. ASSUME NEW i \in 1..(Len(s) + Len(v)) PROVE <<(s \o v)[i], (t \o w)[i]>> \in R
  <2>1. /\ (s \o v)[i] = IF i <= Len(s) THEN s[i] ELSE v[i - Len(s)]
        /\ (t \o w)[i] = IF i <= Len(t) THEN t[i] ELSE w[i - Len(t)]
    BY <1>2, ConcatProperties
  <2>2. CASE i <= Len(s)
    <3>1. i \in 1..Len(s)
      BY <1>1, <2>2
    <3> QED
      BY <1>2, <2>1, <2>2, <3>1 DEF Related
  <2>3. CASE ~ (i <= Len(s))
    <3>1. i - Len(s) \in 1..Len(v)
      BY <1>1, <2>3
    <3> QED
      BY <1>2, <2>1, <2>3, <3>1 DEF Related
  <2> QED
    BY <2>2, <2>3
<1> QED
  BY <1>1, <1>2, <1>3 DEF Related

LEMMA AllRelated ==
  ASSUME NEW T, NEW U, NEW R, NEW P, <<<<>>, <<>>>> \in P,
         \A s \in Seq(T), t \in Seq(U), a \in T, b \in U :
           <<s, t>> \in P /\ Related(R, s, t) /\ <<a, b>> \in R
             => <<Append(s, a), Append(t, b)>> \in P
  PROVE  \A s \in Seq(T), t \in Seq(U) : Related(R, s, t) => <<s, t>> \in P
<1> DEFINE N == {n \in Nat : \A s \in Seq(T), t \in Seq(U) :
                               Len(s) = n /\ Related(R, s, t) => <<s, t>> \in P}
<1>1. 0 \in N
  <2>1. ASSUME NEW s \in Seq(T), NEW t \in Seq(U), Len(s) = 0, Related(R, s, t)
        PROVE  s = <<>> /\ t = <<>>
    BY <2>1, EmptySeq DEF Related
  <2> QED
    BY <2>1
<1>2. ASSUME NEW n \in N \cap Nat PROVE n + 1 \in N
  <2>1. ASSUME NEW s \in Seq(T), NEW t \in Seq(U), Len(s) = n + 1, Related(R, s, t)
        PROVE  <<s, t>> \in P
    <3> DEFINE u == [i \in 1..n |-> s[i]]
               v == [i \in 1..n |-> t[i]]
    <3>1. /\ u \in Seq(T) /\ Len(u) = n /\ v \in Seq(U) /\ Len(v) = n
          /\ Len(t) = n + 1 /\ s[n + 1] \in T /\ t[n + 1] \in U
      BY <2>1 DEF Related
    <3>2. s = Append(u, s[n + 1]) /\ t = Append(v, t[n + 1])
      BY <2>1, <3>1
    <3>3. Related(R, u, v) /\ <<s[n + 1], t[n + 1]>> \in R
      BY <2>1, <3>1 DEF Related
    <3> HIDE DEF u, v
    <3>4. <<u, v>> \in P
      BY <3>1, <3>3
    <3> QED
      BY <3>1, <3>2, <3>3, <3>4
  <2> QED
    BY <2>1
<1> HIDE DEF N
<1>3. Nat \subseteq N
  BY <1>1, <1>2, AllNumbers
<1> QED
  BY <1>3, LenProperties DEF N

\* A filter keeps sequences related when it takes both of a pair or none.
LEMMA AmongRelated ==
  ASSUME NEW T, NEW U, NEW R, NEW A, NEW B,
         \A a \in T, b \in U : <<a, b>> \in R => (a \in A <=> b \in B),
         NEW s \in Seq(T), NEW t \in Seq(U), Related(R, s, t)
  PROVE  Related(R, Among(s, A), Among(t, B))
<1> DEFINE P == {x \in Seq(T) \X Seq(U) : Related(R, Among(x[1], A), Among(x[2], B))}
<1>0. \A v, w : <<v, w>> \in P <=> /\ v \in Seq(T) /\ w \in Seq(U)
                                   /\ Related(R, Among(v, A), Among(w, B))
  OBVIOUS
<1>1. <<<<>>, <<>>>> \in P
  <2>1. <<>> \in Seq(T) /\ <<>> \in Seq(U)
    BY EmptySeq
  <2>2. Related(R, Among(<<>>, A), Among(<<>>, B))
    BY AmongEmpty, RelatedEmpty
  <2> HIDE DEF P
  <2> QED
    BY <1>0, <2>1, <2>2
<1>2. ASSUME NEW v \in Seq(T), NEW w \in Seq(U), NEW a \in T, NEW b \in U,
             <<v, w>> \in P, <<a, b>> \in R
      PROVE  <<Append(v, a), Append(w, b)>> \in P
  <2>1. /\ Among(Append(v, a), A) = IF a \in A THEN Append(Among(v, A), a) ELSE Among(v, A)
        /\ Among(Append(w, b), B) = IF b \in B THEN Append(Among(w, B), b) ELSE Among(w, B)
    BY AmongAppend
  <2>2. Related(R, Among(v, A), Among(w, B))
    BY <1>2
  <2>3. Among(v, A) \in Seq(T) /\ Among(w, B) \in Seq(U)
    <3>1. Among(v, A) \in Seq(T \cap A) /\ Among(w, B) \in Seq(U \cap B)
      BY AmongType
    <3>2. T \cap A \subseteq T /\ U \cap B \subseteq U
      OBVIOUS
    <3> QED
      BY <3>1, <3>2, SeqMonotonic
  <2>4. a \in A <=> b \in B
    BY <1>2
  <2>5. Related(R, Append(Among(v, A), a), Append(Among(w, B), b))
    BY <1>2, <2>2, <2>3, RelatedAppend
  <2>6. Related(R, Among(Append(v, a), A), Among(Append(w, b), B))
    BY <2>1, <2>2, <2>4, <2>5
  <2>7. Append(v, a) \in Seq(T) /\ Append(w, b) \in Seq(U)
    OBVIOUS
  <2> QED
    BY <2>6, <2>7
<1>3. <<s, t>> \in P
  <2> HIDE DEF P
  <2> QED
    BY <1>1, <1>2, AllRelated
<1> QED
  BY <1>3

LEMMA AmongSeq ==
  ASSUME NEW T, NEW s \in Seq(T), NEW S
  PROVE  Among(s, S) \in Seq(T)
<1>1. Among(s, S) \in Seq(T \cap S) /\ T \cap S \subseteq T
  BY AmongType
<1> QED
  BY <1>1, SeqMonotonic

LEMMA AmongBoth ==
  ASSUME NEW T, NEW s \in Seq(T), NEW A, NEW B
  PROVE  Among(Among(s, A), B) = Among(s, A \cap B)
<1>1. Among(s, A) \in Seq(T \cap A)
  BY AmongType
<1>2. B \cap (T \cap A) = (A \cap B) \cap (T \cap A)
  OBVIOUS
<1>3. Among(Among(s, A), B) = Among(Among(s, A), A \cap B)
  BY <1>1, <1>2, AmongAgree
<1>4. (A \cap B) \cap T \subseteq A
  OBVIOUS
<1>5. Among(Among(s, A), A \cap B) = Among(s, A \cap B)
  BY <1>4, AmongTwice
<1> QED
  BY <1>3, <1>5

LEMMA AmongAll ==
  ASSUME NEW T, NEW s \in Seq(T), NEW S, T \subseteq S
  PROVE  Among(s, S) = s
<1> DEFINE P == {r \in Seq(T) : Among(r, S) = r}
<1>1. <<>> \in P
  BY EmptySeq, AmongEmpty
<1>2. ASSUME NEW r \in P \cap Seq(T), NEW e \in T PROVE Append(r, e) \in P
  <2>1. Among(Append(r, e), S) = IF e \in S THEN Append(Among(r, S), e) ELSE Among(r, S)
    BY AmongAppend
  <2> QED
    BY <2>1
<1>3. Seq(T) \subseteq P
  <2> HIDE DEF P
  <2> QED
    BY <1>1, <1>2, AllSequences
<1> QED
  BY <1>3

LEMMA AmongConcat ==
  ASSUME NEW T, NEW s \in Seq(T), NEW t \in Seq(T), NEW S
  PROVE  Among(s \o t, S) = Among(s, S) \o Among(t, S)
<1> DEFINE P == {r \in Seq(T) : Among(s \o r, S) = Among(s, S) \o Among(r, S)}
<1>1. <<>> \in P
  <2>1. Among(s, S) \in Seq(T) /\ <<>> \in Seq(T)
    BY AmongSeq, EmptySeq
  <2>2. s \o <<>> = s /\ Among(s, S) \o <<>> = Among(s, S)
    BY <2>1, ConcatEmptySeq
  <2> QED
    BY <2>1, <2>2, AmongEmpty
<1>2. ASSUME NEW r \in P \cap Seq(T), NEW e \in T PROVE Append(r, e) \in P
  <2>1. /\ Among(Append(r, e), S) = IF e \in S THEN Append(Among(r, S), e) ELSE Among(r, S)
        /\ Among(Append(s \o r, e), S) =
             IF e \in S THEN Append(Among(s \o r, S), e) ELSE Among(s \o r, S)
    <3>1. s \o r \in Seq(T)
      BY ConcatProperties
    <3> HIDE DEF P
    <3> QED
      BY <3>1, AmongAppend
  <2>2. s \o Append(r, e) = Append(s \o r, e)
    OBVIOUS
  <2>3. Among(s, S) \in Seq(T) /\ Among(r, S) \in Seq(T)
    BY AmongSeq
  <2> DEFINE u == Among(s, S)
             v == Among(r, S)
  <2>4. u \o Append(v, e) = Append(u \o v, e)
    <3> HIDE DEF u, v
    <3>1. u \in Seq(T) /\ v \in Seq(T)
      BY <2>3 DEF u, v
    <3> QED
      BY <3>1
  <2>5. Among(s \o r, S) = u \o v
    OBVIOUS
  <2>6. Among(s \o Append(r, e), S) = u \o Among(Append(r, e), S)
    BY <2>1, <2>2, <2>4, <2>5
  <2>7. Append(r, e) \in Seq(T)
    OBVIOUS
  <2> QED
    BY <2>6, <2>7
<1>3. Seq(T) \subseteq P
  <2> HIDE DEF P
  <2> QED
    BY <1>1, <1>2, AllSequences
<1> QED
  BY <1>3

-----------------------------------------------------------------------------
(* Flattening *)

Flattens(ss, g) ==
  g[0] = <<>> /\ \A i \in 1..Len(ss) : g[i] = g[i - 1] \o ss[i]

LEMMA FlattenExists ==
  ASSUME NEW T, NEW ss \in Seq(Seq(T))
  PROVE  \E g \in [0..Len(ss) -> Seq(T)] : Flattens(ss, g)
<1> DEFINE n == Len(ss)
           V == Seq(T)
           none == <<>>
           Step == [i \in 1..n |-> [x \in V |-> x \o ss[i]]]
<1>1. n \in Nat /\ none \in V
  BY LenProperties, EmptySeq
<1>2. ASSUME NEW i \in 1..n, NEW x \in V PROVE x \o ss[i] \in V
  BY ElementOfSeq, ConcatProperties
<1>3. Step \in [1..n -> [V -> V]] /\ \A i \in 1..n, x \in V : Step[i][x] = x \o ss[i]
  <2> HIDE DEF n, V
  <2> QED
    BY <1>2
<1>6. Step \in [1..n -> [V -> V]]
  BY <1>3
<1> HIDE DEF n, V, none, Step
<1>7. \E g \in [0..n -> V] : g[0] = none /\ \A i \in 1..n : g[i] = Step[i][g[i - 1]]
  <2>1. n \in Nat /\ none \in V /\ Step \in [1..n -> [V -> V]]
    BY <1>1, <1>6
  <2> QED
    BY <2>1, Recursion, SMTT(60)
<1>4. PICK g \in [0..n -> V] : g[0] = none /\ \A i \in 1..n : g[i] = Step[i][g[i - 1]]
  BY <1>7
<1>5. ASSUME NEW i \in 1..n PROVE g[i] = g[i - 1] \o ss[i]
  <2>1. i - 1 \in 0..n
    BY <1>1
  <2>2. g[i - 1] \in V
    BY <2>1
  <2> QED
    BY <1>3, <1>4, <2>2
<1> QED
  BY <1>4, <1>5 DEF Flattens, n, V, none

LEMMA FlattenIs ==
  ASSUME NEW T, NEW ss \in Seq(Seq(T))
  PROVE  \E g \in [0..Len(ss) -> Seq(T)] : Flattens(ss, g) /\ FlattenSeq(ss) = g[Len(ss)]
<1>1. PICK g \in [0..Len(ss) -> Seq(T)] : Flattens(ss, g)
  BY FlattenExists
<1>2. Len(ss) \in Nat
  BY LenProperties
<1>3. CASE Len(ss) = 0
  <2>1. ss = <<>>
    BY <1>3, EmptySeq
  <2>2. FlattenSeq(ss) = ss
    BY <1>3 DEF FlattenSeq
  <2> QED
    BY <1>1, <1>3, <2>1, <2>2 DEF Flattens
<1>4. CASE Len(ss) # 0
  <2> DEFINE Recurses(f) ==
        f = [i \in 1..Len(ss) |-> IF i = 1 THEN ss[i] ELSE f[i - 1] \o ss[i]]
  <2> DEFINE flatten == CHOOSE f : Recurses(f)
  <2> DEFINE f == [i \in 1..Len(ss) |-> g[i]]
  <2>1. Recurses(f)
    <3>1. ASSUME NEW i \in 1..Len(ss)
          PROVE  g[i] = IF i = 1 THEN ss[i] ELSE f[i - 1] \o ss[i]
      <4>1. CASE i = 1
        <5>1. g[1] = <<>> \o ss[1]
          <6>1. g[0] = <<>>
            BY <1>1 DEF Flattens
          <6>2. g[i] = g[i - 1] \o ss[i]
            BY <1>1, Zenon DEF Flattens
          <6>3. i - 1 = 0
            BY <4>1
          <6> QED
            BY <4>1, <6>1, <6>2, <6>3
        <5>2. ss[1] \in Seq(T)
          BY <4>1, ElementOfSeq
        <5> QED
          BY <4>1, <5>1, <5>2, ConcatEmptySeq
      <4>2. CASE i # 1
        <5>1. i - 1 \in 1..Len(ss)
          BY <1>2, <4>2
        <5> QED
          BY <1>1, <4>2, <5>1 DEF Flattens
      <4> QED
        BY <4>1, <4>2
    <3> QED
      BY <3>1
  <2>2. Recurses(flatten)
    <3> HIDE DEF f, Recurses
    <3> QED
      BY <2>1
  <2>3. FlattenSeq(ss) = flatten[Len(ss)]
    BY <1>4 DEF FlattenSeq
  <2> HIDE DEF flatten, f
  <2>4. \A i \in 1..Len(ss) : flatten[i] = IF i = 1 THEN ss[i] ELSE flatten[i - 1] \o ss[i]
    BY <2>2
  <2> DEFINE h == [i \in 0..Len(ss) |-> IF i = 0 THEN <<>> ELSE flatten[i]]
  <2>5. /\ h[0] = <<>> /\ \A i \in 1..Len(ss) : h[i] = flatten[i]
    BY <1>2
  <2> HIDE DEF h
  <2>6. ASSUME NEW i \in 1..Len(ss), h[i - 1] = g[i - 1] PROVE h[i] = g[i]
    <3>1. g[i] = g[i - 1] \o ss[i]
      BY <1>1 DEF Flattens
    <3>2. CASE i = 1
      <4>1. ss[1] \in Seq(T)
        BY <3>2, ElementOfSeq
      <4>2. g[1] = ss[1]
        <5>1. 1 - 1 = 0 /\ g[0] = <<>>
          BY <1>1 DEF Flattens
        <5>3. g[1] = g[1 - 1] \o ss[1]
          BY <3>1, <3>2
        <5>2. <<>> \o ss[1] = ss[1]
          BY <4>1, ConcatEmptySeq
        <5> QED
          BY <5>1, <5>2, <5>3
      <4> QED
        BY <2>4, <2>5, <3>2, <4>2
    <3>3. CASE i # 1
      <4>1. i - 1 \in 1..Len(ss)
        BY <1>2, <3>3
      <4> QED
        BY <2>4, <2>5, <2>6, <3>1, <3>3, <4>1
    <3> QED
      BY <3>2, <3>3
  <2>7. h[0] = g[0]
    BY <1>1, <2>5 DEF Flattens
  <2>8. h[Len(ss)] = g[Len(ss)]
    BY <1>2, <2>6, <2>7, SameRecursion
  <2>9. Len(ss) \in 1..Len(ss)
    BY <1>2, <1>4
  <2> QED
    BY <1>1, <2>3, <2>5, <2>8, <2>9
<1> QED
  BY <1>3, <1>4

LEMMA FlattenEmpty == FlattenSeq(<<>>) = <<>>
<1> DEFINE none == <<>>
           T == {}
<1>1. none \in Seq(Seq(T)) /\ Len(none) = 0
  BY EmptySeq
<1> HIDE DEF none, T
<1>2. PICK g : Flattens(none, g) /\ FlattenSeq(none) = g[Len(none)]
  BY <1>1, FlattenIs
<1> QED
  BY <1>1, <1>2 DEF Flattens, none

LEMMA FlattenType ==
  ASSUME NEW T, NEW ss \in Seq(Seq(T))
  PROVE  FlattenSeq(ss) \in Seq(T)
<1>1. PICK g \in [0..Len(ss) -> Seq(T)] : FlattenSeq(ss) = g[Len(ss)]
  BY FlattenIs
<1>2. Len(ss) \in 0..Len(ss)
  BY LenProperties
<1> QED
  BY <1>1, <1>2

LEMMA FlattenAppend ==
  ASSUME NEW T, NEW ss \in Seq(Seq(T)), NEW x \in Seq(T)
  PROVE  FlattenSeq(Append(ss, x)) = FlattenSeq(ss) \o x
<1> DEFINE tt == Append(ss, x)
<1>1. /\ tt \in Seq(Seq(T)) /\ Len(tt) = Len(ss) + 1 /\ tt[Len(ss) + 1] = x /\ Len(ss) \in Nat
      /\ \A n \in 1..Len(ss) : tt[n] = ss[n]
  BY LenProperties
<1> HIDE DEF tt
<1>2. PICK g : Flattens(ss, g) /\ FlattenSeq(ss) = g[Len(ss)]
  BY FlattenIs
<1>3. PICK h : Flattens(tt, h) /\ FlattenSeq(tt) = h[Len(tt)]
  BY <1>1, FlattenIs
<1>4. ASSUME NEW i \in 1..Len(ss), h[i - 1] = g[i - 1] PROVE h[i] = g[i]
  <2>1. i \in 1..Len(tt) /\ tt[i] = ss[i]
    BY <1>1
  <2> QED
    BY <1>2, <1>3, <1>4, <2>1 DEF Flattens
<1>8. h[0] = g[0]
  BY <1>2, <1>3 DEF Flattens
<1>5. h[Len(ss)] = g[Len(ss)]
  <2>1. Len(ss) \in Nat
    BY <1>1
  <2> QED
    BY <2>1, <1>4, <1>8, SameRecursion
<1>6. h[Len(tt)] = h[Len(tt) - 1] \o tt[Len(tt)]
  <2>1. Len(tt) \in 1..Len(tt)
    BY <1>1
  <2> QED
    BY <1>3, <2>1 DEF Flattens
<1>7. Len(tt) - 1 = Len(ss)
  BY <1>1
<1> QED
  BY <1>1, <1>2, <1>3, <1>5, <1>6, <1>7 DEF tt

LEMMA FlattenRelated ==
  ASSUME NEW T, NEW U, NEW R, NEW ss \in Seq(Seq(T)), NEW tt \in Seq(Seq(U)),
         Len(ss) = Len(tt), \A i \in 1..Len(ss) : Related(R, ss[i], tt[i])
  PROVE  Related(R, FlattenSeq(ss), FlattenSeq(tt))
<1> DEFINE Q == {x \in Seq(T) \X Seq(U) : Related(R, x[1], x[2])}
<1> DEFINE P == {x \in Seq(Seq(T)) \X Seq(Seq(U)) : Related(R, FlattenSeq(x[1]), FlattenSeq(x[2]))}
<1>1. \A v, w : <<v, w>> \in Q <=> v \in Seq(T) /\ w \in Seq(U) /\ Related(R, v, w)
  OBVIOUS
<1>2. \A v, w : <<v, w>> \in P <=> /\ v \in Seq(Seq(T)) /\ w \in Seq(Seq(U))
                                   /\ Related(R, FlattenSeq(v), FlattenSeq(w))
  OBVIOUS
<1> HIDE DEF P, Q
<1>3. Related(Q, ss, tt)
  <2>1. ASSUME NEW i \in 1..Len(ss) PROVE <<ss[i], tt[i]>> \in Q
    BY <1>1, ElementOfSeq
  <2> QED
    BY <2>1 DEF Related
<1>4. <<<<>>, <<>>>> \in P
  <2>1. <<>> \in Seq(Seq(T)) /\ <<>> \in Seq(Seq(U))
    BY EmptySeq
  <2>2. Related(R, FlattenSeq(<<>>), FlattenSeq(<<>>))
    BY FlattenEmpty, RelatedEmpty
  <2> QED
    BY <1>2, <2>1, <2>2
<1>5. ASSUME NEW v \in Seq(Seq(T)), NEW w \in Seq(Seq(U)), NEW a \in Seq(T), NEW b \in Seq(U),
             <<v, w>> \in P, <<a, b>> \in Q
      PROVE  <<Append(v, a), Append(w, b)>> \in P
  <2>1. Related(R, FlattenSeq(v), FlattenSeq(w)) /\ Related(R, a, b)
    BY <1>1, <1>2, <1>5
  <2>2. FlattenSeq(v) \in Seq(T) /\ FlattenSeq(w) \in Seq(U)
    BY FlattenType
  <2>3. Related(R, FlattenSeq(v) \o a, FlattenSeq(w) \o b)
    BY <2>1, <2>2, RelatedConcat
  <2>4. /\ FlattenSeq(Append(v, a)) = FlattenSeq(v) \o a
        /\ FlattenSeq(Append(w, b)) = FlattenSeq(w) \o b
    BY FlattenAppend
  <2>5. Append(v, a) \in Seq(Seq(T)) /\ Append(w, b) \in Seq(Seq(U))
    OBVIOUS
  <2> QED
    BY <1>2, <2>3, <2>4, <2>5
<1>6. <<ss, tt>> \in P
  BY <1>3, <1>4, <1>5, AllRelated
<1> QED
  BY <1>2, <1>6

-----------------------------------------------------------------------------
(* Rows that agree on what is read of them *)

\* Rows with the same t, and the same d where it is read.
Same(d) == {p \in Row \X Row : p[1].t = p[2].t /\ (d => p[1].d = p[2].d)}

\* The rows of one relation that satisfy a predicate.
Pass(where) == {r \in Row : \A i \in DOMAIN where : Passes(where[i], r, NullRow)}

Pairs(dl, dr) == {p \in Pair \X Pair : /\ <<p[1].x, p[2].x>> \in Same(dl)
                                       /\ <<p[1].y, p[2].y>> \in Same(dr)}

LEMMA SameIs ==
  ASSUME NEW d \in BOOLEAN, NEW a, NEW b
  PROVE  <<a, b>> \in Same(d) <=> /\ a \in Row /\ b \in Row /\ a.t = b.t
                                  /\ (d => a.d = b.d)
BY DEF Same

LEMMA PairsIs ==
  ASSUME NEW dl \in BOOLEAN, NEW dr \in BOOLEAN, NEW a, NEW b
  PROVE  <<a, b>> \in Pairs(dl, dr) <=> /\ a \in Pair /\ b \in Pair
                                        /\ <<a.x, b.x>> \in Same(dl) /\ <<a.y, b.y>> \in Same(dr)
BY DEF Pairs

LEMMA SameField ==
  ASSUME NEW d \in BOOLEAN, NEW a, NEW b, <<a, b>> \in Same(d), NEW f \in FieldName,
         f = "d" => d
  PROVE  a[f] = b[f]
BY SameIs DEF FieldName

LEMMA RowEqual ==
  ASSUME NEW a \in Row, NEW b \in Row, a.t = b.t, a.d = b.d
  PROVE  a = b
BY DEF Row, FieldName

LEMMA SameWeaker ==
  ASSUME NEW s, NEW t, NEW d \in BOOLEAN, NEW e \in BOOLEAN, Related(Same(d), s, t), e => d
  PROVE  Related(Same(e), s, t)
<1>1. \A a, b : <<a, b>> \in Same(d) => <<a, b>> \in Same(e)
  BY SameIs
<1> QED
  BY <1>1 DEF Related

LEMMA SameReflexive ==
  ASSUME NEW s \in Seq(Row), NEW d \in BOOLEAN
  PROVE  Related(Same(d), s, s)
<1>1. \A i \in 1..Len(s) : s[i] \in Row
  BY ElementOfSeq
<1> QED
  BY <1>1, SameIs DEF Related

\* A test sees no difference where the rows agree on the field it reads.
LEMMA PassesAgree ==
  ASSUME NEW dl \in BOOLEAN, NEW dr \in BOOLEAN, NEW test \in TestClause,
         NEW x, NEW x2, <<x, x2>> \in Same(dl), NEW y, NEW y2, <<y, y2>> \in Same(dr),
         test.side = "x" /\ test.f = "d" => dl, test.side = "y" /\ test.f = "d" => dr
  PROVE  Passes(test, x, y) <=> Passes(test, x2, y2)
<1>1. test.side \in {"x", "y"} /\ test.f \in FieldName \cup {"never"}
  BY DEF TestClause
<1>2. CASE test.f = "never"
  BY <1>2 DEF Passes, Never
<1>3. CASE test.f # "never" /\ test.side = "x"
  <2>1. x[test.f] = x2[test.f]
    BY <1>1, <1>3, SameField
  <2> QED
    BY <1>3, <2>1 DEF Passes
<1>4. CASE test.f # "never" /\ test.side = "y"
  <2>1. y[test.f] = y2[test.f]
    BY <1>1, <1>4, SameField
  <2> QED
    BY <1>4, <2>1 DEF Passes
<1> QED
  BY <1>1, <1>2, <1>3, <1>4

LEMMA TestFieldsIs ==
  ASSUME NEW where, NEW side, NEW d \in BOOLEAN, "d" \in TestFields(where, side) => d
  PROVE  \A i \in DOMAIN where : where[i].side = side /\ where[i].f = "d" => d
BY DEF TestFields

LEMMA PassAgrees ==
  ASSUME NEW where \in Seq(TestClause), NEW d \in BOOLEAN, "d" \in TestFields(where, "x") => d,
         NEW a, NEW b, <<a, b>> \in Same(d)
  PROVE  a \in Pass(where) <=> b \in Pass(where)
<1>1. a \in Row /\ b \in Row
  BY SameIs
<1>2. <<NullRow, NullRow>> \in Same(TRUE)
  BY RowFacts, SameIs
<1>3. ASSUME NEW i \in DOMAIN where
      PROVE  Passes(where[i], a, NullRow) <=> Passes(where[i], b, NullRow)
  <2>1. where[i] \in TestClause
    OBVIOUS
  <2>2. where[i].side = "x" /\ where[i].f = "d" => d
    BY TestFieldsIs
  <2> QED
    BY <1>2, <2>1, <2>2, PassesAgree
<1> QED
  BY <1>1, <1>3 DEF Pass

-----------------------------------------------------------------------------
(* Bodies over related relations *)

\* A filter on the members of a sequence is one on its type.
LEMMA AmongHeld ==
  ASSUME NEW T, NEW s \in Seq(T), NEW A, NEW B, A \cap ToSet(s) = B \cap ToSet(s)
  PROVE  Among(s, A) = Among(s, B)
<1>1. s \in Seq(ToSet(s))
  BY DEF ToSet
<1> QED
  BY <1>1, AmongAgree

Holding(where) == {p \in Pair : \A i \in DOMAIN where : Passes(where[i], p.x, p.y)}

LEMMA FilterIs ==
  ASSUME NEW where, NEW rows \in Seq(Pair)
  PROVE  Filter(where, rows) = Among(rows, Holding(where))
<1> DEFINE A == {r \in ToSet(rows) : \A i \in DOMAIN where : Passes(where[i], r.x, r.y)}
<1>1. ToSet(rows) \subseteq Pair
  BY DEF ToSet
<1>2. A \cap ToSet(rows) = Holding(where) \cap ToSet(rows)
  BY <1>1 DEF Holding
<1>3. Filter(where, rows) = Among(rows, A)
  BY DEF Filter
<1> HIDE DEF A
<1> QED
  BY <1>2, <1>3, AmongHeld

LEMMA FilterRelated ==
  ASSUME NEW where \in Seq(TestClause), NEW dl \in BOOLEAN, NEW dr \in BOOLEAN,
         "d" \in TestFields(where, "x") => dl, "d" \in TestFields(where, "y") => dr,
         NEW s \in Seq(Pair), NEW t \in Seq(Pair), Related(Pairs(dl, dr), s, t)
  PROVE  Related(Pairs(dl, dr), Filter(where, s), Filter(where, t))
<1>1. ASSUME NEW a \in Pair, NEW b \in Pair, <<a, b>> \in Pairs(dl, dr)
      PROVE  a \in Holding(where) <=> b \in Holding(where)
  <2>1. <<a.x, b.x>> \in Same(dl) /\ <<a.y, b.y>> \in Same(dr)
    BY <1>1, PairsIs
  <2>2. ASSUME NEW i \in DOMAIN where
        PROVE  Passes(where[i], a.x, a.y) <=> Passes(where[i], b.x, b.y)
    <3>1. where[i] \in TestClause
      OBVIOUS
    <3>2. /\ where[i].side = "x" /\ where[i].f = "d" => dl
          /\ where[i].side = "y" /\ where[i].f = "d" => dr
      BY TestFieldsIs
    <3> DEFINE test == where[i]
               x == a.x
               x2 == b.x
               y == a.y
               y2 == b.y
    <3>3. /\ test \in TestClause /\ <<x, x2>> \in Same(dl) /\ <<y, y2>> \in Same(dr)
          /\ test.side = "x" /\ test.f = "d" => dl
          /\ test.side = "y" /\ test.f = "d" => dr
      BY <2>1, <3>1, <3>2
    <3> HIDE DEF test, x, x2, y, y2
    <3>4. Passes(test, x, y) <=> Passes(test, x2, y2)
      BY <3>3, PassesAgree
    <3> QED
      BY <3>4 DEF test, x, x2, y, y2
  <2> QED
    BY <2>2 DEF Holding
<1>2. Related(Pairs(dl, dr), Among(s, Holding(where)), Among(t, Holding(where)))
  BY <1>1, AmongRelated
<1> QED
  BY <1>2, FilterIs

LEMMA SingleFacts ==
  ASSUME NEW rows \in Seq(Row)
  PROVE  /\ Len(Single(rows)) = Len(rows)
         /\ \A i \in 1..Len(rows) : Single(rows)[i] = [x |-> rows[i], y |-> NullRow]
<1> DEFINE At(i) == [x |-> rows[i], y |-> NullRow]
<1>1. \A i \in 1..Len(rows) : At(i) \in Pair
  BY RowFacts DEF Pair
<1>2. Single(rows) = [i \in 1..Len(rows) |-> At(i)]
  BY DEF Single
<1>3. Len(rows) \in Nat
  BY LenProperties
<1> HIDE DEF At
<1>4. Len(Single(rows)) = Len(rows)
  BY <1>1, <1>2, <1>3, LenProperties
<1>5. \A i \in 1..Len(rows) : Single(rows)[i] = At(i)
  BY <1>2
<1> QED
  BY <1>4, <1>5 DEF At

LEMMA SingleRelated ==
  ASSUME NEW dl \in BOOLEAN, NEW dr \in BOOLEAN, NEW s \in Seq(Row), NEW t \in Seq(Row),
         Related(Same(dl), s, t)
  PROVE  Related(Pairs(dl, dr), Single(s), Single(t))
<1>1. Len(s) = Len(t) /\ \A i \in 1..Len(s) : <<s[i], t[i]>> \in Same(dl)
  BY DEF Related
<1>2. <<NullRow, NullRow>> \in Same(dr)
  BY RowFacts, SameIs
<1>3. ASSUME NEW i \in 1..Len(s) PROVE <<Single(s)[i], Single(t)[i]>> \in Pairs(dl, dr)
  <2>1. /\ Single(s)[i] = [x |-> s[i], y |-> NullRow]
        /\ Single(t)[i] = [x |-> t[i], y |-> NullRow]
    BY <1>1, SingleFacts
  <2>2. s[i] \in Row /\ t[i] \in Row
    BY <1>1, SameIs
  <2>3. Single(s)[i] \in Pair /\ Single(t)[i] \in Pair
    BY <2>1, <2>2, RowFacts DEF Pair
  <2>4. <<Single(s)[i].x, Single(t)[i].x>> \in Same(dl)
    BY <1>1, <2>1
  <2>5. <<Single(s)[i].y, Single(t)[i].y>> \in Same(dr)
    BY <1>2, <2>1
  <2> QED
    BY <2>3, <2>4, <2>5, PairsIs
<1> QED
  BY <1>1, <1>3, SingleFacts DEF Related

\* The rows of one relation that satisfy a predicate, joined to nothing.
LEMMA FilterSingle ==
  ASSUME NEW where, NEW rows \in Seq(Row)
  PROVE  Filter(where, Single(rows)) = Single(Among(rows, Pass(where)))
<1> DEFINE R == {p \in Pair \X Row : p[1].x = p[2] /\ p[1].y = NullRow}
<1>1. \A a, b : <<a, b>> \in R <=> a \in Pair /\ b \in Row /\ a.x = b /\ a.y = NullRow
  OBVIOUS
<1> HIDE DEF R
<1>2. Single(rows) \in Seq(Pair)
  BY SingleType
<1>3. Related(R, Single(rows), rows)
  <2>1. ASSUME NEW i \in 1..Len(rows) PROVE <<Single(rows)[i], rows[i]>> \in R
    <3>1. Single(rows)[i] = [x |-> rows[i], y |-> NullRow] /\ rows[i] \in Row
      BY SingleFacts, ElementOfSeq
    <3> QED
      BY <1>1, <3>1, RowFacts DEF Pair
  <2> QED
    BY <2>1, SingleFacts DEF Related
<1>4. ASSUME NEW a \in Pair, NEW b \in Row, <<a, b>> \in R
      PROVE  a \in Holding(where) <=> b \in Pass(where)
  BY <1>1, <1>4 DEF Holding, Pass
<1> DEFINE u == Among(Single(rows), Holding(where))
           v == Among(rows, Pass(where))
<1>5. Related(R, u, v)
  BY <1>2, <1>3, <1>4, AmongRelated
<1>6. u \in Seq(Pair) /\ v \in Seq(Row)
  BY <1>2, AmongSeq
<1>7. Filter(where, Single(rows)) = u
  BY <1>2, FilterIs
<1> HIDE DEF u, v
<1>8. u = Single(v)
  <2>1. Len(u) = Len(Single(v)) /\ Single(v) \in Seq(Pair)
    BY <1>5, <1>6, SingleFacts, SingleType DEF Related
  <2>2. ASSUME NEW i \in 1..Len(u) PROVE u[i] = Single(v)[i]
    <3>1. <<u[i], v[i]>> \in R /\ Len(u) = Len(v)
      BY <1>5 DEF Related
    <3>2. u[i] \in Pair /\ u[i].x = v[i] /\ u[i].y = NullRow
      BY <1>1, <3>1
    <3>3. u[i] = [x |-> v[i], y |-> NullRow]
      BY <3>2 DEF Pair
    <3> QED
      BY <1>6, <3>1, <3>3, SingleFacts
  <2> QED
    BY <1>6, <2>1, <2>2, SeqEqual
<1> QED
  BY <1>7, <1>8 DEF v

LEMMA ColumnSame ==
  ASSUME NEW dl \in BOOLEAN, NEW dr \in BOOLEAN, NEW s \in Seq(Pair), NEW t \in Seq(Pair),
         Related(Pairs(dl, dr), s, t), NEW f \in FieldName, f = "d" => dl
  PROVE  Column(s, f) = Column(t, f)
<1>1. DOMAIN s = 1..Len(s) /\ DOMAIN t = 1..Len(s)
  BY LenProperties DEF Related
<1>2. ASSUME NEW i \in 1..Len(s) PROVE s[i].x[f] = t[i].x[f]
  <2>1. <<s[i].x, t[i].x>> \in Same(dl)
    BY PairsIs DEF Related
  <2> QED
    BY <2>1, SameField
<1> QED
  BY <1>1, <1>2 DEF Column

-----------------------------------------------------------------------------
(* Joins over related relations *)

Matching(on, l) == {r \in Row : Matches(on, l, r)}

LEMMA ReferenceIs ==
  ASSUME NEW on, NEW l, NEW right \in Seq(Row)
  PROVE  /\ Reference(on, l, right) = Among(right, Matching(on, l))
         /\ Reference(on, l, right) \in Seq(Row)
<1> DEFINE A == {r \in ToSet(right) : Matches(on, l, r)}
<1>1. A \cap ToSet(right) = Matching(on, l) \cap ToSet(right)
  BY RowFacts DEF Matching
<1>2. Reference(on, l, right) = Among(right, A)
  BY DEF Reference
<1> HIDE DEF A
<1>3. Among(right, A) = Among(right, Matching(on, l))
  BY <1>1, AmongHeld
<1> QED
  BY <1>2, <1>3, AmongSeq

LEMMA ReferenceRelated ==
  ASSUME NEW on, on.f \in FieldName \cup {"never"}, NEW dl \in BOOLEAN, NEW dr \in BOOLEAN,
         on.f = "d" => dl /\ dr, NEW l, NEW l2, <<l, l2>> \in Same(dl),
         NEW s \in Seq(Row), NEW t \in Seq(Row), Related(Same(dr), s, t)
  PROVE  Related(Same(dr), Reference(on, l, s), Reference(on, l2, t))
<1>1. ASSUME NEW a \in Row, NEW b \in Row, <<a, b>> \in Same(dr)
      PROVE  a \in Matching(on, l) <=> b \in Matching(on, l2)
  <2>1. CASE on.f = "never"
    BY <2>1 DEF Matching, Matches
  <2>2. CASE on.f # "never"
    <3>1. l[on.f] = l2[on.f] /\ a[on.f] = b[on.f]
      BY <1>1, <2>2, SameField
    <3> QED
      BY <2>2, <3>1 DEF Matching, Matches
  <2> QED
    BY <2>1, <2>2
<1> DEFINE A == Matching(on, l)
           B == Matching(on, l2)
           R == Same(dr)
<1>2. \A a, b \in Row : <<a, b>> \in R => (a \in A <=> b \in B)
  BY <1>1
<1> HIDE DEF A, B, R
<1>3. Related(R, Among(s, A), Among(t, B))
  <2>1. Related(R, s, t)
    BY DEF R
  <2> QED
    BY <1>2, <2>1, AmongRelated
<1> QED
  BY <1>3, ReferenceIs DEF A, B, R

\* The left rows an existence join keeps.
Chosen(join, right) ==
  {l \in Row : (Reference(join.on, l, right) # <<>>) = (join.kind = "SEMI")}

LEMMA ExistenceIs ==
  ASSUME NEW join, NEW left \in Seq(Row), NEW right
  PROVE  Existence(join, left, right, FALSE) = Single(Among(left, Chosen(join, right)))
<1> DEFINE Rest ==
      {l \in ToSet(left) : (Reference(join.on, l, right) # <<>>) = (join.kind = "SEMI")}
<1>1. Existence(join, left, right, FALSE) = Single(Among(left, Rest))
  BY DEF Existence, UsesIndex
<1>2. Rest \cap ToSet(left) = Chosen(join, right) \cap ToSet(left)
  BY RowFacts DEF Chosen
<1> HIDE DEF Rest
<1>3. Among(left, Rest) = Among(left, Chosen(join, right))
  BY <1>2, AmongHeld
<1> QED
  BY <1>1, <1>3

LEMMA ExistenceRelated ==
  ASSUME NEW join, join.on.f \in FieldName \cup {"never"}, NEW dl \in BOOLEAN, NEW dr \in BOOLEAN,
         join.on.f = "d" => dl /\ dr,
         NEW left \in Seq(Row), NEW left2 \in Seq(Row), Related(Same(dl), left, left2),
         NEW right \in Seq(Row), NEW right2 \in Seq(Row), Related(Same(dr), right, right2)
  PROVE  Related(Pairs(dl, dr), Existence(join, left, right, FALSE),
                 Existence(join, left2, right2, FALSE))
<1> DEFINE A == Chosen(join, right)
           B == Chosen(join, right2)
           R == Same(dl)
<1>1. ASSUME NEW a \in Row, NEW b \in Row, <<a, b>> \in R
      PROVE  a \in A <=> b \in B
  <2> DEFINE u == Reference(join.on, a, right)
             v == Reference(join.on, b, right2)
  <2>1. Related(Same(dr), u, v)
    <3> DEFINE on == join.on
    <3>1. on.f \in FieldName \cup {"never"} /\ (on.f = "d" => dl /\ dr)
      OBVIOUS
    <3> HIDE DEF on
    <3>2. Related(Same(dr), Reference(on, a, right), Reference(on, b, right2))
      BY <1>1, <3>1, ReferenceRelated
    <3> QED
      BY <3>2 DEF on
  <2>2. u \in Seq(Row) /\ v \in Seq(Row)
    BY ReferenceIs
  <2>3. u = <<>> <=> v = <<>>
    <3> HIDE DEF u, v
    <3> QED
      BY <2>1, <2>2, EmptySeq DEF Related
  <2> QED
    BY <2>3 DEF Chosen
<1>2. /\ Existence(join, left, right, FALSE) = Single(Among(left, A))
      /\ Existence(join, left2, right2, FALSE) = Single(Among(left2, B))
  BY ExistenceIs
<1> HIDE DEF A, B
<1>3. Related(R, Among(left, A), Among(left2, B))
  <2>1. Related(R, left, left2)
    OBVIOUS
  <2> HIDE DEF R
  <2> QED
    BY <1>1, <2>1, AmongRelated
<1>4. Among(left, A) \in Seq(Row) /\ Among(left2, B) \in Seq(Row)
  BY AmongSeq
<1> QED
  BY <1>2, <1>3, <1>4, SingleRelated

\* What one left row of a row-producing join gives.
JoinedRows(join, l, right) ==
  LET found == Reference(join.on, l, right)
  IN IF found = <<>> /\ join.kind = "LEFT" THEN Single(<<l>>)
     ELSE [i \in DOMAIN found |-> [x |-> l, y |-> found[i]]]

JoinedParts(join, left, right) == [i \in 1..Len(left) |-> JoinedRows(join, left[i], right)]

LEMMA RowProducingIs ==
  ASSUME NEW join, NEW left \in Seq(Row), NEW right
  PROVE  RowProducing(join, left, right, FALSE) = FlattenSeq(JoinedParts(join, left, right))
<1>1. JoinedParts(join, left, right) = [i \in DOMAIN left |-> JoinedRows(join, left[i], right)]
  BY DEF JoinedParts
<1> QED
  BY <1>1 DEF RowProducing, UsesIndex, JoinedRows

LEMMA JoinedRowsType ==
  ASSUME NEW join, NEW l \in Row, NEW right \in Seq(Row)
  PROVE  JoinedRows(join, l, right) \in Seq(Pair)
<1> DEFINE found == Reference(join.on, l, right)
           At(i) == [x |-> l, y |-> found[i]]
<1>1. found \in Seq(Row)
  BY ReferenceIs
<1>2. JoinedRows(join, l, right) = IF found = <<>> /\ join.kind = "LEFT" THEN Single(<<l>>)
                                   ELSE [i \in 1..Len(found) |-> At(i)]
  BY <1>1 DEF JoinedRows
<1> HIDE DEF found
<1>3. \A i \in 1..Len(found) : At(i) \in Pair
  BY <1>1, ElementOfSeq DEF Pair
<1> HIDE DEF At
<1>4. [i \in 1..Len(found) |-> At(i)] \in Seq(Pair)
  BY <1>1, <1>3, LenProperties
<1>5. Single(<<l>>) \in Seq(Pair)
  BY OneIsASequence, SingleType
<1> QED
  BY <1>2, <1>4, <1>5

LEMMA JoinedRowsRelated ==
  ASSUME NEW join, join.on.f \in FieldName \cup {"never"}, NEW dl \in BOOLEAN, NEW dr \in BOOLEAN,
         join.on.f = "d" => dl /\ dr, NEW l, NEW l2, <<l, l2>> \in Same(dl),
         NEW right \in Seq(Row), NEW right2 \in Seq(Row), Related(Same(dr), right, right2)
  PROVE  Related(Pairs(dl, dr), JoinedRows(join, l, right), JoinedRows(join, l2, right2))
<1> DEFINE u == Reference(join.on, l, right)
           v == Reference(join.on, l2, right2)
<1>1. Related(Same(dr), u, v)
  <2> DEFINE on == join.on
  <2>1. on.f \in FieldName \cup {"never"} /\ (on.f = "d" => dl /\ dr)
    OBVIOUS
  <2> HIDE DEF on
  <2>2. Related(Same(dr), Reference(on, l, right), Reference(on, l2, right2))
    BY <2>1, ReferenceRelated
  <2> QED
    BY <2>2 DEF on
<1>2. u \in Seq(Row) /\ v \in Seq(Row) /\ l \in Row /\ l2 \in Row
  BY ReferenceIs, SameIs
<1> DEFINE U(i) == [x |-> l, y |-> u[i]]
           V(i) == [x |-> l2, y |-> v[i]]
<1>3. JoinedRows(join, l, right) = IF u = <<>> /\ join.kind = "LEFT" THEN Single(<<l>>)
                                   ELSE [i \in 1..Len(u) |-> U(i)]
  BY <1>2 DEF JoinedRows
<1>9. JoinedRows(join, l2, right2) = IF v = <<>> /\ join.kind = "LEFT" THEN Single(<<l2>>)
                                     ELSE [i \in 1..Len(v) |-> V(i)]
  BY <1>2 DEF JoinedRows
<1> HIDE DEF u, v
<1>4. (u = <<>> <=> v = <<>>) /\ Len(u) = Len(v) /\ Len(u) \in Nat
  BY <1>1, <1>2, EmptySeq, LenProperties DEF Related
<1>5. ASSUME NEW i \in 1..Len(u) PROVE <<U(i), V(i)>> \in Pairs(dl, dr)
  <2>1. <<u[i], v[i]>> \in Same(dr)
    BY <1>1 DEF Related
  <2>2. u[i] \in Row /\ v[i] \in Row
    BY <2>1, SameIs
  <2>3. /\ U(i) \in Pair /\ V(i) \in Pair
        /\ U(i).x = l /\ V(i).x = l2 /\ U(i).y = u[i] /\ V(i).y = v[i]
    BY <1>2, <2>2 DEF Pair
  <2>4. <<U(i).x, V(i).x>> \in Same(dl)
    BY <2>3
  <2>5. <<U(i).y, V(i).y>> \in Same(dr)
    BY <2>1, <2>3
  <2> HIDE DEF U, V
  <2> QED
    BY <2>3, <2>4, <2>5, PairsIs
<1>6. \A i \in 1..Len(u) : U(i) \in Pair /\ V(i) \in Pair
  BY <1>5, PairsIs
<1> HIDE DEF U, V
<1>7. Related(Pairs(dl, dr), [i \in 1..Len(u) |-> U(i)], [i \in 1..Len(v) |-> V(i)])
  <2>1. /\ Len([i \in 1..Len(u) |-> U(i)]) = Len(u)
        /\ Len([i \in 1..Len(v) |-> V(i)]) = Len(v)
    BY <1>4, <1>6, LenProperties
  <2> QED
    BY <1>4, <1>5, <2>1 DEF Related
<1>8. Related(Pairs(dl, dr), Single(<<l>>), Single(<<l2>>))
  <2> DEFINE s == <<l>>
             t == <<l2>>
  <2>1. /\ s \in Seq(Row) /\ t \in Seq(Row) /\ Len(s) = 1 /\ Len(t) = 1
        /\ s[1] = l /\ t[1] = l2
    BY <1>2
  <2> HIDE DEF s, t
  <2>2. Related(Same(dl), s, t)
    <3>1. \A i \in 1..Len(s) : i = 1
      BY <2>1
    <3> QED
      BY <2>1, <3>1 DEF Related
  <2>3. Related(Pairs(dl, dr), Single(s), Single(t))
    BY <2>1, <2>2, SingleRelated
  <2> QED
    BY <2>3 DEF s, t
<1> QED
  BY <1>3, <1>4, <1>7, <1>8, <1>9

LEMMA RowProducingRelated ==
  ASSUME NEW join, join.on.f \in FieldName \cup {"never"}, NEW dl \in BOOLEAN, NEW dr \in BOOLEAN,
         join.on.f = "d" => dl /\ dr,
         NEW left \in Seq(Row), NEW left2 \in Seq(Row), Related(Same(dl), left, left2),
         NEW right \in Seq(Row), NEW right2 \in Seq(Row), Related(Same(dr), right, right2)
  PROVE  /\ RowProducing(join, left, right, FALSE) \in Seq(Pair)
         /\ RowProducing(join, left2, right2, FALSE) \in Seq(Pair)
         /\ Related(Pairs(dl, dr), RowProducing(join, left, right, FALSE),
                    RowProducing(join, left2, right2, FALSE))
<1> DEFINE U(i) == JoinedRows(join, left[i], right)
           V(i) == JoinedRows(join, left2[i], right2)
           ss == [i \in 1..Len(left) |-> U(i)]
           tt == [i \in 1..Len(left2) |-> V(i)]
           SP == Seq(Pair)
<1>1. Len(left) = Len(left2) /\ \A i \in 1..Len(left) : <<left[i], left2[i]>> \in Same(dl)
  BY DEF Related
<1>2. \A i \in 1..Len(left) : U(i) \in SP /\ V(i) \in SP
  BY <1>1, SameIs, JoinedRowsType
<1>3. \A i \in 1..Len(left) : Related(Pairs(dl, dr), U(i), V(i))
  BY <1>1, JoinedRowsRelated
<1>4. RowProducing(join, left, right, FALSE) = FlattenSeq(ss)
  BY RowProducingIs DEF JoinedParts
<1>10. RowProducing(join, left2, right2, FALSE) = FlattenSeq(tt)
  BY RowProducingIs DEF JoinedParts
<1> HIDE DEF U, V, SP
<1>5. ss \in Seq(SP) /\ tt \in Seq(SP) /\ Len(ss) = Len(left) /\ Len(tt) = Len(left)
  BY <1>1, <1>2, LenProperties
<1>6. \A i \in 1..Len(ss) : Related(Pairs(dl, dr), ss[i], tt[i])
  BY <1>1, <1>3, <1>5
<1> HIDE DEF ss, tt
<1>7. ss \in Seq(Seq(Pair)) /\ tt \in Seq(Seq(Pair)) /\ Len(ss) = Len(tt)
  BY <1>5 DEF SP
<1>8. Related(Pairs(dl, dr), FlattenSeq(ss), FlattenSeq(tt))
  BY <1>6, <1>7, FlattenRelated
<1>9. FlattenSeq(ss) \in Seq(Pair) /\ FlattenSeq(tt) \in Seq(Pair)
  BY <1>7, FlattenType
<1> QED
  BY <1>4, <1>8, <1>9, <1>10

LEMMA JoinedRelated ==
  ASSUME NEW join, join.on.f \in FieldName \cup {"never"}, NEW dl \in BOOLEAN, NEW dr \in BOOLEAN,
         join.on.f = "d" => dl /\ dr,
         NEW left \in Seq(Row), NEW left2 \in Seq(Row), Related(Same(dl), left, left2),
         NEW right \in Seq(Row), NEW right2 \in Seq(Row), Related(Same(dr), right, right2)
  PROVE  /\ Joined(join, left, right, FALSE) \in Seq(Pair)
         /\ Joined(join, left2, right2, FALSE) \in Seq(Pair)
         /\ Related(Pairs(dl, dr), Joined(join, left, right, FALSE),
                    Joined(join, left2, right2, FALSE))
BY ExistenceType, ExistenceRelated, RowProducingRelated DEF Joined

Unanswered(join, right) == \A l : Reference(join.on, l, right) = <<>>

\* Where no right row answers a left one, an INNER or a SEMI join has no rows.
LEMMA JoinedUnmatched ==
  ASSUME NEW join, NEW left \in Seq(Row), NEW right \in Seq(Row), Unanswered(join, right)
  PROVE  join.kind \in {"INNER", "SEMI"} => Joined(join, left, right, FALSE) = <<>>
<1>1. \A l : Reference(join.on, l, right) = <<>>
  BY DEF Unanswered
<1>2. ASSUME join.kind = "INNER" PROVE Joined(join, left, right, FALSE) = <<>>
  <2> DEFINE ss == [i \in 1..Len(left) |-> <<>>]
             SP == Seq({})
             At(i) == <<>>
  <2>1. ss = [i \in 1..Len(left) |-> At(i)] /\ \A i \in 1..Len(left) : At(i) \in SP
    BY EmptySeq
  <2>2. \A i \in 1..Len(left) : JoinedRows(join, left[i], right) = <<>>
    BY <1>1, <1>2, EmptySeq DEF JoinedRows
  <2>3. JoinedParts(join, left, right) = ss
    BY <2>2 DEF JoinedParts
  <2> HIDE DEF At, SP
  <2>4. ss \in Seq(SP)
    BY <2>1, LenProperties
  <2> HIDE DEF ss
  <2>5. FlattenSeq(ss) \in Seq({})
    BY <2>4, FlattenType DEF SP
  <2>6. FlattenSeq(ss) = <<>>
    BY <2>5
  <2> QED
    BY <1>2, <2>3, <2>6, RowProducingIs DEF Joined
<1>3. ASSUME join.kind = "SEMI" PROVE Joined(join, left, right, FALSE) = <<>>
  <2> DEFINE A == Chosen(join, right)
  <2>1. A \cap Row = {}
    BY <1>1, <1>3 DEF Chosen
  <2>2. Joined(join, left, right, FALSE) = Single(Among(left, A))
    BY <1>3, ExistenceIs DEF Joined
  <2> HIDE DEF A
  <2>3. Among(left, A) = <<>>
    BY <2>1, AmongNone
  <2>4. Single(<<>>) = <<>>
    BY EmptySeq DEF Single
  <2> QED
    BY <2>2, <2>3, <2>4
<1> QED
  BY <1>2, <1>3

\* A constant-false ON never looks at the joined relation.
LEMMA JoinedNever ==
  ASSUME NEW join, join.on.f = "never", NEW left \in Seq(Row), NEW right \in Seq(Row)
  PROVE  /\ Joined(join, left, right, FALSE) = Joined(join, left, <<>>, FALSE)
         /\ join.kind \in {"INNER", "SEMI"} => Joined(join, left, right, FALSE) = <<>>
<1>0. <<>> \in Seq(Row)
  BY EmptySeq
<1>1. \A l : Reference(join.on, l, right) = <<>> /\ Reference(join.on, l, <<>>) = <<>>
  <2>1. ASSUME NEW l PROVE Matching(join.on, l) \cap Row = {}
    BY DEF Matching, Matches
  <2> QED
    BY <1>0, <2>1, ReferenceIs, AmongNone
<1>2. \A l : JoinedRows(join, l, right) = JoinedRows(join, l, <<>>)
  BY <1>1 DEF JoinedRows
<1>3. Joined(join, left, right, FALSE) = Joined(join, left, <<>>, FALSE)
  <2>1. JoinedParts(join, left, right) = JoinedParts(join, left, <<>>)
    BY <1>2 DEF JoinedParts
  <2>2. Chosen(join, right) = Chosen(join, <<>>)
    BY <1>1 DEF Chosen
  <2>3. /\ RowProducing(join, left, right, FALSE) = RowProducing(join, left, <<>>, FALSE)
        /\ Existence(join, left, right, FALSE) = Existence(join, left, <<>>, FALSE)
    BY <2>1, <2>2, RowProducingIs, ExistenceIs
  <2> QED
    BY <2>3 DEF Joined
<1>4. ASSUME join.kind \in {"INNER", "SEMI"} PROVE Joined(join, left, right, FALSE) = <<>>
  <2>1. Unanswered(join, right)
    BY <1>1 DEF Unanswered
  <2> QED
    BY <1>4, <2>1, JoinedUnmatched
<1> QED
  BY <1>3, <1>4

-----------------------------------------------------------------------------
(* What is acquired of a source *)

NotLight(q) == {r \in Row : MultiSource(q) \/ ~ RejectedLightly(q, r)}
Wanted(q, s) == {r \in NotLight(q) : ~ RejectedEarly(q, s, r)}

\* What Acquire makes of complete sources.
Fetched(q, data) ==
  [s \in Source |-> IF s \notin Requests(q) \/ Boundary(q, s).empty THEN <<>>
                    ELSE AcquiredRows(q, s, data[s])]

LEMMA FetchedType ==
  ASSUME NEW q, NEW data \in Data
  PROVE  Fetched(q, data) \in Data
<1>1. ASSUME NEW s \in Source
      PROVE  (IF s \notin Requests(q) \/ Boundary(q, s).empty THEN <<>>
              ELSE AcquiredRows(q, s, data[s])) \in Seq(Row)
  BY EmptySeq, AcquiredRowsType DEF Data
<1> QED
  BY <1>1 DEF Fetched, Data

\* The rows a request asks for and, under an early LIMIT, reaches.
Taken(q, s, rows) ==
  LET candidates == Among(rows, Wanted(q, s))
  IN IF LimitEligible(q) THEN CutAfter(q, s, candidates) ELSE candidates

LEMMA TakenType ==
  ASSUME NEW q, NEW s, NEW rows \in Seq(Row)
  PROVE  Taken(q, s, rows) \in Seq(Row)
BY AmongSeq, CutAfterType DEF Taken

\* The fields that are not asked for are blank, the others as they are.
LEMMA AcquiredRelated ==
  ASSUME NEW q, NEW s, NEW rows \in Seq(Row)
  PROVE  Related(Same(Detailed(q, s)), AcquiredRows(q, s, rows), Taken(q, s, rows))
<1> DEFINE wanted == {r \in ToSet(rows) : /\ ~ RejectedEarly(q, s, r)
                                          /\ MultiSource(q) \/ ~ RejectedLightly(q, r)}
           candidates == Among(rows, wanted)
           kept == IF Plan(q, s).limited THEN CutAfter(q, s, candidates) ELSE candidates
           Bare(i) == [kept[i] EXCEPT !.d = Null]
           bare == [i \in 1..Len(kept) |-> Bare(i)]
<1>1. wanted \cap ToSet(rows) = Wanted(q, s) \cap ToSet(rows)
  BY RowFacts DEF Wanted, NotLight
<1>2. candidates = Among(rows, Wanted(q, s))
  <2> HIDE DEF wanted
  <2> QED
    BY <1>1, AmongHeld
<1>3. kept = Taken(q, s, rows)
  BY <1>2 DEF Taken, Plan
<1>4. AcquiredRows(q, s, rows) = IF Plan(q, s).boundary.detailed THEN kept
                                 ELSE [i \in DOMAIN kept |-> Bare(i)]
  BY DEF AcquiredRows, Materialised
<1> HIDE DEF candidates, kept
<1>5. kept \in Seq(Row)
  BY <1>3, TakenType
<1>6. AcquiredRows(q, s, rows) = IF Detailed(q, s) THEN kept ELSE bare
  <2>1. DOMAIN kept = 1..Len(kept)
    BY <1>5
  <2> QED
    BY <1>4, <2>1 DEF Plan, Boundary
<1>7. Detailed(q, s) \in BOOLEAN
  BY DEF Detailed
<1>8. CASE Detailed(q, s)
  BY <1>3, <1>5, <1>6, <1>7, <1>8, SameReflexive
<1>9. CASE ~ Detailed(q, s)
  <2>1. \A i \in 1..Len(kept) : kept[i] \in Row /\ Bare(i) \in Row /\ Bare(i).t = kept[i].t
    <3>1. Null \in FieldValue
      BY DEF Null, FieldValue, Kind
    <3> QED
      BY <1>5, <3>1 DEF Row, FieldName
  <2> HIDE DEF Bare
  <2>2. Len(bare) = Len(kept) /\ \A i \in 1..Len(kept) : bare[i] = Bare(i)
    BY <1>5, <2>1, LenProperties
  <2>3. \A i \in 1..Len(kept) : <<bare[i], kept[i]>> \in Same(FALSE)
    BY <2>1, <2>2, SameIs
  <2>4. Related(Same(FALSE), bare, kept)
    BY <2>2, <2>3 DEF Related
  <2> HIDE DEF bare
  <2>5. Detailed(q, s) = FALSE
    BY <1>7, <1>9
  <2> QED
    BY <1>3, <1>6, <1>9, <2>4, <2>5
<1> QED
  BY <1>8, <1>9

-----------------------------------------------------------------------------
(* What a live use of a source makes the plan ask for *)

XSided(where) == where \in Seq(TestClause) /\ \A i \in DOMAIN where : where[i].side = "x"

LEMMA LiveFetched ==
  ASSUME NEW q, NEW data \in Data, NEW s \in Source, NEW u \in Live(q, s), s \notin Eliminated(q)
  PROVE  Fetched(q, data)[s] = AcquiredRows(q, s, data[s])
<1>1. s \in Requests(q)
  BY DEF Live, Requests
<1>2. ~ Boundary(q, s).empty
  BY DEF Boundary, Skipped
<1> QED
  BY <1>1, <1>2 DEF Fetched

\* Its fields are in the records, but for those pruned from a CTE.
LEMMA LiveDetailed ==
  ASSUME NEW q, NEW s, NEW u \in Live(q, s), "d" \in u.fields,
         u.owner # "cte" \/ ~ Prunable(q) \/ "d" \in CteInputs(q)
  PROVE  Detailed(q, s)
BY DEF Detailed, RequiredFields

\* The rows it reads are not rejected at enumeration.
LEMMA LiveKeeps ==
  ASSUME NEW q, NEW s, NEW u \in Live(q, s), XSided(u.where), NEW r \in Pass(u.where)
  PROVE  ~ RejectedEarly(q, s, r)
<1> SUFFICES ASSUME RejectedEarly(q, s, r) PROVE FALSE
  OBVIOUS
<1>1. /\ BoundaryTests(q, s) # {}
      /\ \A test \in BoundaryTests(q, s) : ~ Passes(test, r, r)
  BY DEF RejectedEarly, Boundary, Enumerable
<1>2. u.where # <<>> /\ u.where[1] \in BoundaryTests(q, s)
  BY <1>1 DEF BoundaryTests
<1>3. 1 \in DOMAIN u.where
  BY <1>2, EmptySeq DEF XSided
<1>4. Passes(u.where[1], r, NullRow) /\ u.where[1].side = "x"
  BY <1>3 DEF Pass, XSided
<1>5. Passes(u.where[1], r, r)
  BY <1>4 DEF Passes
<1> QED
  BY <1>1, <1>2, <1>5

LEMMA DeadPass ==
  ASSUME NEW q, NEW u \in Uses(q), u \notin Live(q, u.s)
  PROVE  Pass(u.where) = {}
BY DEF Live, Pass, Passes

LEMMA PassFacts ==
  /\ Pass(<<>>) = Row
  /\ \A where : Pass(where) \subseteq Row
BY EmptySeq DEF Pass

\* The relation an operand is, before its own predicate, and that predicate.
Base(o, data, cte) == IF o.s = "cte" THEN cte ELSE data[o.s]
Inner(o) == IF o.k = "derived" THEN o.where ELSE <<>>

LEMMA OperandFacts ==
  ASSUME NEW o \in Operands
  PROVE  /\ o.k \in {"source", "cte", "derived"} /\ (o.k = "cte" => o = TheCte)
         /\ o.s \in Source \cup {"cte"} /\ (o.s # "cte" => o.k # "cte" /\ o.s \in Source)
         /\ (o.k = "source" => o.s # "cte")
         /\ XSided(Inner(o))
<1>1. \A i \in DOMAIN o.where : o.k = "derived" => o.where[i].side = "x"
  BY OperandAssumption DEF Physical, TheCte, Derived
<1>2. o.k = "derived" => o.where \in Seq(TestClause)
  BY OperandAssumption DEF Physical, TheCte, Derived
<1>3. <<>> \in Seq(TestClause) /\ DOMAIN <<>> = {}
  BY EmptySeq
<1>4. XSided(Inner(o))
  BY <1>1, <1>2, <1>3 DEF XSided, Inner
<1> QED
  BY <1>4, OperandAssumption, ContentAssumption DEF Physical, TheCte, Derived

LEMMA BaseType ==
  ASSUME NEW o \in Operands, NEW data \in Data, NEW cte \in Seq(Row)
  PROVE  Base(o, data, cte) \in Seq(Row)
BY OperandFacts DEF Base, Data

LEMMA RowsIs ==
  ASSUME NEW o \in Operands, NEW data \in Data, NEW cte \in Seq(Row)
  PROVE  Rows(o, data, cte) = Among(Base(o, data, cte), Pass(Inner(o)))
<1> DEFINE of == Base(o, data, cte)
           inner == Filter(o.where, Single(of))
<1>1. of \in Seq(Row)
  BY BaseType
<1>2. Rows(o, data, cte) = IF o.k # "derived" THEN of ELSE [i \in DOMAIN inner |-> inner[i].x]
  BY DEF Rows, Base
<1> HIDE DEF of
<1>3. CASE o.k # "derived"
  BY <1>1, <1>2, <1>3, PassFacts, AmongAll DEF Inner, of
<1>4. CASE o.k = "derived"
  <2> DEFINE v == Among(of, Pass(o.where))
  <2>1. inner = Single(v) /\ v \in Seq(Row)
    BY <1>1, FilterSingle, AmongSeq
  <2> HIDE DEF inner, v
  <2>2. [i \in DOMAIN inner |-> inner[i].x] = v
    <3>1. inner \in Seq(Pair) /\ Len(inner) = Len(v)
      BY <2>1, SingleType, SingleFacts
    <3>2. DOMAIN inner = 1..Len(v) /\ DOMAIN v = 1..Len(v)
      BY <2>1, <3>1
    <3>3. ASSUME NEW i \in 1..Len(v) PROVE inner[i].x = v[i]
      <4>1. inner[i] = [x |-> v[i], y |-> NullRow]
        BY <2>1, SingleFacts
      <4> QED
        BY <4>1
    <3> QED
      BY <2>1, <3>2, <3>3
  <2> QED
    BY <1>2, <1>4, <2>2 DEF Inner, of, v
<1> QED
  BY <1>3, <1>4

-----------------------------------------------------------------------------
(* The relations of a query, complete and acquired *)

\* Whether some use outside the CTE, or of the CTE's output, reads d of a row.
CteDetail(q) == Prunable(q) => "d" \in CteReads(q)

\* The rows that matter are asked for, and they agree on what is read of them.
LEMMA KeptRelated ==
  ASSUME NEW e \in BOOLEAN, NEW need \in BOOLEAN, need => e, NEW A \in Seq(Row),
         NEW B \in Seq(Row), NEW W, NEW G, G \cap Row \subseteq W,
         Related(Same(e), A, Among(B, W)),
         \A a, b \in Row : <<a, b>> \in Same(e) => (a \in G <=> b \in G)
  PROVE  Related(Same(need), Among(A, G), Among(B, G))
<1> DEFINE R == Same(e)
           C == Among(B, W)
<1>1. C \in Seq(Row)
  BY AmongSeq
<1>2. Related(R, A, C) /\ \A a, b \in Row : <<a, b>> \in R => (a \in G <=> b \in G)
  OBVIOUS
<1> HIDE DEF R, C
<1>3. Related(R, Among(A, G), Among(C, G))
  BY <1>1, <1>2, AmongRelated
<1>4. Among(C, G) = Among(B, G)
  BY AmongTwice DEF C
<1>5. Related(Same(e), Among(A, G), Among(B, G))
  BY <1>3, <1>4 DEF R
<1> QED
  BY <1>5, SameWeaker

\* Among the rows a use reads, a source and what was acquired of it agree.
LEMMA UseKept ==
  ASSUME NEW q, NEW data \in Data, NEW s \in Source, NEW u \in Uses(q), u.s = s,
         s \notin Eliminated(q), ~ LimitEligible(q), XSided(u.where),
         NEW need \in BOOLEAN,
         need => /\ "d" \in u.fields
                 /\ u.owner # "cte" \/ ~ Prunable(q) \/ "d" \in CteInputs(q),
         NEW G, G \subseteq Pass(u.where), G \subseteq NotLight(q),
         u \in Live(q, s) =>
           \A a, b \in Row : <<a, b>> \in Same(Detailed(q, s)) => (a \in G <=> b \in G)
  PROVE  Related(Same(need), Among(Fetched(q, data)[s], G), Among(data[s], G))
<1>1. data[s] \in Seq(Row) /\ Fetched(q, data)[s] \in Seq(Row)
  BY FetchedType DEF Data
<1>2. CASE u \in Live(q, s)
  <2> DEFINE D == Detailed(q, s)
  <2>1. D \in BOOLEAN /\ (need => D)
    <3>1. D \in BOOLEAN
      BY DEF Detailed
    <3>2. need => D
      BY <1>2, LiveDetailed
    <3> QED
      BY <3>1, <3>2
  <2>2. Related(Same(D), Fetched(q, data)[s], Among(data[s], Wanted(q, s)))
    <3>1. Fetched(q, data)[s] = AcquiredRows(q, s, data[s])
      BY <1>2, LiveFetched
    <3>2. Taken(q, s, data[s]) = Among(data[s], Wanted(q, s))
      BY DEF Taken
    <3> QED
      BY <1>1, <3>1, <3>2, AcquiredRelated
  <2>3. G \cap Row \subseteq Wanted(q, s)
    BY <1>2, LiveKeeps DEF Wanted
  <2>4. \A a, b \in Row : <<a, b>> \in Same(D) => (a \in G <=> b \in G)
    BY <1>2
  <2> HIDE DEF D
  <2> QED
    BY <1>1, <2>1, <2>2, <2>3, <2>4, KeptRelated
<1>3. CASE u \notin Live(q, s)
  <2>1. G \cap Row = {}
    BY <1>3, DeadPass
  <2>2. Among(Fetched(q, data)[s], G) = <<>> /\ Among(data[s], G) = <<>>
    BY <1>1, <2>1, AmongNone
  <2> QED
    BY <2>2, RelatedEmpty
<1> QED
  BY <1>2, <1>3

\* The rows of F in a relation over a source.
LEMMA SourceOperand ==
  ASSUME NEW q, NEW data \in Data, NEW o \in Operands, o.s # "cte",
         NEW cteA \in Seq(Row), NEW cteD \in Seq(Row),
         NEW u \in Uses(q), u.s = o.s, o.s \notin Eliminated(q), ~ LimitEligible(q),
         XSided(u.where), NEW need \in BOOLEAN,
         need => /\ "d" \in u.fields
                 /\ u.owner # "cte" \/ ~ Prunable(q) \/ "d" \in CteInputs(q),
         NEW F, F \subseteq NotLight(q), Pass(Inner(o)) \cap F \subseteq Pass(u.where),
         u \in Live(q, o.s) =>
           \A a, b \in Row : <<a, b>> \in Same(Detailed(q, o.s)) =>
             (a \in Pass(Inner(o)) \cap F <=> b \in Pass(Inner(o)) \cap F)
  PROVE  Related(Same(need), Among(Rows(o, Fetched(q, data), cteA), F),
                 Among(Rows(o, data, cteD), F))
<1> DEFINE G == Pass(Inner(o)) \cap F
           s == o.s
<1>1. s \in Source
  BY OperandFacts
<1>2. Fetched(q, data) \in Data
  BY FetchedType
<1>3. Among(Rows(o, data, cteD), F) = Among(data[s], G)
  <2>1. Rows(o, data, cteD) = Among(data[s], Pass(Inner(o))) /\ data[s] \in Seq(Row)
    BY <1>1, RowsIs DEF Base, Data
  <2> QED
    BY <2>1, AmongBoth
<1>4. Among(Rows(o, Fetched(q, data), cteA), F) = Among(Fetched(q, data)[s], G)
  <2>1. /\ Rows(o, Fetched(q, data), cteA) = Among(Fetched(q, data)[s], Pass(Inner(o)))
        /\ Fetched(q, data)[s] \in Seq(Row)
    BY <1>1, <1>2, RowsIs DEF Base, Data
  <2> QED
    BY <2>1, AmongBoth
<1>5. /\ G \subseteq Pass(u.where) /\ G \subseteq NotLight(q)
      /\ u \in Live(q, s) =>
           \A a, b \in Row : <<a, b>> \in Same(Detailed(q, s)) => (a \in G <=> b \in G)
      /\ u.s = s /\ s \notin Eliminated(q)
  OBVIOUS
<1> HIDE DEF G, s
<1>6. Related(Same(need), Among(Fetched(q, data)[s], G), Among(data[s], G))
  BY <1>1, <1>5, UseKept
<1> QED
  BY <1>3, <1>4, <1>6

\* The rows of F in a relation over the CTE.
LEMMA CteOperand ==
  ASSUME NEW q, NEW data \in Data, NEW o \in Operands, o.s = "cte",
         NEW cteA \in Seq(Row), NEW cteD \in Seq(Row),
         Related(Same(CteDetail(q)), cteA, Among(cteD, NotLight(q))),
         NEW need \in BOOLEAN, need => CteDetail(q),
         NEW F, F \subseteq NotLight(q),
         \A a, b \in Row : <<a, b>> \in Same(CteDetail(q)) =>
           (a \in Pass(Inner(o)) \cap F <=> b \in Pass(Inner(o)) \cap F)
  PROVE  Related(Same(need), Among(Rows(o, Fetched(q, data), cteA), F),
                 Among(Rows(o, data, cteD), F))
<1> DEFINE G == Pass(Inner(o)) \cap F
           e == CteDetail(q)
<1>1. e \in BOOLEAN
  BY DEF CteDetail
<1>2. Fetched(q, data) \in Data
  BY FetchedType
<1>3. Among(Rows(o, data, cteD), F) = Among(cteD, G)
  <2>1. Rows(o, data, cteD) = Among(cteD, Pass(Inner(o)))
    BY RowsIs DEF Base
  <2> QED
    BY <2>1, AmongBoth
<1>4. Among(Rows(o, Fetched(q, data), cteA), F) = Among(cteA, G)
  <2>1. Rows(o, Fetched(q, data), cteA) = Among(cteA, Pass(Inner(o)))
    BY <1>2, RowsIs DEF Base
  <2> QED
    BY <2>1, AmongBoth
<1>5. /\ G \cap Row \subseteq NotLight(q) /\ (need => e)
      /\ \A a, b \in Row : <<a, b>> \in Same(e) => (a \in G <=> b \in G)
      /\ Related(Same(e), cteA, Among(cteD, NotLight(q)))
  OBVIOUS
<1> HIDE DEF G, e
<1>6. Related(Same(need), Among(cteA, G), Among(cteD, G))
  BY <1>1, <1>5, KeptRelated
<1> QED
  BY <1>3, <1>4, <1>6

-----------------------------------------------------------------------------
(* What the bodies of a query read *)

\* At most one test, of the joined side only where there is one.
WrittenBody(b) ==
  /\ Len(b.where) <= 1
  /\ b.joins = <<>> => \A i \in DOMAIN b.where : b.where[i].side = "x"
Written(q) == /\ \A i \in DOMAIN q.cte : WrittenBody(q.cte[i])
              /\ \A i \in DOMAIN q.branches : WrittenBody(q.branches[i])

\* The rows of its relations a body may show.
Reading(b) == IF b.joins = <<>> THEN Pass(b.where) ELSE Row
\* Whether it reads d of the rows of either.
LeftNeeds(b) == "d" \in {b.sel} \cup TestFields(b.where, "x") \cup OnFields(b)
RightNeeds(b) == "d" \in OnFields(b) \cup TestFields(b.where, "y")
\* Whether the fields of a use in that body are kept.
OwnerReads(q, owner) == owner # "cte" \/ ~ Prunable(q) \/ "d" \in CteInputs(q)

UseFrom(q, owner, b) ==
  [s |-> b.from.s, owner |-> owner,
   fields |-> IF b.from.k = "derived" THEN FieldName
              ELSE Exported(b, owner) \cup TestFields(b.where, "x") \cup OnFields(b)
                   \cup OrderFields(q),
   where |-> IF b.from.k = "derived" THEN b.from.where
             ELSE IF b.joins = <<>> THEN b.where ELSE <<>>]
UseJoined(b, owner) ==
  LET o == b.joins[1].relation
  IN [s |-> o.s, owner |-> owner,
      fields |-> IF o.k = "derived" THEN FieldName ELSE OnFields(b) \cup TestFields(b.where, "y"),
      where |-> IF o.k = "derived" THEN o.where ELSE <<>>]

LEMMA BodyTypes ==
  ASSUME NEW b \in BodyClauses
  PROVE  /\ b.sel \in FieldName /\ b.from \in Operands /\ b.where \in Seq(TestClause)
         /\ b.joins \in Seq(JoinClause)
         /\ b.joins # <<>> => /\ 1 \in DOMAIN b.joins /\ b.joins[1] \in JoinClause
                             /\ b.joins[1].relation \in Operands /\ b.joins[1].kind \in Kinds
                             /\ b.joins[1].on.f \in FieldName \cup {"never"}
                             /\ (b.joins[1].on.f = "d" => "d" \in OnFields(b))
<1>1. /\ b.sel \in FieldName /\ b.from \in Operands /\ b.where \in Seq(Tests)
      /\ b.joins \in Seq(JoinClause)
  BY DEF BodyClauses
<1>2. b.where \in Seq(TestClause)
  BY <1>1, OperandAssumption, SeqMonotonic
<1>3. ASSUME b.joins # <<>> PROVE 1 \in DOMAIN b.joins /\ b.joins[1] \in JoinClause
  BY <1>1, <1>3, EmptySeq
<1>4. ASSUME b.joins # <<>> PROVE b.joins[1].on.f = "d" => "d" \in OnFields(b)
  BY <1>3, <1>4 DEF OnFields
<1> QED
  BY <1>1, <1>2, <1>3, <1>4, BodyFacts DEF JoinClause

LEMMA BodyUses ==
  ASSUME NEW q, NEW owner, NEW b, <<owner, b>> \in Bodies(q), b \in BodyClauses
  PROVE  /\ b.from.s # "cte" => UseFrom(q, owner, b) \in Uses(q)
         /\ b.joins # <<>> /\ b.joins[1].relation.s # "cte" => UseJoined(b, owner) \in Uses(q)
<1>1. UsesOfBody(q, owner, b) \subseteq Uses(q)
  BY DEF Uses
<1>2. ASSUME b.from.s # "cte" PROVE UseFrom(q, owner, b) \in UsesOfBody(q, owner, b)
  <2>1. b.from.k # "cte"
    BY <1>2, BodyTypes, OperandFacts
  <2> QED
    BY <1>2, <2>1 DEF UsesOfBody, UseFrom
<1>3. ASSUME b.joins # <<>>, b.joins[1].relation.s # "cte"
      PROVE  UseJoined(b, owner) \in UsesOfBody(q, owner, b)
  <2>1. b.joins[1].relation.k # "cte" /\ 1 \in DOMAIN b.joins
    BY <1>3, BodyTypes, OperandFacts
  <2> QED
    BY <1>3, <2>1 DEF UsesOfBody, UseJoined
<1> QED
  BY <1>1, <1>2, <1>3

LEMMA ReadingAgrees ==
  ASSUME NEW c \in BodyClauses, NEW e \in BOOLEAN,
         c.joins = <<>> /\ "d" \in TestFields(c.where, "x") => e,
         NEW a \in Row, NEW b \in Row, <<a, b>> \in Same(e)
  PROVE  a \in Reading(c) <=> b \in Reading(c)
<1>1. CASE c.joins = <<>>
  <2>1. c.where \in Seq(TestClause) /\ ("d" \in TestFields(c.where, "x") => e)
    BY <1>1, BodyTypes
  <2>2. a \in Pass(c.where) <=> b \in Pass(c.where)
    BY <2>1, PassAgrees
  <2> QED
    BY <1>1, <2>2 DEF Reading
<1>2. CASE c.joins # <<>>
  BY <1>2 DEF Reading
<1> QED
  BY <1>1, <1>2

\* The predicate of the first body rejects none of the rows a branch may show.
LEMMA ReadingNotLight ==
  ASSUME NEW q \in Query, Sound(q), Written(q), NEW i \in DOMAIN q.branches
  PROVE  Reading(q.branches[i]) \subseteq NotLight(q)
<1> DEFINE b == q.branches[i]
           first == q.branches[1]
<1>1. b \in BodyClauses /\ WrittenBody(b)
  BY QueryFacts DEF Written
<1>2. SUFFICES ASSUME NEW r \in Reading(b), r \notin NotLight(q) PROVE FALSE
  OBVIOUS
<1>3. r \in Row
  BY PassFacts DEF Reading
<1>4. ~ MultiSource(q) /\ RejectedLightly(q, r)
  BY <1>2, <1>3 DEF NotLight
<1>5. PICK j \in DOMAIN first.where : first.where[j].f = "t" /\ ~ Passes(first.where[j], r, r)
  BY <1>4 DEF RejectedLightly
<1>6. first.joins = <<>>
  BY <1>4 DEF RejectedLightly
<1>7. Len(q.branches) = 1
  BY <1>4, <1>5, <1>6 DEF Sound, FirstBodyAlone
<1>8. i = 1
  <2>1. i \in 1..Len(q.branches)
    BY DEF Query
  <2> QED
    BY <1>7, <2>1
<1>9. r \in Pass(first.where) /\ first.where[j].side = "x"
  BY <1>1, <1>2, <1>5, <1>6, <1>8 DEF Reading, WrittenBody
<1>10. Passes(first.where[j], r, NullRow)
  BY <1>5, <1>9 DEF Pass
<1> QED
  BY <1>5, <1>9, <1>10 DEF Passes

-----------------------------------------------------------------------------
(* The two sides of a body, complete and acquired *)

\* The use of a source a body reads from asks for what the body reads.
LEMMA LeftUse ==
  ASSUME NEW q, NEW owner, NEW b \in BodyClauses, <<owner, b>> \in Bodies(q),
         WrittenBody(b), b.from.s # "cte"
  PROVE  LET u == UseFrom(q, owner, b)
         IN /\ u \in Uses(q) /\ u.s = b.from.s /\ u.owner = owner /\ XSided(u.where)
            /\ Pass(Inner(b.from)) \cap Reading(b) \subseteq Pass(u.where)
            /\ LeftNeeds(b) \/ owner = "cte" \/ b.from.k = "derived" => "d" \in u.fields
<1> DEFINE u == UseFrom(q, owner, b)
           o == b.from
           F == Reading(b)
<1>1. u \in Uses(q) /\ u.s = o.s /\ u.owner = owner /\ o \in Operands
  BY BodyUses, BodyTypes DEF UseFrom
<1>2. <<>> \in Seq(TestClause) /\ DOMAIN <<>> = {}
  BY EmptySeq
<1>3. u.where = IF o.k = "derived" THEN Inner(o) ELSE IF b.joins = <<>> THEN b.where ELSE <<>>
  BY DEF UseFrom, Inner
<1>4. XSided(u.where)
  <2>1. CASE o.k = "derived"
    BY <1>1, <1>3, <2>1, OperandFacts
  <2>2. CASE o.k # "derived" /\ b.joins = <<>>
    BY <1>3, <2>2, BodyTypes DEF XSided, WrittenBody
  <2>3. CASE o.k # "derived" /\ b.joins # <<>>
    BY <1>2, <1>3, <2>3 DEF XSided
  <2> QED
    BY <2>1, <2>2, <2>3
<1>5. Pass(Inner(o)) \cap F \subseteq Pass(u.where)
  <2>1. CASE o.k = "derived"
    BY <1>3, <2>1
  <2>2. CASE o.k # "derived" /\ b.joins = <<>>
    BY <1>3, <2>2 DEF Reading
  <2>3. CASE o.k # "derived" /\ b.joins # <<>>
    BY <1>3, <2>3, PassFacts
  <2> QED
    BY <2>1, <2>2, <2>3
<1>6. LeftNeeds(b) \/ owner = "cte" \/ o.k = "derived" => "d" \in u.fields
  BY DEF LeftNeeds, UseFrom, Exported, FieldName
<1> QED
  BY <1>1, <1>4, <1>5, <1>6

\* Where the use is live, the acquired rows tell which of them the body reads.
LEMMA LeftAgrees ==
  ASSUME NEW q, NEW owner, NEW b \in BodyClauses, <<owner, b>> \in Bodies(q),
         WrittenBody(b), b.from.s # "cte",
         b.from.k = "derived" => OwnerReads(q, owner),
         b.joins = <<>> /\ "d" \in TestFields(b.where, "x") => OwnerReads(q, owner),
         UseFrom(q, owner, b) \in Live(q, b.from.s),
         NEW x \in Row, NEW y \in Row, <<x, y>> \in Same(Detailed(q, b.from.s))
  PROVE  x \in Pass(Inner(b.from)) \cap Reading(b) <=> y \in Pass(Inner(b.from)) \cap Reading(b)
<1> DEFINE u == UseFrom(q, owner, b)
           o == b.from
           F == Reading(b)
<1>1. /\ u.owner = owner
      /\ LeftNeeds(b) \/ owner = "cte" \/ o.k = "derived" => "d" \in u.fields
  BY LeftUse
<1>2. Detailed(q, o.s) \in BOOLEAN
  BY DEF Detailed
<1>3. "d" \in u.fields /\ OwnerReads(q, owner) => Detailed(q, o.s)
  BY <1>1, LiveDetailed DEF OwnerReads
<1>4. CASE o.k = "derived"
  <2>1. x = y
    BY <1>1, <1>2, <1>3, <1>4, SameIs, RowEqual
  <2> QED
    BY <2>1
<1>5. CASE o.k # "derived"
  <2>1. b.joins = <<>> /\ "d" \in TestFields(b.where, "x") => Detailed(q, o.s)
    BY <1>1, <1>3 DEF LeftNeeds
  <2>2. x \in F <=> y \in F
    BY <1>2, <2>1, ReadingAgrees
  <2> QED
    BY <1>5, <2>2, PassFacts DEF Inner
<1> QED
  BY <1>4, <1>5

LEMMA LeftKept ==
  ASSUME NEW q, NEW data \in Data, NEW owner, NEW b \in BodyClauses, <<owner, b>> \in Bodies(q),
         WrittenBody(b), b.from.s # "cte", b.from.s \notin Eliminated(q), ~ LimitEligible(q),
         NEW cteA \in Seq(Row), NEW cteD \in Seq(Row),
         Reading(b) \subseteq NotLight(q),
         b.from.k = "derived" => OwnerReads(q, owner),
         b.joins = <<>> /\ "d" \in TestFields(b.where, "x") => OwnerReads(q, owner),
         NEW need \in BOOLEAN, need => (LeftNeeds(b) \/ owner = "cte") /\ OwnerReads(q, owner)
  PROVE  Related(Same(need), Among(Rows(b.from, Fetched(q, data), cteA), Reading(b)),
                 Among(Rows(b.from, data, cteD), Reading(b)))
<1> DEFINE u == UseFrom(q, owner, b)
           o == b.from
           F == Reading(b)
<1>1. /\ u \in Uses(q) /\ u.s = o.s /\ u.owner = owner /\ XSided(u.where)
      /\ Pass(Inner(o)) \cap F \subseteq Pass(u.where)
      /\ LeftNeeds(b) \/ owner = "cte" \/ o.k = "derived" => "d" \in u.fields
  BY LeftUse
<1>2. o \in Operands
  BY BodyTypes
<1>3. ASSUME u \in Live(q, o.s), NEW x \in Row, NEW y \in Row, <<x, y>> \in Same(Detailed(q, o.s))
      PROVE  x \in Pass(Inner(o)) \cap F <=> y \in Pass(Inner(o)) \cap F
  BY <1>3, LeftAgrees
<1>4. need => "d" \in u.fields /\ (u.owner # "cte" \/ ~ Prunable(q) \/ "d" \in CteInputs(q))
  BY <1>1 DEF OwnerReads
<1>5. o.s # "cte" /\ o.s \notin Eliminated(q) /\ F \subseteq NotLight(q)
  OBVIOUS
<1> HIDE DEF u, o, F
<1>6. Related(Same(need), Among(Rows(o, Fetched(q, data), cteA), F), Among(Rows(o, data, cteD), F))
  BY <1>1, <1>2, <1>3, <1>4, <1>5, SourceOperand
<1> QED
  BY <1>6 DEF o, F

LEMMA RightKept ==
  ASSUME NEW q, NEW data \in Data, NEW owner, NEW b \in BodyClauses, <<owner, b>> \in Bodies(q),
         b.joins # <<>>, b.joins[1].relation.s # "cte",
         b.joins[1].relation.s \notin Eliminated(q), ~ LimitEligible(q),
         NEW cteA \in Seq(Row), NEW cteD \in Seq(Row), Row \subseteq NotLight(q),
         OwnerReads(q, owner)
  PROVE  Related(Same(RightNeeds(b)), Rows(b.joins[1].relation, Fetched(q, data), cteA),
                 Rows(b.joins[1].relation, data, cteD))
<1> DEFINE u == UseJoined(b, owner)
           o == b.joins[1].relation
           need == RightNeeds(b)
           F == Row
<1>1. u \in Uses(q) /\ u.s = o.s /\ u.owner = owner /\ o \in Operands
  BY BodyUses, BodyTypes DEF UseJoined
<1>2. <<>> \in Seq(TestClause) /\ DOMAIN <<>> = {}
  BY EmptySeq
<1>3. u.where = Inner(o)
  BY DEF UseJoined, Inner
<1>4. XSided(u.where)
  BY <1>1, <1>3, OperandFacts
<1>5. Pass(Inner(o)) \cap F \subseteq Pass(u.where)
  BY <1>3
<1>6. need \/ o.k = "derived" => "d" \in u.fields
  BY DEF RightNeeds, UseJoined, FieldName
<1>7. ASSUME u \in Live(q, o.s), NEW x \in Row, NEW y \in Row, <<x, y>> \in Same(Detailed(q, o.s))
      PROVE  x \in Pass(Inner(o)) \cap F <=> y \in Pass(Inner(o)) \cap F
  <2>1. Detailed(q, o.s) \in BOOLEAN
    BY DEF Detailed
  <2>2. "d" \in u.fields => Detailed(q, o.s)
    BY <1>1, <1>7, LiveDetailed DEF OwnerReads
  <2>3. CASE o.k = "derived"
    <3>1. x = y
      BY <1>6, <2>1, <2>2, <2>3, SameIs, RowEqual, <1>7
    <3> QED
      BY <3>1
  <2>4. CASE o.k # "derived"
    BY <2>4, PassFacts DEF Inner
  <2> QED
    BY <2>3, <2>4
<1>8. need => "d" \in u.fields /\ (u.owner # "cte" \/ ~ Prunable(q) \/ "d" \in CteInputs(q))
  BY <1>1, <1>6 DEF OwnerReads
<1>9. /\ o.s # "cte" /\ o.s \notin Eliminated(q) /\ F \subseteq NotLight(q)
      /\ need \in BOOLEAN
  BY DEF RightNeeds
<1>11. Fetched(q, data) \in Data
  BY FetchedType
<1>12. Rows(o, Fetched(q, data), cteA) \in Seq(Row) /\ Rows(o, data, cteD) \in Seq(Row)
  BY <1>1, <1>11, RowsType
<1>13. Row \subseteq F
  OBVIOUS
<1> HIDE DEF u, o, F, need
<1>10. Related(Same(need), Among(Rows(o, Fetched(q, data), cteA), F), Among(Rows(o, data, cteD), F))
  BY <1>1, <1>4, <1>5, <1>7, <1>8, <1>9, SourceOperand
<1>14. /\ Among(Rows(o, Fetched(q, data), cteA), F) = Rows(o, Fetched(q, data), cteA)
       /\ Among(Rows(o, data, cteD), F) = Rows(o, data, cteD)
  BY <1>12, <1>13, AmongAll
<1> QED
  BY <1>10, <1>14 DEF o, need

-----------------------------------------------------------------------------
(* The requests a constant-false ON skips *)

LEMMA EliminatedIs ==
  ASSUME NEW q, NEW s \in Eliminated(q)
  PROVE  q.branches[1].joins # <<>> /\ q.branches[1].joins[1].on.f = "never"
BY DEF Eliminated, JoinConsequence

LEMMA BranchNamed ==
  ASSUME NEW q \in Query, NEW i \in DOMAIN q.branches, i # 1, NEW o \in OperandsOf(q.branches[i]),
         o.s # "cte", Sound(q)
  PROVE  o.s \notin Eliminated(q)
<1> SUFFICES ASSUME o.s \in Eliminated(q) PROVE FALSE
  OBVIOUS
<1> DEFINE branches == q.branches
<1>1. branches \in Seq(BodyClauses) /\ branches # <<>>
  BY DEF Query
<1>2. q.branches[i] \in ToSet(Tail(q.branches))
  <2>1. i \in 1..Len(branches) /\ Len(branches) \in Nat
    BY <1>1
  <2>2. /\ Len(Tail(branches)) = Len(branches) - 1 /\ Tail(branches) \in Seq(BodyClauses)
        /\ \A j \in 1..Len(Tail(branches)) : Tail(branches)[j] = branches[j + 1]
    BY <1>1, HeadTailProperties
  <2>3. i - 1 \in 1..Len(Tail(branches)) /\ (i - 1) + 1 = i
    BY <2>1, <2>2
  <2>4. Tail(branches)[i - 1] = branches[i] /\ i - 1 \in DOMAIN Tail(branches)
    BY <2>2, <2>3
  <2> QED
    BY <2>4 DEF ToSet
<1>3. o.s \in UNION {NamedBy(x) : x \in OperandsOf(q.branches[i])}
  BY DEF NamedBy
<1>4. EliminationAlone(q)
  BY DEF Sound
<1> QED
  BY <1>2, <1>3, <1>4 DEF EliminationAlone

LEMMA CteNamed ==
  ASSUME NEW q \in Query, q.cte # <<>>, NEW o \in OperandsOf(q.cte[1]), o.s # "cte", Sound(q)
  PROVE  o.s \notin Eliminated(q)
<1> SUFFICES ASSUME o.s \in Eliminated(q) PROVE FALSE
  OBVIOUS
<1>1. q.cte[1] \in ToSet(q.cte)
  <2>1. q.cte \in Seq(CteBody)
    BY DEF Query
  <2>2. 1 \in DOMAIN q.cte
    BY <2>1, EmptySeq
  <2> QED
    BY <2>2 DEF ToSet
<1>2. o.s \in UNION {NamedBy(x) : x \in OperandsOf(q.cte[1])}
  BY DEF NamedBy
<1>3. EliminationAlone(q)
  BY DEF Sound
<1> QED
  BY <1>1, <1>2, <1>3 DEF EliminationAlone

\* Only the sides whose rows cannot show.
LEMMA NotEliminated ==
  ASSUME NEW q \in Query, NEW i \in DOMAIN q.branches, Sound(q)
  PROVE  LET b == q.branches[i]
         IN /\ b.from.s # "cte" /\ b.from.s \in Eliminated(q) =>
                 /\ b.joins # <<>> /\ b.joins[1].on.f = "never"
                 /\ b.joins[1].kind \in {"INNER", "SEMI"}
            /\ b.joins # <<>> /\ b.joins[1].relation.s # "cte"
                 /\ b.joins[1].relation.s \in Eliminated(q) => b.joins[1].on.f = "never"
<1> DEFINE b == q.branches[i]
<1>1. b \in BodyClauses
  BY QueryFacts
<1>2. b.joins # <<>> => b.joins[1].relation \in OperandsOf(b)
  BY <1>1, BodyTypes DEF OperandsOf
<1>3. b.from \in OperandsOf(b)
  BY DEF OperandsOf
<1>4. ASSUME b.from.s # "cte", b.from.s \in Eliminated(q)
      PROVE  b.joins # <<>> /\ b.joins[1].on.f = "never" /\ b.joins[1].kind \in {"INNER", "SEMI"}
  <2>1. i = 1
    BY <1>3, <1>4, BranchNamed
  <2>2. b.joins # <<>> /\ b.joins[1].on.f = "never"
    BY <1>4, <2>1, EliminatedIs
  <2>3. b.joins[1].kind \in Kinds
    BY <1>1, <2>2, BodyTypes
  <2>4. b.from.s \in NamedBy(b.from)
    BY <1>4 DEF NamedBy
  <2>5. EliminationAlone(q)
    BY DEF Sound
  <2>6. b.joins[1].kind \notin {"LEFT", "ANTI"}
    BY <1>4, <2>1, <2>4, <2>5 DEF EliminationAlone
  <2> QED
    BY <2>2, <2>3, <2>6 DEF Kinds
<1>5. ASSUME b.joins # <<>>, b.joins[1].relation.s # "cte",
             b.joins[1].relation.s \in Eliminated(q)
      PROVE  b.joins[1].on.f = "never"
  <2>1. i = 1
    BY <1>2, <1>5, BranchNamed
  <2> QED
    BY <1>5, <2>1, EliminatedIs
<1> QED
  BY <1>4, <1>5

-----------------------------------------------------------------------------
(* The CTE, complete and acquired *)

LEMMA LeftOfSingle ==
  ASSUME NEW v \in Seq(Row), NEW s, s = Single(v)
  PROVE  [i \in DOMAIN s |-> s[i].x] = v
<1>1. s \in Seq(Pair) /\ Len(s) = Len(v)
  BY SingleType, SingleFacts
<1>2. DOMAIN s = 1..Len(v) /\ DOMAIN v = 1..Len(v)
  BY <1>1
<1>3. ASSUME NEW i \in 1..Len(v) PROVE s[i].x = v[i]
  <2>1. s[i] = [x |-> v[i], y |-> NullRow]
    BY SingleFacts
  <2> QED
    BY <2>1
<1> QED
  BY <1>2, <1>3

LEMMA LeftRelated ==
  ASSUME NEW dl \in BOOLEAN, NEW dr \in BOOLEAN, NEW s \in Seq(Pair), NEW t \in Seq(Pair),
         Related(Pairs(dl, dr), s, t)
  PROVE  Related(Same(dl), [i \in DOMAIN s |-> s[i].x], [i \in DOMAIN t |-> t[i].x])
<1> DEFINE U(i) == s[i].x
           V(i) == t[i].x
<1>1. Len(s) = Len(t) /\ Len(s) \in Nat /\ DOMAIN s = 1..Len(s) /\ DOMAIN t = 1..Len(s)
  BY LenProperties DEF Related
<1>2. ASSUME NEW i \in 1..Len(s) PROVE <<U(i), V(i)>> \in Same(dl)
  BY PairsIs DEF Related
<1>3. \A i \in 1..Len(s) : U(i) \in Row /\ V(i) \in Row
  BY <1>2, SameIs
<1>4. /\ [i \in DOMAIN s |-> s[i].x] = [i \in 1..Len(s) |-> U(i)]
      /\ [i \in DOMAIN t |-> t[i].x] = [i \in 1..Len(s) |-> V(i)]
  BY <1>1
<1> HIDE DEF U, V
<1>5. /\ Len([i \in 1..Len(s) |-> U(i)]) = Len(s)
      /\ Len([i \in 1..Len(s) |-> V(i)]) = Len(s)
  BY <1>1, <1>3, LenProperties
<1> QED
  BY <1>2, <1>4, <1>5 DEF Related

LEMMA CteBodyFacts ==
  ASSUME NEW q \in Query, q.cte # <<>>
  PROVE  LET c == q.cte[1]
         IN /\ c \in BodyClauses /\ 1 \in DOMAIN q.cte /\ <<"cte", c>> \in Bodies(q)
            /\ c \in ToSet(q.cte)
            /\ c.from.k = "source" /\ c.from.s \in Source /\ c.from.s # "cte"
            /\ c.joins # <<>> => /\ c.joins[1].kind = "SEMI"
                                 /\ c.joins[1].relation.s # "cte"
<1> DEFINE c == q.cte[1]
<1>1. q.cte \in Seq(CteBody)
  BY DEF Query
<1>2. 1 \in DOMAIN q.cte /\ c \in CteBody
  BY <1>1, EmptySeq
<1>3. c \in BodyClauses /\ c.from \in PhysicalOperands
  BY <1>2 DEF CteBody
<1>4. c.joins # <<>> => c.joins[1].kind = "SEMI" /\ c.joins[1].relation \in PhysicalOperands
  BY <1>2, <1>3, BodyTypes DEF CteBody
<1>5. \A o \in PhysicalOperands : o.k = "source" /\ o.s # "cte" /\ o.s \in Source
  BY OperandFacts DEF PhysicalOperands
<1>6. <<"cte", c>> \in Bodies(q) /\ c \in ToSet(q.cte)
  BY <1>2 DEF Bodies, ToSet
<1> QED
  BY <1>2, <1>3, <1>4, <1>5, <1>6

\* The CTE reads one source.
LEMMA PlainCteRelated ==
  ASSUME NEW q \in Query, q.cte # <<>>, q.cte[1].joins = <<>>, Sound(q), Written(q),
         ~ LimitEligible(q), NEW data \in Data
  PROVE  Related(Same(CteDetail(q)), CteRows(q, Fetched(q, data), FALSE),
                 Among(CteRows(q, data, FALSE), NotLight(q)))
<1> DEFINE c == q.cte[1]
           s == c.from.s
           G == Pass(c.where)
           N == NotLight(q)
           A == Fetched(q, data)[s]
           B == data[s]
           W == Wanted(q, s)
           D == Detailed(q, s)
           u == UseFrom(q, "cte", c)
<1>1. /\ c \in BodyClauses /\ 1 \in DOMAIN q.cte /\ <<"cte", c>> \in Bodies(q)
      /\ c.from.k = "source" /\ s \in Source /\ s # "cte"
  BY CteBodyFacts
<1>2. A \in Seq(Row) /\ B \in Seq(Row)
  BY <1>1, FetchedType DEF Data
<1>3. \A d \in Data : CteRows(q, d, FALSE) = Among(d[s], G)
  <2>1. ASSUME NEW d \in Data PROVE CteRows(q, d, FALSE) = Among(d[s], G)
    <3> DEFINE rows == BodyRows(c, d, <<>>, FALSE)
               v == Among(d[s], G)
    <3>1. Rows(c.from, d, <<>>) = d[s] /\ d[s] \in Seq(Row)
      BY <1>1 DEF Rows, Data
    <3>2. rows = Filter(c.where, Single(d[s]))
      BY <3>1 DEF BodyRows
    <3>3. rows = Single(v) /\ v \in Seq(Row)
      BY <3>1, <3>2, FilterSingle, AmongSeq
    <3>4. CteRows(q, d, FALSE) = [i \in DOMAIN rows |-> rows[i].x]
      BY DEF CteRows
    <3> HIDE DEF rows, v
    <3>5. [i \in DOMAIN rows |-> rows[i].x] = v
      BY <3>3, LeftOfSingle
    <3> QED
      BY <3>4, <3>5 DEF v
  <2> QED
    BY <2>1
<1>4. CteRows(q, Fetched(q, data), FALSE) = Among(A, G) /\ CteRows(q, data, FALSE) = Among(B, G)
  BY <1>3, FetchedType
<1>5. u \in Uses(q) /\ u.s = s /\ u.owner = "cte" /\ u.where = c.where /\ "d" \in u.fields
  BY <1>1, BodyUses DEF UseFrom, Exported, FieldName
<1>6. s \notin Eliminated(q)
  <2>1. c.from \in OperandsOf(c)
    BY DEF OperandsOf
  <2> QED
    BY <1>1, <2>1, CteNamed
<1>7. XSided(u.where)
  BY <1>1, <1>5, BodyTypes DEF XSided, Written, WrittenBody
<1>8. CASE u \in Live(q, s)
  <2>1. D \in BOOLEAN
    BY DEF Detailed
  <2>2. CteDetail(q) \in BOOLEAN /\ (CteDetail(q) => D)
         /\ ("d" \in TestFields(c.where, "x") => D)
    <3>1. "d" \in CteReads(q) \/ "d" \in TestFields(c.where, "x") => "d" \in CteInputs(q)
      BY DEF CteInputs
    <3>2. ~ Prunable(q) \/ "d" \in CteInputs(q) => D
      BY <1>5, <1>8, LiveDetailed
    <3>3. "d" \in TestFields(c.where, "x") => "d" \in CteInputs(q)
      BY <3>1
    <3> HIDE DEF D
    <3> QED
      BY <3>1, <3>2 DEF CteDetail
  <2>3. Related(Same(D), A, Among(B, W))
    <3>1. Fetched(q, data)[s] = AcquiredRows(q, s, data[s])
      BY <1>1, <1>6, <1>8, LiveFetched
    <3>2. Taken(q, s, data[s]) = Among(data[s], W)
      BY DEF Taken
    <3> QED
      BY <1>2, <3>1, <3>2, AcquiredRelated
  <2>4. ASSUME NEW a \in Row, NEW b \in Row, <<a, b>> \in Same(D)
        PROVE  a \in G <=> b \in G
    <3>1. c.where \in Seq(TestClause)
      BY <1>1, BodyTypes
    <3> QED
      BY <2>1, <2>2, <2>4, <3>1, PassAgrees
  <2>5. Among(Among(B, W), G) = Among(Among(B, G), N)
    <3>1. (W \cap G) \cap Row = (G \cap N) \cap Row
      BY <1>5, <1>7, <1>8, LiveKeeps DEF Wanted
    <3>2. Among(Among(B, W), G) = Among(B, W \cap G) /\ Among(Among(B, G), N) = Among(B, G \cap N)
      BY <1>2, AmongBoth
    <3> HIDE DEF W, G, N, B
    <3> QED
      BY <1>2, <3>1, <3>2, AmongAgree
  <2> DEFINE C == Among(B, W)
             R == Same(D)
  <2>6. C \in Seq(Row)
    BY <1>2, AmongSeq
  <2>7. Related(R, A, C) /\ \A a, b \in Row : <<a, b>> \in R => (a \in G <=> b \in G)
    BY <2>3, <2>4
  <2> HIDE DEF C, R, A, G
  <2>8. Related(R, Among(A, G), Among(C, G))
    BY <1>2, <2>6, <2>7, AmongRelated
  <2>9. Related(Same(D), Among(A, G), Among(Among(B, G), N))
    BY <2>5, <2>8 DEF C, R
  <2> HIDE DEF D
  <2>10. Related(Same(CteDetail(q)), Among(A, G), Among(Among(B, G), N))
    BY <2>1, <2>2, <2>9, SameWeaker
  <2> QED
    BY <1>4, <2>10
<1>9. CASE u \notin Live(q, s)
  <2>1. G \cap Row = {}
    BY <1>5, <1>9, DeadPass
  <2>2. Among(A, G) = <<>> /\ Among(B, G) = <<>>
    <3> HIDE DEF A, B, G
    <3> QED
      BY <1>2, <2>1, AmongNone
  <2>3. CteRows(q, Fetched(q, data), FALSE) = <<>> /\ CteRows(q, data, FALSE) = <<>>
    BY <1>4, <2>2
  <2> QED
    BY <2>3, AmongEmpty, RelatedEmpty
<1> QED
  BY <1>8, <1>9

\* The CTE asks whether another source has a match: none of its fields is pruned.
LEMMA JoinedCteRelated ==
  ASSUME NEW q \in Query, q.cte # <<>>, q.cte[1].joins # <<>>, Sound(q), Written(q),
         ~ LimitEligible(q), NEW data \in Data
  PROVE  Related(Same(CteDetail(q)), CteRows(q, Fetched(q, data), FALSE),
                 Among(CteRows(q, data, FALSE), NotLight(q)))
<1> DEFINE c == q.cte[1]
           acq == Fetched(q, data)
           o == c.joins[1].relation
           dr == RightNeeds(c)
           none == <<>>
<1>1. /\ c \in BodyClauses /\ 1 \in DOMAIN q.cte /\ <<"cte", c>> \in Bodies(q)
      /\ c \in ToSet(q.cte) /\ c.from.k = "source" /\ c.from.s # "cte"
      /\ c.joins[1].kind = "SEMI" /\ o.s # "cte"
  BY CteBodyFacts
<1>2. ~ Prunable(q)
  BY <1>1 DEF Sound, CteFieldsSeen
<1>3. NotLight(q) = Row
  <2> SUFFICES ASSUME NEW r \in Row, r \notin NotLight(q) PROVE FALSE
    BY DEF NotLight
  <2>1. ~ MultiSource(q) /\ RejectedLightly(q, r)
    BY DEF NotLight
  <2>2. /\ q.branches[1].joins = <<>>
        /\ \E i \in DOMAIN q.branches[1].where : q.branches[1].where[i].f = "t"
    BY <2>1 DEF RejectedLightly
  <2> QED
    BY <1>1, <2>1, <2>2 DEF Sound, FirstBodyAlone
<1>4. none \in Seq(Row) /\ acq \in Data
  BY EmptySeq, FetchedType
<1>5. c.from.s \notin Eliminated(q) /\ o.s \notin Eliminated(q)
  <2>1. c.from \in OperandsOf(c) /\ o \in OperandsOf(c)
    BY <1>1, BodyTypes DEF OperandsOf
  <2> QED
    BY <1>1, <2>1, CteNamed
<1>6. OwnerReads(q, "cte") /\ WrittenBody(c) /\ Reading(c) = Row
  BY <1>1, <1>2 DEF OwnerReads, Written, Reading
<1> DEFINE left == Rows(c.from, acq, none)
           left2 == Rows(c.from, data, none)
           right == Rows(o, acq, none)
           right2 == Rows(o, data, none)
<1>7. left \in Seq(Row) /\ left2 \in Seq(Row) /\ right \in Seq(Row) /\ right2 \in Seq(Row)
  BY <1>1, <1>4, BodyTypes, RowsType
<1>8. Related(Same(TRUE), left, left2)
  <2>1. Related(Same(TRUE), Among(left, Reading(c)), Among(left2, Reading(c)))
    <3>1. c.from.s \notin Eliminated(q) /\ Reading(c) \subseteq NotLight(q) /\ OwnerReads(q, "cte")
          /\ c.joins # <<>>
      BY <1>3, <1>5, <1>6
    <3> HIDE DEF c, acq, none
    <3>2. Related(Same(TRUE), Among(Rows(c.from, Fetched(q, data), none), Reading(c)),
                  Among(Rows(c.from, data, none), Reading(c)))
      BY <1>1, <1>4, <1>6, <3>1, LeftKept
    <3> QED
      BY <3>2 DEF acq
  <2>2. Among(left, Row) = left /\ Among(left2, Row) = left2
    <3> HIDE DEF left, left2
    <3> QED
      BY <1>7, AmongAll
  <2> QED
    BY <1>6, <2>1, <2>2
<1>9. Related(Same(dr), right, right2)
  <2>1. /\ o.s \notin Eliminated(q) /\ Row \subseteq NotLight(q) /\ c.joins # <<>>
        /\ c.joins[1].relation.s # "cte" /\ c.joins[1].relation.s \notin Eliminated(q)
    BY <1>1, <1>3, <1>5
  <2> HIDE DEF c, acq, none
  <2>2. Related(Same(RightNeeds(c)), Rows(c.joins[1].relation, Fetched(q, data), none),
                Rows(c.joins[1].relation, data, none))
    BY <1>1, <1>4, <1>6, <2>1, RightKept
  <2> QED
    BY <2>2 DEF acq
<1>10. /\ dr \in BOOLEAN /\ c.joins[1].on.f \in FieldName \cup {"never"}
       /\ (c.joins[1].on.f = "d" => TRUE /\ dr)
       /\ c.where \in Seq(TestClause) /\ ("d" \in TestFields(c.where, "y") => dr)
  BY <1>1, BodyTypes DEF RightNeeds
<1> DEFINE join == c.joins[1]
           U == Joined(join, left, right, FALSE)
           V == Joined(join, left2, right2, FALSE)
<1>11. /\ join.on.f \in FieldName \cup {"never"} /\ (join.on.f = "d" => TRUE /\ dr)
       /\ dr \in BOOLEAN
  BY <1>10
<1>12. U \in Seq(Pair) /\ V \in Seq(Pair) /\ Related(Pairs(TRUE, dr), U, V)
  <2> HIDE DEF join, left, left2, right, right2, dr
  <2> QED
    BY <1>7, <1>8, <1>9, <1>11, JoinedRelated
<1> DEFINE S == Filter(c.where, U)
           T == Filter(c.where, V)
<1>13. S \in Seq(Pair) /\ T \in Seq(Pair) /\ Related(Pairs(TRUE, dr), S, T)
  <2>1. c.where \in Seq(TestClause) /\ ("d" \in TestFields(c.where, "y") => dr)
        /\ ("d" \in TestFields(c.where, "x") => TRUE)
    BY <1>10
  <2> DEFINE where == c.where
  <2>2. where \in Seq(TestClause) /\ ("d" \in TestFields(where, "y") => dr)
    BY <2>1
  <2> HIDE DEF U, V, dr, where
  <2>3. Related(Pairs(TRUE, dr), Filter(where, U), Filter(where, V))
    BY <1>11, <1>12, <2>2, FilterRelated
  <2>4. Filter(where, U) \in Seq(Pair) /\ Filter(where, V) \in Seq(Pair)
    BY <1>12, FilterType
  <2> QED
    BY <2>3, <2>4 DEF where
<1>14. /\ CteRows(q, acq, FALSE) = [i \in DOMAIN S |-> S[i].x]
       /\ CteRows(q, data, FALSE) = [i \in DOMAIN T |-> T[i].x]
  BY DEF CteRows, BodyRows
<1> HIDE DEF S, T, dr
<1>15. Related(Same(TRUE), CteRows(q, acq, FALSE), CteRows(q, data, FALSE))
  BY <1>11, <1>13, <1>14, LeftRelated
<1>16. CteRows(q, data, FALSE) \in Seq(Row)
  BY CteRowsFacts
<1>17. Among(CteRows(q, data, FALSE), NotLight(q)) = CteRows(q, data, FALSE)
  BY <1>3, <1>16, AmongAll
<1>18. CteDetail(q) \in BOOLEAN
  BY DEF CteDetail
<1> QED
  BY <1>15, <1>17, <1>18, SameWeaker

LEMMA CteRelated ==
  ASSUME NEW q \in Query, Sound(q), Written(q), ~ LimitEligible(q), NEW data \in Data
  PROVE  Related(Same(CteDetail(q)), CteRows(q, Fetched(q, data), FALSE),
                 Among(CteRows(q, data, FALSE), NotLight(q)))
<1>1. CASE q.cte = <<>>
  <2>1. CteRows(q, Fetched(q, data), FALSE) = <<>> /\ CteRows(q, data, FALSE) = <<>>
    BY <1>1 DEF CteRows
  <2> QED
    BY <2>1, AmongEmpty, RelatedEmpty
<1> QED
  BY <1>1, PlainCteRelated, JoinedCteRelated

-----------------------------------------------------------------------------
(* The branches, complete and acquired *)

\* What a branch reads of the CTE is kept in it.
LEMMA CteSeen ==
  ASSUME NEW q \in Query, Sound(q), NEW i \in DOMAIN q.branches
  PROVE  LET b == q.branches[i]
         IN /\ b.from.s = "cte" /\ b.from.k = "derived" => CteDetail(q)
            /\ b.from.s = "cte" /\ LeftNeeds(b) => CteDetail(q)
            /\ /\ b.joins # <<>>
               /\ b.joins[1].relation.s = "cte"
               /\ RightNeeds(b) \/ b.joins[1].relation.k = "derived"
               => CteDetail(q)
<1> DEFINE b == q.branches[i]
<1>1. b \in BodyClauses /\ b \in ToSet(q.branches)
  BY QueryFacts DEF ToSet
<1>2. b.from \in OperandsOf(b) /\ (b.joins # <<>> => b.joins[1].relation \in OperandsOf(b))
  BY <1>1, BodyTypes DEF OperandsOf
<1>3. \A o \in OperandsOf(b) : ReadsCte(o) => CteDetail(q)
  BY <1>1 DEF Sound, CteFieldsSeen, CteDetail
<1>4. \A o \in Operands : o.s = "cte" /\ o.k # "derived" => o = TheCte
  BY OperandFacts
<1>5. ASSUME b.from = TheCte, LeftNeeds(b) PROVE CteDetail(q)
  <2>1. CASE b.joins # <<>>
    BY <1>1, <1>5, <2>1 DEF Prunable, CteDetail
  <2>2. CASE b.joins = <<>>
    <3>1. DOMAIN b.joins = {}
      BY <2>2, EmptySeq
    <3>2. OnFields(b) = {}
      BY <3>1 DEF OnFields
    <3>3. "d" \in {b.sel} \cup TestFields(b.where, "x")
      BY <1>5, <3>2 DEF LeftNeeds
    <3>4. "d" \in CteReads(q)
      BY <1>1, <1>5, <3>3 DEF CteReads
    <3> QED
      BY <3>4 DEF CteDetail
  <2> QED
    BY <2>1, <2>2
<1>6. ASSUME b.joins # <<>>, b.joins[1].relation = TheCte, RightNeeds(b) PROVE CteDetail(q)
  <2>1. \E j \in DOMAIN b.joins : b.joins[j].relation = TheCte
    BY <1>1, <1>6, BodyTypes
  <2>2. "d" \in CteReads(q)
    BY <1>1, <1>6, <2>1 DEF CteReads, RightNeeds
  <2> QED
    BY <2>2 DEF CteDetail
<1>7. b.from \in Operands /\ (b.joins # <<>> => b.joins[1].relation \in Operands)
  BY <1>1, BodyTypes
<1> HIDE DEF b
<1>8. b.from.s = "cte" /\ b.from.k = "derived" => CteDetail(q)
  BY <1>2, <1>3 DEF ReadsCte
<1>9. b.from.s = "cte" /\ LeftNeeds(b) => CteDetail(q)
  BY <1>4, <1>5, <1>7, <1>8
<1>10. b.joins # <<>> /\ b.joins[1].relation.s = "cte" =>
         (RightNeeds(b) \/ b.joins[1].relation.k = "derived" => CteDetail(q))
  BY <1>2, <1>3, <1>4, <1>6, <1>7 DEF ReadsCte
<1> QED
  BY <1>8, <1>9, <1>10 DEF b

LEMMA LeftOfBranch ==
  ASSUME NEW q \in Query, Sound(q), Written(q), ~ LimitEligible(q), NEW data \in Data,
         NEW i \in DOMAIN q.branches, NEW cteA \in Seq(Row), NEW cteD \in Seq(Row),
         Related(Same(CteDetail(q)), cteA, Among(cteD, NotLight(q))),
         q.branches[i].from.s = "cte" \/ q.branches[i].from.s \notin Eliminated(q)
  PROVE  LET b == q.branches[i]
         IN Related(Same(LeftNeeds(b)), Among(Rows(b.from, Fetched(q, data), cteA), Reading(b)),
                    Among(Rows(b.from, data, cteD), Reading(b)))
<1> DEFINE b == q.branches[i]
           o == b.from
           F == Reading(b)
           need == LeftNeeds(b)
<1>1. b \in BodyClauses /\ WrittenBody(b) /\ <<"main", b>> \in Bodies(q) /\ o \in Operands
  BY QueryFacts, BodyTypes DEF Written, Bodies
<1>2. F \subseteq NotLight(q)
  BY ReadingNotLight
<1>3. need \in BOOLEAN
  BY DEF LeftNeeds
<1>4. CASE o.s # "cte"
  <2>1. OwnerReads(q, "main")
    BY DEF OwnerReads
  <2>2. b.from.s \notin Eliminated(q) /\ b.from.s # "cte" /\ Reading(b) \subseteq NotLight(q)
        /\ LeftNeeds(b) \in BOOLEAN
    BY <1>2, <1>3, <1>4
  <2> HIDE DEF b
  <2>3. Related(Same(LeftNeeds(b)), Among(Rows(b.from, Fetched(q, data), cteA), Reading(b)),
                Among(Rows(b.from, data, cteD), Reading(b)))
    BY <1>1, <2>1, <2>2, LeftKept
  <2> QED
    BY <2>3 DEF b
<1>5. CASE o.s = "cte"
  <2>1. (o.k = "derived" => CteDetail(q)) /\ (need => CteDetail(q))
    BY <1>5, CteSeen
  <2>2. CteDetail(q) \in BOOLEAN
    BY DEF CteDetail
  <2>3. ASSUME NEW x \in Row, NEW y \in Row, <<x, y>> \in Same(CteDetail(q))
        PROVE  x \in Pass(Inner(o)) \cap F <=> y \in Pass(Inner(o)) \cap F
    <3>1. CASE o.k = "derived"
      <4>0. CteDetail(q)
        BY <2>1, <3>1
      <4>1. x.t = y.t /\ x.d = y.d
        BY <2>2, <2>3, <4>0, SameIs
      <4>2. x = y
        BY <4>1, RowEqual
      <4> QED
        BY <4>2
    <3>2. CASE o.k # "derived"
      <4>1. b.joins = <<>> /\ "d" \in TestFields(b.where, "x") => CteDetail(q)
        BY <2>1 DEF LeftNeeds
      <4>2. x \in F <=> y \in F
        BY <1>1, <2>2, <2>3, <4>1, ReadingAgrees
      <4> QED
        BY <3>2, <4>2, PassFacts DEF Inner
    <3> QED
      BY <3>1, <3>2
  <2> HIDE DEF o, F, need
  <2>4. Related(Same(need), Among(Rows(o, Fetched(q, data), cteA), F),
                Among(Rows(o, data, cteD), F))
    BY <1>1, <1>2, <1>3, <1>5, <2>1, <2>3, CteOperand
  <2> QED
    BY <2>4 DEF o, F, need
<1> QED
  BY <1>4, <1>5

LEMMA RightOfBranch ==
  ASSUME NEW q \in Query, Sound(q), Written(q), ~ LimitEligible(q), NEW data \in Data,
         NEW i \in DOMAIN q.branches, NEW cteA \in Seq(Row), NEW cteD \in Seq(Row),
         Related(Same(CteDetail(q)), cteA, Among(cteD, NotLight(q))),
         q.branches[i].joins # <<>>,
         q.branches[i].joins[1].relation.s = "cte"
           \/ q.branches[i].joins[1].relation.s \notin Eliminated(q)
  PROVE  LET b == q.branches[i]
             o == b.joins[1].relation
         IN Related(Same(RightNeeds(b)), Rows(o, Fetched(q, data), cteA), Rows(o, data, cteD))
<1> DEFINE b == q.branches[i]
           o == b.joins[1].relation
           F == Row
           need == RightNeeds(b)
<1>1. b \in BodyClauses /\ <<"main", b>> \in Bodies(q) /\ o \in Operands
  BY QueryFacts, BodyTypes DEF Bodies
<1>2. F \subseteq NotLight(q)
  BY ReadingNotLight DEF Reading
<1>3. need \in BOOLEAN
  BY DEF RightNeeds
<1>4. CASE o.s # "cte"
  <2>1. OwnerReads(q, "main")
    BY DEF OwnerReads
  <2>2. /\ b.joins # <<>> /\ b.joins[1].relation.s # "cte"
        /\ b.joins[1].relation.s \notin Eliminated(q)
        /\ Row \subseteq NotLight(q)
    BY <1>2, <1>4
  <2> HIDE DEF b
  <2>3. Related(Same(RightNeeds(b)), Rows(b.joins[1].relation, Fetched(q, data), cteA),
                Rows(b.joins[1].relation, data, cteD))
    BY <1>1, <2>1, <2>2, RightKept
  <2> QED
    BY <2>3 DEF b
<1>5. CASE o.s = "cte"
  <2>1. (o.k = "derived" => CteDetail(q)) /\ (need => CteDetail(q))
    BY <1>5, CteSeen
  <2>2. CteDetail(q) \in BOOLEAN
    BY DEF CteDetail
  <2>3. ASSUME NEW x \in Row, NEW y \in Row, <<x, y>> \in Same(CteDetail(q))
        PROVE  x \in Pass(Inner(o)) \cap F <=> y \in Pass(Inner(o)) \cap F
    <3>1. CASE o.k = "derived"
      <4>0. CteDetail(q)
        BY <2>1, <3>1
      <4>1. x.t = y.t /\ x.d = y.d
        BY <2>2, <2>3, <4>0, SameIs
      <4>2. x = y
        BY <4>1, RowEqual
      <4> QED
        BY <4>2
    <3>2. CASE o.k # "derived"
      BY <3>2, PassFacts DEF Inner
    <3> QED
      BY <3>1, <3>2
  <2>4. /\ Rows(o, Fetched(q, data), cteA) \in Seq(Row) /\ Rows(o, data, cteD) \in Seq(Row)
        /\ Row \subseteq F
    BY <1>1, FetchedType, RowsType
  <2> HIDE DEF o, F, need
  <2>5. Related(Same(need), Among(Rows(o, Fetched(q, data), cteA), F),
                Among(Rows(o, data, cteD), F))
    BY <1>1, <1>2, <1>3, <1>5, <2>1, <2>3, CteOperand
  <2>6. /\ Among(Rows(o, Fetched(q, data), cteA), F) = Rows(o, Fetched(q, data), cteA)
        /\ Among(Rows(o, data, cteD), F) = Rows(o, data, cteD)
    BY <2>4, AmongAll
  <2> QED
    BY <2>5, <2>6 DEF o, need
<1> QED
  BY <1>4, <1>5

LEMMA PlainBranchSame ==
  ASSUME NEW q \in Query, Sound(q), Written(q), ~ LimitEligible(q), NEW data \in Data,
         NEW i \in DOMAIN q.branches, q.branches[i].joins = <<>>,
         NEW cteA \in Seq(Row), NEW cteD \in Seq(Row),
         Related(Same(CteDetail(q)), cteA, Among(cteD, NotLight(q)))
  PROVE  Values(q.branches[i], Fetched(q, data), cteA, FALSE)
         = Values(q.branches[i], data, cteD, FALSE)
<1> DEFINE b == q.branches[i]
           l == Rows(b.from, Fetched(q, data), cteA)
           l2 == Rows(b.from, data, cteD)
           G == Pass(b.where)
           need == LeftNeeds(b)
           sel == b.sel
<1>1. b \in BodyClauses
  BY QueryFacts
<1>2. l \in Seq(Row) /\ l2 \in Seq(Row)
  BY <1>1, BodyTypes, FetchedType, RowsType
<1>3. b.from.s = "cte" \/ b.from.s \notin Eliminated(q)
  BY NotEliminated
<1>4. Related(Same(need), Among(l, G), Among(l2, G))
  <2>1. Related(Same(need), Among(l, Reading(b)), Among(l2, Reading(b)))
    BY <1>3, LeftOfBranch
  <2>2. Reading(b) = G
    BY DEF Reading
  <2> QED
    BY <2>1, <2>2
<1>5. need \in BOOLEAN /\ sel \in FieldName /\ (sel = "d" => need)
  BY <1>1, BodyTypes DEF LeftNeeds
<1>6. /\ Values(b, Fetched(q, data), cteA, FALSE) = Column(Filter(b.where, Single(l)), sel)
      /\ Values(b, data, cteD, FALSE) = Column(Filter(b.where, Single(l2)), sel)
  BY DEF Values, BodyRows
<1> HIDE DEF l, l2
<1>7. /\ Filter(b.where, Single(l)) = Single(Among(l, G))
      /\ Filter(b.where, Single(l2)) = Single(Among(l2, G))
  BY <1>2, FilterSingle
<1> HIDE DEF G, need, sel
<1> DEFINE A == Among(l, G)
           B == Among(l2, G)
<1>8. A \in Seq(Row) /\ B \in Seq(Row) /\ Related(Same(need), A, B)
  BY <1>2, <1>4, AmongSeq
<1> HIDE DEF A, B
<1>9. Related(Pairs(need, FALSE), Single(A), Single(B))
  BY <1>5, <1>8, SingleRelated
<1>10. Single(A) \in Seq(Pair) /\ Single(B) \in Seq(Pair)
  BY <1>8, SingleType
<1>11. Column(Single(A), sel) = Column(Single(B), sel)
  BY <1>5, <1>9, <1>10, ColumnSame
<1> QED
  BY <1>6, <1>7, <1>11 DEF A, B

LEMMA JoinedBranchSame ==
  ASSUME NEW q \in Query, Sound(q), Written(q), ~ LimitEligible(q), NEW data \in Data,
         NEW i \in DOMAIN q.branches, q.branches[i].joins # <<>>,
         NEW cteA \in Seq(Row), NEW cteD \in Seq(Row),
         Related(Same(CteDetail(q)), cteA, Among(cteD, NotLight(q)))
  PROVE  Values(q.branches[i], Fetched(q, data), cteA, FALSE)
         = Values(q.branches[i], data, cteD, FALSE)
<1> DEFINE b == q.branches[i]
           join == b.joins[1]
           left == Rows(b.from, Fetched(q, data), cteA)
           left2 == Rows(b.from, data, cteD)
           right == Rows(join.relation, Fetched(q, data), cteA)
           right2 == Rows(join.relation, data, cteD)
           none == <<>>
<1>1. b \in BodyClauses /\ b.joins # <<>>
  BY QueryFacts
<1>2. /\ left \in Seq(Row) /\ left2 \in Seq(Row) /\ right \in Seq(Row) /\ right2 \in Seq(Row)
      /\ none \in Seq(Row)
  BY <1>1, BodyTypes, FetchedType, RowsType, EmptySeq
<1>3. /\ Values(b, Fetched(q, data), cteA, FALSE)
           = Column(Filter(b.where, Joined(join, left, right, FALSE)), b.sel)
      /\ Values(b, data, cteD, FALSE)
           = Column(Filter(b.where, Joined(join, left2, right2, FALSE)), b.sel)
  BY DEF Values, BodyRows
<1>4. ASSUME b.from.s = "cte" \/ b.from.s \notin Eliminated(q)
      PROVE  Related(Same(LeftNeeds(b)), left, left2)
  <2>1. Related(Same(LeftNeeds(b)), Among(left, Reading(b)), Among(left2, Reading(b)))
    BY <1>4, LeftOfBranch
  <2>2. Reading(b) = Row
    BY DEF Reading
  <2> HIDE DEF left, left2
  <2>3. Among(left, Row) = left /\ Among(left2, Row) = left2
    BY <1>2, AmongAll
  <2> QED
    BY <2>1, <2>2, <2>3
<1>5. ASSUME join.relation.s = "cte" \/ join.relation.s \notin Eliminated(q)
      PROVE  Related(Same(RightNeeds(b)), right, right2)
  BY <1>5, RightOfBranch
<1>6. /\ b.from.s # "cte" /\ b.from.s \in Eliminated(q) =>
           join.on.f = "never" /\ join.kind \in {"INNER", "SEMI"}
      /\ join.relation.s # "cte" /\ join.relation.s \in Eliminated(q) => join.on.f = "never"
  BY NotEliminated
<1> HIDE DEF left, left2, right, right2
<1>7. ASSUME NEW r \in Seq(Row), NEW r2 \in Seq(Row), Related(Same(LeftNeeds(b)), left, left2),
             Related(Same(RightNeeds(b)), r, r2)
      PROVE  Column(Filter(b.where, Joined(join, left, r, FALSE)), b.sel)
             = Column(Filter(b.where, Joined(join, left2, r2, FALSE)), b.sel)
  <2> DEFINE where == b.where
             sel == b.sel
             dl == LeftNeeds(b)
             dr == RightNeeds(b)
             U == Joined(join, left, r, FALSE)
             V == Joined(join, left2, r2, FALSE)
             S == Filter(where, U)
             T == Filter(where, V)
  <2>1. /\ dl \in BOOLEAN /\ dr \in BOOLEAN
        /\ Related(Same(dl), left, left2) /\ Related(Same(dr), r, r2)
    BY <1>7 DEF LeftNeeds, RightNeeds
  <2>2. join.on.f \in FieldName \cup {"never"} /\ (join.on.f = "d" => dl /\ dr)
    BY <1>1, BodyTypes DEF LeftNeeds, RightNeeds
  <2>3. /\ where \in Seq(TestClause) /\ sel \in FieldName /\ (sel = "d" => dl)
        /\ ("d" \in TestFields(where, "x") => dl) /\ ("d" \in TestFields(where, "y") => dr)
    BY <1>1, BodyTypes DEF LeftNeeds, RightNeeds
  <2> HIDE DEF join, where, sel, dl, dr
  <2>4. U \in Seq(Pair) /\ V \in Seq(Pair) /\ Related(Pairs(dl, dr), U, V)
    BY <1>2, <2>1, <2>2, JoinedRelated
  <2> HIDE DEF U, V
  <2>5. Related(Pairs(dl, dr), S, T)
    BY <2>1, <2>3, <2>4, FilterRelated
  <2>6. S \in Seq(Pair) /\ T \in Seq(Pair)
    BY <2>4, FilterType
  <2> HIDE DEF S, T
  <2>7. Column(S, sel) = Column(T, sel)
    BY <2>1, <2>3, <2>5, <2>6, ColumnSame
  <2> QED
    BY <2>7 DEF S, T, U, V, where, sel
<1>8. CASE join.on.f # "never"
  <2>1. /\ Related(Same(LeftNeeds(b)), left, left2)
        /\ Related(Same(RightNeeds(b)), right, right2)
    BY <1>4, <1>5, <1>6, <1>8
  <2> QED
    BY <1>2, <1>3, <1>7, <2>1
<1>9. CASE join.on.f = "never" /\ join.kind \in {"INNER", "SEMI"}
  <2>1. join.on.f = "never" /\ join.kind \in {"INNER", "SEMI"}
    BY <1>9
  <2> HIDE DEF join
  <2>2. Joined(join, left, right, FALSE) = <<>> /\ Joined(join, left2, right2, FALSE) = <<>>
    BY <1>2, <2>1, JoinedNever
  <2> QED
    BY <1>3, <2>2
<1>10. CASE join.on.f = "never" /\ join.kind \notin {"INNER", "SEMI"}
  <2>1. Related(Same(LeftNeeds(b)), left, left2)
    BY <1>4, <1>6, <1>10
  <2>2. Related(Same(RightNeeds(b)), none, none)
    BY RelatedEmpty
  <2>3. /\ Joined(join, left, right, FALSE) = Joined(join, left, none, FALSE)
        /\ Joined(join, left2, right2, FALSE) = Joined(join, left2, none, FALSE)
    <3>1. join.on.f = "never"
      BY <1>10
    <3> HIDE DEF join
    <3> QED
      BY <1>2, <3>1, JoinedNever
  <2> HIDE DEF none, b, join
  <2>4. Column(Filter(b.where, Joined(join, left, none, FALSE)), b.sel)
        = Column(Filter(b.where, Joined(join, left2, none, FALSE)), b.sel)
    BY <1>2, <1>7, <2>1, <2>2
  <2>5. Values(b, Fetched(q, data), cteA, FALSE) = Values(b, data, cteD, FALSE)
    BY <1>3, <2>3, <2>4
  <2> QED
    BY <2>5 DEF b
<1> QED
  BY <1>8, <1>9, <1>10

\* Without an early LIMIT, what was acquired answers a query as the complete
\* sources do.
LEMMA CompleteAnswer ==
  ASSUME NEW q \in Query, Sound(q), Written(q), ~ LimitEligible(q), NEW data \in Data
  PROVE  Result(q, Fetched(q, data), FALSE) = Result(q, data, FALSE)
<1> DEFINE cteA == CteRows(q, Fetched(q, data), FALSE)
           cteD == CteRows(q, data, FALSE)
<1>1. cteA \in Seq(Row) /\ cteD \in Seq(Row)
  BY CteRowsFacts, FetchedType
<1>2. Related(Same(CteDetail(q)), cteA, Among(cteD, NotLight(q)))
  BY CteRelated
<1> DEFINE Final(parts) ==
             FirstOf(q.limit, IF q.order THEN Sorted(Combined(q, parts)) ELSE Combined(q, parts))
<1>3. Result(q, Fetched(q, data), FALSE) = Final(Branches(q, Fetched(q, data), cteA, FALSE))
  BY DEF Result
<1>6. Result(q, data, FALSE) = Final(Branches(q, data, cteD, FALSE))
  BY DEF Result
<1> HIDE DEF cteA, cteD
<1>4. ASSUME NEW i \in DOMAIN q.branches
      PROVE  Values(q.branches[i], Fetched(q, data), cteA, FALSE)
             = Values(q.branches[i], data, cteD, FALSE)
  <2>1. CASE q.branches[i].joins = <<>>
    BY <1>1, <1>2, <2>1, PlainBranchSame
  <2>2. CASE q.branches[i].joins # <<>>
    BY <1>1, <1>2, <2>2, JoinedBranchSame
  <2> QED
    BY <2>1, <2>2
<1>5. Branches(q, Fetched(q, data), cteA, FALSE) = Branches(q, data, cteD, FALSE)
  BY <1>4 DEF Branches
<1> HIDE DEF Final
<1> QED
  BY <1>3, <1>5, <1>6

-----------------------------------------------------------------------------
(* An early LIMIT *)

\* A filter that lets fewer rows through keeps no more of them.
LEMMA AmongFewer ==
  ASSUME NEW T, NEW s \in Seq(T), NEW A, NEW B, A \cap T \subseteq B
  PROVE  Len(Among(s, A)) <= Len(Among(s, B))
<1> DEFINE P == {r \in Seq(T) : Len(Among(r, A)) <= Len(Among(r, B))}
<1>1. <<>> \in P
  BY EmptySeq, AmongEmpty
<1>2. ASSUME NEW r \in P \cap Seq(T), NEW e \in T PROVE Append(r, e) \in P
  <2>1. /\ Among(Append(r, e), A) = IF e \in A THEN Append(Among(r, A), e) ELSE Among(r, A)
        /\ Among(Append(r, e), B) = IF e \in B THEN Append(Among(r, B), e) ELSE Among(r, B)
    BY AmongAppend
  <2>2. Among(r, A) \in Seq(T) /\ Among(r, B) \in Seq(T)
    BY AmongSeq
  <2>3. /\ Len(Append(Among(r, A), e)) = Len(Among(r, A)) + 1
        /\ Len(Append(Among(r, B), e)) = Len(Among(r, B)) + 1
        /\ Len(Among(r, A)) \in Nat /\ Len(Among(r, B)) \in Nat
    BY <2>2, AppendProperties, LenProperties
  <2>4. Len(Among(r, A)) <= Len(Among(r, B))
    OBVIOUS
  <2>5. Len(Among(Append(r, e), A)) <= Len(Among(Append(r, e), B))
    BY <2>1, <2>3, <2>4
  <2>6. Append(r, e) \in Seq(T)
    OBVIOUS
  <2> QED
    BY <2>5, <2>6
<1> HIDE DEF P
<1>3. Seq(T) \subseteq P
  BY <1>1, <1>2, AllSequences, Zenon
<1> QED
  BY <1>3 DEF P

\* An acquisition that ended early is a prefix in which enough rows count.
EndsEarly(q, s, rows, cut) ==
  /\ Len(Counted(q, s, cut)) >= q.limit[1]
  /\ \E rest \in Seq(Row) : rows = cut \o rest

LEMMA CutAfterIs ==
  ASSUME NEW q, NEW s, NEW rows \in Seq(Row)
  PROVE  CutAfter(q, s, rows) = rows \/ EndsEarly(q, s, rows, CutAfter(q, s, rows))
<1> DEFINE step == IF Boundary(q, s).detailed THEN Batch ELSE 1
           enough == {n \in 0..Len(rows) :
                        /\ n = Len(rows) \/ n % step = 0
                        /\ n > 0 /\ Len(Counted(q, s, SubSeq(rows, 1, n))) >= q.limit[1]}
           n == CHOOSE n \in enough : \A m \in enough : n <= m
<1>1. CutAfter(q, s, rows) = IF enough = {} THEN rows ELSE SubSeq(rows, 1, n)
  BY DEF CutAfter
<1>2. ASSUME enough # {}
      PROVE  /\ n \in 0..Len(rows)
             /\ Len(Counted(q, s, SubSeq(rows, 1, n))) >= q.limit[1]
  <2>1. n \in enough
    <3>1. enough \subseteq Nat
      BY LenProperties
    <3> HIDE DEF enough
    <3> QED
      BY <1>2, <3>1, LeastCut
  <2> HIDE DEF n
  <2> QED
    BY <2>1
<1>3. ASSUME enough # {}
      PROVE  rows = SubSeq(rows, 1, n) \o SubSeq(rows, n + 1, Len(rows))
             /\ SubSeq(rows, n + 1, Len(rows)) \in Seq(Row)
  <2>1. n \in 0..Len(rows) /\ Len(rows) \in Nat
    BY <1>2, <1>3, LenProperties
  <2> HIDE DEF n
  <2> DEFINE u == SubSeq(rows, 1, n)
             v == SubSeq(rows, n + 1, Len(rows))
  <2>2. /\ u \in Seq(Row) /\ Len(u) = n /\ \A i \in 1..n : u[i] = rows[i]
    <3>1. \A i \in 1..n : rows[i] \in Row
      BY <2>1, ElementOfSeq
    <3>2. 1 \in Int /\ n \in Int
      BY <2>1
    <3> QED
      BY <2>1, <3>1, <3>2, SubSeqProperties
  <2>3. /\ v \in Seq(Row) /\ Len(v) = Len(rows) - n
        /\ \A i \in 1..(Len(rows) - n) : v[i] = rows[n + i]
    <3>1. \A i \in (n + 1)..Len(rows) : rows[i] \in Row
      BY <2>1, ElementOfSeq
    <3>2. n + 1 \in Int /\ Len(rows) \in Int /\ n + 1 <= Len(rows) + 1
      BY <2>1
    <3>3. v \in Seq(Row)
      BY <3>1, <3>2, SubSeqProperties
    <3>4. /\ Len(v) = (IF n + 1 <= Len(rows) THEN Len(rows) - (n + 1) + 1 ELSE 0)
          /\ \A i \in 1..(Len(rows) - (n + 1) + 1) : v[i] = rows[n + 1 + i - 1]
      BY <3>1, <3>2, SubSeqProperties
    <3> QED
      BY <2>1, <3>3, <3>4
  <2> HIDE DEF u, v
  <2>7. u \in Seq(Row) /\ v \in Seq(Row)
    BY <2>2, <2>3
  <2>8. /\ u \o v \in Seq(Row) /\ Len(u \o v) = Len(u) + Len(v)
        /\ \A i \in 1..(Len(u) + Len(v)) :
             (u \o v)[i] = IF i <= Len(u) THEN u[i] ELSE v[i - Len(u)]
    BY <2>7, ConcatProperties
  <2>4. u \o v \in Seq(Row) /\ Len(u \o v) = Len(rows)
    BY <2>1, <2>2, <2>3, <2>8
  <2>5. ASSUME NEW i \in 1..Len(rows) PROVE (u \o v)[i] = rows[i]
    <3>1. CASE i <= n
      BY <2>1, <2>2, <2>3, <2>8, <3>1
    <3>2. CASE i > n
      <4>1. (u \o v)[i] = v[i - n] /\ i - n \in 1..(Len(rows) - n) /\ n + (i - n) = i
        BY <2>1, <2>2, <2>3, <2>8, <3>2
      <4> QED
        BY <2>3, <4>1
    <3>3. i <= n \/ i > n
      BY <2>1
    <3> QED
      BY <3>1, <3>2, <3>3
  <2>6. rows = u \o v
    BY <2>4, <2>5, SeqEqual
  <2> QED
    BY <2>3, <2>6 DEF u, v
<1> HIDE DEF n, enough
<1> QED
  BY <1>1, <1>2, <1>3 DEF EndsEarly

\* More rows than a LIMIT keeps do not show.
LEMMA FirstOfLonger ==
  ASSUME NEW limit \in Seq(Nat), limit # <<>>, NEW T, NEW s \in Seq(T), NEW t \in Seq(T),
         Len(s) >= limit[1]
  PROVE  FirstOf(limit, s \o t) = FirstOf(limit, s)
<1> DEFINE m == limit[1]
           u == SubSeq(s, 1, m)
           v == SubSeq(s \o t, 1, m)
<1>1. /\ m \in Nat /\ Len(s) \in Nat /\ Len(t) \in Nat /\ m <= Len(s)
      /\ Len(s \o t) = Len(s) + Len(t) /\ s \o t \in Seq(T)
      /\ \A i \in 1..Len(s) : (s \o t)[i] = s[i]
  BY EmptySeq, LenProperties, ConcatProperties, ElementOfSeq
<1>2. FirstOf(limit, s) = IF Len(s) <= m THEN s ELSE u
  BY DEF FirstOf
<1>3. FirstOf(limit, s \o t) = IF Len(s \o t) <= m THEN s \o t ELSE v
  BY DEF FirstOf
<1> HIDE DEF m
<1>4. u \in Seq(T) /\ Len(u) = m /\ \A i \in 1..m : u[i] = s[i]
  <2>1. \A i \in 1..m : s[i] \in T
    BY <1>1, ElementOfSeq
  <2> QED
    BY <1>1, <2>1, SubSeqProperties
<1>5. v \in Seq(T) /\ Len(v) = m /\ \A i \in 1..m : v[i] = s[i]
  <2>1. \A i \in 1..m : (s \o t)[i] \in T /\ (s \o t)[i] = s[i]
    BY <1>1, ElementOfSeq
  <2> DEFINE w == s \o t
  <2>2. \A i \in 1..m : w[i] \in T /\ w[i] = s[i]
    BY <2>1
  <2> HIDE DEF w
  <2>3. /\ SubSeq(w, 1, m) \in Seq(T) /\ Len(SubSeq(w, 1, m)) = m
        /\ \A i \in 1..m : SubSeq(w, 1, m)[i] = w[i]
    BY <1>1, <2>2, SubSeqProperties
  <2> QED
    BY <2>2, <2>3 DEF w
<1> HIDE DEF u, v
<1>6. u = v
  BY <1>4, <1>5, SeqEqual
<1>7. CASE Len(s) > m
  BY <1>1, <1>2, <1>3, <1>6, <1>7
<1>8. CASE Len(s) = m
  <2>1. u = s
    BY <1>4, <1>8, SeqEqual
  <2>2. ASSUME Len(t) = 0 PROVE s \o t = s
    BY <2>2, EmptySeq, ConcatEmptySeq
  <2> QED
    BY <1>1, <1>2, <1>3, <1>6, <1>8, <2>1, <2>2
<1> QED
  BY <1>1, <1>7, <1>8

LEMMA LimitFacts ==
  ASSUME NEW q \in Query, LimitEligible(q), Written(q), q.branches[1].from.s # "cte"
  PROVE  LET b == q.branches[1]
         IN /\ b \in BodyClauses /\ WrittenBody(b) /\ 1 \in DOMAIN q.branches
            /\ b.joins = <<>> /\ <<"main", b>> \in Bodies(q)
            /\ Uses(q) = {UseFrom(q, "main", b)} /\ Eliminated(q) = {}
            /\ q.limit \in Seq(Nat) /\ q.limit # <<>>
            /\ b.from \in Operands /\ b.from.s \in Source
<1> DEFINE b == q.branches[1]
           u == UseFrom(q, "main", b)
<1>1. q.limit # <<>> /\ q.cte = <<>> /\ Len(q.branches) = 1 /\ ~ q.order /\ b.joins = <<>>
  BY DEF LimitEligible
<1>2. DOMAIN q.branches = {1}
  <2>1. DOMAIN q.branches = 1..Len(q.branches)
    BY DEF Query
  <2> QED
    BY <1>1, <2>1
<1>3. b \in BodyClauses /\ WrittenBody(b)
  BY <1>2, QueryFacts DEF Written
<1>4. b.from \in Operands /\ b.from.s \in Source /\ b.from.k # "cte"
  BY <1>3, BodyTypes, OperandFacts
<1>5. Bodies(q) = {<<"main", b>>}
  <2>1. DOMAIN q.cte = {}
    BY <1>1, EmptySeq
  <2> QED
    BY <1>2, <2>1 DEF Bodies
<1>6. UsesOfBody(q, "main", b) = {u}
  <2>1. DOMAIN b.joins = {}
    BY <1>1, EmptySeq
  <2> QED
    BY <1>4, <2>1 DEF UsesOfBody, UseFrom
<1>7. Uses(q) = {u}
  BY <1>5, <1>6 DEF Uses
<1>8. Eliminated(q) = {}
  BY <1>1 DEF Eliminated, JoinConsequence
<1>9. q.limit \in Seq(Nat)
  <2>1. q.limit \in Seq(1..2) /\ 1..2 \subseteq Nat
    BY DEF Query
  <2> QED
    BY <2>1, SeqMonotonic
<1> QED
  BY <1>1, <1>2, <1>3, <1>4, <1>5, <1>7, <1>8, <1>9

\* The rows an early LIMIT counts are rows the query shows.
LEMMA CountedIsRead ==
  ASSUME NEW q \in Query, LimitEligible(q), Written(q), Sound(q), q.branches[1].from.s # "cte",
         UseFrom(q, "main", q.branches[1]) \in Live(q, q.branches[1].from.s),
         NEW rows \in Seq(Row \cap Wanted(q, q.branches[1].from.s))
  PROVE  LET b == q.branches[1]
         IN Len(Counted(q, b.from.s, rows)) <= Len(Among(rows, Pass(Inner(b.from)) \cap Reading(b)))
<1> DEFINE b == q.branches[1]
           o == b.from
           s == o.s
           u == UseFrom(q, "main", b)
           G == Pass(Inner(o)) \cap Reading(b)
           D == Detailed(q, s)
           tests == IF D THEN ToSet(b.where) ELSE BoundaryTests(q, s)
           C == {r \in ToSet(rows) : \A test \in tests : Passes(test, r, r)}
           T == Row \cap Wanted(q, s)
<1>1. /\ b \in BodyClauses /\ WrittenBody(b) /\ b.joins = <<>> /\ Uses(q) = {u}
      /\ o \in Operands /\ <<"main", b>> \in Bodies(q)
  BY LimitFacts
<1>2. /\ b.where \in Seq(TestClause) /\ Len(b.where) <= 1
      /\ \A i \in DOMAIN b.where : b.where[i].side = "x"
  BY <1>1, BodyTypes DEF WrittenBody
<1>3. Live(q, s) = {u}
  BY <1>1 DEF Live
<1>4. BoundaryTests(q, s) = IF u.where = <<>> THEN {} ELSE {u.where[1]}
  BY <1>3 DEF BoundaryTests
<1>5. u.where = IF o.k = "derived" THEN Inner(o) ELSE b.where
  BY <1>1 DEF UseFrom, Inner
<1>6. o.k = "derived" => D
  <2>1. o.k = "derived" => "d" \in u.fields
    BY <1>1, LeftUse
  <2>2. u.owner # "cte"
    BY DEF UseFrom
  <2> QED
    BY <1>3, <2>1, <2>2, LiveDetailed
<1>7. Counted(q, s, rows) = Among(rows, C)
  BY DEF Counted, Boundary
<1>8. ASSUME NEW r \in T, NEW where, XSided(where), Len(where) <= 1,
             where # <<>> => Passes(where[1], r, r)
      PROVE  r \in Pass(where)
  <2>1. ASSUME NEW i \in DOMAIN where PROVE Passes(where[i], r, NullRow)
    <3>1. i = 1 /\ where # <<>>
      BY <1>8, EmptySeq DEF XSided
    <3>2. where[1].side = "x"
      BY <1>8, <3>1 DEF XSided
    <3> QED
      BY <1>8, <3>1, <3>2 DEF Passes
  <2> QED
    BY <2>1 DEF Pass
<1>9. XSided(b.where) /\ XSided(Inner(o))
  BY <1>1, <1>2, OperandFacts DEF XSided
<1>10. Len(Inner(o)) <= 1
  <2>1. <<>> \in Seq(TestClause) /\ Len(<<>>) = 0
    BY EmptySeq
  <2>2. o.k = "derived" => Len(o.where) <= 1
    BY <1>1, OperandAssumption DEF Physical, TheCte, Derived
  <2> QED
    BY <2>1, <2>2 DEF Inner
<1>11. ASSUME NEW r \in T, r \in C PROVE r \in G
  <2>1. \A test \in tests : Passes(test, r, r)
    BY <1>11
  <2>2. b.where # <<>> => 1 \in DOMAIN b.where
    BY <1>2, EmptySeq
  <2>3. b.where # <<>> => Passes(b.where[1], r, r)
    <3>1. CASE D
      BY <2>1, <2>2, <3>1 DEF ToSet
    <3>2. CASE ~ D
      BY <1>4, <1>5, <1>6, <2>1, <3>2
    <3> QED
      BY <3>1, <3>2
  <2>4. r \in Pass(b.where)
    BY <1>2, <1>8, <1>9, <2>3
  <2>5. Inner(o) # <<>> => Passes(Inner(o)[1], r, r)
    <3> SUFFICES ASSUME Inner(o) # <<>> PROVE Passes(Inner(o)[1], r, r)
      OBVIOUS
    <3> DEFINE test == Inner(o)[1]
    <3>1. o.k = "derived" /\ u.where = Inner(o) /\ Inner(o) = o.where
      BY <1>5 DEF Inner
    <3>2. 1 \in DOMAIN Inner(o) /\ test \in TestClause
      BY <1>9, EmptySeq DEF XSided
    <3>3. test.f # "never"
      BY <1>3, <3>1, <3>2 DEF Live, Never
    <3>4. test.f # "d"
      <4>1. q.limit # <<>>
        BY LimitFacts
      <4> QED
        BY <3>1, <3>2, <4>1 DEF Sound, LimitAbovePlainRelation
    <3>5. test.f = "t"
      BY <3>2, <3>3, <3>4 DEF TestClause, FieldName
    <3>6. BoundaryTests(q, s) = {test}
      BY <1>4, <3>1
    <3>7. Enumerable(BoundaryTests(q, s))
      BY <3>5, <3>6 DEF Enumerable
    <3>8. ~ RejectedEarly(q, s, r)
      BY DEF Wanted
    <3> QED
      BY <3>6, <3>7, <3>8 DEF RejectedEarly, Boundary
  <2>6. r \in Pass(Inner(o))
    BY <1>8, <1>9, <1>10, <2>5
  <2> QED
    BY <1>1, <2>4, <2>6 DEF Reading
<1>12. C \cap T \subseteq G
  BY <1>11
<1> HIDE DEF C, T, G
<1>13. rows \in Seq(T)
  BY DEF T
<1>14. Len(Among(rows, C)) <= Len(Among(rows, G))
  BY <1>12, <1>13, AmongFewer
<1> QED
  BY <1>7, <1>14 DEF G

\* The rows of the only branch, over whatever its source holds.
LEMMA OnlyBranch ==
  ASSUME NEW q \in Query, LimitEligible(q), Written(q), q.branches[1].from.s # "cte",
         NEW data \in Data
  PROVE  LET b == q.branches[1]
         IN Result(q, data, FALSE)
            = FirstOf(q.limit, Column(Single(Among(data[b.from.s],
                                                   Pass(Inner(b.from)) \cap Reading(b))), b.sel))
<1> DEFINE b == q.branches[1]
           o == b.from
           rows == data[o.s]
           l == Rows(o, data, <<>>)
           parts == Branches(q, data, CteRows(q, data, FALSE), FALSE)
<1>1. /\ b.joins = <<>> /\ o \in Operands /\ o.s \in Source /\ 1 \in DOMAIN q.branches
  BY LimitFacts
<1>2. q.cte = <<>> /\ Len(q.branches) = 1 /\ ~ q.order
  BY DEF LimitEligible
<1>3. CteRows(q, data, FALSE) = <<>> /\ <<>> \in Seq(Row)
  BY <1>2, EmptySeq DEF CteRows
<1>4. l = Among(rows, Pass(Inner(o))) /\ rows \in Seq(Row)
  BY <1>1, <1>3, RowsIs DEF Base, Data
<1>5. l \in Seq(Row)
  BY <1>4, AmongSeq
<1>6. Among(l, Pass(b.where)) = Among(rows, Pass(Inner(o)) \cap Reading(b))
  <2>1. Reading(b) = Pass(b.where)
    BY <1>1 DEF Reading
  <2> HIDE DEF rows, l
  <2> QED
    BY <1>4, <2>1, AmongBoth
<1>7. Values(b, data, <<>>, FALSE) = Column(Filter(b.where, Single(l)), b.sel)
  BY <1>1 DEF Values, BodyRows
<1>8. Filter(b.where, Single(l)) = Single(Among(l, Pass(b.where)))
  BY <1>5, FilterSingle
<1>9. Len(parts) = 1 /\ parts[1] = Values(b, data, <<>>, FALSE)
  <2>1. DOMAIN q.branches = 1..1
    BY <1>2 DEF Query
  <2>2. parts = [i \in 1..1 |-> Values(q.branches[i], data, <<>>, FALSE)]
    BY <1>3, <2>1 DEF Branches
  <2> HIDE DEF parts
  <2> QED
    BY <2>2
<1>10. Result(q, data, FALSE) = FirstOf(q.limit, Combined(q, parts))
  BY <1>2 DEF Result
<1> HIDE DEF parts, l
<1>11. Combined(q, parts) = Values(b, data, <<>>, FALSE)
  BY <1>9 DEF Combined
<1> QED
  BY <1>6, <1>7, <1>8, <1>10, <1>11

LEMMA CountedType ==
  ASSUME NEW q, NEW s, NEW rows \in Seq(Row)
  PROVE  Len(Counted(q, s, rows)) \in Nat
<1> DEFINE tests == IF Boundary(q, s).detailed THEN ToSet(q.branches[1].where)
                    ELSE Boundary(q, s).tests
           C == {r \in ToSet(rows) : \A test \in tests : Passes(test, r, r)}
<1>1. Counted(q, s, rows) = Among(rows, C)
  BY DEF Counted
<1> HIDE DEF C
<1> QED
  BY <1>1, AmongSeq, LenProperties

LEMMA ColumnFacts ==
  ASSUME NEW s \in Seq(Row), NEW f \in FieldName
  PROVE  /\ Column(Single(s), f) \in Seq(FieldValue)
         /\ Len(Column(Single(s), f)) = Len(s)
         /\ \A i \in 1..Len(s) : Column(Single(s), f)[i] = s[i][f]
<1> DEFINE At(i) == s[i][f]
<1>1. \A i \in 1..Len(s) : At(i) \in FieldValue
  BY ElementOfSeq, RowFacts
<1>2. Single(s) \in Seq(Pair) /\ Len(Single(s)) = Len(s) /\ Len(s) \in Nat
  BY SingleType, SingleFacts, LenProperties
<1>3. DOMAIN Single(s) = 1..Len(s)
  BY <1>2
<1>4. \A i \in 1..Len(s) : Single(s)[i].x[f] = At(i)
  <2>1. ASSUME NEW i \in 1..Len(s) PROVE Single(s)[i].x = s[i]
    <3>1. Single(s)[i] = [x |-> s[i], y |-> NullRow]
      BY SingleFacts
    <3> QED
      BY <3>1
  <2> QED
    BY <2>1
<1>5. Column(Single(s), f) = [i \in 1..Len(s) |-> At(i)]
  BY <1>3, <1>4 DEF Column
<1>6. \A i \in 1..Len(s) : Column(Single(s), f)[i] = At(i)
  BY <1>5
<1> HIDE DEF At
<1>7. Column(Single(s), f) \in Seq(FieldValue) /\ Len(Column(Single(s), f)) = Len(s)
  BY <1>1, <1>2, <1>5, LenProperties
<1> QED
  BY <1>6, <1>7 DEF At

LEMMA ColumnConcat ==
  ASSUME NEW s \in Seq(Row), NEW t \in Seq(Row), NEW f \in FieldName
  PROVE  Column(Single(s \o t), f) = Column(Single(s), f) \o Column(Single(t), f)
<1> DEFINE w == s \o t
           u == Column(Single(w), f)
           a == Column(Single(s), f)
           b == Column(Single(t), f)
<1>1. /\ w \in Seq(Row) /\ Len(w) = Len(s) + Len(t) /\ Len(s) \in Nat /\ Len(t) \in Nat
      /\ \A i \in 1..(Len(s) + Len(t)) : w[i] = IF i <= Len(s) THEN s[i] ELSE t[i - Len(s)]
  BY ConcatProperties, LenProperties
<1> HIDE DEF w
<1>2. /\ u \in Seq(FieldValue) /\ Len(u) = Len(w) /\ \A i \in 1..Len(w) : u[i] = w[i][f]
  BY <1>1, ColumnFacts
<1>3. /\ a \in Seq(FieldValue) /\ Len(a) = Len(s) /\ \A i \in 1..Len(s) : a[i] = s[i][f]
      /\ b \in Seq(FieldValue) /\ Len(b) = Len(t) /\ \A i \in 1..Len(t) : b[i] = t[i][f]
  BY ColumnFacts
<1> HIDE DEF u, a, b
<1>4. /\ a \o b \in Seq(FieldValue) /\ Len(a \o b) = Len(a) + Len(b)
      /\ \A i \in 1..(Len(a) + Len(b)) : (a \o b)[i] = IF i <= Len(a) THEN a[i] ELSE b[i - Len(a)]
  <2>1. a \in Seq(FieldValue) /\ b \in Seq(FieldValue)
    BY <1>3
  <2> QED
    BY <2>1, ConcatProperties
<1>5. ASSUME NEW i \in 1..Len(u) PROVE u[i] = (a \o b)[i]
  <2>1. i \in 1..(Len(s) + Len(t)) /\ u[i] = w[i][f]
    BY <1>1, <1>2
  <2>2. CASE i <= Len(s)
    BY <1>1, <1>3, <1>4, <2>1, <2>2
  <2>3. CASE i > Len(s)
    <3>1. i - Len(s) \in 1..Len(t)
      BY <1>1, <2>1, <2>3
    <3>2. w[i] = t[i - Len(s)] /\ (a \o b)[i] = b[i - Len(s)]
      BY <1>1, <1>3, <1>4, <2>1, <2>3
    <3> QED
      BY <1>3, <2>1, <3>1, <3>2
  <2>4. i <= Len(s) \/ i > Len(s)
    BY <1>1, <2>1
  <2> QED
    BY <2>2, <2>3, <2>4
<1>6. u = a \o b
  <2>1. Len(u) = Len(a \o b)
    BY <1>1, <1>2, <1>3, <1>4
  <2> QED
    BY <1>2, <1>4, <1>5, <2>1, SeqEqual
<1> QED
  BY <1>6 DEF u, a, b, w

\* The rows an early LIMIT leaves out are not among the first ones.
LEMMA LimitedAnswer ==
  ASSUME NEW q \in Query, LimitEligible(q), Sound(q), Written(q),
         q.branches[1].from.s # "cte", NEW data \in Data
  PROVE  Result(q, Fetched(q, data), FALSE) = Result(q, data, FALSE)
<1> DEFINE b == q.branches[1]
           s == b.from.s
           u == UseFrom(q, "main", b)
           G == Pass(Inner(b.from)) \cap Reading(b)
           A == Fetched(q, data)[s]
           B == data[s]
           W == Wanted(q, s)
           C == Among(B, W)
           K == CutAfter(q, s, C)
           D == Detailed(q, s)
           sel == b.sel
           Show(rows) == Column(Single(Among(rows, G)), sel)
<1>1. /\ b \in BodyClauses /\ WrittenBody(b) /\ 1 \in DOMAIN q.branches /\ b.joins = <<>>
      /\ <<"main", b>> \in Bodies(q) /\ Uses(q) = {u} /\ Eliminated(q) = {}
      /\ q.limit \in Seq(Nat) /\ q.limit # <<>> /\ b.from \in Operands /\ s \in Source
  BY LimitFacts
<1>2. /\ Result(q, Fetched(q, data), FALSE) = FirstOf(q.limit, Show(A))
      /\ Result(q, data, FALSE) = FirstOf(q.limit, Show(B))
  BY OnlyBranch, FetchedType
<1>3. A \in Seq(Row) /\ B \in Seq(Row)
  BY <1>1, FetchedType DEF Data
<1>4. sel \in FieldName /\ D \in BOOLEAN
  BY <1>1, BodyTypes DEF Detailed
<1>5. /\ u.s = s /\ u.owner = "main" /\ XSided(u.where) /\ G \subseteq Pass(u.where)
      /\ (sel = "d" => "d" \in u.fields)
  BY <1>1, LeftUse DEF LeftNeeds
<1>6. CASE u \notin Live(q, s)
  <2>1. G \cap Row = {}
    BY <1>1, <1>5, <1>6, DeadPass
  <2> HIDE DEF A, B, G
  <2>2. Among(A, G) = <<>> /\ Among(B, G) = <<>>
    BY <1>3, <2>1, AmongNone
  <2> QED
    BY <1>2, <2>2
<1>7. CASE u \in Live(q, s)
  <2>1. Related(Same(D), A, K)
    <3>1. s \notin Eliminated(q)
      BY <1>1
    <3>2. A = AcquiredRows(q, s, B)
      BY <1>1, <1>7, <3>1, LiveFetched
    <3>3. Taken(q, s, B) = K
      BY DEF Taken
    <3> QED
      BY <1>3, <3>2, <3>3, AcquiredRelated
  <2>2. ASSUME NEW x \in Row, NEW y \in Row, <<x, y>> \in Same(D) PROVE x \in G <=> y \in G
    <3>1. OwnerReads(q, "main")
      BY DEF OwnerReads
    <3>2. <<x, y>> \in Same(Detailed(q, b.from.s)) /\ b.from.s # "cte"
          /\ UseFrom(q, "main", b) \in Live(q, b.from.s)
      BY <1>7, <2>2
    <3> HIDE DEF b
    <3>3. x \in Pass(Inner(b.from)) \cap Reading(b) <=> y \in Pass(Inner(b.from)) \cap Reading(b)
      BY <1>1, <3>1, <3>2, LeftAgrees
    <3> QED
      BY <3>3
  <2>3. sel = "d" => D
    BY <1>5, <1>7, LiveDetailed
  <2>4. G \cap Row \subseteq W
    <3>1. Reading(b) \subseteq NotLight(q)
      BY <1>1, ReadingNotLight
    <3> QED
      BY <1>5, <1>7, <3>1, LiveKeeps DEF Wanted
  <2>5. C \in Seq(Row \cap W) /\ C \in Seq(Row)
    BY <1>3, AmongType, AmongSeq
  <2>6. K \in Seq(Row)
    BY <2>5, CutAfterType
  <2>7. \A rest \in Seq(Row) : C = K \o rest => K \in Seq(Row \cap W)
    <3> SUFFICES ASSUME NEW rest \in Seq(Row), C = K \o rest PROVE K \in Seq(Row \cap W)
      OBVIOUS
    <3> DEFINE T == Row \cap W
    <3>1. C \in Seq(T)
      BY <2>5
    <3> HIDE DEF K, C, T
    <3>2. /\ Len(C) = Len(K) + Len(rest) /\ Len(K) \in Nat /\ Len(rest) \in Nat
          /\ \A i \in 1..Len(K) : C[i] = K[i]
      <4>1. /\ Len(K \o rest) = Len(K) + Len(rest) /\ Len(K) \in Nat /\ Len(rest) \in Nat
            /\ \A i \in 1..(Len(K) + Len(rest)) :
                 (K \o rest)[i] = IF i <= Len(K) THEN K[i] ELSE rest[i - Len(K)]
        BY <2>6, ConcatProperties, LenProperties
      <4> QED
        BY <4>1
    <3>3. \A i \in 1..Len(K) : K[i] \in T
      BY <3>1, <3>2, ElementOfSeq
    <3>4. K = [i \in 1..Len(K) |-> K[i]]
      BY <2>6
    <3>5. K \in Seq(T)
      BY <3>2, <3>3, <3>4, IsASeq
    <3> QED
      BY <3>5 DEF T
  <2>8. K = C \/ EndsEarly(q, s, C, K)
    BY <2>5, CutAfterIs
  <2>9. K \in Seq(Row \cap W) => Len(Counted(q, s, K)) <= Len(Among(K, G))
    BY <1>7, CountedIsRead
  <2> HIDE DEF A, B, C, K, G, W, D, sel
  <2>10. Among(A, G) \in Seq(Row) /\ Among(K, G) \in Seq(Row)
    BY <1>3, <2>6, AmongSeq
  <2>11. Show(A) = Show(K)
    <3> DEFINE R == Same(D)
               X == Among(A, G)
               Y == Among(K, G)
    <3>1. Related(R, A, K) /\ \A x, y \in Row : <<x, y>> \in R => (x \in G <=> y \in G)
      BY <2>1, <2>2
    <3> HIDE DEF R
    <3>2. Related(R, X, Y)
      BY <1>3, <2>6, <3>1, AmongRelated
    <3>3. X \in Seq(Row) /\ Y \in Seq(Row)
      BY <2>10
    <3> HIDE DEF X, Y
    <3>4. Related(Pairs(D, FALSE), Single(X), Single(Y))
      BY <1>4, <3>2, <3>3, SingleRelated DEF R
    <3>5. Single(X) \in Seq(Pair) /\ Single(Y) \in Seq(Pair)
      BY <3>3, SingleType
    <3>6. Column(Single(X), sel) = Column(Single(Y), sel)
      BY <1>4, <2>3, <3>4, <3>5, ColumnSame
    <3> QED
      BY <3>6 DEF X, Y
  <2>12. Among(C, G) = Among(B, G)
    BY <1>3, <2>4, AmongTwice DEF C
  <2>13. CASE K = C
    BY <1>2, <2>11, <2>12, <2>13
  <2>14. ASSUME NEW rest \in Seq(Row), C = K \o rest, Len(Counted(q, s, K)) >= q.limit[1]
         PROVE  FirstOf(q.limit, Show(K)) = FirstOf(q.limit, Show(C))
    <3> DEFINE X == Among(K, G)
               Y == Among(rest, G)
               limit == q.limit
    <3>1. X \in Seq(Row) /\ Y \in Seq(Row) /\ Among(C, G) = X \o Y
      <4>1. Among(K \o rest, G) = Among(K, G) \o Among(rest, G)
        BY <2>6, AmongConcat
      <4>2. Among(K, G) \in Seq(Row) /\ Among(rest, G) \in Seq(Row)
        BY <2>6, AmongSeq
      <4> QED
        BY <2>14, <4>1, <4>2
    <3>2. Len(X) >= limit[1]
      <4>1. Len(Counted(q, s, K)) <= Len(X)
        BY <2>7, <2>9, <2>14
      <4>2. Len(Counted(q, s, K)) \in Nat
        BY <2>6, CountedType
      <4>3. limit[1] \in Nat
        BY <1>1, EmptySeq
      <4>4. Len(X) \in Nat
        BY <3>1, LenProperties
      <4> HIDE DEF X
      <4> QED
        BY <2>14, <4>1, <4>2, <4>3, <4>4
    <3>3. limit \in Seq(Nat) /\ limit # <<>>
      BY <1>1
    <3> HIDE DEF X, Y, limit
    <3> DEFINE x == Column(Single(X), sel)
               y == Column(Single(Y), sel)
    <3>4. x \in Seq(FieldValue) /\ y \in Seq(FieldValue) /\ Len(x) >= limit[1]
      BY <1>4, <3>1, <3>2, ColumnFacts
    <3>5. Column(Single(X \o Y), sel) = x \o y
      BY <1>4, <3>1, ColumnConcat
    <3> HIDE DEF x, y
    <3>6. FirstOf(limit, x \o y) = FirstOf(limit, x)
      BY <3>3, <3>4, FirstOfLonger
    <3> QED
      BY <3>1, <3>5, <3>6 DEF x, y, X, limit
  <2> HIDE DEF Show
  <2>15. Show(C) = Show(B)
    BY <2>12 DEF Show
  <2> QED
    BY <1>2, <2>8, <2>11, <2>13, <2>14, <2>15 DEF EndsEarly
<1> QED
  BY <1>6, <1>7

LEMMA UnchangedAnswer ==
  ASSUME NEW q \in Query, Sound(q), Written(q), ReadsTheCte(q) => q.cte # <<>>, NEW data \in Data
  PROVE  Result(q, Fetched(q, data), TRUE) = Result(q, data, TRUE)
<1>1. Result(q, Fetched(q, data), FALSE) = Result(q, data, FALSE)
  <2>1. CASE ~ LimitEligible(q)
    BY <2>1, CompleteAnswer
  <2>2. CASE LimitEligible(q)
    <3>1. 1 \in DOMAIN q.branches
      <4>1. DOMAIN q.branches = 1..Len(q.branches) /\ Len(q.branches) = 1
        BY <2>2 DEF Query, LimitEligible
      <4> QED
        BY <4>1
    <3>2. ~ ReadsTheCte(q)
      BY <2>2 DEF LimitEligible
    <3>3. q.branches[1].from.s # "cte"
      BY <3>1, <3>2 DEF ReadsTheCte, ToSet
    <3> QED
      BY <2>2, <3>3, LimitedAnswer
  <2> QED
    BY <2>1, <2>2
<1> QED
  BY <1>1, FetchedType, ResultSame

-----------------------------------------------------------------------------
(* A query as it is written and answered *)

\* What a query may be answered from: the plan's own records.
AnswerInv ==
  /\ TypeInv /\ Written(query)
  /\ (ReadsTheCte(query) => query.cte # <<>>) => Sound(query)
  /\ phase = "answer" => /\ ReadsTheCte(query) => query.cte # <<>>
                         /\ acquired = Fetched(query, content)

LEMMA AnswerInit == Init => AnswerInv
<1> SUFFICES ASSUME Init PROVE AnswerInv
  OBVIOUS
<1>1. PICK sel \in FieldName, o \in Operands :
        query = [NoQuery EXCEPT !.branches = <<Body(sel, o)>>]
  BY DEF Init
<1> DEFINE b == Body(sel, o)
<1>2. /\ query.branches = <<b>> /\ query.cte = <<>> /\ query.limit = <<>>
      /\ b.from = o /\ b.joins = <<>> /\ b.where = <<>>
  BY <1>1 DEF NoQuery, Body
<1> HIDE DEF b
<1>3. /\ DOMAIN query.cte = {} /\ DOMAIN query.branches = {1} /\ query.branches[1] = b
      /\ DOMAIN b.where = {} /\ Len(b.where) = 0 /\ DOMAIN b.joins = {}
      /\ ToSet(query.branches) = {b} /\ ToSet(query.cte) = {}
  BY <1>2, EmptySeq DEF ToSet
<1>4. Written(query)
  BY <1>3 DEF Written, WrittenBody
<1>5. ASSUME ReadsTheCte(query) => query.cte # <<>> PROVE Sound(query)
  <2>1. o.s # "cte"
    BY <1>2, <1>3, <1>5 DEF ReadsTheCte
  <2>2. OperandsOf(b) = {o}
    BY <1>2, <1>3 DEF OperandsOf
  <2>3. Eliminated(query) = {}
    BY <1>2, <1>3 DEF Eliminated, JoinConsequence
  <2>4. FirstBodyAlone(query) /\ EliminationAlone(query)
    BY <1>3, <2>3 DEF FirstBodyAlone, EliminationAlone
  <2>5. CteFieldsSeen(query) /\ LimitAbovePlainRelation(query)
    BY <1>2, <1>3, <2>1, <2>2 DEF CteFieldsSeen, ReadsCte, LimitAbovePlainRelation
  <2> QED
    BY <2>4, <2>5 DEF Sound
<1>6. phase # "answer"
  BY DEF Init
<1> QED
  BY <1>4, <1>5, <1>6, InitType DEF AnswerInv

\* A clause keeps what it does not write.
LEMMA AnswerClause ==
  ASSUME \A q \in Query : Allowed(q) => Sound(q), TypeInv', NEW q, Clause(q), Written(q)
  PROVE  AnswerInv'
<1>1. query' = q /\ phase' = "build" /\ Allowed(q)
  BY DEF Clause
<1>2. q \in Query
  BY <1>1 DEF TypeInv
<1>3. Sound(q)
  BY <1>1, <1>2
<1> QED
  BY <1>1, <1>3 DEF AnswerInv

\* One branch rewritten, the others as they were.
LEMMA WrittenBranch ==
  ASSUME query \in Query, Written(query), NEW b, WrittenBody(b)
  PROVE  Written([query EXCEPT !.branches = [query.branches EXCEPT ![Latest] = b]])
<1> DEFINE q == [query EXCEPT !.branches = [query.branches EXCEPT ![Latest] = b]]
<1>1. query = [cte |-> query.cte, branches |-> query.branches, all |-> query.all,
               order |-> query.order, limit |-> query.limit]
  BY DEF Query
<1>2. q.cte = query.cte /\ q.branches = [query.branches EXCEPT ![Latest] = b]
  BY <1>1
<1>3. \A i \in DOMAIN q.branches : q.branches[i] = (IF i = Latest THEN b ELSE query.branches[i])
                                   /\ i \in DOMAIN query.branches
  BY <1>2
<1> HIDE DEF q
<1>4. Written(q)
  BY <1>2, <1>3 DEF Written
<1> QED
  BY <1>4 DEF q

LEMMA AnswerJoin ==
  ASSUME \A q \in Query : Allowed(q) => Sound(q), AnswerInv,
         NEW kind \in Kinds, NEW o \in Operands, NEW on \in Ons, Join(kind, o, on)
  PROVE  AnswerInv'
<1> DEFINE join == [kind |-> kind, relation |-> o, on |-> on]
           b == [query.branches[Latest] EXCEPT !.joins = <<join>>]
<1>1. query \in Query /\ Written(query) /\ TypeInv
  BY DEF AnswerInv, TypeInv
<1>2. query.branches[Latest].where = <<>> /\ query.branches[Latest] \in BodyClauses
  BY <1>1, LatestFacts DEF Join
<1>3. b.where = <<>> /\ b.joins = <<join>>
  BY <1>2 DEF BodyClauses
<1>4. WrittenBody(b)
  <2>1. b.joins # <<>> /\ Len(b.where) = 0
    BY <1>3, EmptySeq
  <2> QED
    BY <2>1 DEF WrittenBody
<1>5. [query EXCEPT !.branches[Latest].joins = <<join>>]
        = [query EXCEPT !.branches = [query.branches EXCEPT ![Latest] = b]]
  BY <1>1, LatestFacts DEF BodyClauses, Query
<1>6. Clause([query EXCEPT !.branches[Latest].joins = <<join>>])
  BY DEF Join
<1>7. TypeInv'
  BY <1>1, JoinType
<1> HIDE DEF b
<1> QED
  BY <1>1, <1>4, <1>5, <1>6, <1>7, WrittenBranch, AnswerClause

LEMMA AnswerWhere ==
  ASSUME \A q \in Query : Allowed(q) => Sound(q), AnswerInv, NEW test \in Tests, Where(test)
  PROVE  AnswerInv'
<1> DEFINE b == [query.branches[Latest] EXCEPT !.where = <<test>>]
<1>1. query \in Query /\ Written(query) /\ TypeInv
  BY DEF AnswerInv, TypeInv
<1>2. query.branches[Latest] \in BodyClauses /\ test \in TestClause
  BY <1>1, LatestFacts, OperandAssumption
<1>3. b.where = <<test>> /\ b.joins = query.branches[Latest].joins
  BY <1>2 DEF BodyClauses
<1>4. WrittenBody(b)
  <2>1. Len(b.where) = 1 /\ \A i \in DOMAIN b.where : b.where[i] = test
    BY <1>3
  <2>2. b.joins = <<>> => test.side = "x"
    BY <1>2, <1>3 DEF Where, TestClause
  <2> QED
    BY <2>1, <2>2 DEF WrittenBody
<1>5. [query EXCEPT !.branches[Latest].where = <<test>>]
        = [query EXCEPT !.branches = [query.branches EXCEPT ![Latest] = b]]
  BY <1>1, LatestFacts DEF BodyClauses, Query
<1>6. Clause([query EXCEPT !.branches[Latest].where = <<test>>])
  BY DEF Where
<1>7. TypeInv'
  BY <1>1, WhereType
<1> HIDE DEF b
<1> QED
  BY <1>1, <1>4, <1>5, <1>6, <1>7, WrittenBranch, AnswerClause

LEMMA AnswerUnion ==
  ASSUME \A q \in Query : Allowed(q) => Sound(q), AnswerInv,
         NEW all \in BOOLEAN, NEW sel \in FieldName, NEW o \in Operands, Union(all, sel, o)
  PROVE  AnswerInv'
<1> DEFINE b == Body(sel, o)
           branches == Append(query.branches, b)
           q == [query EXCEPT !.branches = branches, !.all = all]
<1>1. query \in Query /\ Written(query) /\ TypeInv /\ query.branches \in Seq(BodyClauses)
  BY LatestFacts DEF AnswerInv, TypeInv
<1>2. WrittenBody(b)
  <2>1. b.where = <<>>
    BY DEF Body
  <2> HIDE DEF b
  <2> QED
    BY <2>1, EmptySeq DEF WrittenBody
<1>3. b \in BodyClauses
  BY BodyType
<1> HIDE DEF b
<1>4. \A i \in DOMAIN branches :
        \/ branches[i] = b
        \/ i \in DOMAIN query.branches /\ branches[i] = query.branches[i]
  BY <1>1, <1>3
<1>5. q.branches = branches /\ q.cte = query.cte
  BY <1>1 DEF Query
<1>6. Clause(q)
  BY DEF Union, b
<1> HIDE DEF branches, q
<1>7. Written(q)
  BY <1>1, <1>2, <1>4, <1>5 DEF Written
<1>8. TypeInv'
  BY <1>1, UnionType
<1> QED
  BY <1>6, <1>7, <1>8, AnswerClause

LEMMA AnswerOrderLimit ==
  ASSUME \A q \in Query : Allowed(q) => Sound(q), AnswerInv, OrderBy \/ \E n \in 1..2 : Limit(n)
  PROVE  AnswerInv'
<1>1. query \in Query /\ Written(query) /\ TypeInv
  BY DEF AnswerInv, TypeInv
<1>2. TypeInv'
  BY <1>1, OrderLimitType
<1>3. CASE OrderBy
  <2>1. Written([query EXCEPT !.order = TRUE])
    BY <1>1 DEF Written, Query
  <2> QED
    BY <1>2, <1>3, <2>1, AnswerClause DEF OrderBy
<1>4. ASSUME NEW n \in 1..2, Limit(n) PROVE AnswerInv'
  <2>1. Written([query EXCEPT !.limit = <<n>>])
    BY <1>1 DEF Written, Query
  <2> QED
    BY <1>2, <1>4, <2>1, AnswerClause DEF Limit
<1> QED
  BY <1>3, <1>4

LEMMA AnswerWith ==
  ASSUME \A q \in Query : Allowed(q) => Sound(q), AnswerInv,
         NEW o \in PhysicalOperands, NEW joins \in CteJoins,
         NEW where \in {<<>>} \cup {<<test>> : test \in LeftTests}, With(o, joins, where)
  PROVE  AnswerInv'
<1> DEFINE b == [Body("t", o) EXCEPT !.joins = joins, !.where = where]
           q == [query EXCEPT !.cte = <<b>>]
<1>1. query \in Query /\ Written(query) /\ TypeInv
  BY DEF AnswerInv, TypeInv
<1>2. TypeInv'
  BY <1>1, WithType
<1>3. b.where = where
  BY DEF Body
<1>4. Len(where) <= 1 /\ \A i \in DOMAIN where : where[i].side = "x"
  <2>1. CASE where = <<>>
    BY <2>1, EmptySeq
  <2>2. ASSUME NEW test \in LeftTests, where = <<test>>
        PROVE  Len(where) <= 1 /\ \A i \in DOMAIN where : where[i].side = "x"
    <3>1. Len(where) = 1 /\ \A i \in DOMAIN where : where[i] = test
      BY <2>2
    <3> QED
      BY <3>1 DEF LeftTests
  <2> QED
    BY <2>1, <2>2
<1> HIDE DEF b
<1>5. WrittenBody(b)
  BY <1>3, <1>4 DEF WrittenBody
<1>6. q.cte = <<b>> /\ q.branches = query.branches
  BY <1>1 DEF Query
<1>7. Clause(q)
  BY DEF With, b
<1> HIDE DEF q
<1>8. Written(q)
  BY <1>1, <1>5, <1>6 DEF Written
<1> QED
  BY <1>2, <1>7, <1>8, AnswerClause

LEMMA AnswerAcquire ==
  ASSUME AnswerInv, Acquire
  PROVE  AnswerInv'
<1>1. TypeInv'
  BY AcquireType DEF AnswerInv
<1>2. query' = query /\ content' = content /\ acquired' = Fetched(query, content)
  BY DEF Acquire, Fetched
<1> QED
  BY <1>1, <1>2 DEF AnswerInv, Acquire

LEMMA AnswerNext ==
  ASSUME \A q \in Query : Allowed(q) => Sound(q)
  PROVE  AnswerInv /\ [Next]_vars => AnswerInv'
<1> SUFFICES ASSUME AnswerInv, [Next]_vars PROVE AnswerInv'
  OBVIOUS
<1>1. ASSUME NEW kind \in Kinds, NEW o \in Operands, NEW on \in Ons, Join(kind, o, on)
      PROVE  AnswerInv'
  BY <1>1, AnswerJoin
<1>2. ASSUME NEW test \in Tests, Where(test) PROVE AnswerInv'
  BY <1>2, AnswerWhere
<1>3. ASSUME NEW all \in BOOLEAN, NEW sel \in FieldName, NEW o \in Operands, Union(all, sel, o)
      PROVE  AnswerInv'
  BY <1>3, AnswerUnion
<1>4. CASE OrderBy \/ \E n \in 1..2 : Limit(n)
  BY <1>4, AnswerOrderLimit
<1>5. ASSUME NEW o \in PhysicalOperands, NEW joins \in CteJoins,
             NEW where \in {<<>>} \cup {<<test>> : test \in LeftTests}, With(o, joins, where)
      PROVE  AnswerInv'
  BY <1>5, AnswerWith
<1>6. CASE Acquire
  BY <1>6, AnswerAcquire
<1>7. CASE UNCHANGED vars
  BY <1>7 DEF AnswerInv, TypeInv, vars
<1> QED
  BY <1>1, <1>2, <1>3, <1>4, <1>5, <1>6, <1>7 DEF Next

-----------------------------------------------------------------------------
(* What is known of a result before any row is read *)

LEMMA FoldsOfNothing == Unique(<<>>) = <<>> /\ Sorted(<<>>) = <<>>
<1>1. DOMAIN <<>> = {} /\ SUBSET {} = {{}}
  BY EmptySeq
<1>2. Unique(<<>>) = <<>>
  <2> DEFINE Put(acc, e) == IF Contains(acc, e) THEN acc ELSE Append(acc, e)
             Recurses(g) == g = [S \in SUBSET {} |->
                                   IF S = {} THEN <<>>
                                   ELSE LET x == Max(S) IN Put(g[S \ {x}], <<>>[x])]
             iter == CHOOSE g : Recurses(g)
  <2>1. Unique(<<>>) = iter[{}]
    BY <1>1 DEF Unique, FoldLeft, MapThenFoldSet
  <2>2. Recurses([S \in {{}} |-> <<>>])
    BY <1>1
  <2> HIDE DEF Put
  <2>3. Recurses(iter)
    <3> HIDE DEF Recurses
    <3> QED
      BY <2>2
  <2> HIDE DEF iter
  <2> QED
    BY <1>1, <2>1, <2>3
<1>3. Sorted(<<>>) = <<>>
  <2> DEFINE Recurses(g) == g = [S \in SUBSET {} |->
                                   IF S = {} THEN <<>>
                                   ELSE LET x == Max(S) IN Insert(g[S \ {x}], <<>>[x])]
             iter == CHOOSE g : Recurses(g)
  <2>1. Sorted(<<>>) = iter[{}]
    BY <1>1 DEF Sorted, FoldLeft, MapThenFoldSet
  <2>2. Recurses([S \in {{}} |-> <<>>])
    BY <1>1
  <2>3. Recurses(iter)
    <3> HIDE DEF Recurses
    <3> QED
      BY <2>2
  <2> HIDE DEF iter
  <2> QED
    BY <1>1, <2>1, <2>3
<1> QED
  BY <1>2, <1>3

\* A clause with a constant FALSE keeps no row.
LEMMA FilterNever ==
  ASSUME NEW where, NEW rows \in Seq(Pair), \E i \in DOMAIN where : Never(where[i])
  PROVE  Filter(where, rows) = <<>>
<1>1. Pair \cap Holding(where) = {}
  BY DEF Holding, Passes
<1> QED
  BY <1>1, FilterIs, AmongNone

LEMMA FilterOfNothing ==
  ASSUME NEW where
  PROVE  Filter(where, <<>>) = <<>>
BY AmongEmpty DEF Filter

LEMMA EmptyRelation ==
  ASSUME NEW o \in Operands, NEW data \in Data, NEW cte \in Seq(Row), NEW cteEmpty \in BOOLEAN,
         cteEmpty => cte = <<>>, RelationEmpty(o, cteEmpty)
  PROVE  Rows(o, data, cte) = <<>>
<1>1. CASE o = TheCte
  BY <1>1 DEF RelationEmpty, Rows, TheCte
<1>2. CASE o.k = "derived" /\ \E i \in DOMAIN o.where : Never(o.where[i])
  <2> DEFINE inner == Filter(o.where, Single(Base(o, data, cte)))
  <2>1. inner = <<>>
    BY <1>2, BaseType, SingleType, FilterNever
  <2>2. Rows(o, data, cte) = [i \in DOMAIN inner |-> inner[i].x]
    BY <1>2 DEF Rows, Base
  <2> HIDE DEF inner
  <2> QED
    BY <2>1, <2>2, EmptySeq
<1> QED
  BY <1>1, <1>2 DEF RelationEmpty

\* Without left rows no join has any; an INNER or a SEMI join needs both sides.
LEMMA JoinedOfNothing ==
  ASSUME NEW join, NEW left \in Seq(Row), NEW right \in Seq(Row),
         left = <<>> \/ (right = <<>> /\ join.kind \in {"INNER", "SEMI"})
  PROVE  Joined(join, left, right, FALSE) = <<>>
<1>1. CASE left = <<>>
  <2>1. JoinedParts(join, left, right) = <<>>
    BY <1>1, EmptySeq DEF JoinedParts
  <2>2. RowProducing(join, left, right, FALSE) = FlattenSeq(JoinedParts(join, left, right))
    BY RowProducingIs
  <2>3. Existence(join, left, right, FALSE) = Single(Among(left, Chosen(join, right)))
    BY ExistenceIs
  <2>4. Among(left, Chosen(join, right)) = <<>> /\ Single(<<>>) = <<>>
    BY <1>1, EmptySeq, AmongEmpty DEF Single
  <2> QED
    BY <2>1, <2>2, <2>3, <2>4, FlattenEmpty DEF Joined
<1>2. CASE right = <<>> /\ join.kind \in {"INNER", "SEMI"}
  <2>1. Unanswered(join, right)
    BY <1>2, AmongEmpty DEF Reference, Unanswered
  <2> QED
    BY <1>2, <2>1, JoinedUnmatched
<1> QED
  BY <1>1, <1>2

LEMMA JoinedType ==
  ASSUME NEW join, join.on.f \in FieldName \cup {"never"},
         NEW left \in Seq(Row), NEW right \in Seq(Row)
  PROVE  Joined(join, left, right, FALSE) \in Seq(Pair)
<1>1. Related(Same(TRUE), left, left) /\ Related(Same(TRUE), right, right)
  BY SameReflexive
<1> QED
  BY <1>1, JoinedRelated

LEMMA EmptyBody ==
  ASSUME NEW b \in BodyClauses, NEW data \in Data, NEW cte \in Seq(Row), NEW cteEmpty \in BOOLEAN,
         cteEmpty => cte = <<>>, BodyEmpty(b, cteEmpty)
  PROVE  BodyRows(b, data, cte, TRUE) = <<>>
<1>1. BodyRows(b, data, cte, TRUE) = BodyRows(b, data, cte, FALSE)
  BY BodyRowsSame
<1>2. b.from \in Operands
  BY BodyFacts
<1>3. CASE b.joins = <<>>
  <2> DEFINE left == Rows(b.from, data, cte)
  <2>1. left \in Seq(Row) /\ (RelationEmpty(b.from, cteEmpty) => left = <<>>)
    BY <1>2, RowsType, EmptyRelation
  <2>2. BodyRows(b, data, cte, FALSE) = Filter(b.where, Single(left))
    BY <1>3 DEF BodyRows
  <2> HIDE DEF left
  <2>3. CASE left = <<>>
    <3>1. Single(left) = <<>>
      BY <2>3, EmptySeq DEF Single
    <3> QED
      BY <1>1, <2>2, <3>1, FilterOfNothing
  <2>4. CASE \E i \in DOMAIN b.where : Never(b.where[i])
    BY <1>1, <2>1, <2>2, <2>4, SingleType, FilterNever
  <2>5. Len(b.joins) # 1
    BY <1>3, EmptySeq
  <2> QED
    BY <2>1, <2>3, <2>4, <2>5 DEF BodyEmpty
<1>4. CASE b.joins # <<>>
  <2> DEFINE join == b.joins[1]
             left == Rows(b.from, data, cte)
             right == Rows(join.relation, data, cte)
             rows == Joined(join, left, right, FALSE)
  <2>0. join.relation \in Operands /\ join.on.f \in FieldName \cup {"never"}
    BY <1>4, BodyFacts
  <2>1. /\ left \in Seq(Row) /\ (RelationEmpty(b.from, cteEmpty) => left = <<>>)
        /\ right \in Seq(Row) /\ (RelationEmpty(join.relation, cteEmpty) => right = <<>>)
    BY <1>2, <2>0, RowsType, EmptyRelation
  <2>2. BodyRows(b, data, cte, FALSE) = Filter(b.where, rows)
    BY <1>4 DEF BodyRows
  <2>3. BodyEmpty(b, cteEmpty) =>
          \/ RelationEmpty(b.from, cteEmpty)
          \/ \E i \in DOMAIN b.where : Never(b.where[i])
          \/ JoinConsequence(join).empty
          \/ join.kind \in {"INNER", "SEMI"} /\ RelationEmpty(join.relation, cteEmpty)
    BY DEF BodyEmpty
  <2> HIDE DEF join, left, right
  <2>4. rows \in Seq(Pair)
    BY <2>0, <2>1, JoinedType
  <2>5. JoinConsequence(join).empty => join.on.f = "never" /\ join.kind \in {"INNER", "SEMI"}
    BY DEF JoinConsequence
  <2>6. ASSUME \/ left = <<>>
               \/ right = <<>> /\ join.kind \in {"INNER", "SEMI"}
               \/ JoinConsequence(join).empty
        PROVE  rows = <<>>
    <3>1. CASE JoinConsequence(join).empty
      BY <2>1, <2>5, <3>1, JoinedNever
    <3>2. CASE left = <<>> \/ (right = <<>> /\ join.kind \in {"INNER", "SEMI"})
      BY <2>1, <3>2, JoinedOfNothing
    <3> QED
      BY <2>6, <3>1, <3>2
  <2> HIDE DEF rows
  <2>7. CASE rows = <<>>
    BY <1>1, <2>2, <2>7, FilterOfNothing
  <2>8. CASE \E i \in DOMAIN b.where : Never(b.where[i])
    BY <1>1, <2>2, <2>4, <2>8, FilterNever
  <2> QED
    BY <2>1, <2>3, <2>6, <2>7, <2>8
<1> QED
  BY <1>3, <1>4

LEMMA EmptyResult ==
  ASSUME NEW q \in Query, NEW data \in Data, RelationFacts(q).empty
  PROVE  Result(q, data, TRUE) = <<>>
<1> DEFINE cteEmpty == q.cte # <<>> /\ BodyEmpty(q.cte[1], FALSE)
           cte == CteRows(q, data, TRUE)
           parts == Branches(q, data, cte, TRUE)
           all == Combined(q, parts)
<1>1. cte \in Seq(Row)
  BY CteRowsFacts
<1>2. ASSUME cteEmpty PROVE cte = <<>>
  <2> DEFINE b == q.cte[1]
             none == <<>>
             rows == BodyRows(b, data, none, TRUE)
  <2>1. b \in BodyClauses /\ none \in Seq(Row)
    BY <1>2, QueryFacts, EmptySeq DEF CteBody
  <2>2. BodyEmpty(b, FALSE)
    BY <1>2
  <2>3. cte = [i \in DOMAIN rows |-> rows[i].x]
    BY <1>2 DEF CteRows
  <2> HIDE DEF b, none, cte
  <2>4. rows = <<>>
    BY <2>1, <2>2, EmptyBody
  <2> HIDE DEF rows
  <2> QED
    BY <2>3, <2>4, EmptySeq
<1>3. \A i \in DOMAIN q.branches : BodyEmpty(q.branches[i], i = 1 /\ cteEmpty)
  BY DEF RelationFacts
<1> HIDE DEF cteEmpty, cte
<1>4. ASSUME NEW i \in DOMAIN q.branches PROVE Values(q.branches[i], data, cte, TRUE) = <<>>
  <2> DEFINE b == q.branches[i]
             known == i = 1 /\ cteEmpty
  <2>1. b \in BodyClauses /\ BodyEmpty(b, known) /\ known \in BOOLEAN /\ (known => cte = <<>>)
    BY <1>2, <1>3, QueryFacts
  <2>2. Values(b, data, cte, TRUE) = Column(BodyRows(b, data, cte, TRUE), b.sel)
    BY DEF Values
  <2> HIDE DEF b, known
  <2>3. BodyRows(b, data, cte, TRUE) = <<>>
    BY <1>1, <2>1, EmptyBody
  <2>4. Column(<<>>, b.sel) = <<>>
    BY EmptySeq DEF Column
  <2> QED
    BY <2>2, <2>3, <2>4 DEF b
<1>5. parts = [i \in DOMAIN q.branches |-> <<>>]
  BY <1>4 DEF Branches
<1>6. q.branches \in Seq(BodyClauses) /\ Len(q.branches) \in Nat \ {0}
  BY EmptySeq, LenProperties DEF Query
<1> HIDE DEF parts
<1>7. Len(parts) = Len(q.branches) /\ \A i \in 1..Len(q.branches) : parts[i] = <<>>
  <2> DEFINE n == Len(q.branches)
             At(i) == <<>>
  <2>1. parts = [i \in 1..n |-> At(i)] /\ \A i \in 1..n : At(i) \in Seq({})
    BY <1>5, <1>6, EmptySeq
  <2>2. n \in Nat /\ \A i \in 1..n : parts[i] = <<>>
    BY <1>6, <2>1
  <2> HIDE DEF n, At
  <2>3. Len(parts) = n
    BY <2>1, <2>2
  <2> QED
    BY <2>2, <2>3 DEF n
<1>8. Result(q, data, TRUE) = FirstOf(q.limit, IF q.order THEN Sorted(all) ELSE all)
  BY DEF Result, cte, parts
<1>9. all = <<>>
  <2>1. parts[1] = <<>> /\ (Len(parts) # 1 => parts[2] = <<>>)
    <3> DEFINE n == Len(q.branches)
    <3>1. n \in Nat \ {0} /\ Len(parts) = n /\ \A i \in 1..n : parts[i] = <<>>
      BY <1>6, <1>7
    <3> HIDE DEF n
    <3>2. 1 \in 1..n /\ (n # 1 => 2 \in 1..n)
      BY <3>1
    <3> QED
      BY <3>1, <3>2
  <2>2. <<>> \o <<>> = <<>>
    BY EmptySeq
  <2> QED
    BY <2>1, <2>2, FoldsOfNothing DEF Combined
<1> HIDE DEF all
<1>10. Result(q, data, TRUE) = FirstOf(q.limit, <<>>)
  BY <1>8, <1>9, FoldsOfNothing
<1>11. FirstOf(q.limit, <<>>) = <<>>
  <2>1. q.limit # <<>> => q.limit[1] \in Nat
    BY EmptySeq, ElementOfSeq DEF Query
  <2> QED
    BY <2>1 DEF FirstOf
<1> QED
  BY <1>10, <1>11

LEMMA FirstOfFits ==
  ASSUME NEW limit, limit # <<>>, limit[1] \in Nat, NEW rows
  PROVE  Len(FirstOf(limit, rows)) <= limit[1]
<1> DEFINE m == limit[1]
           S == {rows[i] : i \in 1..m}
<1>1. CASE Len(rows) <= m
  BY <1>1 DEF FirstOf
<1>2. CASE ~(Len(rows) <= m)
  <2>1. FirstOf(limit, rows) = SubSeq(rows, 1, m)
    BY <1>2 DEF FirstOf
  <2>2. \A i \in 1..m : rows[i] \in S
    OBVIOUS
  <2> HIDE DEF S
  <2>3. m \in Int
    OBVIOUS
  <2> HIDE DEF m
  <2>4. Len(SubSeq(rows, 1, m)) = IF 1 <= m THEN m - 1 + 1 ELSE 0
    BY <2>2, <2>3, SubSeqProperties
  <2>5. m \in Nat
    BY DEF m
  <2> QED
    BY <2>1, <2>4, <2>5 DEF m
<1> QED
  BY <1>1, <1>2

\* What is said of the result before the sources are read.
FactsHold ==
  /\ RelationFacts(query).empty => Result(query, content, TRUE) = <<>>
  /\ RelationFacts(query).max_rows # <<>> =>
       Len(Result(query, content, TRUE)) <= RelationFacts(query).max_rows[1]

-----------------------------------------------------------------------------
(* Theorems *)

\* The query is built of clauses of its grammar and what is acquired are rows.
THEOREM TypeCorrect == Spec => []TypeOK
<1>1. TypeInv => TypeOK
  BY DEF TypeInv, TypeOK, Data
<1> QED
  BY <1>1, InitType, TypeNext, PTL DEF Spec

\* The equality index and the nested loop give every query the same result on
\* any contents of any sources, NULL and unhashable values included.
THEOREM JoinPathsAreEqual == Spec => []JoinPathsAgree
<1>1. TypeInv => JoinPathsAgree
  BY ContentAssumption, ResultSame DEF TypeInv, JoinPathsAgree, Data
<1> QED
  BY <1>1, InitType, TypeNext, PTL DEF Spec

\* Where every query the grammar lets through is Sound, what the plan leaves out
\* never shows: the rows and the fields it does not ask for, the requests it
\* skips and the rows behind an early LIMIT.  The query answers on what was
\* acquired what it answers on the complete sources, whatever they contain.
THEOREM ResultsAreUnchanged ==
  ASSUME \A q \in Query : Allowed(q) => Sound(q)
  PROVE  Spec => []ResultUnchanged
<1>1. AnswerInv => ResultUnchanged
  <2> SUFFICES ASSUME AnswerInv, phase = "answer"
               PROVE  Result(query, acquired, TRUE) = Result(query, content, TRUE)
    BY DEF ResultUnchanged
  <2>1. /\ query \in Query /\ Written(query) /\ Sound(query)
        /\ ReadsTheCte(query) => query.cte # <<>>
        /\ acquired = Fetched(query, content)
    BY DEF AnswerInv, TypeInv
  <2>2. content \in Data
    BY ContentAssumption DEF AnswerInv, TypeInv, Data
  <2> QED
    BY <2>1, <2>2, UnchangedAnswer
<1> QED
  BY <1>1, AnswerInit, AnswerNext, PTL DEF Spec

\* What is known of a query without aggregates before a source is read is true
\* of it on any contents: a body that is proved empty has no rows wherever a
\* constant FALSE or an empty relation stands in it, and no result is longer than
\* max_rows.  An aggregate would make one row of none, and the code's fact false.
THEOREM RelationFactsHold == Spec => []FactsHold
<1>1. TypeInv => FactsHold
  <2> SUFFICES ASSUME TypeInv PROVE FactsHold
    OBVIOUS
  <2>1. query \in Query /\ content \in Data
    BY ContentAssumption DEF TypeInv, Data
  <2>2. ASSUME RelationFacts(query).empty PROVE Result(query, content, TRUE) = <<>>
    BY <2>1, <2>2, EmptyResult
  <2>3. CASE RelationFacts(query).empty
    <3>1. RelationFacts(query).max_rows = <<0>> /\ <<0>>[1] = 0
      BY <2>3 DEF RelationFacts
    <3>2. Len(Result(query, content, TRUE)) <= 0
      <4> DEFINE r == Result(query, content, TRUE)
      <4>1. r \in Seq({})
        BY <2>2, <2>3, EmptySeq
      <4>2. r = <<>>
        BY <2>2, <2>3
      <4> HIDE DEF r
      <4>3. Len(r) <= 0
        BY <4>1, <4>2, EmptySeq
      <4> QED
        BY <4>3 DEF r
    <3> QED
      BY <2>2, <3>1, <3>2 DEF FactsHold
  <2>4. CASE ~RelationFacts(query).empty
    <3>1. RelationFacts(query).max_rows = query.limit
      BY <2>4 DEF RelationFacts
    <3>2. query.limit # <<>> => query.limit[1] \in Nat
      BY <2>1, EmptySeq, ElementOfSeq DEF Query
    <3>3. query.limit # <<>> => Len(Result(query, content, TRUE)) <= query.limit[1]
      BY <3>2, FirstOfFits DEF Result
    <3> QED
      BY <2>4, <3>1, <3>3 DEF FactsHold
  <2> QED
    BY <2>3, <2>4
<1> QED
  BY <1>1, InitType, TypeNext, PTL DEF Spec
===============================================================================
