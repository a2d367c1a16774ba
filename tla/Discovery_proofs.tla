---------------------------- MODULE Discovery_proofs ----------------------------
(* Theorems about Discovery, for any number of runs, videos and queries: its   *)
(* types, and the four invariants of its run.  What a run listed, joined to    *)
(* what the cache had stored, is the feed the run began with (ListingInv); as  *)
(* new entries appear near the top only, a run of known entries as long as     *)
(* Confirm, or of old ones as long as Boundary, is followed by nothing new     *)
(* (BeyondRun).  WorkInv accounts for every candidate of the acquisition:      *)
(* ahead, in a row, missed, or decided by what was listed.                     *)
EXTENDS Discovery, FiniteSetTheorems, FunctionTheorems, WellFoundedInduction, TLAPS

Listings == {s \in Seq(Video) : \A i, j \in 1..Len(s) : s[i] = s[j] => i = j}

\* u stands before v in s.
Before(s, u, v) == \E i, j \in 1..Len(s) : i < j /\ s[i] = u /\ s[j] = v

Agrees(s, t) ==
  \A u, v \in Members(s) \cap Members(t) : Before(s, u, v) => Before(t, u, v)

-----------------------------------------------------------------------------
LEMMA ListingFacts ==
  ASSUME NEW s \in Listings
  PROVE  /\ s \in Seq(Video) /\ Len(s) \in Nat /\ DOMAIN s = 1..Len(s)
         /\ s \in [1..Len(s) -> Video]
         /\ Members(s) = {s[i] : i \in 1..Len(s)} /\ Members(s) \subseteq Video
         /\ \A i, j \in 1..Len(s) : s[i] = s[j] => i = j
BY DEF Listings, Members

LEMMA EmptyListing ==
  <<>> \in Listings /\ Members(<<>>) = {} /\ Len(<<>>) = 0
BY DEF Listings, Members

LEMMA UpToFinite ==
  ASSUME NEW n \in Nat
  PROVE  IsFiniteSet(1..n) /\ Cardinality(1..n) = n
<1>1. 1 \in Int /\ n \in Int
  OBVIOUS
<1>2. IsFiniteSet(1..n) /\ Cardinality(1..n) = IF 1 > n THEN 0 ELSE n - 1 + 1
  BY <1>1, FS_Interval
<1> QED
  BY <1>2

LEMMA MembersFinite ==
  ASSUME NEW s \in Listings
  PROVE  IsFiniteSet(Members(s)) /\ Cardinality(Members(s)) = Len(s)
<1>1. /\ Len(s) \in Nat /\ s \in [1..Len(s) -> Members(s)]
      /\ \A i, j \in 1..Len(s) : s[i] = s[j] => i = j
      /\ \A v \in Members(s) : \E i \in 1..Len(s) : s[i] = v
  BY ListingFacts
<1>2. s \in Bijection(1..Len(s), Members(s))
  BY <1>1, Fun_IsBij
<1>3. ExistsBijection(1..Len(s), Members(s))
  BY <1>2 DEF ExistsBijection
<1>4. IsFiniteSet(1..Len(s)) /\ Cardinality(1..Len(s)) = Len(s)
  BY <1>1, UpToFinite
<1> QED
  BY <1>3, <1>4, FS_Bijection

LEMMA VideoFinite ==
  IsFiniteSet(Video) /\ Cardinality(Video) = Last
<1>1. Last \in Nat
  BY DiscoveryBoundAssumption
<1> QED
  BY <1>1, UpToFinite DEF Video

LEMMA LengthBound ==
  ASSUME NEW s \in Listings
  PROVE  Len(s) \in 0..Last
<1>1. Last \in Nat
  BY DiscoveryBoundAssumption
<1> QED
  BY <1>1, VideoFinite, MembersFinite, ListingFacts, FS_Subset

\* The positions of s that hold a member of S, and how many of them are <= i.
At(s, S) == {i \in DOMAIN s : s[i] \in S}
Rank(s, S, i) == Cardinality({j \in At(s, S) : j <= i})

LEMMA RankFacts ==
  ASSUME NEW s \in Listings, NEW S
  PROVE  /\ IsFiniteSet(At(s, S)) /\ Cardinality(At(s, S)) \in Nat
         /\ At(s, S) \subseteq 1..Len(s)
         /\ \A i \in At(s, S) : Rank(s, S, i) \in 1..Cardinality(At(s, S))
         /\ \A i, j \in At(s, S) : i < j => Rank(s, S, i) < Rank(s, S, j)
<1> DEFINE at == At(s, S)
           upto(i) == {j \in at : j <= i}
<1>1. at \subseteq 1..Len(s) /\ Len(s) \in Nat
  BY ListingFacts DEF At
<1>2. IsFiniteSet(at) /\ Cardinality(at) \in Nat
  <2>1. IsFiniteSet(1..Len(s))
    BY <1>1, UpToFinite
  <2> QED
    BY <1>1, <2>1, FS_Subset, FS_CardinalityType
<1>3. ASSUME NEW i \in at
      PROVE  /\ IsFiniteSet(upto(i)) /\ Cardinality(upto(i)) \in Nat
             /\ Cardinality(upto(i)) <= Cardinality(at)
             /\ Cardinality(upto(i)) # 0
  <2>1. upto(i) \in SUBSET at /\ i \in upto(i)
    BY <1>1
  <2>2. IsFiniteSet(upto(i)) /\ Cardinality(upto(i)) <= Cardinality(at)
    BY <1>2, <2>1, FS_Subset
  <2>3. Cardinality(upto(i)) \in Nat
    BY <2>2, FS_CardinalityType
  <2>4. Cardinality(upto(i)) # 0
    BY <2>1, <2>2, FS_EmptySet
  <2> QED
    BY <2>2, <2>3, <2>4
<1>4. ASSUME NEW i \in at, NEW j \in at, i < j
      PROVE  Cardinality(upto(i)) < Cardinality(upto(j))
  <2>1. /\ upto(i) \in SUBSET upto(j) /\ j \in upto(j) /\ j \notin upto(i)
    BY <1>1, <1>4
  <2>2. Cardinality(upto(i)) <= Cardinality(upto(j)) /\ Cardinality(upto(j)) # Cardinality(upto(i))
    BY <2>1, <1>3, FS_Subset
  <2> QED
    BY <2>2, <1>3
<1>5. \A i : Rank(s, S, i) = Cardinality(upto(i))
  BY DEF Rank
<1>6. \A i \in at : Rank(s, S, i) \in 1..Cardinality(at)
  <2>1. ASSUME NEW i \in at PROVE Rank(s, S, i) \in 1..Cardinality(at)
    <3>1. Rank(s, S, i) = Cardinality(upto(i))
      BY <1>5
    <3> HIDE DEF at, upto
    <3> QED
      BY <1>2, <1>3, <3>1
  <2> QED
    BY <2>1
<1>7. \A i, j \in at : i < j => Rank(s, S, i) < Rank(s, S, j)
  <2> HIDE DEF at, upto
  <2> QED
    BY <1>4, <1>5
<1> QED
  BY <1>1, <1>2, <1>6, <1>7

\* The rank is a bijection from the positions: the n-th of them exists.
LEMMA NthPosition ==
  ASSUME NEW s \in Listings, NEW S, NEW n \in 1..Cardinality(At(s, S))
  PROVE  \E i \in At(s, S) : Rank(s, S, i) = n
<1> DEFINE at == At(s, S)
           k == Cardinality(at)
           rank == [i \in at |-> Rank(s, S, i)]
<1>1. /\ IsFiniteSet(at) /\ k \in Nat /\ at \subseteq 1..Len(s) /\ Len(s) \in Nat
      /\ \A i \in at : Rank(s, S, i) \in 1..k
      /\ \A i, j \in at : i < j => Rank(s, S, i) < Rank(s, S, j)
  BY RankFacts, ListingFacts
<1>2. rank \in [at -> 1..k]
  BY <1>1
<1>3. \A i, j \in at : rank[i] = rank[j] => i = j
  <2>1. ASSUME NEW i \in at, NEW j \in at, rank[i] = rank[j] PROVE i = j
    <3>1. ~ (i < j) /\ ~ (j < i)
      BY <1>1, <2>1
    <3> QED
      BY <1>1, <3>1
  <2> QED
    BY <2>1
<1>4. rank \in Injection(at, 1..k)
  BY <1>2, <1>3, Fun_IsInj
<1>5. IsFiniteSet(1..k) /\ Cardinality(1..k) = k
  BY <1>1, UpToFinite
<1>6. rank \in Surjection(at, 1..k)
  BY <1>4, <1>5, FS_Injection
<1>7. \A m \in 1..k : \E i \in at : rank[i] = m
  BY <1>6 DEF Surjection
<1>8. PICK i \in at : rank[i] = n
  BY <1>7
<1> QED
  BY <1>8

Nth(s, S, n) == CHOOSE i \in At(s, S) : Rank(s, S, i) = n

LEMMA KeptByNth ==
  ASSUME NEW s, NEW S
  PROVE  Kept(s, S) = [n \in 1..Cardinality(At(s, S)) |-> s[Nth(s, S, n)]]
BY DEF Kept, At, Rank, Nth

LEMMA NthFacts ==
  ASSUME NEW s \in Listings, NEW S
  PROVE  /\ \A n \in 1..Cardinality(At(s, S)) :
              /\ Nth(s, S, n) \in At(s, S) /\ Nth(s, S, n) \in 1..Len(s)
              /\ Rank(s, S, Nth(s, S, n)) = n
              /\ s[Nth(s, S, n)] \in Members(s) \cap S
         /\ \A i \in At(s, S) : Nth(s, S, Rank(s, S, i)) = i
         /\ \A m, n \in 1..Cardinality(At(s, S)) :
              m < n <=> Nth(s, S, m) < Nth(s, S, n)
<1> DEFINE at == At(s, S)
           k == Cardinality(at)
<1>1. /\ k \in Nat /\ at \subseteq 1..Len(s) /\ Len(s) \in Nat
      /\ \A i \in at : Rank(s, S, i) \in 1..k
      /\ \A i, j \in at : i < j => Rank(s, S, i) < Rank(s, S, j)
  BY RankFacts, ListingFacts
<1>2. \A n \in 1..k : Nth(s, S, n) \in at /\ Rank(s, S, Nth(s, S, n)) = n
  BY NthPosition DEF Nth
<1>3. \A i \in at : i \in DOMAIN s /\ s[i] \in S /\ s[i] \in Members(s)
  BY ListingFacts DEF At, Members
<1>4. \A i, j \in at : Rank(s, S, i) = Rank(s, S, j) => i = j
  <2>1. ASSUME NEW i \in at, NEW j \in at, Rank(s, S, i) = Rank(s, S, j)
        PROVE  i = j
    <3>1. ~ (i < j) /\ ~ (j < i)
      BY <1>1, <2>1
    <3> QED
      BY <1>1, <3>1
  <2> QED
    BY <2>1
<1>5. \A i \in at : Nth(s, S, Rank(s, S, i)) = i
  BY <1>1, <1>2, <1>4
<1>6. \A m, n \in 1..k : m < n <=> Nth(s, S, m) < Nth(s, S, n)
  <2>1. ASSUME NEW m \in 1..k, NEW n \in 1..k
        PROVE  m < n <=> Nth(s, S, m) < Nth(s, S, n)
    <3>1. /\ Nth(s, S, m) \in at /\ Nth(s, S, n) \in at
          /\ Rank(s, S, Nth(s, S, m)) = m /\ Rank(s, S, Nth(s, S, n)) = n
      BY <1>2
    <3>2. Nth(s, S, m) < Nth(s, S, n) => m < n
      BY <1>1, <3>1
    <3>3. Nth(s, S, n) < Nth(s, S, m) => n < m
      BY <1>1, <3>1
    <3>4. Nth(s, S, n) = Nth(s, S, m) => n = m
      BY <3>1
    <3>5. Nth(s, S, m) \in Int /\ Nth(s, S, n) \in Int
      BY <1>1, <3>1
    <3> QED
      BY <3>2, <3>3, <3>4, <3>5
  <2> QED
    BY <2>1
<1> QED
  BY <1>1, <1>2, <1>3, <1>5, <1>6

-----------------------------------------------------------------------------
LEMMA BeforeFacts ==
  ASSUME NEW s \in Listings, NEW u, NEW v
  PROVE  /\ Before(s, u, v) => u \in Members(s) /\ v \in Members(s) /\ u # v
         /\ Before(s, u, v) => ~ Before(s, v, u)
         /\ u \in Members(s) /\ v \in Members(s) /\ u # v =>
              Before(s, u, v) \/ Before(s, v, u)
<1>1. /\ Len(s) \in Nat /\ DOMAIN s = 1..Len(s)
      /\ Members(s) = {s[i] : i \in 1..Len(s)}
      /\ \A i, j \in 1..Len(s) : s[i] = s[j] => i = j
  BY ListingFacts
<1>2. ASSUME Before(s, u, v)
      PROVE  u \in Members(s) /\ v \in Members(s) /\ u # v
  <2>1. PICK i \in 1..Len(s), j \in 1..Len(s) : i < j /\ s[i] = u /\ s[j] = v
    BY <1>2 DEF Before
  <2> QED
    BY <1>1, <2>1
<1>3. ASSUME Before(s, u, v), Before(s, v, u)
      PROVE  FALSE
  <2>1. PICK i \in 1..Len(s), j \in 1..Len(s) : i < j /\ s[i] = u /\ s[j] = v
    BY <1>3 DEF Before
  <2>2. PICK k \in 1..Len(s), l \in 1..Len(s) : k < l /\ s[k] = v /\ s[l] = u
    BY <1>3 DEF Before
  <2>3. i = l /\ j = k
    BY <1>1, <2>1, <2>2
  <2> QED
    BY <1>1, <2>1, <2>2, <2>3
<1>4. ASSUME u \in Members(s), v \in Members(s), u # v
      PROVE  Before(s, u, v) \/ Before(s, v, u)
  <2>1. PICK i \in 1..Len(s) : s[i] = u
    BY <1>1, <1>4
  <2>2. PICK j \in 1..Len(s) : s[j] = v
    BY <1>1, <1>4
  <2>3. i < j \/ j < i
    BY <1>1, <1>4, <2>1, <2>2
  <2> QED
    BY <2>1, <2>2, <2>3 DEF Before
<1> QED
  BY <1>2, <1>3, <1>4

LEMMA KeptFacts ==
  ASSUME NEW s \in Listings, NEW S
  PROVE  /\ Kept(s, S) \in Listings
         /\ Members(Kept(s, S)) = Members(s) \cap S
         /\ \A u, v : Before(Kept(s, S), u, v) <=>
                      Before(s, u, v) /\ u \in S /\ v \in S
<1> DEFINE at == At(s, S)
           k == Cardinality(at)
           t == Kept(s, S)
<1>1. /\ k \in Nat /\ at \subseteq 1..Len(s) /\ Len(s) \in Nat
      /\ \A i \in at : Rank(s, S, i) \in 1..k
      /\ s \in [1..Len(s) -> Video] /\ DOMAIN s = 1..Len(s)
      /\ Members(s) = {s[i] : i \in 1..Len(s)} /\ Members(s) \subseteq Video
      /\ \A i, j \in 1..Len(s) : s[i] = s[j] => i = j
  BY RankFacts, ListingFacts
<1>2. /\ \A n \in 1..k :
           /\ Nth(s, S, n) \in at /\ Nth(s, S, n) \in 1..Len(s)
           /\ Rank(s, S, Nth(s, S, n)) = n
           /\ s[Nth(s, S, n)] \in Members(s) \cap S
      /\ \A i \in at : Nth(s, S, Rank(s, S, i)) = i
      /\ \A m, n \in 1..k : m < n <=> Nth(s, S, m) < Nth(s, S, n)
  BY NthFacts
<1>3. t = [n \in 1..k |-> s[Nth(s, S, n)]]
  BY KeptByNth
<1> HIDE DEF t, k
<1>4. t \in Seq(Video) /\ Len(t) = k /\ DOMAIN t = 1..k
  <2>1. t \in [1..k -> Video]
    BY <1>1, <1>2, <1>3
  <2> QED
    BY <1>1, <2>1
<1>5. \A n \in 1..k : t[n] = s[Nth(s, S, n)]
  BY <1>3
<1>6. ASSUME NEW m \in 1..k, NEW n \in 1..k, t[m] = t[n]
      PROVE  m = n
  <2>1. Nth(s, S, m) = Nth(s, S, n)
    BY <1>1, <1>2, <1>5, <1>6
  <2> QED
    BY <1>2, <2>1
<1>7. t \in Listings
  BY <1>4, <1>6 DEF Listings
<1>8. ASSUME NEW i \in 1..Len(s), s[i] \in S
      PROVE  /\ i \in at /\ Rank(s, S, i) \in 1..k /\ t[Rank(s, S, i)] = s[i]
  <2>1. i \in at
    BY <1>1, <1>8 DEF At
  <2> QED
    BY <1>1, <1>2, <1>5, <2>1
<1>9. Members(t) = Members(s) \cap S
  <2>1. Members(t) = {t[n] : n \in 1..k}
    BY <1>4 DEF Members
  <2>2. ASSUME NEW v \in Members(t) PROVE v \in Members(s) \cap S
    BY <1>2, <1>5, <2>1
  <2>3. ASSUME NEW v \in Members(s) \cap S PROVE v \in Members(t)
    BY <1>1, <1>8, <2>1
  <2> QED
    BY <2>2, <2>3
<1>10. ASSUME NEW u, NEW v, Before(t, u, v)
       PROVE  Before(s, u, v) /\ u \in S /\ v \in S
  <2>1. PICK m \in 1..k, n \in 1..k : m < n /\ t[m] = u /\ t[n] = v
    BY <1>4, <1>10 DEF Before
  <2>2. /\ Nth(s, S, m) \in 1..Len(s) /\ Nth(s, S, n) \in 1..Len(s)
        /\ Nth(s, S, m) < Nth(s, S, n)
        /\ s[Nth(s, S, m)] = u /\ s[Nth(s, S, n)] = v
    BY <1>2, <1>5, <2>1
  <2> QED
    BY <1>2, <2>2, <2>1, <1>5 DEF Before
<1>11. ASSUME NEW u, NEW v, Before(s, u, v), u \in S, v \in S
       PROVE  Before(t, u, v)
  <2>1. PICK i \in 1..Len(s), j \in 1..Len(s) : i < j /\ s[i] = u /\ s[j] = v
    BY <1>11 DEF Before
  <2> DEFINE m == Rank(s, S, i)
             n == Rank(s, S, j)
  <2>2. /\ m \in 1..k /\ n \in 1..k /\ t[m] = u /\ t[n] = v
        /\ i \in at /\ j \in at
    BY <1>8, <1>11, <2>1
  <2>3. m < n <=> Nth(s, S, m) < Nth(s, S, n)
    BY <1>2, <2>2
  <2>4. m < n
    BY <1>2, <2>1, <2>2, <2>3
  <2> HIDE DEF m, n
  <2> QED
    BY <1>4, <2>2, <2>4 DEF Before
<1> QED
  BY <1>7, <1>9, <1>10, <1>11 DEF t

\* A video stands where the number of videos before it says.
LEMMA PositionIsCount ==
  ASSUME NEW s \in Listings, NEW i \in 1..Len(s)
  PROVE  Cardinality({w \in Members(s) : Before(s, w, s[i])}) = i - 1
<1> DEFINE ahead == {w \in Members(s) : Before(s, w, s[i])}
           f == [j \in 1..(i - 1) |-> s[j]]
<1>1. /\ Len(s) \in Nat /\ Members(s) = {s[j] : j \in 1..Len(s)}
      /\ \A j, l \in 1..Len(s) : s[j] = s[l] => j = l
  BY ListingFacts
<1>2. \A j \in 1..(i - 1) : j \in 1..Len(s) /\ j < i
  BY <1>1
<1>3. f \in [1..(i - 1) -> ahead]
  <2>1. ASSUME NEW j \in 1..(i - 1) PROVE s[j] \in ahead
    BY <1>1, <1>2 DEF Before
  <2> QED
    BY <2>1
<1>4. \A j, l \in 1..(i - 1) : f[j] = f[l] => j = l
  BY <1>1, <1>2
<1>5. \A w \in ahead : \E j \in 1..(i - 1) : f[j] = w
  <2>1. ASSUME NEW w \in ahead PROVE \E j \in 1..(i - 1) : f[j] = w
    <3>1. PICK j \in 1..Len(s), l \in 1..Len(s) : j < l /\ s[j] = w /\ s[l] = s[i]
      BY DEF Before
    <3>2. l = i
      BY <1>1, <3>1
    <3>3. j \in 1..(i - 1)
      BY <1>1, <3>1, <3>2
    <3> QED
      BY <3>1, <3>3
  <2> QED
    BY <2>1
<1> HIDE DEF f, ahead
<1>6. f \in Bijection(1..(i - 1), ahead)
  BY <1>3, <1>4, <1>5, Fun_IsBij
<1>7. ExistsBijection(1..(i - 1), ahead)
  BY <1>6 DEF ExistsBijection
<1>8. i - 1 \in Nat
  BY <1>1
<1>9. IsFiniteSet(1..(i - 1)) /\ Cardinality(1..(i - 1)) = i - 1
  BY <1>8, UpToFinite
<1> QED
  BY <1>7, <1>9, FS_Bijection DEF ahead

\* Two listings of the same videos that agree on their order are the same.
LEMMA SameListing ==
  ASSUME NEW s \in Listings, NEW t \in Listings, Members(s) = Members(t),
         Agrees(t, s)
  PROVE  s = t
<1>1. Len(s) = Len(t)
  <2>1. Cardinality(Members(s)) = Len(s)
    BY MembersFinite
  <2>2. Cardinality(Members(t)) = Len(t)
    BY MembersFinite
  <2> QED
    BY <2>1, <2>2
<1>2. \A u, v \in Members(t) : Before(s, u, v) <=> Before(t, u, v)
  <2>1. ASSUME NEW u \in Members(t), NEW v \in Members(t)
        PROVE  Before(s, u, v) <=> Before(t, u, v)
    <3>1. Before(t, u, v) => Before(s, u, v)
      BY DEF Agrees
    <3>2. Before(t, v, u) => Before(s, v, u)
      BY DEF Agrees
    <3>3. Before(s, u, v) => ~ Before(s, v, u) /\ u # v
      BY BeforeFacts
    <3>4. u # v => Before(t, u, v) \/ Before(t, v, u)
      BY BeforeFacts
    <3> QED
      BY <3>1, <3>2, <3>3, <3>4
  <2> QED
    BY <2>1
<1>3. /\ Len(s) \in Nat /\ s \in Seq(Video) /\ t \in Seq(Video)
      /\ \A i \in 1..Len(s) : s[i] \in Members(t)
      /\ \A v \in Members(t) : \E i \in 1..Len(s) : t[i] = v
  BY <1>1, ListingFacts
<1>4. ASSUME NEW i \in 1..Len(s) PROVE s[i] = t[i]
  <2>1. PICK j \in 1..Len(s) : t[j] = s[i]
    BY <1>3
  <2>2. Cardinality({w \in Members(s) : Before(s, w, s[i])}) = i - 1
    BY PositionIsCount
  <2>3. Cardinality({w \in Members(t) : Before(t, w, t[j])}) = j - 1
    BY <1>1, PositionIsCount
  <2>4. {w \in Members(t) : Before(t, w, t[j])} = {w \in Members(s) : Before(s, w, s[i])}
    BY <1>2, <1>3, <2>1
  <2>5. i - 1 = j - 1
    BY <2>2, <2>3, <2>4
  <2>6. i = j
    BY <1>3, <2>5
  <2> QED
    BY <2>1, <2>6
<1> QED
  BY <1>1, <1>3, <1>4

LEMMA KeptIs ==
  ASSUME NEW s \in Listings, NEW t \in Listings, Members(t) \subseteq Members(s),
         Agrees(t, s)
  PROVE  Kept(s, Members(t)) = t
<1> DEFINE k == Kept(s, Members(t))
<1>1. /\ k \in Listings /\ Members(k) = Members(t)
      /\ \A u, v \in Members(t) : Before(s, u, v) => Before(k, u, v)
  BY KeptFacts
<1> HIDE DEF k
<1>2. Agrees(t, k)
  BY <1>1 DEF Agrees
<1>3. k = t
  BY <1>1, <1>2, SameListing
<1> QED
  BY <1>3 DEF k

LEMMA PrefixFacts ==
  ASSUME NEW s \in Listings, NEW n \in 0..Len(s)
  PROVE  /\ Prefix(s, n) \in Listings /\ Len(Prefix(s, n)) = n
         /\ \A i \in 1..n : Prefix(s, n)[i] = s[i]
         /\ Members(Prefix(s, n)) = {s[i] : i \in 1..n}
         /\ Prefix(s, Len(s)) = s
<1>1. /\ Len(s) \in Nat /\ s \in Seq(Video)
      /\ \A i, j \in 1..Len(s) : s[i] = s[j] => i = j
  BY ListingFacts
<1> DEFINE t == Prefix(s, n)
<1>2. /\ t \in Seq(Video) /\ Len(t) = n /\ \A i \in 1..n : t[i] = s[i]
  BY <1>1 DEF Prefix
<1>3. Prefix(s, Len(s)) = s
  BY <1>1 DEF Prefix
<1> HIDE DEF t
<1>4. t \in Listings
  BY <1>1, <1>2 DEF Listings
<1>5. Members(t) = {s[i] : i \in 1..n}
  BY <1>2 DEF Members
<1> QED
  BY <1>2, <1>3, <1>4, <1>5 DEF t

LEMMA RestFacts ==
  ASSUME NEW s \in Listings, NEW n \in 0..Len(s)
  PROVE  LET t == SubSeq(s, n + 1, Len(s))
         IN  /\ t \in Listings /\ Len(t) = Len(s) - n
             /\ \A i \in 1..Len(t) : t[i] = s[n + i]
             /\ Members(t) = {s[i] : i \in (n + 1)..Len(s)}
<1>1. /\ Len(s) \in Nat /\ s \in Seq(Video)
      /\ \A i, j \in 1..Len(s) : s[i] = s[j] => i = j
  BY ListingFacts
<1> DEFINE t == SubSeq(s, n + 1, Len(s))
<1>2. /\ t \in Seq(Video) /\ Len(t) = Len(s) - n
      /\ \A i \in 1..Len(t) : t[i] = s[n + i]
  BY <1>1
<1> HIDE DEF t
<1>3. t \in Listings
  <2>1. ASSUME NEW i \in 1..Len(t), NEW j \in 1..Len(t), t[i] = t[j]
        PROVE  i = j
    <3>1. n + i \in 1..Len(s) /\ n + j \in 1..Len(s)
      BY <1>1, <1>2
    <3>2. n + i = n + j
      BY <1>1, <1>2, <2>1, <3>1
    <3> QED
      BY <1>1, <1>2, <3>2
  <2> QED
    BY <1>2, <2>1 DEF Listings
<1>4. Members(t) = {s[i] : i \in (n + 1)..Len(s)}
  <2>1. Members(t) = {t[i] : i \in 1..Len(t)}
    BY <1>3, ListingFacts
  <2>2. ASSUME NEW i \in 1..Len(t)
        PROVE  t[i] = s[n + i] /\ n + i \in (n + 1)..Len(s)
    BY <1>1, <1>2
  <2>3. ASSUME NEW i \in (n + 1)..Len(s)
        PROVE  i - n \in 1..Len(t) /\ t[i - n] = s[i]
    <3>1. i - n \in 1..Len(t) /\ n + (i - n) = i
      BY <1>1, <1>2
    <3> QED
      BY <1>2, <3>1
  <2> DEFINE late == {s[i] : i \in (n + 1)..Len(s)}
  <2>4. \A v \in Members(t) : v \in late
    BY <2>1, <2>2
  <2>5. \A v \in late : v \in Members(t)
    BY <2>1, <2>3
  <2> QED
    BY <2>4, <2>5
<1> QED
  BY <1>2, <1>3, <1>4 DEF t

LEMMA JoinFacts ==
  ASSUME NEW s \in Listings, NEW t \in Listings, Members(s) \cap Members(t) = {}
  PROVE  /\ s \o t \in Listings /\ Members(s \o t) = Members(s) \cup Members(t)
         /\ \A u, v : Before(s \o t, u, v) <=>
              \/ Before(s, u, v) \/ Before(t, u, v)
              \/ u \in Members(s) /\ v \in Members(t)
<1> DEFINE c == s \o t
           m == Len(s)
<1>1. /\ m \in Nat /\ Len(t) \in Nat /\ s \in Seq(Video) /\ t \in Seq(Video)
      /\ \A i, j \in 1..m : s[i] = s[j] => i = j
      /\ \A i, j \in 1..Len(t) : t[i] = t[j] => i = j
      /\ Members(s) = {s[i] : i \in 1..m} /\ Members(t) = {t[i] : i \in 1..Len(t)}
  BY ListingFacts
<1>2. /\ c \in Seq(Video) /\ Len(c) = m + Len(t) /\ DOMAIN c = 1..(m + Len(t))
      /\ \A i \in 1..m : c[i] = s[i]
      /\ \A i \in 1..Len(t) : c[m + i] = t[i]
  BY <1>1
<1>3. /\ \A i \in 1..m : i \in 1..Len(c)
      /\ \A i \in 1..Len(t) : m + i \in 1..Len(c)
      /\ \A i \in 1..Len(c) : i \in 1..m \/ (i - m \in 1..Len(t) /\ m + (i - m) = i)
  BY <1>1, <1>2
<1> HIDE DEF c, m
<1>4. ASSUME NEW i \in 1..Len(c)
      PROVE  \/ i \in 1..m /\ c[i] = s[i] /\ c[i] \in Members(s)
             \/ i - m \in 1..Len(t) /\ c[i] = t[i - m] /\ c[i] \in Members(t)
  <2>1. CASE i \in 1..m
    BY <1>1, <1>2, <2>1
  <2>2. CASE i - m \in 1..Len(t) /\ m + (i - m) = i
    <3>1. c[m + (i - m)] = t[i - m]
      BY <1>2, <2>2
    <3>2. c[i] = t[i - m] /\ t[i - m] \in Members(t)
      BY <1>1, <2>2, <3>1
    <3> QED
      BY <2>2, <3>2
  <2> QED
    BY <1>3, <2>1, <2>2
<1>5. c \in Listings
  <2>1. ASSUME NEW i \in 1..Len(c), NEW j \in 1..Len(c), c[i] = c[j]
        PROVE  i = j
    <3>1. \/ i \in 1..m /\ j \in 1..m /\ s[i] = s[j]
          \/ i - m \in 1..Len(t) /\ j - m \in 1..Len(t) /\ t[i - m] = t[j - m]
      BY <1>4, <2>1
    <3> QED
      BY <1>1, <1>2, <3>1
  <2> QED
    BY <1>2, <2>1 DEF Listings
<1>6. Members(c) = Members(s) \cup Members(t)
  <2>1. Members(c) = {c[i] : i \in 1..Len(c)}
    BY <1>5, ListingFacts
  <2>2. Members(c) \subseteq Members(s) \cup Members(t)
    BY <1>4, <2>1
  <2>3. \A i \in 1..m : s[i] \in Members(c)
    BY <1>2, <1>3, <2>1
  <2>4. \A i \in 1..Len(t) : t[i] \in Members(c)
    BY <1>2, <1>3, <2>1
  <2> QED
    BY <1>1, <2>2, <2>3, <2>4
<1>7. ASSUME NEW u, NEW v, Before(c, u, v)
      PROVE  \/ Before(s, u, v) \/ Before(t, u, v)
             \/ u \in Members(s) /\ v \in Members(t)
  <2>1. PICK i \in 1..Len(c), j \in 1..Len(c) : i < j /\ c[i] = u /\ c[j] = v
    BY <1>7 DEF Before
  <2>2. CASE i \in 1..m /\ j \in 1..m
    <3>1. s[i] = u /\ s[j] = v
      BY <1>2, <2>1, <2>2
    <3> QED
      BY <2>1, <2>2, <3>1 DEF Before, m
  <2>3. CASE i - m \in 1..Len(t) /\ j - m \in 1..Len(t) /\ t[i - m] = u /\ t[j - m] = v
    <3>1. i - m < j - m
      BY <1>1, <1>2, <2>1
    <3> QED
      BY <2>3, <3>1 DEF Before
  <2>4. CASE u \in Members(s) /\ v \in Members(t)
    BY <2>4
  <2>5. CASE i - m \in 1..Len(t) /\ j \in 1..m
    BY <1>1, <1>2, <2>1, <2>5
  <2> QED
    BY <1>4, <2>1, <2>2, <2>3, <2>4, <2>5
<1>8. ASSUME NEW u, NEW v, Before(s, u, v) PROVE Before(c, u, v)
  <2>1. PICK i \in 1..m, j \in 1..m : i < j /\ s[i] = u /\ s[j] = v
    BY <1>8 DEF Before, m
  <2> QED
    BY <1>2, <1>3, <2>1 DEF Before
<1>9. ASSUME NEW u, NEW v, Before(t, u, v) PROVE Before(c, u, v)
  <2>1. PICK i \in 1..Len(t), j \in 1..Len(t) : i < j /\ t[i] = u /\ t[j] = v
    BY <1>9 DEF Before
  <2>2. m + i < m + j /\ m + i \in 1..Len(c) /\ m + j \in 1..Len(c)
        /\ c[m + i] = u /\ c[m + j] = v
    BY <1>1, <1>2, <1>3, <2>1
  <2> QED
    BY <2>2 DEF Before
<1>10. ASSUME NEW u \in Members(s), NEW v \in Members(t) PROVE Before(c, u, v)
  <2>1. PICK i \in 1..m : s[i] = u
    BY <1>1
  <2>2. PICK j \in 1..Len(t) : t[j] = v
    BY <1>1
  <2>3. i < m + j /\ i \in 1..Len(c) /\ m + j \in 1..Len(c)
        /\ c[i] = u /\ c[m + j] = v
    BY <1>1, <1>2, <1>3, <2>1, <2>2
  <2> QED
    BY <2>3 DEF Before
<1> QED
  BY <1>5, <1>6, <1>7, <1>8, <1>9, <1>10 DEF c

LEMMA SplitFacts ==
  ASSUME NEW s \in Listings, NEW n \in 0..Len(s)
  PROVE  LET p == Prefix(s, n)
             r == SubSeq(s, n + 1, Len(s))
         IN  /\ p \in Listings /\ r \in Listings
             /\ Members(p) \cap Members(r) = {}
             /\ Members(s) = Members(p) \cup Members(r)
             /\ \A u, v : Before(s, u, v) <=>
                  \/ Before(p, u, v) \/ Before(r, u, v)
                  \/ u \in Members(p) /\ v \in Members(r)
<1> DEFINE p == Prefix(s, n)
           r == SubSeq(s, n + 1, Len(s))
<1>1. /\ Len(s) \in Nat /\ s \in Seq(Video)
      /\ \A i, j \in 1..Len(s) : s[i] = s[j] => i = j
  BY ListingFacts
<1>2. /\ p \in Listings /\ Len(p) = n /\ Members(p) = {s[i] : i \in 1..n}
      /\ \A i \in 1..n : p[i] = s[i]
  BY PrefixFacts
<1>3. /\ r \in Listings /\ Len(r) = Len(s) - n
      /\ Members(r) = {s[i] : i \in (n + 1)..Len(s)}
      /\ \A i \in 1..Len(r) : r[i] = s[n + i]
  BY RestFacts
<1> HIDE DEF p, r
<1>4. Members(p) \cap Members(r) = {}
  <2>1. \A i \in 1..n, j \in (n + 1)..Len(s) : i \in 1..Len(s) /\ j \in 1..Len(s) /\ i # j
    BY <1>1
  <2>2. \A i \in 1..n, j \in (n + 1)..Len(s) : s[i] # s[j]
    BY <1>1, <2>1
  <2> QED
    BY <1>2, <1>3, <2>2
<1>5. s = p \o r
  <2>1. p \in Seq(Video) /\ r \in Seq(Video)
    BY <1>2, <1>3, ListingFacts
  <2> DEFINE c == p \o r
  <2>2. /\ c \in Seq(Video) /\ Len(c) = Len(s)
        /\ \A i \in 1..n : c[i] = p[i]
        /\ \A i \in (n + 1)..Len(s) : c[i] = r[i - n]
    BY <1>1, <1>2, <1>3, <2>1
  <2> HIDE DEF c
  <2>3. ASSUME NEW i \in 1..Len(s) PROVE c[i] = s[i]
    <3>1. CASE i \in 1..n
      BY <1>2, <2>2, <3>1
    <3>2. CASE i \in (n + 1)..Len(s)
      <4>1. i - n \in 1..Len(r) /\ n + (i - n) = i
        BY <1>1, <1>3, <3>2
      <4> QED
        BY <1>3, <2>2, <3>2, <4>1
    <3> QED
      BY <1>1, <3>1, <3>2
  <2>4. c = s
    BY <1>1, <2>2, <2>3
  <2> QED
    BY <2>4 DEF c
<1>6. /\ Members(p \o r) = Members(p) \cup Members(r)
      /\ \A u, v : Before(p \o r, u, v) <=>
           \/ Before(p, u, v) \/ Before(r, u, v)
           \/ u \in Members(p) /\ v \in Members(r)
  BY <1>2, <1>3, <1>4, JoinFacts
<1>7. /\ Members(s) = Members(p) \cup Members(r)
      /\ \A u, v : Before(s, u, v) <=>
           \/ Before(p, u, v) \/ Before(r, u, v)
           \/ u \in Members(p) /\ v \in Members(r)
  BY <1>5, <1>6
<1>8. /\ p \in Listings /\ r \in Listings
      /\ Members(p) \cap Members(r) = {}
  BY <1>2, <1>3, <1>4
<1> QED
  BY <1>7, <1>8 DEF p, r

-----------------------------------------------------------------------------
LEMMA LeastFacts ==
  ASSUME NEW S \in SUBSET Nat, S # {}
  PROVE  Least(S) \in S
<1>1. PICK x \in S : \A y \in S : ~ (<<y, x>> \in OpToRel(<, Nat))
  BY NatLessThanWellFounded, WFMin
<1>2. \A y \in S : x <= y
  <2>1. ASSUME NEW y \in S PROVE x <= y
    <3>1. x \in Nat /\ y \in Nat
      OBVIOUS
    <3>2. ~ (y < x)
      BY <1>1, <3>1 DEF OpToRel
    <3> QED
      BY <3>1, <3>2
  <2> QED
    BY <2>1
<1> QED
  BY <1>2 DEF Least

LEMMA UpToFacts ==
  ASSUME NEW s \in Listings, NEW S, NEW count \in Nat \ {0}
  PROVE  \E n \in 0..Len(s) :
           /\ UpTo(s, S, count) = Prefix(s, n)
           /\ n = Len(s) \/ (n >= count /\ \A i \in (n - count + 1)..n : s[i] \in S)
           /\ StopsAt(s, S, count) # {} =>
                n >= count /\ \A i \in (n - count + 1)..n : s[i] \in S
<1>1. Len(s) \in Nat /\ Prefix(s, Len(s)) = s /\ Len(s) \in 0..Len(s)
  BY ListingFacts, PrefixFacts
<1>2. CASE StopsAt(s, S, count) = {}
  <2>1. UpTo(s, S, count) = Prefix(s, Len(s))
    BY <1>1, <1>2 DEF UpTo
  <2> QED
    BY <1>1, <1>2, <2>1
<1>3. CASE StopsAt(s, S, count) # {}
  <2> DEFINE n == Least(StopsAt(s, S, count))
  <2>1. StopsAt(s, S, count) \in SUBSET Nat
    BY <1>1 DEF StopsAt
  <2>2. n \in StopsAt(s, S, count)
    BY <1>3, <2>1, LeastFacts
  <2>3. UpTo(s, S, count) = Prefix(s, n)
    BY <1>3 DEF UpTo
  <2> HIDE DEF n
  <2>4. n \in 1..Len(s) /\ RunEnds(s, S, count, n)
    BY <2>2 DEF StopsAt
  <2>5. n \in 0..Len(s) /\ n >= count /\ \A i \in (n - count + 1)..n : s[i] \in S
    BY <1>1, <2>4 DEF RunEnds
  <2> QED
    BY <2>3, <2>5
<1> QED
  BY <1>2, <1>3

\* The entries that stand before v although they were published earlier.
Older(s, v) == {w \in Members(s) : w < v /\ Before(s, w, v)}
\* Fewer than Reach of them: a video is published among the first Reach.
NearTop(s) == \A v \in Members(s) : Cardinality(Older(s, v)) < Reach

\* A run of at least Reach entries that are all older than v is not followed
\* by v.
LEMMA BeyondRun ==
  ASSUME NEW s \in Listings, NearTop(s), NEW n \in 0..Len(s),
         NEW count \in Nat \ {0}, Reach <= count, n >= count,
         NEW v \in Members(s), v \notin Members(Prefix(s, n))
  PROVE  \E i \in (n - count + 1)..n : ~ (s[i] < v)
<1> SUFFICES ASSUME \A i \in (n - count + 1)..n : s[i] < v
             PROVE  FALSE
  OBVIOUS
<1> DEFINE older == Older(s, v)
           f == [i \in 1..count |-> s[n - count + i]]
<1>1. /\ Len(s) \in Nat /\ Members(s) = {s[i] : i \in 1..Len(s)}
      /\ \A i, j \in 1..Len(s) : s[i] = s[j] => i = j
      /\ Members(s) \subseteq Video /\ Reach \in Nat
  BY ListingFacts, DiscoveryBoundAssumption
<1>2. PICK k \in 1..Len(s) : s[k] = v
  BY <1>1
<1>3. Members(Prefix(s, n)) = {s[i] : i \in 1..n}
  BY PrefixFacts
<1>4. k > n
  <2>1. k \notin 1..n
    BY <1>2, <1>3
  <2> QED
    BY <1>1, <2>1
<1>5. ASSUME NEW i \in 1..count
      PROVE  /\ n - count + i \in 1..Len(s) /\ n - count + i \in (n - count + 1)..n
             /\ n - count + i < k
  BY <1>1, <1>4
<1>6. ASSUME NEW i \in 1..count PROVE f[i] \in older
  <2>1. s[n - count + i] < v
    BY <1>5
  <2>2. s[n - count + i] \in Members(s) /\ Before(s, s[n - count + i], v)
    BY <1>1, <1>2, <1>5 DEF Before
  <2> QED
    BY <2>1, <2>2 DEF Older
<1>7. ASSUME NEW i \in 1..count, NEW j \in 1..count, f[i] = f[j] PROVE i = j
  <2>1. n - count + i = n - count + j
    BY <1>1, <1>5, <1>7
  <2> QED
    BY <1>1, <2>1
<1>8. f \in Injection(1..count, older)
  <2>1. f \in [1..count -> older]
    <3> HIDE DEF older
    <3>1. \A i \in 1..count : f[i] \in older
      BY <1>6
    <3> QED
      BY <3>1
  <2> QED
    BY <1>7, <2>1, Fun_IsInj
<1>9. IsFiniteSet(older) /\ Cardinality(older) \in Nat
  <2>1. older \in SUBSET Members(s)
    BY DEF Older
  <2>2. IsFiniteSet(older)
    BY <2>1, MembersFinite, FS_Subset
  <2> QED
    BY <2>2, FS_CardinalityType
<1>10. Cardinality(1..count) <= Cardinality(older)
  BY <1>8, <1>9, FS_Injection
<1>11. Cardinality(1..count) = count
  BY UpToFinite
<1>12. Cardinality(older) < Reach
  BY DEF NearTop
<1> HIDE DEF older
<1> QED
  BY <1>1, <1>9, <1>10, <1>11, <1>12

-----------------------------------------------------------------------------
\* The feed after the publication of v in front of the entries after n.
LEMMA InsertFacts ==
  ASSUME NEW s \in Listings, NEW n \in 0..Len(s), NEW v \in Video,
         v \notin Members(s)
  PROVE  LET t == Prefix(s, n) \o <<v>> \o SubSeq(s, n + 1, Len(s))
         IN  /\ t \in Listings /\ Members(t) = Members(s) \cup {v}
             /\ \A x, y \in Members(s) : Before(t, x, y) <=> Before(s, x, y)
             /\ \A x : Before(t, x, v) <=> x \in Members(Prefix(s, n))
<1> DEFINE p == Prefix(s, n)
           r == SubSeq(s, n + 1, Len(s))
           one == <<v>>
           t == p \o one
           u == t \o r
<1>1. /\ p \in Listings /\ r \in Listings /\ Members(p) \cap Members(r) = {}
      /\ Members(s) = Members(p) \cup Members(r)
      /\ \A x, y : Before(s, x, y) <=>
           \/ Before(p, x, y) \/ Before(r, x, y)
           \/ x \in Members(p) /\ y \in Members(r)
  BY SplitFacts
<1>2. one \in Listings /\ Members(one) = {v} /\ \A x, y : ~ Before(one, x, y)
  BY DEF Listings, Members, Before
<1> HIDE DEF p, r, one
<1>3. Members(p) \cap Members(one) = {}
  BY <1>1, <1>2
<1>4. /\ t \in Listings /\ Members(t) = Members(p) \cup Members(one)
      /\ \A x, y : Before(t, x, y) <=>
           \/ Before(p, x, y) \/ Before(one, x, y)
           \/ x \in Members(p) /\ y \in Members(one)
  BY <1>1, <1>2, <1>3, JoinFacts
<1> HIDE DEF t
<1>5. Members(t) \cap Members(r) = {}
  BY <1>1, <1>2, <1>4
<1>6. /\ u \in Listings /\ Members(u) = Members(t) \cup Members(r)
      /\ \A x, y : Before(u, x, y) <=>
           \/ Before(t, x, y) \/ Before(r, x, y)
           \/ x \in Members(t) /\ y \in Members(r)
  BY <1>1, <1>4, <1>5, JoinFacts
<1> HIDE DEF u
<1>7. Members(u) = Members(s) \cup {v}
  BY <1>1, <1>2, <1>4, <1>6
<1>8. \A x, y : Before(r, x, y) => x \in Members(r) /\ y \in Members(r)
  BY <1>1, BeforeFacts
<1>9. \A x, y : Before(p, x, y) => x \in Members(p) /\ y \in Members(p)
  BY <1>1, BeforeFacts
<1>10. \A x, y \in Members(s) : Before(u, x, y) <=> Before(s, x, y)
  BY <1>1, <1>2, <1>4, <1>6
<1>11. \A x : Before(u, x, v) <=> x \in Members(p)
  BY <1>1, <1>2, <1>4, <1>6, <1>8, <1>9
<1> QED
  BY <1>6, <1>7, <1>10, <1>11 DEF u, t, p, r, one

\* The feed after the withdrawal of its n-th entry.
LEMMA RemoveFacts ==
  ASSUME NEW s \in Listings, NEW n \in 1..Len(s)
  PROVE  LET t == Prefix(s, n - 1) \o SubSeq(s, n + 1, Len(s))
         IN  /\ t \in Listings /\ Members(t) \subseteq Members(s)
             /\ \A x, y : Before(t, x, y) => Before(s, x, y)
<1> DEFINE p == Prefix(s, n - 1)
           q == Prefix(s, n)
           r == SubSeq(s, n + 1, Len(s))
           t == p \o r
<1>1. Len(s) \in Nat /\ n - 1 \in 0..Len(s) /\ n \in 0..Len(s)
  BY ListingFacts
<1>2. /\ q \in Listings /\ r \in Listings /\ Members(q) \cap Members(r) = {}
      /\ Members(s) = Members(q) \cup Members(r)
      /\ \A x, y : Before(s, x, y) <=>
           \/ Before(q, x, y) \/ Before(r, x, y)
           \/ x \in Members(q) /\ y \in Members(r)
  BY <1>1, SplitFacts
<1>3. /\ p \in Listings /\ Members(p) = {s[i] : i \in 1..(n - 1)} /\ Len(p) = n - 1
      /\ \A i \in 1..(n - 1) : p[i] = s[i]
      /\ Members(q) = {s[i] : i \in 1..n} /\ Len(q) = n
      /\ \A i \in 1..n : q[i] = s[i]
  BY <1>1, PrefixFacts
<1> HIDE DEF p, q, r
<1>4. Members(p) \subseteq Members(q)
  <2>1. \A i \in 1..(n - 1) : i \in 1..n
    BY <1>1
  <2> QED
    BY <1>3, <2>1
<1>5. \A x, y : Before(p, x, y) => Before(q, x, y)
  <2>1. ASSUME NEW x, NEW y, Before(p, x, y) PROVE Before(q, x, y)
    <3>1. PICK i \in 1..(n - 1), j \in 1..(n - 1) : i < j /\ p[i] = x /\ p[j] = y
      BY <1>3, <2>1 DEF Before
    <3>2. i \in 1..n /\ j \in 1..n
      BY <1>1, <3>1
    <3> QED
      BY <1>3, <3>1, <3>2 DEF Before
  <2> QED
    BY <2>1
<1>6. /\ t \in Listings /\ Members(t) = Members(p) \cup Members(r)
      /\ \A x, y : Before(t, x, y) <=>
           \/ Before(p, x, y) \/ Before(r, x, y)
           \/ x \in Members(p) /\ y \in Members(r)
  BY <1>2, <1>3, <1>4, JoinFacts
<1> HIDE DEF t
<1>7. Members(t) \subseteq Members(s) /\ \A x, y : Before(t, x, y) => Before(s, x, y)
  BY <1>2, <1>4, <1>5, <1>6
<1> QED
  BY <1>6, <1>7 DEF t, p, r

-----------------------------------------------------------------------------
(* The invariant *)

SourceType ==
  /\ feed \in Listings /\ born \in First..Last /\ Members(feed) \subseteq 1..born
  /\ titled \subseteq Video
CacheType ==
  cached \subseteq Video /\ fresh \subseteq cached /\ ctitled \subseteq cached
StoreType ==
  /\ order \in Listings /\ orderFrom \in Listings /\ coverFrom \in Listings
  /\ frontier \in [known : 1..Last, head : Video] \cup {Nothing}
  /\ coverage \in [complete : BOOLEAN, entries : 0..Last] \cup {Nothing}
RunType ==
  /\ pc \in [Proc -> PC] /\ query \in [Proc -> Queries]
  /\ prior \in [Proc -> Listings] /\ listed \in [Proc -> Listings]
  /\ observed \in [Proc -> Listings] /\ feedRead \in [Proc -> Listings]
  /\ todo \in [Proc -> Listings] /\ batch \in [Proc -> Listings]
  /\ held \in [Proc -> SUBSET Video] /\ need \in [Proc -> SUBSET Video]
  /\ rows \in [Proc -> SUBSET Video] /\ rtitled \in [Proc -> SUBSET Video]
  /\ missed \in [Proc -> SUBSET Video] /\ titleRead \in [Proc -> SUBSET Video]
  /\ confirmed \in [Proc -> BOOLEAN]

Idle(p) == pc[p] \in {"off", "look", "list"}
Candidates(p) ==
  Members(todo[p]) \cup Members(batch[p]) \cup rows[p] \cup missed[p]

\* The ids of a run are where its program counter says they are.
RunShape(p) ==
  /\ pc[p] # "fetch" => batch[p] = <<>> /\ held[p] = {}
  /\ need[p] \subseteq Members(batch[p]) /\ held[p] \subseteq Members(batch[p])
  /\ Candidates(p) \subseteq Members(observed[p])
  /\ rtitled[p] \subseteq rows[p] \cup held[p]
  /\ Idle(p) => /\ observed[p] = <<>> /\ todo[p] = <<>>
                /\ rows[p] = {} /\ missed[p] = {}
  /\ prior[p] # <<>> => query[p].mode = "incremental"

TypeInv ==
  /\ SourceType /\ CacheType /\ StoreType /\ RunType
  /\ \A p \in Proc : RunShape(p)

\* An observed video outside the candidates cannot satisfy the query; batches
\* are taken from the front; the acquisition ends at enough matches.
WorkInv(p) ==
  /\ Agrees(todo[p], observed[p])
  /\ \A w \in Members(batch[p]) \cup rows[p], v \in Members(todo[p]) :
       Before(observed[p], w, v)
  /\ \A v \in Members(observed[p]) \ Candidates(p) :
       \/ query[p].test = "both" /\ v \notin titleRead[p]
       \/ query[p].mode = "bounded" /\ Day[v] < query[p].since
  /\ query[p].test = "both" /\ query[p].mode = "bounded" =>
       Candidates(p) \subseteq titleRead[p]
  /\ pc[p] \in {"entries", "frontier", "cover", "answer"} =>
       todo[p] = <<>> \/ Cardinality(Matched(p, rows[p])) >= query[p].limit

\* s, ids of videos published until b, keeps the order of the feed f, and what
\* f has besides is newer than everything the two share.
Tracks(f, b, s) ==
  /\ Members(s) \subseteq 1..b
  /\ Agrees(f, s)
  /\ \A w \in Members(s) \cap Members(f), u \in Members(f) \ Members(s) : w < u

\* What a run observed of the feed f it read.
Observes(q, f, b, read, all) ==
  /\ Agrees(read, all)
  /\ IF q.mode = "bounded"
     THEN \A v \in Members(read) \ Members(all) : Day[v] < q.since
     ELSE Tracks(f, b, all) /\ Members(read) \subseteq Members(all)

ListingInv ==
  /\ NearTop(feed) /\ Tracks(feed, born, order) /\ TrustedOrder
  /\ \A p \in Proc :
       /\ Tracks(feed, born, prior[p])
       /\ ~ Idle(p) => Observes(query[p], feed, born, feedRead[p], observed[p])

CachedInv ==
  /\ \A p \in Proc : rows[p] \cup held[p] \subseteq cached
  /\ CoverageHonest

-----------------------------------------------------------------------------
LEMMA PutFacts ==
  ASSUME NEW S, NEW f \in [Proc -> S], NEW p \in Proc, NEW v
  PROVE  /\ Put(f, p, v)[p] = v
         /\ \A q \in Proc \ {p} : Put(f, p, v)[q] = f[q]
         /\ v \in S => Put(f, p, v) \in [Proc -> S]
BY DEF Put

Same(q) ==
  /\ pc'[q] = pc[q] /\ query'[q] = query[q]
  /\ prior'[q] = prior[q] /\ listed'[q] = listed[q]
  /\ confirmed'[q] = confirmed[q] /\ observed'[q] = observed[q]
  /\ feedRead'[q] = feedRead[q] /\ titleRead'[q] = titleRead[q]
  /\ todo'[q] = todo[q] /\ batch'[q] = batch[q]
  /\ held'[q] = held[q] /\ need'[q] = need[q] /\ rows'[q] = rows[q]
  /\ rtitled'[q] = rtitled[q] /\ missed'[q] = missed[q]

LEMMA SameShape ==
  ASSUME NEW q, Same(q), RunShape(q)
  PROVE  RunShape(q)'
BY DEF Same, RunShape, Idle, Candidates

LEMMA SameWork ==
  ASSUME NEW q, Same(q), WorkInv(q)
  PROVE  WorkInv(q)'
<1>1. Candidates(q)' = Candidates(q)
  BY DEF Same, Candidates
<1>2. Matched(q, rows[q])' = Matched(q, rows[q])
  BY DEF Same, Matched
<1> QED
  BY <1>1, <1>2 DEF Same, WorkInv

\* A step of one run leaves the others alone.
LEMMA OthersSame ==
  ASSUME RunType, NEW p \in Proc, Start(p) \/ Step(p) \/ Fails(p)
  PROVE  \A q \in Proc \ {p} : Same(q)
<1> SUFFICES ASSUME NEW q \in Proc \ {p} PROVE Same(q)
  OBVIOUS
<1>1. ASSUME Start(p) PROVE Same(q)
  BY <1>1 DEF Start, Put, Goto, Same, RunType, work
<1>1a. ASSUME ReadFrontier(p) PROVE Same(q)
  BY <1>1a DEF ReadFrontier, Put, Goto, Same, RunType, work
<1>2. ASSUME NEW read, NEW all, NEW sure, NEW out, Observe(p, read, all, sure, out)
      PROVE  Same(q)
  BY <1>2 DEF Observe, Put, Goto, Same, RunType
<1>3. ASSUME ListOverlap(p) PROVE Same(q)
  BY <1>2, <1>3 DEF ListOverlap
<1>4. ASSUME ListAll(p) PROVE Same(q)
  BY <1>2, <1>4 DEF ListAll, Ends
<1>5. ASSUME ListBounded(p) PROVE Same(q)
  BY <1>2, <1>5 DEF ListBounded
<1>6. ASSUME BatchBegin(p) PROVE Same(q)
  BY <1>6 DEF BatchBegin, Portion, Put, Goto, Same, RunType, listing
<1>7. ASSUME Fetch(p) PROVE Same(q)
  BY <1>7 DEF Fetch, Put, Same, RunType, listing
<1>8. ASSUME FetchSkips(p) PROVE Same(q)
  BY <1>8 DEF FetchSkips, Put, Same, RunType, listing
<1>9. ASSUME BatchEnd(p) PROVE Same(q)
  BY <1>9 DEF BatchEnd, Put, Goto, Same, RunType, listing
<1>10. ASSUME RecordEntries(p) \/ RecordFrontier(p) \/ RecordCoverage(p) PROVE Same(q)
  BY <1>10 DEF RecordEntries, RecordFrontier, RecordCoverage, Goto, Same, RunType,
               listing, work
<1>11. ASSUME Forget(p) PROVE Same(q)
  BY <1>11 DEF Forget, Put, Goto, Same, RunType
<1> QED
  BY <1>1, <1>1a, <1>3, <1>4, <1>5, <1>6, <1>7, <1>8, <1>9, <1>10, <1>11
     DEF Step, Finish, Fails

LEMMA SourceSame ==
  ASSUME Publish \/ Withdraw \/ Retitle \/ Age \/ UNCHANGED vars
  PROVE  /\ \A q \in Proc : Same(q)
         /\ RunType => RunType'
BY DEF Publish, Withdraw, Retitle, Age, vars, Same, listing, work, RunType

-----------------------------------------------------------------------------
(* What a listing observes *)

LEMMA ConstantFacts ==
  /\ Confirm \in Nat \ {0} /\ Boundary \in Nat \ {0} /\ Reach \in Nat
  /\ Reach <= Confirm /\ Reach <= Boundary
  /\ Drift \in Nat /\ Margin \in Nat /\ Drift <= Margin
  /\ Last \in Nat /\ Video \subseteq Nat
<1>1. /\ Confirm \in Nat \ {0} /\ Boundary \in Nat \ {0} /\ Reach \in Nat
      /\ Drift \in Nat /\ Margin \in Nat /\ Last \in Nat
  BY DiscoveryBoundAssumption
<1>2. Reach <= Confirm /\ Reach <= Boundary /\ Drift <= Margin
  BY FeedAssumption
<1>3. Video \subseteq Nat
  BY <1>1 DEF Video
<1> QED
  BY <1>1, <1>2, <1>3

LEMMA PrefixAgrees ==
  ASSUME NEW s \in Listings, NEW n \in 0..Len(s)
  PROVE  /\ Agrees(s, Prefix(s, n)) /\ Members(Prefix(s, n)) \subseteq Members(s)
<1> DEFINE p == Prefix(s, n)
           r == SubSeq(s, n + 1, Len(s))
<1>1. /\ p \in Listings /\ r \in Listings /\ Members(p) \cap Members(r) = {}
      /\ Members(s) = Members(p) \cup Members(r)
      /\ \A u, v : Before(s, u, v) <=>
           \/ Before(p, u, v) \/ Before(r, u, v)
           \/ u \in Members(p) /\ v \in Members(r)
  BY SplitFacts
<1> HIDE DEF p, r
<1>2. \A u, v : Before(r, u, v) => u \in Members(r)
  BY <1>1, BeforeFacts
<1>3. Agrees(s, p)
  BY <1>1, <1>2 DEF Agrees
<1> QED
  BY <1>1, <1>3 DEF p

LEMMA MergedFacts ==
  ASSUME NEW read \in Listings, NEW before \in Listings
  PROVE  LET all == Merged(read, before)
         IN  /\ all \in Listings
             /\ Members(all) = Members(read) \cup Members(before)
             /\ \A u, v : Before(read, u, v) => Before(all, u, v)
             /\ \A u \in Members(read), v \in Members(before) \ Members(read) :
                  Before(all, u, v)
             /\ \A u, v \in Members(before) \ Members(read) :
                  Before(before, u, v) => Before(all, u, v)
<1> DEFINE known == Kept(before, Video \ Members(read))
           all == read \o known
<1>1. /\ known \in Listings
      /\ Members(known) = Members(before) \cap (Video \ Members(read))
      /\ \A u, v : Before(known, u, v) <=>
           Before(before, u, v) /\ u \in Video \ Members(read) /\ v \in Video \ Members(read)
  BY KeptFacts
<1>2. Members(before) \subseteq Video
  BY ListingFacts
<1> HIDE DEF known
<1>3. Members(read) \cap Members(known) = {}
  BY <1>1
<1>4. /\ all \in Listings /\ Members(all) = Members(read) \cup Members(known)
      /\ \A u, v : Before(all, u, v) <=>
           \/ Before(read, u, v) \/ Before(known, u, v)
           \/ u \in Members(read) /\ v \in Members(known)
  BY <1>1, <1>3, JoinFacts
<1> HIDE DEF all
<1>5. Merged(read, before) = all
  BY DEF Merged, known, all
<1> QED
  BY <1>1, <1>2, <1>4, <1>5

\* A run of Confirm known entries is followed by known entries only: the
\* merged ordering holds the whole feed, in its order.
LEMMA OverlapObserves ==
  ASSUME NEW f \in Listings, NEW b \in Nat, Members(f) \subseteq 1..b, NearTop(f),
         NEW before \in Listings, Tracks(f, b, before),
         NEW n \in 0..Len(f), n >= Confirm,
         \A i \in (n - Confirm + 1)..n : f[i] \in Members(before)
  PROVE  LET all == Merged(Prefix(f, n), before)
         IN  Agrees(f, all) /\ Tracks(f, b, all) /\ Members(f) \subseteq Members(all)
<1> DEFINE read == Prefix(f, n)
           rest == SubSeq(f, n + 1, Len(f))
           all == Merged(read, before)
<1>1. /\ read \in Listings /\ rest \in Listings
      /\ Members(read) \cap Members(rest) = {}
      /\ Members(f) = Members(read) \cup Members(rest)
      /\ \A u, v : Before(f, u, v) <=>
           \/ Before(read, u, v) \/ Before(rest, u, v)
           \/ u \in Members(read) /\ v \in Members(rest)
  BY SplitFacts
<1>2. /\ all \in Listings
      /\ Members(all) = Members(read) \cup Members(before)
      /\ \A u, v : Before(read, u, v) => Before(all, u, v)
      /\ \A u \in Members(read), v \in Members(before) \ Members(read) :
           Before(all, u, v)
      /\ \A u, v \in Members(before) \ Members(read) :
           Before(before, u, v) => Before(all, u, v)
  BY <1>1, MergedFacts
<1>3. Len(f) \in Nat /\ Confirm \in Nat \ {0} /\ Reach <= Confirm
      /\ \A i \in 1..Len(f) : f[i] \in Members(f)
  <2>1. Len(f) \in Nat /\ \A i \in 1..Len(f) : f[i] \in Members(f)
    BY ListingFacts
  <2> QED
    BY <2>1, ConstantFacts
<1>4. ASSUME NEW v \in Members(f), v \notin Members(read)
      PROVE  v \in Members(before)
  <2>1. PICK i \in (n - Confirm + 1)..n : ~ (f[i] < v)
    BY <1>3, <1>4, BeyondRun
  <2>2. f[i] \in Members(before) \cap Members(f)
    BY <1>3, <2>1
  <2> QED
    BY <1>4, <2>1, <2>2 DEF Tracks
<1> HIDE DEF read, rest, all
<1>5. Members(f) \subseteq Members(all)
  BY <1>2, <1>4
<1>6. ASSUME NEW u \in Members(f), NEW v \in Members(f), Before(f, u, v)
      PROVE  Before(all, u, v)
  <2>1. CASE Before(read, u, v)
    BY <1>2, <2>1
  <2>2. CASE Before(rest, u, v)
    <3>1. u \in Members(rest) /\ v \in Members(rest)
      BY <1>1, <2>2, BeforeFacts
    <3>2. u \in Members(before) \ Members(read) /\ v \in Members(before) \ Members(read)
      BY <1>1, <1>4, <3>1
    <3>3. Before(before, u, v)
      BY <1>6, <3>2 DEF Tracks, Agrees
    <3> QED
      BY <1>2, <3>2, <3>3
  <2>3. CASE u \in Members(read) /\ v \in Members(rest)
    BY <1>1, <1>2, <1>4, <2>3
  <2> QED
    BY <1>1, <1>6, <2>1, <2>2, <2>3
<1>7. Agrees(f, all)
  BY <1>6 DEF Agrees
<1>8. Members(all) \subseteq 1..b
  BY <1>1, <1>2 DEF Tracks
<1>9. Tracks(f, b, all)
  BY <1>5, <1>7, <1>8 DEF Tracks
<1> QED
  BY <1>5, <1>7, <1>9 DEF all, read

\* What a date boundary leaves out is older than the bound of the query.
LEMMA BoundaryObserves ==
  ASSUME NEW f \in Listings, NEW b \in Nat, NearTop(f), NEW since \in Nat,
         NEW old, \A v \in old : v \in Video /\ Day[v] - Drift < since - Margin,
         NEW v \in Members(f), v \notin Members(UpTo(f, old, Boundary))
  PROVE  Day[v] < since
<1>1. /\ Len(f) \in Nat /\ Boundary \in Nat \ {0} /\ Reach <= Boundary
      /\ Drift \in Nat /\ Margin \in Nat /\ Drift <= Margin
      /\ Members(f) \subseteq Video /\ Video \subseteq Nat
      /\ Prefix(f, Len(f)) = f
  <2>1. Len(f) \in Nat /\ Members(f) \subseteq Video /\ Len(f) \in 0..Len(f)
    BY ListingFacts
  <2>2. Prefix(f, Len(f)) = f
    BY <2>1, PrefixFacts
  <2> QED
    BY <2>1, <2>2, ConstantFacts
<1>2. PICK n \in 0..Len(f) :
        /\ UpTo(f, old, Boundary) = Prefix(f, n)
        /\ n = Len(f) \/ (n >= Boundary /\ \A i \in (n - Boundary + 1)..n : f[i] \in old)
  BY <1>1, UpToFacts
<1>3. v \notin Members(Prefix(f, n))
  BY <1>2
<1>4. n >= Boundary /\ \A i \in (n - Boundary + 1)..n : f[i] \in old
  BY <1>1, <1>2, <1>3
<1>5. PICK i \in (n - Boundary + 1)..n : ~ (f[i] < v)
  BY <1>1, <1>3, <1>4, BeyondRun
<1>6. f[i] \in Video /\ Day[f[i]] - Drift < since - Margin
  BY <1>1, <1>4, <1>5
<1>7. v \in Video /\ v <= f[i]
  <2>1. v \in Nat /\ f[i] \in Nat
    BY <1>1, <1>6
  <2> QED
    BY <1>1, <1>5, <2>1
<1>8. Day[v] \in Nat /\ Day[f[i]] \in Nat /\ Day[v] <= Day[f[i]]
  BY <1>6, <1>7, DayAssumption
<1>9. Day[f[i]] < since
  BY <1>1, <1>6, <1>8
<1> QED
  BY <1>8, <1>9

\* The videos left out of the candidates cannot satisfy q.
GoodOut(q, all, titles, out) ==
  /\ \A v \in Members(all) \cap out :
       \/ q.test = "both" /\ v \notin titles
       \/ q.mode = "bounded" /\ Day[v] < q.since
  /\ q.test = "both" /\ q.mode = "bounded" => Members(all) \ out \subseteq titles

LEMMA ListingSteps ==
  ASSUME SourceType, RunType, NEW p \in Proc, RunShape(p),
         ListOverlap(p) \/ ListAll(p) \/ ListBounded(p)
  PROVE  \E read, all \in Listings, sure \in BOOLEAN : \E out :
           /\ Observe(p, read, all, sure, out) /\ pc[p] = "list"
           /\ GoodOut(query[p], all, titled, out)
           /\ ~ Cuts /\ NearTop(feed) /\ Tracks(feed, born, prior[p]) =>
                Observes(query[p], feed, born, feed, all)
<1> USE DEF SourceType, RunType
<1>1. /\ feed \in Listings /\ Members(feed) \subseteq 1..born /\ Len(feed) \in Nat
      /\ born \in Nat /\ prior[p] \in Listings /\ query[p] \in Query
      /\ query[p].since \in Nat /\ Prefix(feed, Len(feed)) = feed
  BY ListingFacts, PrefixFacts, QueryAssumption, DiscoveryBoundAssumption DEF Query
<1>2. CASE ListOverlap(p)
  <2> DEFINE S == Members(prior[p])
             read == UpTo(feed, S, Confirm)
             all == Merged(read, prior[p])
             out == Rejected(query[p], read, titled)
  <2>1. /\ pc[p] = "list" /\ Observe(p, read, all, TRUE, out)
        /\ StopsAt(feed, S, Confirm) # {} /\ query[p].mode = "incremental"
    BY <1>2 DEF ListOverlap, RunShape
  <2>2. PICK n \in 0..Len(feed) :
          /\ read = Prefix(feed, n)
          /\ n >= Confirm /\ \A i \in (n - Confirm + 1)..n : feed[i] \in S
    <3>1. Confirm \in Nat \ {0}
      BY DiscoveryBoundAssumption
    <3> QED
      BY <1>1, <2>1, <3>1, UpToFacts
  <2>3. read \in Listings
    BY <1>1, <2>2, PrefixFacts
  <2>4. all \in Listings
    BY <1>1, <2>3, MergedFacts
  <2>5. GoodOut(query[p], all, titled, out)
    BY <2>1 DEF GoodOut, Rejected
  <2>6. ASSUME NearTop(feed), Tracks(feed, born, prior[p])
        PROVE  Observes(query[p], feed, born, feed, all)
    <3>1. /\ Agrees(feed, Merged(Prefix(feed, n), prior[p]))
          /\ Tracks(feed, born, Merged(Prefix(feed, n), prior[p]))
          /\ Members(feed) \subseteq Members(Merged(Prefix(feed, n), prior[p]))
      BY <1>1, <2>2, <2>6, OverlapObserves
    <3>2. Agrees(feed, all) /\ Tracks(feed, born, all) /\ Members(feed) \subseteq Members(all)
      BY <2>2, <3>1
    <3> HIDE DEF all
    <3> QED
      BY <2>1, <3>2 DEF Observes
  <2> HIDE DEF S, read, all, out
  <2> QED
    BY <2>1, <2>3, <2>4, <2>5, <2>6
<1>3. CASE ListAll(p)
  <2>1. PICK n \in 0..Len(feed) :
          /\ n = Len(feed) \/ Cuts
          /\ Observe(p, Prefix(feed, n), Prefix(feed, n), FALSE,
                     Rejected(query[p], Prefix(feed, n), titled))
    BY <1>3 DEF ListAll, Ends
  <2> DEFINE read == Prefix(feed, n)
             out == Rejected(query[p], read, titled)
  <2>2. pc[p] = "list" /\ query[p].mode # "bounded"
    BY <1>3 DEF ListAll, Ends
  <2>3. read \in Listings
    BY <1>1, PrefixFacts
  <2>4. GoodOut(query[p], read, titled, out)
    BY <2>2 DEF GoodOut, Rejected
  <2>5. ASSUME ~ Cuts PROVE Observes(query[p], feed, born, feed, read)
    <3>1. read = feed
      BY <1>1, <2>1, <2>5
    <3>2. Agrees(feed, feed) /\ Tracks(feed, born, feed)
      BY <1>1 DEF Agrees, Tracks
    <3> QED
      BY <2>2, <3>1, <3>2 DEF Observes
  <2>6. Observe(p, read, read, FALSE, out)
    BY <2>1
  <2> HIDE DEF read, out
  <2> QED
    BY <2>2, <2>3, <2>4, <2>5, <2>6
<1>4. CASE ListBounded(p)
  <2>1. PICK old \in SUBSET MayLookOld(query[p]), dated \in BOOLEAN :
          LET read == UpTo(feed, old, Boundary)
              before == {v \in Members(read) : dated /\ Day[v] < query[p].since}
          IN  Observe(p, read, read, FALSE,
                      before \cup Rejected(query[p], read, titled))
    BY <1>4 DEF ListBounded
  <2> DEFINE read == UpTo(feed, old, Boundary)
             before == {v \in Members(read) : dated /\ Day[v] < query[p].since}
             out == before \cup Rejected(query[p], read, titled)
  <2>2. pc[p] = "list" /\ query[p].mode = "bounded"
    BY <1>4 DEF ListBounded
  <2>3. PICK n \in 0..Len(feed) : read = Prefix(feed, n)
    <3>1. Boundary \in Nat \ {0}
      BY DiscoveryBoundAssumption
    <3> QED
      BY <1>1, <3>1, UpToFacts
  <2>4. read \in Listings /\ Agrees(feed, read)
    BY <1>1, <2>3, PrefixFacts, PrefixAgrees
  <2>5. GoodOut(query[p], read, titled, out)
    <3> HIDE DEF read
    <3> QED
      BY <2>2 DEF GoodOut, Rejected
  <2>6. ASSUME NearTop(feed) PROVE Observes(query[p], feed, born, feed, read)
    <3>1. \A v \in old : v \in Video /\ Day[v] - Drift < query[p].since - Margin
      BY <1>1, ListingFacts DEF MayLookOld, Threshold
    <3>2. \A v \in Members(feed) \ Members(read) : Day[v] < query[p].since
      <4>1. ASSUME NEW v \in Members(feed), v \notin Members(UpTo(feed, old, Boundary))
            PROVE  Day[v] < query[p].since
        BY <1>1, <2>6, <3>1, <4>1, BoundaryObserves
      <4> QED
        BY <4>1
    <3> HIDE DEF read
    <3> QED
      BY <2>2, <2>4, <3>2 DEF Observes
  <2>7. Observe(p, read, read, FALSE, out)
    BY <2>1
  <2> HIDE DEF read, before, out
  <2> QED
    BY <2>2, <2>4, <2>5, <2>6, <2>7
<1> QED
  BY <1>2, <1>3, <1>4

-----------------------------------------------------------------------------
(* Types and shapes are kept by every step *)

LEMMA QueryFacts ==
  ASSUME RunType, NEW p \in Proc
  PROVE  /\ query[p] \in Query /\ query[p].limit \in Nat /\ query[p].since \in Nat
         /\ query[p].mode \in {"incremental", "full", "bounded"}
         /\ query[p].test \in {"detail", "either", "both"}
BY QueryAssumption DEF RunType, Query

\* The other runs keep their shape; what remains is the run that moves.
LEMMA RunStep ==
  ASSUME TypeInv, NEW p \in Proc, Start(p) \/ Step(p) \/ Fails(p),
         RunType', RunShape(p)', SourceType', CacheType', StoreType'
  PROVE  TypeInv'
<1>1. \A q \in Proc \ {p} : Same(q)
  BY OthersSame DEF TypeInv
<1>2. \A q \in Proc \ {p} : RunShape(q)'
  BY <1>1, SameShape DEF TypeInv
<1> QED
  BY <1>2 DEF TypeInv

LEMMA StartType ==
  ASSUME TypeInv, NEW p \in Proc, Start(p)
  PROVE  TypeInv'
<1> USE DEF TypeInv
<1>1. PICK q \in Queries :
        /\ query' = Put(query, p, q)
        /\ prior' = Put(prior, p, IF q.mode = "incremental" THEN order ELSE <<>>)
        /\ pc' = Put(pc, p, IF q.mode = "incremental" THEN "look" ELSE "list")
  BY DEF Start, Goto, Put
<1>2. /\ pc[p] = "off"
      /\ UNCHANGED <<source, store, cache, listed, confirmed, observed, feedRead,
                     titleRead, work>>
  BY DEF Start
<1>3. RunType'
  <2>1. (IF q.mode = "incremental" THEN order ELSE <<>>) \in Listings
    BY EmptyListing DEF StoreType
  <2>2. (IF q.mode = "incremental" THEN "look" ELSE "list") \in PC
    BY DEF PC
  <2> QED
    BY <1>1, <1>2, <2>1, <2>2, PutFacts DEF RunType, work
<1>4. /\ query'[p] = q /\ pc'[p] \in {"look", "list"}
      /\ prior'[p] # <<>> => q.mode = "incremental"
  BY <1>1 DEF Put, RunType
<1>5. RunShape(p)'
  BY <1>2, <1>4 DEF RunShape, Idle, Candidates, work
<1> QED
  BY <1>2, <1>3, <1>5, RunStep
     DEF source, store, cache, SourceType, CacheType, StoreType

LEMMA FrontierType ==
  ASSUME TypeInv, NEW p \in Proc, ReadFrontier(p)
  PROVE  /\ TypeInv' /\ pc'[p] = "list"
         /\ prior'[p] = prior[p] \/ prior'[p] = <<>>
<1> USE DEF TypeInv
<1>1. /\ prior' = Put(prior, p, IF frontier = Nothing THEN <<>> ELSE prior[p])
      /\ pc' = Put(pc, p, "list") /\ pc[p] = "look"
      /\ UNCHANGED <<source, store, cache, query, listed, confirmed, observed, feedRead,
                     titleRead, work>>
  BY DEF ReadFrontier, Goto, Put
<1>2. RunType'
  <2>1. (IF frontier = Nothing THEN <<>> ELSE prior[p]) \in Listings
    BY EmptyListing DEF RunType
  <2>2. "list" \in PC
    BY DEF PC
  <2> QED
    BY <1>1, <2>1, <2>2, PutFacts DEF RunType, work
<1>3. pc'[p] = "list" /\ (prior'[p] = prior[p] \/ prior'[p] = <<>>)
  BY <1>1 DEF Put, RunType
<1>4. RunShape(p)'
  BY <1>1, <1>3 DEF RunShape, Idle, Candidates, work
<1>5. SourceType' /\ CacheType' /\ StoreType'
  BY <1>1 DEF source, store, cache, SourceType, CacheType, StoreType
<1>6. TypeInv'
  <2>1. Start(p) \/ Step(p) \/ Fails(p)
    BY DEF Step
  <2> HIDE DEF TypeInv
  <2> QED
    BY <1>2, <1>4, <1>5, <2>1, RunStep
<1> QED
  BY <1>3, <1>6

LEMMA ObserveEffect ==
  ASSUME TypeInv, NEW p \in Proc, pc[p] = "list", NEW read \in Listings,
         NEW all \in Listings, NEW sure \in BOOLEAN, NEW out,
         Observe(p, read, all, sure, out)
  PROVE  /\ listed'[p] = read /\ observed'[p] = all /\ feedRead'[p] = feed
         /\ titleRead'[p] = titled /\ todo'[p] = Kept(all, Video \ out)
         /\ pc'[p] = IF todo'[p] = <<>> THEN "entries" ELSE "begin"
         /\ UNCHANGED <<source, store, cache, query, prior, batch, held, need,
                        rows, rtitled, missed>>
         /\ rows[p] = {} /\ missed[p] = {} /\ batch[p] = <<>> /\ held[p] = {}
         /\ RunType' /\ RunShape(p)'
<1> USE DEF TypeInv
<1>1. /\ listed' = Put(listed, p, read) /\ observed' = Put(observed, p, all)
      /\ confirmed' = Put(confirmed, p, sure)
      /\ todo' = Put(todo, p, Kept(all, Video \ out))
      /\ feedRead' = Put(feedRead, p, feed) /\ titleRead' = Put(titleRead, p, titled)
      /\ pc' = Put(pc, p, IF todo'[p] = <<>> THEN "entries" ELSE "begin")
      /\ UNCHANGED <<source, store, cache, query, prior, batch, held, need, rows,
                     rtitled, missed>>
  BY DEF Observe, Goto, Put
<1>2. /\ Kept(all, Video \ out) \in Listings
      /\ Members(Kept(all, Video \ out)) = Members(all) \cap (Video \ out)
  BY KeptFacts
<1>3. /\ listed'[p] = read /\ observed'[p] = all /\ feedRead'[p] = feed
      /\ titleRead'[p] = titled /\ todo'[p] = Kept(all, Video \ out)
      /\ pc'[p] = IF todo'[p] = <<>> THEN "entries" ELSE "begin"
  BY <1>1 DEF Put, RunType
<1>4. /\ listed' \in [Proc -> Listings] /\ observed' \in [Proc -> Listings]
      /\ todo' \in [Proc -> Listings] /\ feedRead' \in [Proc -> Listings]
      /\ confirmed' \in [Proc -> BOOLEAN]
  BY <1>1, <1>2, PutFacts DEF RunType, SourceType
<1>5. pc' \in [Proc -> PC]
  <2>1. (IF todo'[p] = <<>> THEN "entries" ELSE "begin") \in PC
    BY DEF PC
  <2> QED
    BY <1>1, <2>1, PutFacts DEF RunType
<1>6. titleRead' \in [Proc -> SUBSET Video]
  BY <1>1, PutFacts DEF RunType, SourceType
<1>7. RunType'
  BY <1>1, <1>4, <1>5, <1>6 DEF RunType
<1>8. /\ rows[p] = {} /\ missed[p] = {} /\ batch[p] = <<>> /\ held[p] = {}
      /\ need[p] = {} /\ rtitled[p] = {} /\ Members(batch[p]) = {}
      /\ prior[p] # <<>> => query[p].mode = "incremental"
  BY EmptyListing DEF RunShape, Idle
<1>9. Candidates(p)' \subseteq Members(all)
  BY <1>1, <1>2, <1>3, <1>8 DEF Candidates
<1>10. RunShape(p)'
  BY <1>1, <1>3, <1>8, <1>9 DEF RunShape, Idle
<1> QED
  BY <1>1, <1>3, <1>7, <1>8, <1>10

LEMMA ObserveType ==
  ASSUME TypeInv, NEW p \in Proc, ListOverlap(p) \/ ListAll(p) \/ ListBounded(p)
  PROVE  TypeInv'
<1>0. PICK read \in Listings, all \in Listings, sure \in BOOLEAN : \E out :
        Observe(p, read, all, sure, out) /\ pc[p] = "list"
  BY ListingSteps DEF TypeInv
<1>1. PICK out :
        Observe(p, read, all, sure, out) /\ pc[p] = "list"
  BY <1>0
<1>2. RunType' /\ RunShape(p)' /\ UNCHANGED <<source, store, cache>>
  <2>1. /\ UNCHANGED <<source, store, cache, query, prior, batch, held, need, rows,
                       rtitled, missed>>
        /\ RunType' /\ RunShape(p)'
    BY <1>1, ObserveEffect, ZenonT(60)
  <2> QED
    BY <2>1
<1> QED
  BY <1>2, RunStep
     DEF Step, TypeInv, source, store, cache, SourceType, CacheType, StoreType

\* The batch is the front of the candidates.
LEMMA BatchBeginEffect ==
  ASSUME TypeInv, NEW p \in Proc, BatchBegin(p)
  PROVE  \E n \in 0..Len(todo[p]) :
           /\ batch'[p] = Prefix(todo[p], n)
           /\ todo'[p] = SubSeq(todo[p], n + 1, Len(todo[p]))
           /\ held'[p] = Members(batch'[p]) \cap cached
           /\ need'[p] = Members(batch'[p]) \ fresh
           /\ rtitled'[p] = rtitled[p] \cup (Members(batch'[p]) \cap ctitled)
           /\ pc'[p] = "fetch" /\ pc[p] = "begin"
           /\ UNCHANGED <<source, store, cache, query, listing, rows, missed>>
           /\ RunType' /\ RunShape(p)'
<1> USE DEF TypeInv
<1> DEFINE n == IF Limited(query[p]) /\ Batch < Len(todo[p]) THEN Batch
                ELSE Len(todo[p])
           ids == Prefix(todo[p], n)
           rest == SubSeq(todo[p], n + 1, Len(todo[p]))
<1>1. /\ batch' = Put(batch, p, ids) /\ todo' = Put(todo, p, rest)
      /\ held' = Put(held, p, Members(ids) \cap cached)
      /\ need' = Put(need, p, Members(ids) \ fresh)
      /\ rtitled' = Put(rtitled, p, rtitled[p] \cup (Members(ids) \cap ctitled))
      /\ pc' = Put(pc, p, "fetch") /\ pc[p] = "begin"
      /\ UNCHANGED <<source, store, cache, query, listing, rows, missed>>
  BY DEF BatchBegin, Portion, Goto, Put
<1>2. todo[p] \in Listings /\ Len(todo[p]) \in Nat
  BY ListingFacts DEF RunType
<1>3. n \in 0..Len(todo[p])
  BY <1>2, DiscoveryBoundAssumption
<1> HIDE DEF n
<1>4. /\ ids \in Listings /\ rest \in Listings
      /\ Members(todo[p]) = Members(ids) \cup Members(rest)
  BY <1>2, <1>3, SplitFacts
<1> HIDE DEF ids, rest
<1>5. Members(ids) \subseteq Video
  BY <1>4, ListingFacts
<1>6. /\ batch'[p] = ids /\ todo'[p] = rest
      /\ held'[p] = Members(ids) \cap cached /\ need'[p] = Members(ids) \ fresh
      /\ rtitled'[p] = rtitled[p] \cup (Members(ids) \cap ctitled)
      /\ pc'[p] = "fetch"
  BY <1>1 DEF Put, RunType
<1>7. batch' \in [Proc -> Listings] /\ todo' \in [Proc -> Listings]
  BY <1>1, <1>4, PutFacts DEF RunType
<1>8. /\ held' \in [Proc -> SUBSET Video] /\ need' \in [Proc -> SUBSET Video]
      /\ rtitled' \in [Proc -> SUBSET Video]
  <2>1. rtitled[p] \cup (Members(ids) \cap ctitled) \in SUBSET Video
    BY <1>5 DEF RunType
  <2> QED
    BY <1>1, <1>5, <2>1, PutFacts DEF RunType
<1>9. pc' \in [Proc -> PC]
  <2>1. "fetch" \in PC
    BY DEF PC
  <2> QED
    BY <1>1, <2>1, PutFacts DEF RunType
<1>10. RunType'
  BY <1>1, <1>7, <1>8, <1>9 DEF RunType, listing
<1>11. /\ rtitled[p] \subseteq rows[p] /\ Members(batch[p]) = {}
       /\ Candidates(p) \subseteq Members(observed[p])
       /\ prior[p] # <<>> => query[p].mode = "incremental"
  BY <1>1, EmptyListing DEF RunShape
<1>12. Candidates(p)' = Candidates(p)
  BY <1>1, <1>4, <1>6, <1>11 DEF Candidates
<1>13. ctitled \subseteq cached
  BY DEF CacheType
<1>14. RunShape(p)'
  BY <1>1, <1>6, <1>11, <1>12, <1>13 DEF RunShape, Idle, listing
<1> QED
  BY <1>1, <1>3, <1>6, <1>10, <1>14 DEF ids, rest

LEMMA NextNeeded ==
  ASSUME TypeInv, NEW p \in Proc, need[p] # {}
  PROVE  Head(Kept(batch[p], need[p])) \in need[p] \cap Members(batch[p]) \cap Video
<1> DEFINE k == Kept(batch[p], need[p])
<1>1. batch[p] \in Listings /\ need[p] \subseteq Members(batch[p])
  BY DEF TypeInv, RunType, RunShape
<1>2. k \in Listings /\ Members(k) = need[p]
  BY <1>1, KeptFacts
<1> HIDE DEF k
<1>3. Len(k) # 0 /\ Len(k) \in Nat /\ k \in Seq(Video)
  BY <1>2, ListingFacts
<1>4. Head(k) = k[1] /\ k[1] \in Members(k)
  BY <1>2, <1>3, ListingFacts
<1> QED
  BY <1>1, <1>2, <1>4, ListingFacts DEF k

LEMMA FetchEffect ==
  ASSUME TypeInv, NEW p \in Proc, Fetch(p)
  PROVE  \E v \in need[p] \cap Members(batch[p]) \cap Video :
           /\ held'[p] = held[p] \cup {v} /\ need'[p] = need[p] \ {v}
           /\ cached \subseteq cached' /\ (~ Specialised => v \in cached')
           /\ UNCHANGED <<source, store, pc, query, listing, todo, batch, rows,
                          missed>>
           /\ CacheType' /\ RunType' /\ RunShape(p)' /\ pc[p] = "fetch"
<1> USE DEF TypeInv
<1> DEFINE v == Head(Kept(batch[p], need[p]))
<1>1. v \in need[p] \cap Members(batch[p]) \cap Video
  BY NextNeeded DEF Fetch
<1>2. /\ held' = Put(held, p, held[p] \cup {v}) /\ need' = Put(need, p, need[p] \ {v})
      /\ rtitled' = Put(rtitled, p, (rtitled[p] \ {v}) \cup ({v} \cap titled))
      /\ UNCHANGED <<source, store, pc, query, listing, todo, batch, rows, missed>>
      /\ pc[p] = "fetch"
  BY DEF Fetch
<1>3. \/ /\ cached' = cached \cup {v} /\ fresh' = fresh \cup {v}
         /\ ctitled' = (ctitled \ {v}) \cup ({v} \cap titled)
      \/ Specialised /\ UNCHANGED cache
  BY DEF Fetch
<1> HIDE DEF v
<1>4. CacheType' /\ cached \subseteq cached' /\ (~ Specialised => v \in cached')
  BY <1>1, <1>3 DEF CacheType, cache
<1>5. /\ held'[p] = held[p] \cup {v} /\ need'[p] = need[p] \ {v}
      /\ rtitled'[p] = (rtitled[p] \ {v}) \cup ({v} \cap titled)
  BY <1>2 DEF Put, RunType
<1>6. /\ held' \in [Proc -> SUBSET Video] /\ need' \in [Proc -> SUBSET Video]
      /\ rtitled' \in [Proc -> SUBSET Video]
  <2>1. /\ held[p] \cup {v} \in SUBSET Video /\ need[p] \ {v} \in SUBSET Video
        /\ (rtitled[p] \ {v}) \cup ({v} \cap titled) \in SUBSET Video
    BY <1>1 DEF RunType
  <2> QED
    BY <1>2, <2>1, PutFacts DEF RunType
<1>7. RunType'
  BY <1>2, <1>6 DEF RunType, listing
<1>8. RunShape(p)'
  BY <1>1, <1>2, <1>5 DEF RunShape, Idle, Candidates, listing
<1> QED
  BY <1>1, <1>2, <1>4, <1>5, <1>7, <1>8

LEMMA FetchSkipsEffect ==
  ASSUME TypeInv, NEW p \in Proc, FetchSkips(p)
  PROVE  /\ UNCHANGED <<source, store, cache, pc, query, listing, todo, batch,
                        held, rows, rtitled, missed>>
         /\ RunType' /\ RunShape(p)'
<1> USE DEF TypeInv
<1> DEFINE v == Head(Kept(batch[p], need[p]))
<1>1. /\ need' = Put(need, p, need[p] \ {v})
      /\ UNCHANGED <<source, store, cache, pc, query, listing, todo, batch, held,
                     rows, rtitled, missed>>
  BY DEF FetchSkips
<1> HIDE DEF v
<1>2. need'[p] = need[p] \ {v} /\ need' \in [Proc -> SUBSET Video]
  <2>1. need[p] \ {v} \in SUBSET Video
    BY DEF RunType
  <2> QED
    BY <1>1, <2>1 DEF Put, RunType
<1>3. RunType'
  BY <1>1, <1>2 DEF RunType, listing
<1>4. RunShape(p)'
  BY <1>1, <1>2 DEF RunShape, Idle, Candidates, listing
<1> QED
  BY <1>1, <1>3, <1>4

LEMMA BatchEndEffect ==
  ASSUME TypeInv, NEW p \in Proc, BatchEnd(p)
  PROVE  /\ rows'[p] = rows[p] \cup held[p]
         /\ missed'[p] = missed[p] \cup (Members(batch[p]) \ held[p])
         /\ batch'[p] = <<>> /\ held'[p] = {}
         /\ pc'[p] = IF \/ todo[p] = <<>>
                        \/ Cardinality(Matched(p, rows'[p])) >= query[p].limit
                     THEN "entries" ELSE "begin"
         /\ UNCHANGED <<source, store, cache, query, listing, todo, need, rtitled>>
         /\ RunType' /\ RunShape(p)'
<1> USE DEF TypeInv
<1>1. /\ rows' = Put(rows, p, rows[p] \cup held[p])
      /\ missed' = Put(missed, p, missed[p] \cup (Members(batch[p]) \ held[p]))
      /\ batch' = Put(batch, p, <<>>) /\ held' = Put(held, p, {})
      /\ pc' = Put(pc, p, IF \/ todo[p] = <<>>
                             \/ Cardinality(Matched(p, rows'[p])) >= query[p].limit
                          THEN "entries" ELSE "begin")
      /\ pc[p] = "fetch" /\ need[p] = {}
      /\ UNCHANGED <<source, store, cache, query, listing, todo, need, rtitled>>
  BY DEF BatchEnd, Goto, Put
<1>2. /\ rows'[p] = rows[p] \cup held[p]
      /\ missed'[p] = missed[p] \cup (Members(batch[p]) \ held[p])
      /\ batch'[p] = <<>> /\ held'[p] = {}
      /\ pc'[p] = IF \/ todo[p] = <<>>
                     \/ Cardinality(Matched(p, rows'[p])) >= query[p].limit
                  THEN "entries" ELSE "begin"
  BY <1>1 DEF Put, RunType
<1>3. pc'[p] \in {"entries", "begin"} /\ pc' \in [Proc -> PC]
  <2>1. (IF \/ todo[p] = <<>>
            \/ Cardinality(Matched(p, rows'[p])) >= query[p].limit
         THEN "entries" ELSE "begin") \in PC
    BY DEF PC
  <2> QED
    BY <1>1, <1>2, <2>1, PutFacts DEF RunType
<1>4. /\ batch[p] \in Listings /\ Members(batch[p]) \subseteq Video
      /\ held[p] \subseteq Video /\ rows[p] \subseteq Video /\ missed[p] \subseteq Video
  BY ListingFacts DEF RunType
<1>5. /\ rows' \in [Proc -> SUBSET Video] /\ missed' \in [Proc -> SUBSET Video]
      /\ held' \in [Proc -> SUBSET Video] /\ batch' \in [Proc -> Listings]
  BY <1>1, <1>4, EmptyListing, PutFacts DEF RunType
<1>6. RunType'
  BY <1>1, <1>3, <1>5 DEF RunType, listing
<1>7. Members(<<>>) = {}
  BY EmptyListing
<1>8. RunShape(p)'
  BY <1>1, <1>2, <1>3, <1>7 DEF RunShape, Idle, Candidates, listing
<1> QED
  BY <1>1, <1>2, <1>6, <1>8

\* The commits of a run only move its program counter and the store.
LEMMA RecordEffect ==
  ASSUME TypeInv, NEW p \in Proc,
         RecordEntries(p) \/ RecordFrontier(p) \/ RecordCoverage(p)
  PROVE  /\ pc[p] \in {"entries", "frontier", "cover"}
         /\ pc'[p] \in {"frontier", "cover", "answer"}
         /\ UNCHANGED <<source, cache, query, listing, work>>
         /\ RunType' /\ RunShape(p)'
<1> USE DEF TypeInv
<1>1. \E l \in {"frontier", "cover", "answer"} : pc' = [pc EXCEPT ![p] = l]
  BY DEF RecordEntries, RecordFrontier, RecordCoverage, Goto
<1>2. /\ pc[p] \in {"entries", "frontier", "cover"}
      /\ UNCHANGED <<source, cache, query, listing, work>>
  BY DEF RecordEntries, RecordFrontier, RecordCoverage
<1>3. pc'[p] \in {"frontier", "cover", "answer"} /\ pc' \in [Proc -> PC]
  BY <1>1 DEF RunType, PC
<1>4. RunType'
  BY <1>2, <1>3 DEF RunType, listing, work
<1>5. RunShape(p)'
  BY <1>2, <1>3 DEF RunShape, Idle, Candidates, listing, work
<1> QED
  BY <1>2, <1>3, <1>4, <1>5

LEMMA RecordType ==
  ASSUME TypeInv, NEW p \in Proc,
         RecordEntries(p) \/ RecordFrontier(p) \/ RecordCoverage(p)
  PROVE  StoreType'
<1> USE DEF TypeInv
<1>1. /\ observed[p] \in Listings /\ feedRead[p] \in Listings /\ listed[p] \in Listings
      /\ Len(observed[p]) \in 0..Last /\ Len(listed[p]) \in 0..Last
      /\ observed[p] \in Seq(Video)
  BY ListingFacts, LengthBound DEF RunType
<1>2. CASE RecordEntries(p)
  BY <1>1, <1>2 DEF RecordEntries, StoreType
<1>3. CASE RecordFrontier(p)
  <2>1. ASSUME observed[p] # <<>>
        PROVE  Len(observed[p]) \in 1..Last /\ observed[p][1] \in Video
    BY <1>1, <2>1
  <2>2. frontier' \in [known : 1..Last, head : Video] \cup {Nothing}
    BY <1>3, <2>1 DEF RecordFrontier, Records, StoreType
  <2> QED
    BY <1>3, <2>2 DEF RecordFrontier, StoreType
<1>4. CASE RecordCoverage(p)
  <2>1. CompleteCoverage(p) \in BOOLEAN /\ Seen(p) \in 0..Last
    BY <1>1 DEF CompleteCoverage, Seen
  <2>2. coverage' \in [complete : BOOLEAN, entries : 0..Last]
    BY <1>4, <2>1 DEF RecordCoverage
  <2> QED
    BY <1>1, <1>4, <2>2 DEF RecordCoverage, StoreType
<1> QED
  BY <1>2, <1>3, <1>4

LEMMA ForgetEffect ==
  ASSUME TypeInv, NEW p \in Proc, Forget(p)
  PROVE  /\ pc'[p] = "off" /\ prior'[p] = <<>> /\ observed'[p] = <<>>
         /\ todo'[p] = <<>> /\ batch'[p] = <<>> /\ rows'[p] = {}
         /\ held'[p] = {} /\ need'[p] = {} /\ rtitled'[p] = {}
         /\ missed'[p] = {}
         /\ RunType' /\ RunShape(p)'
<1> USE DEF TypeInv
<1>1. /\ pc'[p] = "off" /\ prior'[p] = <<>> /\ observed'[p] = <<>>
      /\ todo'[p] = <<>> /\ batch'[p] = <<>> /\ rows'[p] = {}
      /\ held'[p] = {} /\ need'[p] = {} /\ rtitled'[p] = {} /\ missed'[p] = {}
  BY DEF Forget, Goto, Put, RunType
<1>2. (CHOOSE q \in Queries : TRUE) \in Queries
  BY QueryAssumption
<1>3. "off" \in PC /\ <<>> \in Listings /\ Members(<<>>) = {}
  BY EmptyListing DEF PC
<1>4. /\ pc' \in [Proc -> PC] /\ query' \in [Proc -> Queries]
      /\ confirmed' \in [Proc -> BOOLEAN]
  BY <1>2, <1>3 DEF Forget, Goto, Put, RunType
<1>5. /\ prior' \in [Proc -> Listings] /\ listed' \in [Proc -> Listings]
      /\ observed' \in [Proc -> Listings] /\ feedRead' \in [Proc -> Listings]
      /\ todo' \in [Proc -> Listings] /\ batch' \in [Proc -> Listings]
  BY <1>3 DEF Forget, Put, RunType
<1>6. /\ held' \in [Proc -> SUBSET Video] /\ need' \in [Proc -> SUBSET Video]
      /\ rows' \in [Proc -> SUBSET Video] /\ rtitled' \in [Proc -> SUBSET Video]
      /\ missed' \in [Proc -> SUBSET Video] /\ titleRead' \in [Proc -> SUBSET Video]
  BY DEF Forget, Put, RunType
<1>7. RunType'
  BY <1>4, <1>5, <1>6 DEF RunType
<1>8. RunShape(p)'
  BY <1>1, <1>3 DEF RunShape, Idle, Candidates
<1> QED
  BY <1>1, <1>7, <1>8

LEMMA DescendingFacts ==
  /\ Descending(First) \in Listings /\ Members(Descending(First)) \subseteq 1..First
  /\ NearTop(Descending(First))
<1> DEFINE d == Descending(First)
<1>1. First \in Nat /\ Last \in Nat /\ First <= Last /\ Reach \in Nat \ {0}
  BY DiscoveryBoundAssumption
<1>2. d \in [1..First -> 1..First] /\ \A i \in 1..First : d[i] = First + 1 - i
  BY <1>1 DEF Descending
<1> HIDE DEF d
<1>3. d \in Seq(Video) /\ Len(d) = First /\ DOMAIN d = 1..First
  BY <1>1, <1>2 DEF Video
<1>4. d \in Listings
  BY <1>1, <1>2, <1>3 DEF Listings
<1>5. Members(d) \subseteq 1..First
  BY <1>2, <1>3 DEF Members
<1>6. ASSUME NEW v \in Members(d) PROVE Cardinality(Older(d, v)) < Reach
  <2>1. ASSUME NEW w, Before(d, w, v) PROVE ~ (w < v)
    <3>1. PICK i \in 1..First, j \in 1..First : i < j /\ d[i] = w /\ d[j] = v
      BY <1>3, <2>1 DEF Before
    <3> QED
      BY <1>1, <1>2, <3>1
  <2>2. Older(d, v) = {}
    BY <2>1 DEF Older
  <2> QED
    BY <1>1, <2>2, FS_EmptySet
<1> QED
  BY <1>4, <1>5, <1>6 DEF NearTop, d

LEMMA InitType ==
  ASSUME Init
  PROVE  TypeInv
<1>1. SourceType
  BY DescendingFacts, DiscoveryBoundAssumption, QueryAssumption DEF Init, SourceType
<1>2. CacheType /\ StoreType
  BY EmptyListing DEF Init, CacheType, StoreType
<1>3. RunType
  <2>1. (CHOOSE q \in Queries : TRUE) \in Queries
    BY QueryAssumption
  <2> QED
    BY <2>1, EmptyListing DEF Init, RunType, PC
<1>4. \A p \in Proc : RunShape(p)
  BY EmptyListing DEF Init, RunShape, Idle, Candidates
<1> QED
  BY <1>1, <1>2, <1>3, <1>4 DEF TypeInv

\* What publication and withdrawal do to the feed.
LEMMA PublishEffect ==
  ASSUME TypeInv, Publish
  PROVE  /\ born < Last /\ born' = born + 1 /\ feed' \in Listings
         /\ Members(feed') = Members(feed) \cup {born'}
         /\ \A x, y \in Members(feed) : Before(feed', x, y) <=> Before(feed, x, y)
         /\ \E n \in 0..Len(feed) :
              n < Reach /\ \A x : Before(feed', x, born') <=> x \in Members(Prefix(feed, n))
         /\ born' \notin Members(feed) /\ born' \in Video
         /\ UNCHANGED <<titled, store, cache, pc, query, listing, work>>
<1>1. /\ feed \in Listings /\ Len(feed) \in Nat /\ Members(feed) \subseteq 1..born
      /\ born \in Nat /\ First \in Nat /\ Last \in Nat /\ Reach \in Nat
  BY ListingFacts, DiscoveryBoundAssumption DEF TypeInv, SourceType
<1>2. /\ born < Last /\ born' = born + 1
      /\ UNCHANGED <<titled, store, cache, pc, query, listing, work>>
  BY DEF Publish
<1>3. born' \in Video /\ born' \notin Members(feed)
  BY <1>1, <1>2 DEF Video
<1>4. PICK n \in 0..(Reach - 1) :
        /\ n <= Len(feed)
        /\ feed' = Prefix(feed, n) \o <<born'>> \o SubSeq(feed, n + 1, Len(feed))
  BY DEF Publish
<1>5. n \in 0..Len(feed) /\ n < Reach
  BY <1>1, <1>4
<1>6. /\ feed' \in Listings
      /\ Members(feed') = Members(feed) \cup {born'}
      /\ \A x, y \in Members(feed) : Before(feed', x, y) <=> Before(feed, x, y)
      /\ \A x : Before(feed', x, born') <=> x \in Members(Prefix(feed, n))
  BY <1>1, <1>3, <1>4, <1>5, InsertFacts
<1> QED
  BY <1>2, <1>3, <1>5, <1>6

LEMMA WithdrawEffect ==
  ASSUME TypeInv, Withdraw
  PROVE  /\ feed' \in Listings /\ Members(feed') \subseteq Members(feed)
         /\ \A x, y : Before(feed', x, y) => Before(feed, x, y)
         /\ UNCHANGED <<born, titled, store, cache, pc, query, listing, work>>
<1>1. feed \in Listings /\ DOMAIN feed = 1..Len(feed)
  BY ListingFacts DEF TypeInv, SourceType
<1>2. PICK n \in 1..Len(feed) :
        feed' = Prefix(feed, n - 1) \o SubSeq(feed, n + 1, Len(feed))
  BY <1>1 DEF Withdraw
<1>3. /\ feed' \in Listings /\ Members(feed') \subseteq Members(feed)
      /\ \A x, y : Before(feed', x, y) => Before(feed, x, y)
  BY <1>1, <1>2, RemoveFacts
<1> QED
  BY <1>3 DEF Withdraw

LEMMA TypeNext ==
  ASSUME TypeInv, [Next]_vars
  PROVE  TypeInv'
<1> USE DEF TypeInv
<1>1. ASSUME Publish \/ Withdraw \/ Retitle \/ Age \/ UNCHANGED vars
      PROVE  TypeInv'
  <2>1. RunType' /\ \A p \in Proc : RunShape(p)'
    BY <1>1, SourceSame, SameShape
  <2>2. SourceType'
    <3>1. CASE Publish
      <4>1. /\ born < Last /\ born' = born + 1 /\ feed' \in Listings
            /\ Members(feed') = Members(feed) \cup {born'} /\ titled' = titled
        BY <3>1, PublishEffect
      <4>2. First \in Nat /\ Last \in Nat
        BY DiscoveryBoundAssumption
      <4> QED
        BY <4>1, <4>2 DEF SourceType
    <3>2. CASE Withdraw
      BY <3>2, WithdrawEffect DEF SourceType
    <3>3. CASE Retitle \/ Age \/ UNCHANGED vars
      <4>1. feed' = feed /\ born' = born
        BY <3>3 DEF Retitle, Age, vars, source
      <4>2. Members(feed) \subseteq Video
        BY ListingFacts DEF SourceType
      <4>3. titled' \subseteq Video
        BY <3>3, <4>2 DEF Retitle, Age, vars, source, SourceType
      <4> QED
        BY <4>1, <4>3 DEF SourceType
    <3> QED
      BY <1>1, <3>1, <3>2, <3>3
  <2>3. CacheType' /\ StoreType'
    BY <1>1 DEF Publish, Withdraw, Retitle, Age, vars, cache, store, CacheType, StoreType
  <2> QED
    BY <2>1, <2>2, <2>3
<1>2. ASSUME NEW p \in Proc, Start(p) \/ Step(p) \/ Fails(p)
      PROVE  TypeInv'
  <2>1. CASE Start(p) \/ ReadFrontier(p)
    BY <2>1, StartType, FrontierType
  <2>2. CASE ListOverlap(p) \/ ListAll(p) \/ ListBounded(p)
    BY <2>2, ObserveType
  <2>3. CASE BatchBegin(p)
    <3>1. RunType' /\ RunShape(p)' /\ UNCHANGED <<source, store, cache>>
      BY <2>3, BatchBeginEffect
    <3> QED
      BY <1>2, <3>1, RunStep
         DEF source, store, cache, SourceType, CacheType, StoreType
  <2>4. CASE Fetch(p)
    <3>1. RunType' /\ RunShape(p)' /\ CacheType' /\ UNCHANGED <<source, store>>
      BY <2>4, FetchEffect
    <3> QED
      BY <1>2, <3>1, RunStep DEF source, store, SourceType, StoreType
  <2>5. CASE FetchSkips(p)
    <3>1. RunType' /\ RunShape(p)' /\ UNCHANGED <<source, store, cache>>
      BY <2>5, FetchSkipsEffect
    <3> QED
      BY <1>2, <3>1, RunStep
         DEF source, store, cache, SourceType, CacheType, StoreType
  <2>6. CASE BatchEnd(p)
    <3>1. RunType' /\ RunShape(p)' /\ UNCHANGED <<source, store, cache>>
      BY <2>6, BatchEndEffect
    <3> QED
      BY <1>2, <3>1, RunStep
         DEF source, store, cache, SourceType, CacheType, StoreType
  <2>7. CASE RecordEntries(p) \/ RecordFrontier(p) \/ RecordCoverage(p)
    <3>1. RunType' /\ RunShape(p)' /\ UNCHANGED <<source, cache>> /\ StoreType'
      BY <2>7, RecordEffect, RecordType
    <3> QED
      BY <1>2, <3>1, RunStep DEF source, cache, SourceType, CacheType
  <2>8. CASE Finish(p) \/ Fails(p)
    <3>1. RunType' /\ RunShape(p)' /\ UNCHANGED <<source, store, cache>>
      BY <2>8, ForgetEffect DEF Finish, Fails
    <3> QED
      BY <1>2, <3>1, RunStep
         DEF source, store, cache, SourceType, CacheType, StoreType
  <2> QED
    BY <1>2, <2>1, <2>2, <2>3, <2>4, <2>5, <2>6, <2>7, <2>8 DEF Step
<1> QED
  BY <1>1, <1>2 DEF Next

LEMMA TypesImplyTypeOK ==
  ASSUME TypeInv
  PROVE  TypeOK
<1> USE DEF TypeInv
<1>1. Members(feed) \subseteq 1..born /\ born \in First..Last /\ titled \subseteq Video
  BY DEF SourceType
<1>2. fresh \subseteq cached /\ cached \subseteq Video /\ ctitled \subseteq cached
  BY DEF CacheType
<1>3. /\ Members(order) \subseteq Video
      /\ frontier \in [known : 1..Last, head : Video] \cup {Nothing}
      /\ coverage \in [complete : BOOLEAN, entries : 0..Last] \cup {Nothing}
  BY ListingFacts DEF StoreType
<1>4. /\ pc \in [Proc -> PC] /\ query \in [Proc -> Queries]
      /\ confirmed \in [Proc -> BOOLEAN]
  BY DEF RunType
<1>5. ASSUME NEW p \in Proc
      PROVE  /\ Members(prior[p]) \cup Members(listed[p]) \subseteq Video
             /\ Members(todo[p]) \cup Members(batch[p]) \cup need[p] \cup held[p]
                  \subseteq Video
             /\ rows[p] \cup missed[p] \subseteq Members(observed[p])
             /\ rtitled[p] \subseteq rows[p] \cup held[p]
  <2>1. /\ prior[p] \in Listings /\ listed[p] \in Listings /\ todo[p] \in Listings
        /\ batch[p] \in Listings /\ need[p] \subseteq Video /\ held[p] \subseteq Video
    BY DEF RunType
  <2>2. /\ Members(prior[p]) \subseteq Video /\ Members(listed[p]) \subseteq Video
        /\ Members(todo[p]) \subseteq Video /\ Members(batch[p]) \subseteq Video
    BY <2>1, ListingFacts
  <2> QED
    BY <2>1, <2>2 DEF RunShape, Candidates
<1> QED
  BY <1>1, <1>2, <1>3, <1>4, <1>5 DEF TypeOK

\* The types of Discovery's state: rows and missed candidates were observed,
\* what was fetched is a record read or a row, the stored frontier and coverage
\* count at most the videos there are.
THEOREM TypeCorrect == Spec => []TypeOK
<1>1. Init => TypeInv
  BY InitType
<1>2. TypeInv /\ [Next]_vars => TypeInv'
  BY TypeNext
<1>3. TypeInv => TypeOK
  BY TypesImplyTypeOK
<1> QED
  BY <1>1, <1>2, <1>3, PTL DEF Spec

-----------------------------------------------------------------------------
(* What the candidates, batches and rows of a run mean is kept too *)

LEMMA IdleWork ==
  ASSUME NEW p, RunShape(p)', Idle(p)'
  PROVE  WorkInv(p)'
<1>1. /\ observed'[p] = <<>> /\ todo'[p] = <<>> /\ batch'[p] = <<>>
      /\ rows'[p] = {} /\ missed'[p] = {} /\ Members(<<>>) = {}
      /\ pc'[p] \in {"off", "look", "list"}
  BY EmptyListing DEF RunShape, Idle
<1>2. Candidates(p)' = {}
  BY <1>1 DEF Candidates
<1> QED
  BY <1>1, <1>2 DEF WorkInv, Agrees

LEMMA ObserveWork ==
  ASSUME TypeInv, NEW p \in Proc, ListOverlap(p) \/ ListAll(p) \/ ListBounded(p)
  PROVE  WorkInv(p)'
<1>0. PICK read \in Listings, all \in Listings, sure \in BOOLEAN : \E out :
        /\ Observe(p, read, all, sure, out) /\ pc[p] = "list"
        /\ GoodOut(query[p], all, titled, out)
  BY ListingSteps DEF TypeInv
<1>1. PICK out :
        /\ Observe(p, read, all, sure, out) /\ pc[p] = "list"
        /\ GoodOut(query[p], all, titled, out)
  BY <1>0
<1>2. /\ observed'[p] = all /\ titleRead'[p] = titled
      /\ todo'[p] = Kept(all, Video \ out)
      /\ pc'[p] = IF todo'[p] = <<>> THEN "entries" ELSE "begin"
      /\ query' = query /\ rows'[p] = {} /\ missed'[p] = {} /\ batch'[p] = <<>>
  <2>0. pc[p] = "list" /\ Observe(p, read, all, sure, out)
    BY <1>1
  <2>1. /\ listed'[p] = read /\ observed'[p] = all /\ feedRead'[p] = feed
        /\ titleRead'[p] = titled /\ todo'[p] = Kept(all, Video \ out)
        /\ pc'[p] = IF todo'[p] = <<>> THEN "entries" ELSE "begin"
        /\ UNCHANGED <<source, store, cache, query, prior, batch, held, need, rows,
                       rtitled, missed>>
        /\ rows[p] = {} /\ missed[p] = {} /\ batch[p] = <<>> /\ held[p] = {}
        /\ RunType' /\ RunShape(p)'
    BY <2>0, ObserveEffect, ZenonT(60)
  <2> QED
    BY <2>1
<1>3. /\ Members(todo'[p]) = Members(all) \cap (Video \ out)
      /\ \A u, v : Before(todo'[p], u, v) => Before(all, u, v)
      /\ Members(all) \subseteq Video
  BY <1>2, KeptFacts, ListingFacts
<1>4. Candidates(p)' = Members(all) \ out
  BY <1>2, <1>3, EmptyListing DEF Candidates
<1>5. Agrees(todo'[p], observed'[p])
  BY <1>2, <1>3 DEF Agrees
<1>6. Members(batch'[p]) \cup rows'[p] = {}
  BY <1>2, EmptyListing
<1>7. \A v \in Members(observed'[p]) \ Candidates(p)' :
        \/ query'[p].test = "both" /\ v \notin titleRead'[p]
        \/ query'[p].mode = "bounded" /\ Day[v] < query'[p].since
  BY <1>1, <1>2, <1>4 DEF GoodOut
<1>8. query'[p].test = "both" /\ query'[p].mode = "bounded" =>
        Candidates(p)' \subseteq titleRead'[p]
  BY <1>1, <1>2, <1>4 DEF GoodOut
<1>9. pc'[p] \in {"entries", "frontier", "cover", "answer"} => todo'[p] = <<>>
  BY <1>2
<1> QED
  BY <1>5, <1>6, <1>7, <1>8, <1>9 DEF WorkInv

LEMMA BatchBeginWork ==
  ASSUME TypeInv, NEW p \in Proc, WorkInv(p), BatchBegin(p)
  PROVE  WorkInv(p)'
<1>1. PICK n \in 0..Len(todo[p]) :
        /\ batch'[p] = Prefix(todo[p], n)
        /\ todo'[p] = SubSeq(todo[p], n + 1, Len(todo[p]))
        /\ pc'[p] = "fetch" /\ pc[p] = "begin"
        /\ UNCHANGED <<query, listing, rows, missed>>
  BY BatchBeginEffect
<1>2. todo[p] \in Listings /\ batch[p] = <<>> /\ Members(todo[p]) \subseteq Members(observed[p])
  BY <1>1 DEF TypeInv, RunType, RunShape, Candidates
<1>3. /\ Members(todo[p]) = Members(batch'[p]) \cup Members(todo'[p])
      /\ todo'[p] \in Listings
      /\ \A u, v : Before(todo[p], u, v) <=>
           \/ Before(batch'[p], u, v) \/ Before(todo'[p], u, v)
           \/ u \in Members(batch'[p]) /\ v \in Members(todo'[p])
  BY <1>1, <1>2, SplitFacts
<1>4. observed' = observed /\ titleRead' = titleRead /\ query' = query /\ rows' = rows
  BY <1>1 DEF listing
<1>5. Candidates(p)' = Candidates(p)
  BY <1>1, <1>2, <1>3, EmptyListing DEF Candidates
<1>6. Agrees(todo'[p], observed'[p])
  <2>1. ASSUME NEW u \in Members(todo'[p]), NEW v \in Members(todo'[p]),
               Before(todo'[p], u, v)
        PROVE  Before(observed[p], u, v)
    <3>1. Before(todo[p], u, v)
      BY <1>3, <2>1
    <3> QED
      BY <1>2, <1>3, <3>1 DEF WorkInv, Agrees
  <2> QED
    BY <1>4, <2>1 DEF Agrees
<1>7. ASSUME NEW w \in Members(batch'[p]) \cup rows'[p], NEW v \in Members(todo'[p])
      PROVE  Before(observed'[p], w, v)
  <2>1. CASE w \in Members(batch'[p])
    <3>1. Before(todo[p], w, v) /\ w \in Members(todo[p]) /\ v \in Members(todo[p])
      BY <1>3, <2>1
    <3>2. Before(observed[p], w, v)
      BY <1>2, <3>1 DEF WorkInv, Agrees
    <3> QED
      BY <1>4, <3>2
  <2>2. CASE w \in rows[p]
    BY <1>3, <1>4, <2>2 DEF WorkInv
  <2> QED
    BY <1>4, <1>7, <2>1, <2>2
<1>8. /\ \A v \in Members(observed'[p]) \ Candidates(p)' :
           \/ query'[p].test = "both" /\ v \notin titleRead'[p]
           \/ query'[p].mode = "bounded" /\ Day[v] < query'[p].since
      /\ query'[p].test = "both" /\ query'[p].mode = "bounded" =>
           Candidates(p)' \subseteq titleRead'[p]
  BY <1>4, <1>5 DEF WorkInv
<1> QED
  BY <1>1, <1>6, <1>7, <1>8 DEF WorkInv

LEMMA FetchWork ==
  ASSUME TypeInv, NEW p \in Proc, WorkInv(p), Fetch(p) \/ FetchSkips(p)
  PROVE  WorkInv(p)'
<1>1. UNCHANGED <<pc, query, listing, todo, batch, rows, missed>> /\ pc[p] = "fetch"
  BY DEF Fetch, FetchSkips
<1>2. Candidates(p)' = Candidates(p)
  BY <1>1 DEF Candidates
<1> QED
  BY <1>1, <1>2 DEF WorkInv, listing

LEMMA BatchEndWork ==
  ASSUME TypeInv, NEW p \in Proc, WorkInv(p), BatchEnd(p)
  PROVE  WorkInv(p)'
<1>1. /\ rows'[p] = rows[p] \cup held[p]
      /\ missed'[p] = missed[p] \cup (Members(batch[p]) \ held[p])
      /\ batch'[p] = <<>>
      /\ pc'[p] = IF \/ todo[p] = <<>>
                     \/ Cardinality(Matched(p, rows'[p])) >= query[p].limit
                  THEN "entries" ELSE "begin"
      /\ UNCHANGED <<query, listing, todo, rtitled>>
  BY BatchEndEffect
<1>2. held[p] \subseteq Members(batch[p]) /\ Members(<<>>) = {}
  BY EmptyListing DEF TypeInv, RunShape
<1>3. Candidates(p)' = Candidates(p)
  BY <1>1, <1>2 DEF Candidates
<1>4. Matched(p, rows[p])' = Matched(p, rows'[p])
  BY <1>1 DEF Matched
<1>5. observed' = observed /\ titleRead' = titleRead
  BY <1>1 DEF listing
<1>6. Agrees(todo'[p], observed'[p])
  BY <1>1, <1>5 DEF WorkInv
<1>7. \A w \in Members(batch'[p]) \cup rows'[p], v \in Members(todo'[p]) :
        Before(observed'[p], w, v)
  BY <1>1, <1>2, <1>5 DEF WorkInv
<1>8. /\ \A v \in Members(observed'[p]) \ Candidates(p)' :
           \/ query'[p].test = "both" /\ v \notin titleRead'[p]
           \/ query'[p].mode = "bounded" /\ Day[v] < query'[p].since
      /\ query'[p].test = "both" /\ query'[p].mode = "bounded" =>
           Candidates(p)' \subseteq titleRead'[p]
  BY <1>1, <1>3, <1>5 DEF WorkInv
<1>9. pc'[p] \in {"entries", "frontier", "cover", "answer"} =>
        todo'[p] = <<>> \/ Cardinality(Matched(p, rows[p])') >= query'[p].limit
  BY <1>1, <1>4
<1> QED
  BY <1>6, <1>7, <1>8, <1>9 DEF WorkInv

LEMMA RecordWork ==
  ASSUME TypeInv, NEW p \in Proc, WorkInv(p),
         RecordEntries(p) \/ RecordFrontier(p) \/ RecordCoverage(p)
  PROVE  WorkInv(p)'
<1>1. /\ pc[p] \in {"entries", "frontier", "cover"}
      /\ UNCHANGED <<query, listing, work>>
  BY RecordEffect
<1>2. Candidates(p)' = Candidates(p)
  BY <1>1 DEF Candidates, work
<1>3. Matched(p, rows[p])' = Matched(p, rows[p])
  BY <1>1 DEF Matched, work
<1> QED
  BY <1>1, <1>2, <1>3 DEF WorkInv, listing, work

LEMMA WorkNext ==
  ASSUME TypeInv, \A p \in Proc : WorkInv(p), [Next]_vars
  PROVE  \A p \in Proc : WorkInv(p)'
<1>1. CASE Publish \/ Withdraw \/ Retitle \/ Age \/ UNCHANGED vars
  BY <1>1, SourceSame, SameWork
<1>2. ASSUME NEW p \in Proc, Start(p) \/ Step(p) \/ Fails(p)
      PROVE  \A q \in Proc : WorkInv(q)'
  <2>1. \A q \in Proc \ {p} : WorkInv(q)'
    BY <1>2, OthersSame, SameWork DEF TypeInv
  <2>2. RunShape(p)'
    BY TypeNext DEF TypeInv
  <2>3. WorkInv(p)'
    <3>1. CASE Start(p) \/ ReadFrontier(p)
      <4>1. Idle(p)'
        BY <3>1, FrontierType DEF Start, Goto, Idle, TypeInv, RunType
      <4> QED
        BY <2>2, <4>1, IdleWork
    <3>2. CASE ListOverlap(p) \/ ListAll(p) \/ ListBounded(p)
      BY <3>2, ObserveWork
    <3>3. CASE BatchBegin(p)
      BY <3>3, BatchBeginWork
    <3>4. CASE Fetch(p) \/ FetchSkips(p)
      BY <3>4, FetchWork
    <3>5. CASE BatchEnd(p)
      BY <3>5, BatchEndWork
    <3>6. CASE RecordEntries(p) \/ RecordFrontier(p) \/ RecordCoverage(p)
      BY <3>6, RecordWork
    <3>7. CASE Finish(p) \/ Fails(p)
      <4>1. Idle(p)'
        BY <3>7, ForgetEffect DEF Finish, Fails, Idle
      <4> QED
        BY <2>2, <4>1, IdleWork
    <3> QED
      BY <1>2, <3>1, <3>2, <3>3, <3>4, <3>5, <3>6, <3>7 DEF Step
  <2> QED
    BY <2>1, <2>3
<1> QED
  BY <1>1, <1>2 DEF Next

LEMMA InitWork ==
  ASSUME Init
  PROVE  \A p \in Proc : WorkInv(p)
<1> SUFFICES ASSUME NEW p \in Proc PROVE WorkInv(p)
  OBVIOUS
<1>1. /\ observed[p] = <<>> /\ todo[p] = <<>> /\ batch[p] = <<>>
      /\ rows[p] = {} /\ missed[p] = {} /\ Members(<<>>) = {} /\ pc[p] = "off"
  BY EmptyListing DEF Init
<1>2. Candidates(p) = {}
  BY <1>1 DEF Candidates
<1> QED
  BY <1>1, <1>2 DEF WorkInv, Agrees

-----------------------------------------------------------------------------
(* The answer of a run *)

Found(p) == {v \in rows[p] : Satisfies(query[p], v, Title(p, v))}

\* The answer is the front of the matching rows, in the observed order.
LEMMA AnswerFacts ==
  ASSUME TypeInv, NEW p \in Proc
  PROVE  /\ Answer(p) \in Listings /\ Members(Answer(p)) \subseteq Found(p)
         /\ Cardinality(Found(p)) >= query[p].limit => Len(Answer(p)) = query[p].limit
         /\ \A v \in Found(p) \ Members(Answer(p)) :
              /\ Len(Answer(p)) = query[p].limit
              /\ \A w \in Members(Answer(p)) : Before(observed[p], w, v)
<1> DEFINE found == Kept(observed[p], Found(p))
           limit == query[p].limit
<1>1. observed[p] \in Listings /\ limit \in Nat /\ Found(p) \subseteq Members(observed[p])
  BY QueryFacts DEF TypeInv, RunType, RunShape, Candidates, Found
<1>2. /\ found \in Listings /\ Members(found) = Members(observed[p]) \cap Found(p)
      /\ \A u, v : Before(found, u, v) <=>
                   Before(observed[p], u, v) /\ u \in Found(p) /\ v \in Found(p)
  BY <1>1, KeptFacts
<1>3. Members(found) = Found(p)
  BY <1>1, <1>2
<1>4. Answer(p) = IF Len(found) <= limit THEN found ELSE Prefix(found, limit)
  BY DEF Answer, Found
<1> HIDE DEF found, limit
<1>5. Len(found) \in Nat /\ Cardinality(Found(p)) = Len(found)
  BY <1>2, <1>3, ListingFacts, MembersFinite
<1>6. CASE Len(found) <= limit
  BY <1>1, <1>2, <1>3, <1>4, <1>5, <1>6 DEF limit
<1>7. CASE ~ (Len(found) <= limit)
  <2> DEFINE front == Prefix(found, limit)
             rest == SubSeq(found, limit + 1, Len(found))
  <2>1. limit \in 0..Len(found) /\ Answer(p) = front
    BY <1>1, <1>4, <1>5, <1>7
  <2>2. /\ front \in Listings /\ rest \in Listings
        /\ Members(found) = Members(front) \cup Members(rest)
        /\ \A u, v : Before(found, u, v) <=>
             \/ Before(front, u, v) \/ Before(rest, u, v)
             \/ u \in Members(front) /\ v \in Members(rest)
    BY <1>2, <2>1, SplitFacts
  <2>3. Len(front) = limit
    BY <1>2, <2>1, PrefixFacts
  <2> HIDE DEF front, rest
  <2>4. ASSUME NEW v \in Found(p), v \notin Members(front), NEW w \in Members(front)
        PROVE  Before(observed[p], w, v)
    <3>1. v \in Members(rest)
      BY <1>3, <2>2, <2>4
    <3>2. Before(found, w, v)
      BY <2>2, <3>1
    <3> QED
      BY <1>2, <3>2
  <2> QED
    BY <1>3, <2>1, <2>2, <2>3, <2>4 DEF limit
<1> QED
  BY <1>6, <1>7

\* What the acquisition counted are rows of the answer, unless a title of the
\* listing is laid over a row that matched by its own.
NoOverlay == \A q \in Queries : q.mode = "bounded" => q.test # "either"

LEMMA CountedAreFound ==
  ASSUME NoOverlay, TypeInv, NEW p \in Proc, WorkInv(p)
  PROVE  Cardinality(Matched(p, rows[p])) <= Cardinality(Found(p))
<1>1. ASSUME NEW v \in Matched(p, rows[p]) PROVE v \in Found(p)
  <2>1. v \in rows[p] /\ Satisfies(query[p], v, v \in rtitled[p])
    BY <1>1 DEF Matched
  <2>2. CASE query[p].mode # "bounded"
    BY <2>1, <2>2 DEF Found, Title
  <2>3. CASE query[p].mode = "bounded" /\ query[p].test = "both"
    <3>1. v \in titleRead[p]
      BY <2>1, <2>3 DEF WorkInv, Candidates
    <3>2. Satisfies(query[p], v, v \in titleRead[p])
      BY <2>1, <2>3, <3>1 DEF Satisfies
    <3> QED
      BY <2>1, <2>3, <3>2 DEF Found, Title
  <2>4. CASE query[p].test = "detail"
    <3>1. Satisfies(query[p], v, Title(p, v))
      BY <2>1, <2>4 DEF Satisfies
    <3> QED
      BY <2>1, <3>1 DEF Found
  <2>5. query[p] \in Queries /\ query[p].test \in {"detail", "either", "both"}
    BY QueryFacts DEF TypeInv, RunType
  <2> QED
    BY <2>2, <2>3, <2>4, <2>5 DEF NoOverlay
<1>2. Found(p) \subseteq Video
  BY DEF Found, TypeInv, RunType
<1>3. IsFiniteSet(Found(p))
  BY <1>2, VideoFinite, FS_Subset
<1> QED
  BY <1>1, <1>3, FS_Subset

LEMMA EnoughAnswered ==
  ASSUME NoOverlay, TypeInv, NEW p \in Proc, WorkInv(p), pc[p] = "answer",
         todo[p] # <<>>
  PROVE  Len(Answer(p)) = query[p].limit
<1>1. Cardinality(Matched(p, rows[p])) >= query[p].limit
  BY DEF WorkInv
<1>2. Cardinality(Matched(p, rows[p])) <= Cardinality(Found(p))
  BY CountedAreFound
<1>3. query[p].limit \in Nat
  BY QueryFacts DEF TypeInv
<1>4. Cardinality(Matched(p, rows[p])) \in Nat /\ Cardinality(Found(p)) \in Nat
  <2>1. Found(p) \subseteq Video /\ Matched(p, rows[p]) \subseteq Video
    BY DEF Found, Matched, TypeInv, RunType
  <2>2. IsFiniteSet(Found(p)) /\ IsFiniteSet(Matched(p, rows[p]))
    BY <2>1, VideoFinite, FS_Subset
  <2> QED
    BY <2>2, FS_CardinalityType
<1>5. Cardinality(Found(p)) >= query[p].limit
  BY <1>1, <1>2, <1>3, <1>4
<1> QED
  BY <1>5, AnswerFacts

\* The acquisition passes over a candidate only once it has a full answer,
\* whatever became of the source in between, for queries whose title test is
\* not an alternative to a detailed one in a date-bounded run.
THEOREM ShortAnswers ==
  ASSUME NoOverlay
  PROVE  Spec => []ShortAnswerSawAll
<1> DEFINE Inv == TypeInv /\ \A p \in Proc : WorkInv(p)
<1>1. Init => Inv
  BY InitType, InitWork
<1>2. Inv /\ [Next]_vars => Inv'
  BY TypeNext, WorkNext
<1>3. Inv => ShortAnswerSawAll
  BY EnoughAnswered DEF ShortAnswerSawAll
<1> QED
  BY <1>1, <1>2, <1>3, PTL DEF Spec

-----------------------------------------------------------------------------
(* The stored ordering, when no listing of yt-dlp is cut short *)

LEMMA TracksPublish ==
  ASSUME NEW f, NEW g, NEW b \in Nat, NEW s,
         Members(f) \subseteq 1..b, Members(g) = Members(f) \cup {b + 1},
         \A x, y \in Members(f) : Before(g, x, y) <=> Before(f, x, y),
         Tracks(f, b, s)
  PROVE  Tracks(g, b + 1, s)
<1>1. Members(s) \subseteq 1..b /\ b + 1 \notin Members(s)
  BY DEF Tracks
<1>2. Members(s) \subseteq 1..(b + 1)
  BY <1>1
<1>3. Agrees(g, s)
  BY <1>1 DEF Tracks, Agrees
<1>4. ASSUME NEW w \in Members(s) \cap Members(g), NEW u \in Members(g) \ Members(s)
      PROVE  w < u
  <2>1. CASE u = b + 1
    BY <1>1, <2>1
  <2>2. CASE u \in Members(f)
    BY <1>1, <2>2 DEF Tracks
  <2> QED
    BY <2>1, <2>2
<1> QED
  BY <1>2, <1>3, <1>4 DEF Tracks

LEMMA TracksWithdraw ==
  ASSUME NEW f, NEW g, NEW b, NEW s, Members(g) \subseteq Members(f),
         \A x, y : Before(g, x, y) => Before(f, x, y),
         Tracks(f, b, s)
  PROVE  Tracks(g, b, s)
BY DEF Tracks, Agrees

LEMMA ObservesPublish ==
  ASSUME NEW f, NEW g, NEW b \in Nat, NEW q, NEW read, NEW all,
         Members(f) \subseteq 1..b, Members(g) = Members(f) \cup {b + 1},
         \A x, y \in Members(f) : Before(g, x, y) <=> Before(f, x, y),
         Observes(q, f, b, read, all)
  PROVE  Observes(q, g, b + 1, read, all)
BY TracksPublish DEF Observes

LEMMA ObservesWithdraw ==
  ASSUME NEW f, NEW g, NEW b, NEW q, NEW read, NEW all,
         Members(g) \subseteq Members(f),
         \A x, y : Before(g, x, y) => Before(f, x, y),
         Observes(q, f, b, read, all)
  PROVE  Observes(q, g, b, read, all)
BY TracksWithdraw DEF Observes

LEMMA OlderFinite ==
  ASSUME NEW s \in Listings, NEW v
  PROVE  IsFiniteSet(Older(s, v)) /\ Cardinality(Older(s, v)) \in Nat
<1>1. Older(s, v) \in SUBSET Members(s)
  BY DEF Older
<1>2. IsFiniteSet(Older(s, v))
  BY <1>1, MembersFinite, FS_Subset
<1> QED
  BY <1>2, FS_CardinalityType

LEMMA NearTopPublish ==
  ASSUME TypeInv, NearTop(feed), Publish
  PROVE  NearTop(feed')
<1>1. /\ born' = born + 1 /\ feed' \in Listings
      /\ Members(feed') = Members(feed) \cup {born'}
      /\ \A x, y \in Members(feed) : Before(feed', x, y) <=> Before(feed, x, y)
      /\ born' \notin Members(feed)
  BY PublishEffect
<1>2. PICK n \in 0..Len(feed) :
        n < Reach /\ \A x : Before(feed', x, born') <=> x \in Members(Prefix(feed, n))
  BY PublishEffect
<1>3. /\ feed \in Listings /\ born \in Nat /\ Members(feed) \subseteq 1..born
      /\ Len(feed) \in Nat /\ Reach \in Nat
  BY ConstantFacts, ListingFacts, DiscoveryBoundAssumption DEF TypeInv, SourceType
<1>4. ASSUME NEW v \in Members(feed) PROVE Cardinality(Older(feed', v)) < Reach
  <2>1. Older(feed', v) = Older(feed, v)
    <3>1. \A w : w \in Members(feed') /\ w < v => w \in Members(feed)
      BY <1>1, <1>3
    <3> QED
      BY <1>1, <3>1 DEF Older
  <2> QED
    BY <2>1 DEF NearTop
<1>5. Cardinality(Older(feed', born')) < Reach
  <2> DEFINE ahead == Members(Prefix(feed, n))
  <2>1. Older(feed', born') \subseteq ahead
    BY <1>2 DEF Older
  <2>2. IsFiniteSet(ahead) /\ Cardinality(ahead) = n
    BY <1>3, PrefixFacts, MembersFinite
  <2>3. Cardinality(Older(feed', born')) <= Cardinality(ahead)
    <3> HIDE DEF ahead
    <3> QED
      BY <2>1, <2>2, FS_Subset
  <2>4. Cardinality(Older(feed', born')) \in Nat
    BY <1>1, OlderFinite
  <2> HIDE DEF ahead
  <2> QED
    BY <1>2, <1>3, <2>2, <2>3, <2>4
<1> QED
  BY <1>1, <1>4, <1>5 DEF NearTop

LEMMA NearTopWithdraw ==
  ASSUME TypeInv, NearTop(feed), Withdraw
  PROVE  NearTop(feed')
<1>1. /\ feed' \in Listings /\ Members(feed') \subseteq Members(feed)
      /\ \A x, y : Before(feed', x, y) => Before(feed, x, y)
  BY WithdrawEffect
<1>2. feed \in Listings /\ Reach \in Nat
  BY ConstantFacts DEF TypeInv, SourceType
<1>3. ASSUME NEW v \in Members(feed') PROVE Cardinality(Older(feed', v)) < Reach
  <2>1. Older(feed', v) \in SUBSET Older(feed, v)
    BY <1>1 DEF Older
  <2>2. IsFiniteSet(Older(feed, v)) /\ Cardinality(Older(feed, v)) \in Nat
    BY <1>2, OlderFinite
  <2>3. Cardinality(Older(feed', v)) <= Cardinality(Older(feed, v))
    BY <2>1, <2>2, FS_Subset
  <2>4. Cardinality(Older(feed', v)) \in Nat
    BY <1>1, OlderFinite
  <2>5. Cardinality(Older(feed, v)) < Reach
    BY <1>1 DEF NearTop
  <2> QED
    BY <1>2, <2>2, <2>3, <2>4, <2>5
<1> QED
  BY <1>3 DEF NearTop

LEMMA EmptyTracks ==
  ASSUME NEW f, NEW b
  PROVE  Tracks(f, b, <<>>)
BY EmptyListing DEF Tracks, Agrees

LEMMA InitListing ==
  ASSUME Init
  PROVE  ListingInv
<1>1. NearTop(feed)
  BY DescendingFacts DEF Init
<1>2. Tracks(feed, born, order) /\ \A p \in Proc : Tracks(feed, born, prior[p])
  BY EmptyTracks DEF Init
<1>3. TrustedOrder
  <2>1. Agrees(<<>>, <<>>)
    BY EmptyListing DEF Agrees
  <2>2. Kept(<<>>, Members(<<>>)) = <<>>
    BY <2>1, EmptyListing, KeptIs
  <2> QED
    BY <2>2 DEF Init, TrustedOrder
<1>4. \A p \in Proc : Idle(p)
  BY DEF Init, Idle
<1> QED
  BY <1>1, <1>2, <1>3, <1>4 DEF ListingInv

\* The parts of the invariant about one run.
RunTracks(p) ==
  /\ Tracks(feed, born, prior[p])
  /\ ~ Idle(p) => Observes(query[p], feed, born, feedRead[p], observed[p])

\* A run that has listed moves on with the listing it has.
LEMMA ListedTracks ==
  ASSUME NEW p, RunTracks(p), UNCHANGED <<source, query, listing>>, ~ Idle(p)
  PROVE  RunTracks(p)'
BY DEF RunTracks, source, listing

LEMMA SameTracks ==
  ASSUME NEW q, RunTracks(q), Same(q), UNCHANGED source
  PROVE  RunTracks(q)'
BY DEF RunTracks, Same, Idle, source

LEMMA SourceTracks ==
  ASSUME TypeInv, NEW q \in Proc, RunTracks(q), Publish \/ Withdraw, Same(q)
  PROVE  RunTracks(q)'
<1>1. Members(feed) \subseteq 1..born /\ born \in Nat
  BY DiscoveryBoundAssumption DEF TypeInv, SourceType
<1>2. /\ prior'[q] = prior[q] /\ query'[q] = query[q] /\ feedRead'[q] = feedRead[q]
      /\ observed'[q] = observed[q] /\ Idle(q)' = Idle(q)
  BY DEF Same, Idle
<1>3. CASE Publish
  <2>1. /\ born' = born + 1 /\ Members(feed') = Members(feed) \cup {born + 1}
        /\ \A x, y \in Members(feed) : Before(feed', x, y) <=> Before(feed, x, y)
    BY <1>3, PublishEffect
  <2>2. Tracks(feed', born + 1, prior[q])
    BY <1>1, <2>1, TracksPublish DEF RunTracks
  <2>3. ~ Idle(q) => Observes(query[q], feed', born + 1, feedRead[q], observed[q])
    BY <1>1, <2>1, ObservesPublish DEF RunTracks
  <2> QED
    BY <1>2, <2>1, <2>2, <2>3 DEF RunTracks
<1>4. CASE Withdraw
  <2>1. /\ born' = born /\ Members(feed') \subseteq Members(feed)
        /\ \A x, y : Before(feed', x, y) => Before(feed, x, y)
    BY <1>4, WithdrawEffect
  <2>2. Tracks(feed', born, prior[q])
    BY <2>1, TracksWithdraw DEF RunTracks
  <2>3. ~ Idle(q) => Observes(query[q], feed', born, feedRead[q], observed[q])
    BY <2>1, ObservesWithdraw DEF RunTracks
  <2> QED
    BY <1>2, <2>1, <2>2, <2>3 DEF RunTracks
<1> QED
  BY <1>3, <1>4

LEMMA ObserveTracks ==
  ASSUME ~ Cuts, TypeInv, NearTop(feed), NEW p \in Proc, RunTracks(p),
         ListOverlap(p) \/ ListAll(p) \/ ListBounded(p)
  PROVE  RunTracks(p)'
<1>0. PICK read \in Listings, all \in Listings, sure \in BOOLEAN : \E out :
        /\ Observe(p, read, all, sure, out) /\ pc[p] = "list"
        /\ ~ Cuts /\ NearTop(feed) /\ Tracks(feed, born, prior[p]) =>
             Observes(query[p], feed, born, feed, all)
  BY ListingSteps DEF TypeInv
<1>1. PICK out :
        /\ Observe(p, read, all, sure, out) /\ pc[p] = "list"
        /\ ~ Cuts /\ NearTop(feed) /\ Tracks(feed, born, prior[p]) =>
             Observes(query[p], feed, born, feed, all)
  BY <1>0
<1>2. Observes(query[p], feed, born, feed, all)
  BY <1>1 DEF RunTracks
<1>3. observed'[p] = all /\ feedRead'[p] = feed
  <2>1. Observe(p, read, all, sure, out)
    BY <1>1
  <2> QED
    BY <2>1 DEF Observe, Put, TypeInv, RunType
<1>4. UNCHANGED <<source, query, prior>>
  BY <1>1 DEF Observe
<1> QED
  BY <1>2, <1>3, <1>4 DEF RunTracks, source

LEMMA ListingNext ==
  ASSUME ~ Cuts, TypeInv, ListingInv, [Next]_vars
  PROVE  ListingInv'
<1>1. \A p \in Proc : RunTracks(p)
  BY DEF ListingInv, RunTracks
<1>2. ASSUME NearTop(feed'), Tracks(feed', born', order'), TrustedOrder',
             \A p \in Proc : RunTracks(p)'
      PROVE  ListingInv'
  BY <1>2 DEF ListingInv, RunTracks
<1>3. NearTop(feed) /\ Tracks(feed, born, order) /\ TrustedOrder
  BY DEF ListingInv
<1>4. CASE Publish \/ Withdraw
  <2>1. order' = order /\ orderFrom' = orderFrom
    BY <1>4 DEF Publish, Withdraw, store
  <2>2. TrustedOrder'
    BY <1>3, <2>1 DEF TrustedOrder
  <2>3. NearTop(feed')
    BY <1>3, <1>4, NearTopPublish, NearTopWithdraw
  <2>4. Tracks(feed', born', order')
    <3>1. Members(feed) \subseteq 1..born /\ born \in Nat
      BY DiscoveryBoundAssumption DEF TypeInv, SourceType
    <3>2. CASE Publish
      <4>1. /\ born' = born + 1 /\ Members(feed') = Members(feed) \cup {born + 1}
            /\ \A x, y \in Members(feed) : Before(feed', x, y) <=> Before(feed, x, y)
        BY <3>2, PublishEffect
      <4>2. Tracks(feed', born + 1, order)
        BY <1>3, <3>1, <4>1, TracksPublish
      <4> QED
        BY <2>1, <4>1, <4>2
    <3>3. CASE Withdraw
      <4>1. /\ born' = born /\ Members(feed') \subseteq Members(feed)
            /\ \A x, y : Before(feed', x, y) => Before(feed, x, y)
        BY <3>3, WithdrawEffect
      <4>2. Tracks(feed', born, order)
        BY <1>3, <4>1, TracksWithdraw
      <4> QED
        BY <2>1, <4>1, <4>2
    <3> QED
      BY <1>4, <3>2, <3>3
  <2>5. \A p \in Proc : RunTracks(p)'
    BY <1>1, <1>4, SourceSame, SourceTracks
  <2> QED
    BY <1>2, <2>2, <2>3, <2>4, <2>5
<1>5. CASE Retitle \/ Age \/ UNCHANGED vars
  <2>1. UNCHANGED <<feed, born, store>> /\ \A p \in Proc : Same(p)
    BY <1>5, SourceSame DEF Retitle, Age, vars, source
  <2>2. \A p \in Proc : RunTracks(p)'
    BY <1>1, <2>1 DEF RunTracks, Same, Idle
  <2> QED
    BY <1>2, <1>3, <2>1, <2>2 DEF store, TrustedOrder
<1>6. ASSUME NEW p \in Proc, Start(p) \/ Step(p) \/ Fails(p)
      PROVE  ListingInv'
  <2>1. UNCHANGED source
    BY <1>6 DEF Start, ReadFrontier, Step, Fails, Finish, ListOverlap, ListAll, Ends, ListBounded, Observe,
                BatchBegin, Portion, Fetch, FetchSkips, BatchEnd, RecordEntries,
                RecordFrontier, RecordCoverage
  <2>2. \A q \in Proc \ {p} : RunTracks(q)'
    BY <1>1, <1>6, <2>1, OthersSame, SameTracks DEF TypeInv
  <2>3. RunTracks(p)'
    <3>1. CASE Start(p) \/ ReadFrontier(p)
      <4>1. Idle(p)' /\ prior'[p] \in {order, prior[p], <<>>}
        <5>1. CASE Start(p)
          BY <5>1 DEF Start, Goto, Put, Idle, TypeInv, RunType
        <5>2. CASE ReadFrontier(p)
          BY <5>2, FrontierType DEF Idle
        <5> QED
          BY <3>1, <5>1, <5>2
      <4> QED
        BY <1>1, <1>3, <2>1, <4>1, EmptyTracks DEF RunTracks, source
    <3>2. CASE ListOverlap(p) \/ ListAll(p) \/ ListBounded(p)
      BY <1>1, <1>3, <3>2, ObserveTracks
    <3>3. CASE \/ BatchBegin(p) \/ Fetch(p) \/ FetchSkips(p) \/ BatchEnd(p)
               \/ RecordEntries(p) \/ RecordFrontier(p) \/ RecordCoverage(p)
      <4>1. ~ Idle(p) /\ UNCHANGED <<query, listing>>
        BY <3>3 DEF BatchBegin, Portion, Fetch, FetchSkips, BatchEnd, RecordEntries,
                    RecordFrontier, RecordCoverage, Idle
      <4> QED
        BY <1>1, <2>1, <4>1, ListedTracks
    <3>4. CASE Finish(p) \/ Fails(p)
      <4>1. pc'[p] = "off" /\ prior'[p] = <<>>
        BY <3>4, ForgetEffect DEF Finish, Fails
      <4> QED
        BY <4>1, EmptyTracks DEF RunTracks, Idle
    <3> QED
      BY <1>6, <3>1, <3>2, <3>3, <3>4 DEF Step
  <2>4. Tracks(feed', born', order') /\ TrustedOrder'
    <3>1. CASE RecordEntries(p) /\ Records(p)
      <4>1. order' = observed[p] /\ orderFrom' = feedRead[p] /\ ~ Idle(p)
        BY <3>1 DEF RecordEntries, Idle
      <4>2. Observes(query[p], feed, born, feedRead[p], observed[p])
        BY <1>1, <4>1 DEF RunTracks
      <4>3. /\ Agrees(feedRead[p], observed[p]) /\ Tracks(feed, born, observed[p])
            /\ Members(feedRead[p]) \subseteq Members(observed[p])
        BY <3>1, <4>2 DEF Records, Observes
      <4>4. observed[p] \in Listings /\ feedRead[p] \in Listings
        BY DEF TypeInv, RunType
      <4>5. Kept(observed[p], Members(feedRead[p])) = feedRead[p]
        BY <4>3, <4>4, KeptIs
      <4> QED
        BY <2>1, <4>1, <4>3, <4>5 DEF TrustedOrder, source
    <3>2. CASE ~ (RecordEntries(p) /\ Records(p))
      <4>1. order' = order /\ orderFrom' = orderFrom
        BY <1>6, <3>2 DEF Start, ReadFrontier, Step, Fails, Finish, ListOverlap, ListAll, Ends, ListBounded,
                Observe, BatchBegin, Portion, Fetch, FetchSkips, BatchEnd, RecordEntries,
                RecordFrontier, RecordCoverage, store
      <4> QED
        BY <1>3, <2>1, <4>1 DEF TrustedOrder, source
    <3> QED
      BY <3>1, <3>2
  <2>5. NearTop(feed')
    BY <1>3, <2>1 DEF source
  <2> QED
    BY <1>2, <2>2, <2>3, <2>4, <2>5
<1> QED
  BY <1>4, <1>5, <1>6 DEF Next

\* When yt-dlp ends its listings, the stored ordering holds every video of the
\* feed it was taken from in the feed's order, for any number of runs on one
\* cache and any feed whose new entries appear among the first Reach.
THEOREM OrderTrusted ==
  ASSUME ~ Cuts
  PROVE  Spec => []TrustedOrder
<1> DEFINE Inv == TypeInv /\ ListingInv
<1>1. Init => Inv
  BY InitType, InitListing
<1>2. Inv /\ [Next]_vars => Inv'
  BY TypeNext, ListingNext
<1>3. Inv => TrustedOrder
  BY DEF ListingInv
<1> QED
  BY <1>1, <1>2, <1>3, PTL DEF Spec

-----------------------------------------------------------------------------
(* Complete coverage, when only yt-dlp answers *)

\* As many rows as observed ids are a row for each.
LEMMA CompleteMeansAll ==
  ASSUME TypeInv, ListingInv, NEW p \in Proc, pc[p] = "cover", CompleteCoverage(p)
  PROVE  Members(feedRead[p]) \subseteq rows[p]
<1>1. observed[p] \in Listings /\ rows[p] \subseteq Members(observed[p])
  BY DEF TypeInv, RunType, RunShape, Candidates
<1>2. IsFiniteSet(Members(observed[p])) /\ Cardinality(Members(observed[p])) = Len(observed[p])
  BY <1>1, MembersFinite
<1>3. Cardinality(rows[p]) = Len(observed[p]) /\ query[p].mode # "bounded"
  BY DEF CompleteCoverage
<1>4. rows[p] = Members(observed[p])
  BY <1>1, <1>2, <1>3, FS_Subset
<1>5. Members(feedRead[p]) \subseteq Members(observed[p])
  BY <1>3 DEF ListingInv, Idle, Observes
<1> QED
  BY <1>4, <1>5

LEMMA InitCached ==
  ASSUME Init
  PROVE  CachedInv
BY DEF Init, CachedInv, CoverageHonest

LEMMA CachedNext ==
  ASSUME ~ Specialised, TypeInv, ListingInv, CachedInv, [Next]_vars
  PROVE  CachedInv'
<1>1. cached \subseteq cached'
  <2>1. ASSUME NEW p \in Proc, Fetch(p) PROVE cached \subseteq cached'
    BY <2>1, FetchEffect
  <2>2. ASSUME NEW p \in Proc, Start(p) \/ Step(p) \/ Fails(p), ~ Fetch(p)
        PROVE  cached' = cached
    BY <2>2 DEF Start, ReadFrontier, Step, Fails, Finish, ListOverlap, ListAll, Ends, ListBounded, Observe,
                BatchBegin, Portion, FetchSkips, BatchEnd, RecordEntries, RecordFrontier,
                RecordCoverage, cache
  <2>3. ASSUME Publish \/ Withdraw \/ Retitle \/ Age \/ UNCHANGED vars
        PROVE  cached' = cached
    BY <2>3 DEF Publish, Withdraw, Retitle, Age, vars, cache
  <2> QED
    BY <2>1, <2>2, <2>3 DEF Next
<1>2. \A p \in Proc : rows[p] \cup held[p] \subseteq cached
  BY DEF CachedInv
<1>3. ASSUME NEW p \in Proc, Same(p) PROVE rows'[p] \cup held'[p] \subseteq cached'
  BY <1>1, <1>2, <1>3 DEF Same
<1>4. ASSUME UNCHANGED <<coverage, coverFrom>> PROVE CoverageHonest'
  BY <1>1, <1>4 DEF CachedInv, CoverageHonest
<1>5. CASE Publish \/ Withdraw \/ Retitle \/ Age \/ UNCHANGED vars
  <2>1. UNCHANGED <<coverage, coverFrom>>
    BY <1>5 DEF Publish, Withdraw, Retitle, Age, vars, store
  <2> QED
    BY <1>3, <1>4, <1>5, <2>1, SourceSame DEF CachedInv
<1>6. ASSUME NEW p \in Proc, Start(p) \/ Step(p) \/ Fails(p)
      PROVE  CachedInv'
  <2>1. \A q \in Proc \ {p} : rows'[q] \cup held'[q] \subseteq cached'
    BY <1>3, <1>6, OthersSame DEF TypeInv
  <2>2. rows'[p] \cup held'[p] \subseteq cached'
    <3>1. CASE Start(p) \/ ReadFrontier(p)
      BY <1>1, <1>2, <3>1 DEF Start, ReadFrontier, work
    <3>2. CASE ListOverlap(p) \/ ListAll(p) \/ ListBounded(p)
      BY <1>1, <1>2, <3>2 DEF ListOverlap, ListAll, Ends, ListBounded, Observe
    <3>3. CASE BatchBegin(p)
      <4>1. held'[p] = Members(batch'[p]) \cap cached /\ UNCHANGED rows
        BY <3>3, BatchBeginEffect
      <4> QED
        BY <1>1, <1>2, <4>1
    <3>4. CASE Fetch(p)
      <4>1. PICK v \in need[p] \cap Members(batch[p]) \cap Video :
              held'[p] = held[p] \cup {v} /\ (~ Specialised => v \in cached')
        BY <3>4, FetchEffect
      <4>2. rows' = rows
        BY <3>4 DEF Fetch
      <4> QED
        BY <1>1, <1>2, <4>1, <4>2
    <3>5. CASE FetchSkips(p)
      BY <1>1, <1>2, <3>5 DEF FetchSkips
    <3>6. CASE BatchEnd(p)
      <4>1. rows'[p] = rows[p] \cup held[p] /\ held'[p] = {}
        BY <3>6, BatchEndEffect
      <4> QED
        BY <1>1, <1>2, <4>1
    <3>7. CASE RecordEntries(p) \/ RecordFrontier(p) \/ RecordCoverage(p)
      <4>1. UNCHANGED work
        BY <3>7 DEF RecordEntries, RecordFrontier, RecordCoverage
      <4> QED
        BY <1>1, <1>2, <4>1 DEF work
    <3>8. CASE Finish(p) \/ Fails(p)
      <4>1. rows'[p] = {} /\ held'[p] = {}
        BY <3>8, ForgetEffect DEF Finish, Fails
      <4> QED
        BY <4>1
    <3> QED
      BY <1>6, <3>1, <3>2, <3>3, <3>4, <3>5, <3>6, <3>7, <3>8 DEF Step
  <2>3. CoverageHonest'
    <3>1. CASE RecordCoverage(p)
      <4>1. /\ coverage'.complete = CompleteCoverage(p) /\ coverFrom' = feedRead[p]
            /\ pc[p] = "cover"
        BY <3>1 DEF RecordCoverage
      <4>2. CompleteCoverage(p) => Members(feedRead[p]) \subseteq cached
        BY <1>2, <4>1, CompleteMeansAll
      <4> QED
        BY <1>1, <4>1, <4>2 DEF CoverageHonest
    <3>2. CASE ~ RecordCoverage(p)
      <4>1. UNCHANGED <<coverage, coverFrom>>
        BY <1>6, <3>2 DEF Start, ReadFrontier, Step, Fails, Finish, ListOverlap, ListAll, Ends, ListBounded,
                Observe, BatchBegin, Portion, Fetch, FetchSkips, BatchEnd, RecordEntries,
                RecordFrontier, store
      <4> QED
        BY <1>4, <4>1
    <3> QED
      BY <3>1, <3>2
  <2> QED
    BY <2>1, <2>2, <2>3 DEF CachedInv
<1> QED
  BY <1>5, <1>6 DEF Next

\* Coverage recorded as complete is complete: each video of the feed the run
\* read has a detailed record in the cache, as long as yt-dlp ends its listings
\* and no other provider answers for it.
THEOREM CoverageIsHonest ==
  ASSUME ~ Cuts, ~ Specialised
  PROVE  Spec => []CoverageHonest
<1> DEFINE Inv == TypeInv /\ ListingInv /\ CachedInv
<1>1. Init => Inv
  BY InitType, InitListing, InitCached
<1>2. Inv /\ [Next]_vars => Inv'
  BY TypeNext, ListingNext, CachedNext
<1>3. Inv => CoverageHonest
  BY DEF CachedInv
<1> QED
  BY <1>1, <1>2, <1>3, PTL DEF Spec

-----------------------------------------------------------------------------
(* The answer leaves nothing out *)

LEMMA PlaceFacts ==
  ASSUME NEW s \in Listings, NEW u, NEW v, Before(s, u, v)
  PROVE  (CHOOSE i \in DOMAIN s : s[i] = u) < (CHOOSE i \in DOMAIN s : s[i] = v)
<1>1. PICK i \in 1..Len(s), j \in 1..Len(s) : i < j /\ s[i] = u /\ s[j] = v
  BY DEF Before
<1>2. /\ DOMAIN s = 1..Len(s)
      /\ \A k, l \in 1..Len(s) : s[k] = s[l] => k = l
  BY ListingFacts
<1>3. (CHOOSE k \in DOMAIN s : s[k] = u) = i
  BY <1>1, <1>2
<1>4. (CHOOSE k \in DOMAIN s : s[k] = v) = j
  BY <1>1, <1>2
<1> QED
  BY <1>1, <1>3, <1>4

\* A wanted video that was rejected, or left out, by the listing does not exist.
LEMMA WantedIsCandidate ==
  ASSUME TypeInv, ListingInv, NEW p \in Proc, WorkInv(p), pc[p] = "answer",
         NEW v \in Members(feedRead[p]), Wanted(p, v)
  PROVE  v \in Members(todo[p]) \cup rows[p] \cup missed[p]
<1>1. /\ Observes(query[p], feed, born, feedRead[p], observed[p])
      /\ batch[p] = <<>> /\ Members(<<>>) = {}
      /\ feedRead[p] \in Listings /\ query[p].since \in Nat
  BY EmptyListing, QueryFacts DEF ListingInv, Idle, TypeInv, RunType, RunShape
<1>2. Day[v] \in Nat
  <2>1. v \in Video
    BY <1>1, ListingFacts
  <2> QED
    BY <2>1, DayAssumption
<1>3. Day[v] >= query[p].since
  BY DEF Wanted, Satisfies
<1>4. ~ (Day[v] < query[p].since)
  BY <1>1, <1>2, <1>3
<1>5. v \in Members(observed[p])
  BY <1>1, <1>4 DEF Observes
<1>6. v \in rows[p] \/ query[p].test # "both" \/ v \in titleRead[p]
  BY DEF Wanted, Satisfies
<1>7. v \in Candidates(p)
  <2>1. v \in rows[p] => v \in Candidates(p)
    BY DEF Candidates
  <2> QED
    BY <1>4, <1>5, <1>6, <2>1 DEF WorkInv
<1> QED
  BY <1>1, <1>7 DEF Candidates

LEMMA AnswersComplete ==
  ASSUME NoOverlay, TypeInv, ListingInv, \A p \in Proc : WorkInv(p)
  PROVE  AnswerComplete
<1> SUFFICES
      ASSUME NEW p \in Proc, pc[p] = "answer",
             NEW v \in Members(feedRead[p]), Wanted(p, v),
             v \notin Members(Answer(p)) \cup missed[p]
      PROVE  /\ Len(Answer(p)) = query[p].limit
             /\ \A w \in Members(Answer(p)) \cap Members(feedRead[p]) :
                  (CHOOSE i \in DOMAIN feedRead[p] : feedRead[p][i] = w)
                    < (CHOOSE i \in DOMAIN feedRead[p] : feedRead[p][i] = v)
  BY DEF AnswerComplete
<1>1. /\ feedRead[p] \in Listings /\ observed[p] \in Listings
      /\ Agrees(feedRead[p], observed[p])
  BY DEF TypeInv, RunType, ListingInv, Idle, Observes
<1>2. v \in Members(todo[p]) \cup rows[p]
  BY WantedIsCandidate
<1>3. Members(Answer(p)) \subseteq Found(p) /\ Found(p) \subseteq rows[p]
  BY AnswerFacts DEF Found
<1>4. /\ Len(Answer(p)) = query[p].limit
      /\ \A w \in Members(Answer(p)) : Before(observed[p], w, v)
  <2>1. CASE v \in rows[p]
    <3>1. v \in Found(p)
      BY <2>1 DEF Wanted, Found
    <3> QED
      BY <3>1, AnswerFacts
  <2>2. CASE v \in Members(todo[p])
    <3>1. todo[p] # <<>>
      BY <2>2, EmptyListing
    <3>2. Len(Answer(p)) = query[p].limit
      BY <3>1, EnoughAnswered
    <3>3. \A w \in Members(Answer(p)) : Before(observed[p], w, v)
      BY <1>3, <2>2 DEF WorkInv
    <3> QED
      BY <3>2, <3>3
  <2> QED
    BY <1>2, <2>1, <2>2
<1>5. ASSUME NEW w \in Members(Answer(p)) \cap Members(feedRead[p])
      PROVE  (CHOOSE i \in DOMAIN feedRead[p] : feedRead[p][i] = w)
               < (CHOOSE i \in DOMAIN feedRead[p] : feedRead[p][i] = v)
  <2>1. Before(observed[p], w, v)
    BY <1>4
  <2>2. w # v /\ ~ Before(observed[p], v, w) /\ v \in Members(observed[p])
        /\ w \in Members(observed[p])
    BY <1>1, <2>1, BeforeFacts
  <2>3. Before(feedRead[p], w, v) \/ Before(feedRead[p], v, w)
    BY <1>1, <2>2, BeforeFacts
  <2>4. ~ Before(feedRead[p], v, w)
    BY <1>1, <2>2 DEF Agrees
  <2> QED
    BY <1>1, <2>3, <2>4, PlaceFacts
<1> QED
  BY <1>4, <1>5

\* Cutting the listing at known entries or at a date boundary, rejecting on the
\* lightweight entries, stale records and ending the acquisition at enough
\* matches leave no wanted video out of the answer, for every number of runs,
\* videos, batch size and query without a title test as an alternative in a
\* date-bounded run.
THEOREM AnswersAreComplete ==
  ASSUME ~ Cuts, NoOverlay
  PROVE  Spec => []AnswerComplete
<1> DEFINE Inv == TypeInv /\ ListingInv /\ \A p \in Proc : WorkInv(p)
<1>1. Init => Inv
  BY InitType, InitListing, InitWork
<1>2. Inv /\ [Next]_vars => Inv'
  BY TypeNext, ListingNext, WorkNext
<1>3. Inv => AnswerComplete
  BY AnswersComplete
<1> QED
  BY <1>1, <1>2, <1>3, PTL DEF Spec
=============================================================================
