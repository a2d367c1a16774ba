------------------------------ MODULE QueryRewrite ------------------------------
(***************************************************************************)
(* A WHERE predicate from the parser to the row filter: it is built from   *)
(* single predicates, rewritten pass by pass to a fixed point, and used to *)
(* prove a relation empty and to reject or accept rows on the lightweight  *)
(* metadata of an enumeration.  The rewriting works on the resolved        *)
(* predicate, the planner's proofs and stages on the parsed one, where a   *)
(* number written with a unit is still a text.                             *)
(*                                                                         *)
(* A predicate is a record whose k is its class: lit (a Boolean or NULL    *)
(* literal), cmp (field op literal), distinct (IS [NOT] DISTINCT FROM),    *)
(* between, in, null, test (IS [NOT] TRUE, FALSE, UNKNOWN), not, and, or.  *)
(* neg is its NOT.  Text predicates, quantifiers and computed scalars are  *)
(* left out: every rule modelled here passes them through.                 *)
(***************************************************************************)
EXTENDS Comparisons, Sequences, SequencesExt, FiniteSets

CONSTANTS
  Field,
  Row,               \* the rows of the source
  Missing,           \* fields the source structurally lacks: always NULL
  NonNull,           \* fields the source never leaves NULL
  Enumerated,        \* fields an enumeration reports
  Enum,              \* live_status, availability: compared without case
  Caseless(_),       \* casefold of a string's rank
  Measured,          \* numbers that queries write with a unit, as 9m or 10k
  Text(_),           \* the rank of such a number's text among the strings
  Atoms,             \* the predicates a query is built from
  MaxSize,           \* bound: single predicates, NOTs and truth tests of one
  MaxPasses          \* MAX_OPTIMISER_PASSES

\* A single predicate, as parsed or as resolved.
Leaf ==
  [k : {"lit"}, t : Truths]
  \cup [k : {"cmp"}, f : Field, op : Operator, v : Value]
  \cup [k : {"distinct"}, f : Field, v : Value, neg : BOOLEAN]
  \cup [k : {"between"}, f : Field, lo : Value, hi : Value, neg : BOOLEAN]
  \cup [k : {"in"}, f : Field, vs : Seq(Value) \ {<<>>}, neg : BOOLEAN]
  \cup [k : {"null"}, f : Field, neg : BOOLEAN]

\* The truth tests, NOTs and connectives with operands in S.
Compound(S) ==
  [k : {"test"}, x : S, truth : Truths, neg : BOOLEAN]
  \cup [k : {"not"}, x : S]
  \cup [k : {"AND", "OR"}, l : S, r : S]

\* The predicates over L that nest at most n deep.
Nested(L, n) ==
  LET level[m \in 0..n] == IF m = 0 THEN L ELSE L \cup Compound(level[m - 1])
  IN level[n]

Predicate == Nested(Leaf, MaxSize)

ASSUME RewriteAssumption ==
  /\ Missing \cup NonNull \cup Enumerated \cup Enum \subseteq Field
  /\ Row \subseteq [Field -> Value]
  /\ \A row \in Row :
       /\ \A f \in Missing : IsNullValue(row[f])
       /\ \A f \in NonNull : ~IsNullValue(row[f])
  /\ \A n \in Measured : Text(n) \in Int
  /\ Atoms \subseteq Leaf
  /\ MaxSize \in Nat \ {0} /\ MaxPasses \in Nat

VARIABLES
  origin,            \* the resolved predicate of the query
  node,              \* the predicate being rewritten
  phase,             \* build, optimise, done, failed
  size,              \* atoms, NOTs and truth tests in origin
  passes

vars == <<origin, node, phase, size, passes>>

Literal(t) == [k |-> "lit", t |-> t]
Binary(f, op, v) == [k |-> "cmp", f |-> f, op |-> op, v |-> v]
Not(x) == [k |-> "not", x |-> x]
Junction(op, l, r) == [k |-> op, l |-> l, r |-> r]
IsJunction(x) == x.k \in {"AND", "OR"}
OnField(x) == x.k \in {"cmp", "distinct", "between", "in", "null"}

-----------------------------------------------------------------------------
(* Evaluation *)

\* comparison_values: only live_status and availability ignore case.
ComparisonValue(f, v) ==
  IF f \in Enum /\ v.kind = "string" THEN String(Caseless(v.n)) ELSE v

Within(v, lo, hi) == Holds(">=", v, lo) /\ Holds("<=", v, hi)

\* A single predicate of a row
Tested(x, row) ==
  LET seen == ComparisonValue(x.f, row[x.f])
      among == Member(seen, {ComparisonValue(x.f, v) : v \in ToSet(x.vs)})
  IN CASE x.k = "lit" -> x.t
       [] x.k = "cmp" -> Compare(x.op, seen, ComparisonValue(x.f, x.v))
       [] x.k = "distinct" -> Bool3(Distinct(row[x.f], x.v) # x.neg)
       [] x.k = "between" -> IF IsNullValue(row[x.f]) THEN "U"
                            ELSE Bool3(Within(row[x.f], x.lo, x.hi) # x.neg)
       [] x.k = "in" -> IF x.neg THEN Not3(among) ELSE among
       [] x.k = "null" -> Bool3(IsNullValue(row[x.f]) # x.neg)

Evaluate(x, row) ==
  LET truth[y \in Predicate] ==
        CASE y.k = "test" -> Bool3((truth[y.x] = y.truth) # y.neg)
          [] y.k = "not" -> Not3(truth[y.x])
          [] IsJunction(y) -> Connect(y.k, truth[y.l], truth[y.r])
          [] OTHER -> Tested(y, row)
  IN truth[x]

Accepts(x, row) == Evaluate(x, row) = "T"

-----------------------------------------------------------------------------
(* Proofs about one predicate.  "?" is a refusal. *)

\* AND and OR: a dominating operand is enough, else both are needed.
ProvenJunction(op, l, r) ==
  LET dominant == IF op = "AND" THEN "F" ELSE "T"
  IN IF dominant \in {l, r} THEN dominant
     ELSE IF "?" \in {l, r} THEN "?" ELSE Connect(op, l, r)

\* prove_field_structurally_unavailable and prove_field_non_null
Unavailable(f) == f \in Missing
NeverNull(f) == f \notin Missing /\ f \in NonNull

\* prove_predicate_truth of a literal or a test of one field
ProvenTest(x) ==
  CASE x.k = "lit" -> x.t
    [] x.k = "null" -> IF Unavailable(x.f) THEN Bool3(~x.neg)
                       ELSE IF NeverNull(x.f) THEN Bool3(x.neg) ELSE "?"
    [] x.k \in {"cmp", "between", "in"} -> IF Unavailable(x.f) THEN "U" ELSE "?"
    [] x.k = "distinct" -> "?"

\* prove_predicate_truth
ProveTruth[x \in Predicate] ==
  LET child == ProveTruth[x.x]
  IN CASE x.k = "test" -> IF child = "?" THEN "?" ELSE Bool3((child = x.truth) # x.neg)
       [] x.k = "not" -> IF child = "?" THEN "?" ELSE Not3(child)
       [] IsJunction(x) -> ProvenJunction(x.k, ProveTruth[x.l], ProveTruth[x.r])
       [] OTHER -> ProvenTest(x)

\* _flatten
Flatten(op, x) ==
  LET operands[y \in Predicate] ==
        IF y.k = op THEN operands[y.l] \o operands[y.r] ELSE <<y>>
  IN operands[x]

\* _null_rejecting_field: x is not TRUE of a NULL field -- and so the code says
\* of IS DISTINCT FROM a value, which is.
NullRejecting(x) ==
  \/ x.k \in {"cmp", "distinct"} /\ ~IsNullValue(x.v)
  \/ x.k \in {"between", "in"}
  \/ x.k = "null" /\ x.neg

\* _comparison_constraint and _between_constraints
Constraints(terms, f) ==
  LET Of(x) ==
        IF ~OnField(x) \/ x.f # f THEN <<>>
        ELSE CASE x.k = "cmp" /\ ~IsNullValue(x.v) -> <<<<x.op, x.v>>>>
               [] x.k = "between" /\ ~x.neg /\ ~IsNullValue(x.lo) /\ ~IsNullValue(x.hi)
                    -> <<<<">=", x.lo>>, <<"<=", x.hi>>>>
               [] OTHER -> <<>>
      found[n \in 0..Len(terms)] == IF n = 0 THEN <<>> ELSE found[n - 1] \o Of(terms[n])
  IN found[Len(terms)]

\* _stronger_lower, _stronger_upper over the constraints with one of ops: the
\* strongest, an exclusive one at a tie; what cannot be ordered is passed over.
Strongest(ops, constraints) ==
  LET strict == IF ops = Lower THEN ">" ELSE "<"
      Stronger(c, best) ==
        IF best = <<>> THEN <<c>>
        ELSE IF Holds(strict, c[2], best[1][2])
                \/ (c[2] = best[1][2] /\ c[1] = strict)
        THEN <<c>> ELSE best
      strongest[n \in 0..Len(constraints)] ==
        IF n = 0 THEN <<>>
        ELSE IF constraints[n][1] \in ops THEN Stronger(constraints[n], strongest[n - 1])
        ELSE strongest[n - 1]
  IN strongest[Len(constraints)]

\* A value required by = against the strongest bounds; a value that cannot be
\* ordered against the lower one is not compared with the upper one either.
OutsideBounds(v, lower, upper) ==
  LET Violates(b) == Comparable(v, b[1][2]) /\ ~Ordered(b[1][1], v.n, b[1][2].n)
  IN \/ lower # <<>> /\ Violates(lower)
     \/ /\ upper # <<>> /\ Violates(upper)
        /\ lower = <<>> \/ Comparable(v, lower[1][2])

\* _prove_and_contradiction
Contradiction(terms) ==
  \E f \in Field :
    LET about == {x \in ToSet(terms) : OnField(x) /\ x.f = f}
        nulls == {~x.neg : x \in {y \in about : y.k = "null"}}
        constraints == Constraints(terms, f)
        equal == {c[2] : c \in {d \in ToSet(constraints) : d[1] = "="}}
        unequal == {c[2] : c \in {d \in ToSet(constraints) : d[1] = "!="}}
        domains == {ToSet(x.vs) \ {Null} : x \in {y \in about : y.k = "in" /\ ~y.neg}}
        allowed == {v \in UNION domains : \A d \in domains : v \in d}
        lower == Strongest(Lower, constraints)
        upper == Strongest(Upper, constraints)
    IN \/ nulls = {TRUE, FALSE}
       \/ TRUE \in nulls /\ \E x \in about : NullRejecting(x)
       \/ Cardinality(equal) > 1
       \/ equal \cap unequal # {}
       \/ domains # {} /\ (allowed = {} \/ ~(equal \subseteq allowed))
       \/ \E v \in equal : OutsideBounds(v, lower, upper)
       \/ /\ lower # <<>> /\ upper # <<>>
          /\ BoundsCross(lower[1][1], lower[1][2], upper[1][1], upper[1][2])

\* prove_predicate_never_true
NeverTrue[x \in Predicate] ==
  \/ ProveTruth[x] \in {"F", "U"}
  \/ x.k = "AND" /\ (NeverTrue[x.l] \/ NeverTrue[x.r] \/ Contradiction(Flatten("AND", x)))
  \/ x.k = "OR" /\ NeverTrue[x.l] /\ NeverTrue[x.r]

-----------------------------------------------------------------------------
(* One pass of the optimiser *)

\* Mutant: NOT of an equality stays in front of its opposite.
NormaliseNotCycle(x) ==
  IF x.k = "cmp" /\ x.op = "!=" THEN Not(Not(x))
  ELSE IF x.k = "not" THEN x.x
  ELSE IF x.k = "cmp" THEN [x EXCEPT !.op = Inverted[x.op]]
  ELSE IF x.k \in {"between", "in", "null", "test"} THEN [x EXCEPT !.neg = ~x.neg]
  ELSE Not(x)

\* _normalise_not: NOT x without the NOT, where there is such a form.
NormaliseNot(x) ==
  IF x.k = "not" THEN x.x
  ELSE IF x.k = "cmp" THEN [x EXCEPT !.op = Inverted[x.op]]
  ELSE IF x.k \in {"between", "in", "null", "test"} THEN [x EXCEPT !.neg = ~x.neg]
  ELSE Not(x)

\* _deduplicate_terms
Unique(s) ==
  LET kept[n \in 0..Len(s)] ==
        IF n = 0 THEN <<>>
        ELSE IF Contains(kept[n - 1], s[n]) THEN kept[n - 1] ELSE Append(kept[n - 1], s[n])
  IN kept[Len(s)]

\* _dominant_comparison, on terms
BoundKeeper(op, l, r) ==
  IF l.k = "cmp" /\ r.k = "cmp" /\ l.f = r.f
  THEN Dominant(op, l.op, l.v, r.op, r.v) ELSE 0

\* _simplify_memberships: of two memberships in lists, or one and an equality,
\* the one to keep under op (1 or 2), 0 when neither contains the other.
MembershipKeeper(op, l, r) ==
  LET IsList(x) == x.k = "in" /\ ~x.neg
      IsEquality(x) == x.k = "cmp" /\ x.op = "="
      Values(x) == IF x.k = "in" THEN ToSet(x.vs) ELSE {x.v}
      keepLeft == IF op = "AND" THEN 1 ELSE 2
  IN IF \/ ~(IsList(l) \/ IsList(r))
        \/ ~(IsList(l) \/ IsEquality(l)) \/ ~(IsList(r) \/ IsEquality(r))
     THEN 0
     ELSE IF l.f # r.f THEN 0
     ELSE IF IsList(r) /\ Values(l) \subseteq Values(r) THEN keepLeft
     ELSE IF IsList(l) /\ Values(r) \subseteq Values(l) THEN 3 - keepLeft
     ELSE 0

Keeper(rule, op, l, r) ==
  IF rule = "memberships" THEN MembershipKeeper(op, l, r) ELSE BoundKeeper(op, l, r)

\* The first pair one of which is enough loses the other.
Reduced(rule, op, terms) ==
  LET pairs == {p \in (DOMAIN terms) \X (DOMAIN terms) :
                  p[1] < p[2] /\ Keeper(rule, op, terms[p[1]], terms[p[2]]) # 0}
      first == CHOOSE p \in pairs :
                 \A q \in pairs : p[1] < q[1] \/ (p[1] = q[1] /\ p[2] <= q[2])
      keep == Keeper(rule, op, terms[first[1]], terms[first[2]])
  IN IF pairs = {} THEN terms ELSE RemoveAt(terms, first[3 - keep])

\* _simplify_memberships, _simplify_bounds: until there is no such pair.
Simplify(rule, op, terms) ==
  LET left[n \in 0..Len(terms)] ==
        IF n = 0 THEN terms ELSE Reduced(rule, op, left[n - 1])
  IN left[Len(terms)]

\* _rebuild
Rebuild(op, terms) ==
  LET joined[n \in 0..(Len(terms) - 1)] ==
        IF n = 0 THEN terms[1] ELSE Junction(op, joined[n - 1], terms[n + 1])
  IN joined[Len(terms) - 1]

\* The literal of a junction that decides it, and the one that leaves it open.
Dominating(op) == Literal(IF op = "AND" THEN "F" ELSE "T")
Neutral(op) == Literal(IF op = "AND" THEN "T" ELSE "F")

\* The end of the junction's branch of _optimise_node, its operands optimised.
OptimiseJunction(op, l, r) ==
  IF l = Neutral(op) THEN r
  ELSE IF r = Neutral(op) THEN l
  ELSE Rebuild(op, Simplify("bounds", op,
         Simplify("memberships", op, Unique(Flatten(op, Junction(op, l, r))))))

\* The whole of x, when the source's capabilities decide it.
ByCapability(x) ==
  IF IsJunction(x) \/ ProveTruth[x] = "?" THEN x ELSE Literal(ProveTruth[x])

\* A single predicate: BETWEEN and IN of one value become an equality.
OptimiseLeaf(x) ==
  LET equality == IF x.neg THEN "!=" ELSE "="
      values == Unique(x.vs)
  IN CASE x.k = "between" -> IF x.lo = x.hi THEN Binary(x.f, equality, x.lo) ELSE x
       [] x.k = "in" -> IF Len(values) = 1 THEN Binary(x.f, equality, values[1])
                        ELSE [x EXCEPT !.vs = values]
       [] OTHER -> x

OptimiseNode[x \in Predicate] ==
  IF ByCapability(x) # x THEN ByCapability(x)
  ELSE CASE x.k = "test" -> [x EXCEPT !.x = OptimiseNode[x.x]]
         [] x.k = "not" -> NormaliseNot(OptimiseNode[x.x])
         [] IsJunction(x) ->
              IF OptimiseNode[x.l] = Dominating(x.k) THEN OptimiseNode[x.l]
              ELSE OptimiseJunction(x.k, OptimiseNode[x.l], OptimiseNode[x.r])
         [] OTHER -> OptimiseLeaf(x)

-----------------------------------------------------------------------------
(* Rows of an enumeration *)

\* _literal_value: resolution has not given the literals their types; one in
\* plain digits is read as its number, one with a unit stays a text.
WrittenValue(v) ==
  IF v.kind = "number" /\ v.n \in Measured THEN String(Text(v.n)) ELSE v

\* A single predicate as parsed.
WrittenLeaf(x) ==
  CASE x.k \in {"cmp", "distinct"} -> [x EXCEPT !.v = WrittenValue(@)]
    [] x.k = "between" -> [x EXCEPT !.lo = WrittenValue(@), !.hi = WrittenValue(@)]
    [] x.k = "in" -> [x EXCEPT !.vs = [i \in DOMAIN @ |-> WrittenValue(@[i])]]
    [] OTHER -> x

Written[x \in Predicate] ==
  CASE x.k \in {"test", "not"} -> [x EXCEPT !.x = Written[x.x]]
    [] IsJunction(x) -> Junction(x.k, Written[x.l], Written[x.r])
    [] OTHER -> WrittenLeaf(x)

RequiredFields[x \in Predicate] ==
  CASE x.k \in {"test", "not"} -> RequiredFields[x.x]
    [] IsJunction(x) -> RequiredFields[x.l] \cup RequiredFields[x.r]
    [] OnField(x) -> {x.f}
    [] x.k = "lit" -> {}

\* plan_predicate_stages: the AND terms an enumeration can decide, each with
\* its fields, and whether others remain.
StagePlan(x) ==
  LET terms == ToSet(Flatten("AND", x))
      early == {t \in terms : RequiredFields[t] \subseteq Enumerated}
  IN [terms |-> {<<t, RequiredFields[t]>> : t \in early}, residual |-> early # terms]

\* A row of which only the fields of acquired are there.
Acquired(row, acquired) == [f \in Field |-> IF f \in acquired THEN row[f] ELSE Null]

\* Mutant: a field that was not acquired is taken for NULL.
RejectsAtEnumerationUnread(plan, row, acquired) ==
  \E t \in plan.terms : ~Accepts(t[1], Acquired(row, acquired))

\* rejects_at_enumeration: a term with a field not acquired is left for later.
RejectsAtEnumeration(plan, row, acquired) ==
  \E t \in plan.terms : t[2] \subseteq acquired /\ ~Accepts(t[1], Acquired(row, acquired))

\* matches_at_enumeration
MatchesAtEnumeration(plan, row, acquired) ==
  /\ ~plan.residual
  /\ \A t \in plan.terms : t[2] \subseteq acquired /\ Accepts(t[1], Acquired(row, acquired))

-----------------------------------------------------------------------------
(* Building and rewriting *)

Init ==
  /\ origin \in Atoms /\ node = origin
  /\ phase = "build" /\ size = 1 /\ passes = 0

Build(x) ==
  /\ phase = "build" /\ size < MaxSize
  /\ origin' = x /\ node' = x /\ size' = size + 1
  /\ UNCHANGED <<phase, passes>>

\* parse_or, parse_and and parenthesised operands on either side
Join(op, atom) ==
  \/ Build(Junction(op, origin, atom))
  \/ Build(Junction(op, atom, origin))

\* parse_not
Negate == Build(Not(origin))

\* _parse_truth_test_suffix
TestTruth(truth, neg) ==
  Build([k |-> "test", x |-> origin, truth |-> truth, neg |-> neg])

Parsed ==
  /\ phase = "build" /\ phase' = "optimise"
  /\ UNCHANGED <<origin, node, size, passes>>

\* One turn of _optimise_predicate_fixed_point: a pass that changes nothing is
\* the last, and MAX_OPTIMISER_PASSES that all did are an error.
Pass ==
  /\ phase = "optimise"
  /\ node' = OptimiseNode[node]
  /\ passes' = passes + 1
  /\ phase' = IF node' = node THEN "done"
              ELSE IF passes' = MaxPasses THEN "failed" ELSE "optimise"
  /\ UNCHANGED <<origin, size>>

Next ==
  \/ \E atom \in Atoms, op \in {"AND", "OR"} : Join(op, atom)
  \/ Negate
  \/ \E truth \in Truths, neg \in BOOLEAN : TestTruth(truth, neg)
  \/ Parsed
  \/ Pass

Spec == Init /\ [][Next]_vars

-----------------------------------------------------------------------------
(* Properties *)

\* The single predicates on which the rules rest.  An ordering compares values of
\* one kind, as resolution sees to, and not the names that ignore case; a list
\* has no NULL, and a BETWEEN of one value is about a value.
WellTyped ==
  {x \in Leaf :
     /\ x.k = "cmp" /\ x.op \notin {"=", "!="} =>
          /\ x.f \notin Enum
          /\ \A row \in Row : IsNullValue(row[x.f]) \/ IsNullValue(x.v) \/ row[x.f].kind = x.v.kind
     /\ x.k = "between" /\ x.lo = x.hi => x.f \notin Enum /\ ~IsNullValue(x.lo)
     /\ x.k = "in" => \A v \in ToSet(x.vs) : ~IsNullValue(v)}

\* A number with a unit is compared with a field that no enumeration has.
WrittenAlike == \A x \in Atoms : OnField(x) /\ x.f \in Enumerated => WrittenLeaf(x) = x

\* The literals that a query compares with f.
LiteralsOf(f) ==
  LET about == {x \in Atoms : OnField(x) /\ x.f = f}
      InTest(x) == CASE x.k = "cmp" -> {x.v}
                     [] x.k = "between" -> {x.lo, x.hi}
                     [] x.k = "in" -> ToSet(x.vs)
                     [] OTHER -> {}
  IN UNION {InTest(x) : x \in about}

\* The literals of a field differ in more than case, their texts differ, and the
\* texts come in the order of their numbers.
LiteralsKept(f) ==
  \A a, b \in LiteralsOf(f) :
    /\ ComparisonValue(f, a) = ComparisonValue(f, b) => a = b
    /\ WrittenValue(a) = WrittenValue(b) => a = b
    /\ a.kind = b.kind /\ WrittenValue(a).kind = WrittenValue(b).kind /\ a.n < b.n
         => WrittenValue(a).n < WrittenValue(b).n

\* No BETWEEN is about a name that ignores case, and no field is both tested for
\* NULL and for being distinct from a value.
PlainTests(f) ==
  \A x, y \in {z \in Atoms : OnField(z) /\ z.f = f} :
    /\ x.k = "between" => f \notin Enum
    /\ ~(x.k = "distinct" /\ ~x.neg /\ ~IsNullValue(x.v) /\ y.k = "null" /\ ~y.neg)

\* The fields that x reads are tested by the text as they are by the value.
ReadAsMeant(x) == \A f \in RequiredFields[x] : LiteralsKept(f) /\ PlainTests(f)

\* Every pass leaves the predicate's truth on every row as the query has it:
\* TRUE, FALSE and UNKNOWN, since a NOT or IS UNKNOWN may stand around it.
SameTruth ==
  phase # "build" =>
    \A row \in Row : Evaluate(node, row) = Evaluate(origin, row)

\* The rules never undo each other: a fixed point comes before the pass limit,
\* at which the optimiser would raise on a valid query.
NeverGivesUp == phase # "failed"

\* A truth value proven from the capabilities of the source is the value on
\* every row it can give.
ProofsHold ==
  ProveTruth[node] # "?" =>
    \A row \in Row : Evaluate(origin, row) = ProveTruth[node]

\* A predicate the planner proves never TRUE selects nothing: the relation is
\* taken to be empty and its acquisition is skipped.
NeverTrueHolds ==
  NeverTrue[Written[origin]] => \A row \in Row : ~Accepts(origin, row)

\* What the planned stages reject or accept on the fields an enumeration
\* acquired, the query rejects or accepts on the complete row.
StagesHold ==
  phase = "done" =>
    LET plan == StagePlan(Written[origin])
    IN \A row \in Row, acquired \in SUBSET Enumerated :
         /\ RejectsAtEnumeration(plan, row, acquired) => ~Accepts(origin, row)
         /\ MatchesAtEnumeration(plan, row, acquired) => Accepts(origin, row)
=============================================================================
