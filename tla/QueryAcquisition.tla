--------------------------- MODULE QueryAcquisition ---------------------------
(***************************************************************************)
(* A yt-sql query over several uses of several sources: its clauses, the   *)
(* plan of each source boundary (which rows and fields of a source any use *)
(* needs), the acquisition the plan asks for and the execution on what was *)
(* acquired.                                                               *)
(*                                                                         *)
(* A row has two fields: t, which an enumeration reports exactly, and d,   *)
(* which only detailed metadata has.  A query is a CTE, or none, and the   *)
(* branches of a UNION.  A body selects one field from a relation, perhaps *)
(* joined to a second one, where at most one test holds; CTEs and derived  *)
(* relations export both fields.  Grouping, computed columns, DISTINCT and *)
(* date bounds (Discovery) are left out.                                   *)
(***************************************************************************)
EXTENDS Comparisons, Sequences, SequencesExt, FiniteSets

CONSTANTS
  Source,            \* names of sources
  Contents,          \* the rows the sources may have: [Source -> Seq(Row)]
  Operands,          \* the relations a query is built from
  Ons,               \* the ON predicates
  Tests,             \* the WHERE predicates
  Batch,             \* batch_size of _limit_aware_cached_acquire
  Allowed(_),        \* the shapes of query an instance looks at
  MaxClauses         \* bound: clauses after FROM

FieldName == {"t", "d"}
FieldValue == [kind : Kind \cup {"list"}, n : Int]
Row == [FieldName -> FieldValue]

Physical(s) == [k |-> "source", s |-> s]
TheCte == [k |-> "cte", s |-> "cte"]
\* (SELECT t, d FROM s [WHERE w]): w has at most one test
Derived(s, w) == [k |-> "derived", s |-> s, where |-> w]

\* A test of field f of the left (x) or the joined (y) relation: f = v, or
\* 1 = 2 when f is "never".
Test(side, f, v) == [side |-> side, f |-> f, v |-> v]
TestClause == [side : {"x", "y"}, f : FieldName \cup {"never"}, v : FieldValue]

ASSUME ContentAssumption ==
  /\ Contents \subseteq [Source -> Seq(Row)] /\ "cte" \notin Source
  /\ Batch \in Nat \ {0} /\ MaxClauses \in Nat
ASSUME OperandAssumption ==
  /\ \A o \in Operands :
       \/ o.s \in Source /\ o = Physical(o.s)
       \/ o = TheCte
       \/ /\ o.s \in Source \cup {"cte"} /\ o = Derived(o.s, o.where)
          /\ o.where \in Seq(TestClause) /\ Len(o.where) <= 1
          /\ \A i \in DOMAIN o.where : o.where[i].side = "x"
  /\ Tests \subseteq TestClause
  /\ Ons \subseteq [op : Operator, f : FieldName \cup {"never"}]

VARIABLES
  content,
  query, clauses,
  phase,             \* build, answer
  acquired           \* [Source -> Seq(Row)]: raw_records by source

vars == <<content, query, clauses, phase, acquired>>

NullRow == [t |-> Null, d |-> Null]
List(n) == [kind |-> "list", n |-> n]       \* an unhashable value

Never(test) == test.f = "never"

Body(sel, from) == [sel |-> sel, from |-> from, joins |-> <<>>, where |-> <<>>]
Kinds == {"INNER", "LEFT", "SEMI", "ANTI"}

-----------------------------------------------------------------------------
(* Execution *)

\* [row for row in rows if ...]: the rows that are in S, in their order.
Among(rows, S) ==
  LET kept[n \in 0..Len(rows)] ==
        IF n = 0 THEN <<>>
        ELSE IF rows[n] \in S THEN Append(kept[n - 1], rows[n]) ELSE kept[n - 1]
  IN kept[Len(rows)]

Passes(test, x, y) ==
  ~Never(test) /\ Compare("=", (IF test.side = "x" THEN x ELSE y)[test.f], test.v) = "T"
Filter(where, rows) ==
  Among(rows, {r \in ToSet(rows) : \A i \in DOMAIN where : Passes(where[i], r.x, r.y)})

\* An ON predicate is never (1 = 2), or a comparison [op, f] of the two sides.
Matches(on, l, r) == on.f # "never" /\ Compare(on.op, l[on.f], r[on.f]) = "T"
Single(rows) == [i \in DOMAIN rows |-> [x |-> rows[i], y |-> NullRow]]

\* _materialise_relation_reference; a derived relation over the CTE reads its rows.
Rows(o, data, cte) ==
  LET Of(s) == IF s = "cte" THEN cte ELSE data[s]
      inner == Filter(o.where, Single(Of(o.s)))
  IN IF o.k # "derived" THEN Of(o.s) ELSE [i \in DOMAIN inner |-> inner[i].x]

\* Mutant: rows with a NULL key are entered and found.
IndexedNull(on, l, right) == Among(right, {r \in ToSet(right) : r[on.f] = l[on.f]})

\* _hash_join_matches: the rows of the right side's index under l's key.
Indexed(on, l, right) ==
  IF IsNullValue(l[on.f]) THEN <<>>
  ELSE Among(right, {r \in ToSet(right) : r[on.f] = l[on.f]})

\* One unhashable key declines the index, or sends one left row past it.
Hashable(v) == v.kind # "list"
UsesIndex(on, right, fast) ==
  /\ fast /\ on.f # "never" /\ on.op = "="
  /\ \A i \in DOMAIN right : Hashable(right[i][on.f])

Reference(on, l, right) == Among(right, {r \in ToSet(right) : Matches(on, l, r)})

\* _apply_existence_join: an unhashable left row sends all of them to the
\* reference route.
Existence(join, left, right, fast) ==
  LET index == UsesIndex(join.on, right, fast)
               /\ \A i \in DOMAIN left : Hashable(left[i][join.on.f])
      Found(l) == IF index THEN Indexed(join.on, l, right)
                  ELSE Reference(join.on, l, right)
  IN Single(Among(left, {l \in ToSet(left) : (Found(l) # <<>>) = (join.kind = "SEMI")}))

\* _apply_row_producing_join: the candidates of the index are tested again.
RowProducing(join, left, right, fast) ==
  LET Candidates(l) ==
        IF UsesIndex(join.on, right, fast) /\ Hashable(l[join.on.f])
        THEN Indexed(join.on, l, right) ELSE right
      Of(l) ==
        LET found == Reference(join.on, l, Candidates(l))
        IN IF found = <<>> /\ join.kind = "LEFT" THEN Single(<<l>>)
           ELSE [i \in DOMAIN found |-> [x |-> l, y |-> found[i]]]
  IN FlattenSeq([i \in DOMAIN left |-> Of(left[i])])

Joined(join, left, right, fast) ==
  IF join.kind \in {"INNER", "LEFT"} THEN RowProducing(join, left, right, fast)
  ELSE Existence(join, left, right, fast)
BodyRows(b, data, cte, fast) ==
  Filter(b.where,
         IF b.joins = <<>> THEN Single(Rows(b.from, data, cte))
         ELSE Joined(b.joins[1], Rows(b.from, data, cte),
                     Rows(b.joins[1].relation, data, cte), fast))

Column(rows, f) == [i \in DOMAIN rows |-> rows[i].x[f]]

Unique(s) == FoldLeft(LAMBDA acc, e : IF Contains(acc, e) THEN acc ELSE Append(acc, e),
                      <<>>, s)

\* ORDER BY of the result column: NULLs last, otherwise stable.  Mixed kinds
\* fall back to their text, in which a list follows the numbers.
Ascending(a, b) ==
  IF IsNullValue(a) \/ IsNullValue(b) THEN ~IsNullValue(a) \/ IsNullValue(b)
  ELSE IF a.kind = b.kind THEN a.n <= b.n ELSE b.kind = "list"
Insert(s, v) ==
  LET n == Cardinality({i \in DOMAIN s : Ascending(s[i], v)})
  IN SubSeq(s, 1, n) \o <<v>> \o SubSeq(s, n + 1, Len(s))
Sorted(s) == FoldLeft(Insert, <<>>, s)

CteRows(q, data, fast) ==
  IF q.cte = <<>> THEN <<>>
  ELSE LET rows == BodyRows(q.cte[1], data, <<>>, fast)
       IN [i \in DOMAIN rows |-> rows[i].x]
Values(b, data, cte, fast) == Column(BodyRows(b, data, cte, fast), b.sel)

\* The branches in turn; a UNION without ALL loses the duplicates.
Combined(q, parts) ==
  IF Len(parts) = 1 THEN parts[1]
  ELSE IF q.all THEN parts[1] \o parts[2] ELSE Unique(parts[1] \o parts[2])
Branches(q, data, cte, fast) ==
  [i \in DOMAIN q.branches |-> Values(q.branches[i], data, cte, fast)]
FirstOf(limit, rows) ==
  IF limit = <<>> \/ Len(rows) <= limit[1] THEN rows ELSE SubSeq(rows, 1, limit[1])

\* apply_query: then ORDER BY and LIMIT of the whole.
Result(q, data, fast) ==
  LET all == Combined(q, Branches(q, data, CteRows(q, data, fast), fast))
  IN FirstOf(q.limit, IF q.order THEN Sorted(all) ELSE all)

-----------------------------------------------------------------------------
(* The plan of the source boundaries *)

Bodies(q) == {<<"cte", q.cte[i]>> : i \in DOMAIN q.cte}
             \cup {<<"main", q.branches[i]>> : i \in DOMAIN q.branches}

TestFields(where, side) ==
  {where[i].f : i \in {j \in DOMAIN where : where[j].side = side}} \ {"never"}
OnFields(b) == {b.joins[i].on.f : i \in DOMAIN b.joins} \ {"never"}
\* The completed result's ORDER BY names the first branch's column.
OrderFields(q) == IF q.order THEN {q.branches[1].sel} ELSE {}
Exported(b, owner) == IF owner = "cte" THEN FieldName ELSE {b.sel}

\* _query_relation_references: what the branches read of the CTE, as the source
\* of a body or of a join; a derived relation over it is passed over.
CteReads(q) ==
  UNION {(IF b.from = TheCte THEN {b.sel} \cup TestFields(b.where, "x") \cup OrderFields(q)
                             ELSE {})
         \cup (IF \E i \in DOMAIN b.joins : b.joins[i].relation = TheCte
               THEN OnFields(b) \cup TestFields(b.where, "y") ELSE {}) :
         b \in ToSet(q.branches)}

\* _producer_input_fields: qualified names are no outputs, so a join that reads
\* FROM the CTE forbids the pruning; in a CTE that has a join they are no
\* inputs either, and nothing is left.
Prunable(q) == \A b \in ToSet(q.branches) : ~(b.from = TheCte /\ b.joins # <<>>)
CteInputs(q) ==
  LET b == q.cte[1]
  IN IF b.joins # <<>> THEN {} ELSE CteReads(q) \cup TestFields(b.where, "x")

\* Mutant: the fields of the ON predicate are forgotten.
UsesOfBodyOn(q, owner, b) ==
  LET Use(o, fields, where) ==
        IF o.k = "cte" \/ o.s = "cte" THEN {}
        ELSE {[s |-> o.s, owner |-> owner,
               fields |-> IF o.k = "derived" THEN FieldName ELSE fields,
               where |-> IF o.k = "derived" THEN o.where ELSE where]}
      left == Exported(b, owner) \cup TestFields(b.where, "x") \cup OrderFields(q)
  IN Use(b.from, left, IF b.joins = <<>> THEN b.where ELSE <<>>)
     \cup UNION {Use(b.joins[i].relation, TestFields(b.where, "y"), <<>>) :
                 i \in DOMAIN b.joins}

\* _physical_query_uses: the sources a body reads, the fields each must have
\* and the predicate that may filter its rows early; a joined body has none.
UsesOfBody(q, owner, b) ==
  LET Use(o, fields, where) ==
        IF o.k = "cte" \/ o.s = "cte" THEN {}
        ELSE {[s |-> o.s, owner |-> owner,
               fields |-> IF o.k = "derived" THEN FieldName ELSE fields,
               where |-> IF o.k = "derived" THEN o.where ELSE where]}
      left == Exported(b, owner) \cup TestFields(b.where, "x") \cup OnFields(b)
              \cup OrderFields(q)
  IN Use(b.from, left, IF b.joins = <<>> THEN b.where ELSE <<>>)
     \cup UNION {Use(b.joins[i].relation, OnFields(b) \cup TestFields(b.where, "y"), <<>>) :
                 i \in DOMAIN b.joins}

Uses(q) == UNION {UsesOfBody(q, e[1], e[2]) : e \in Bodies(q)}

\* A use whose predicate is never TRUE is empty (plan_relation_simplification).
Live(q, s) ==
  {u \in Uses(q) : u.s = s /\ \A i \in DOMAIN u.where : ~Never(u.where[i])}

\* query_physical_source_requests
Requests(q) == {u.s : u \in Uses(q)}
MultiSource(q) == Cardinality(Requests(q)) > 1

RequiredFields(q, s) ==
  UNION {IF u.owner = "cte" /\ Prunable(q) THEN u.fields \cap CteInputs(q)
                                           ELSE u.fields : u \in Live(q, s)}
Detailed(q, s) == "d" \in RequiredFields(q, s)

\* _or_predicates: the tests one of which a row must pass; none when some use
\* reads every row.
BoundaryTests(q, s) ==
  IF \E u \in Live(q, s) : u.where = <<>> THEN {}
  ELSE {u.where[1] : u \in Live(q, s)}

\* prove_join_consequences: an ON that is never TRUE, and whether no row comes out.
JoinConsequence(join) ==
  [unmatched |-> join.on.f = "never",
   empty |-> join.on.f = "never" /\ join.kind \in {"INNER", "SEMI"}]

\* A constant-false ON of the first body skips the joined request, and the
\* primary one where no row can come out.
Eliminated(q) ==
  LET b == q.branches[1]
      join == b.joins[1]
      Named(o) == IF o.k = "source" THEN {o.s} ELSE {}
  IN IF b.joins = <<>> THEN {}
     ELSE IF ~JoinConsequence(join).unmatched THEN {}
     ELSE Named(join.relation)
          \cup (IF JoinConsequence(join).empty THEN Named(b.from) ELSE {})

Skipped(q, s) == Live(q, s) = {} \/ s \in Eliminated(q)

\* The SourceBoundaryPlan of a request
Boundary(q, s) ==
  [empty |-> Skipped(q, s), detailed |-> Detailed(q, s), tests |-> BoundaryTests(q, s)]

\* plan_limit_termination: no barrier between the source's order and the LIMIT.
\* Qualified names of a joined body count as dynamic fields.
LimitEligible(q) ==
  /\ q.limit # <<>> /\ q.cte = <<>> /\ Len(q.branches) = 1
  /\ ~q.order /\ q.branches[1].joins = <<>> /\ ~MultiSource(q)

\* plan_query: the boundary of the only source and whether LIMIT may end it.
Plan(q, s) == [boundary |-> Boundary(q, s), limited |-> LimitEligible(q)]

-----------------------------------------------------------------------------
(* prove_query_relation_facts: what is known of a result before any row is *)
(* read.  The facts of a CTE are known to the first branch only.           *)

RelationEmpty(o, cteEmpty) ==
  \/ o = TheCte /\ cteEmpty
  \/ o.k = "derived" /\ \E i \in DOMAIN o.where : Never(o.where[i])

BodyEmpty(b, cteEmpty) ==
  \/ RelationEmpty(b.from, cteEmpty)
  \/ \E i \in DOMAIN b.where : Never(b.where[i])
  \/ /\ Len(b.joins) = 1
     /\ \/ JoinConsequence(b.joins[1]).empty
        \/ /\ b.joins[1].kind \in {"INNER", "SEMI"}
           /\ RelationEmpty(b.joins[1].relation, cteEmpty)

RelationFacts(q) ==
  LET cteEmpty == q.cte # <<>> /\ BodyEmpty(q.cte[1], FALSE)
      empty == \A i \in DOMAIN q.branches : BodyEmpty(q.branches[i], i = 1 /\ cteEmpty)
  IN [empty |-> empty, max_rows |-> IF empty THEN <<0>> ELSE q.limit]

-----------------------------------------------------------------------------
(* Acquisition *)

Enumerable(tests) == tests # {} /\ \A test \in tests : test.f = "t"
\* rejects_at_enumeration, of the boundary's predicate as one AND term
RejectedEarly(q, s, row) ==
  LET tests == Boundary(q, s).tests
  IN Enumerable(tests) /\ \A test \in tests : ~Passes(test, row, row)

\* safely_reject_lightweight, on the predicate of the first body; a joined
\* body's names are qualified and prove nothing.
RejectedLightly(q, row) ==
  LET b == q.branches[1]
  IN b.joins = <<>> /\ \E i \in DOMAIN b.where : b.where[i].f = "t" /\ ~Passes(b.where[i], row, row)

\* The rows that count: those that match at enumeration, or those of the
\* detailed batches that satisfy the outer predicate.
Counted(q, s, rows) ==
  LET plan == Boundary(q, s)
      tests == IF plan.detailed THEN ToSet(q.branches[1].where) ELSE plan.tests
  IN Among(rows, {r \in ToSet(rows) : \A test \in tests : Passes(test, r, r)})

\* Where an early LIMIT ends the acquisition of the candidates: after the entry
\* or the batch that completes OFFSET + LIMIT.
CutAfter(q, s, rows) ==
  LET step == IF Boundary(q, s).detailed THEN Batch ELSE 1
      enough == {n \in 0..Len(rows) :
                   /\ n = Len(rows) \/ n % step = 0
                   /\ n > 0 /\ Len(Counted(q, s, SubSeq(rows, 1, n))) >= q.limit[1]}
  IN IF enough = {} THEN rows
     ELSE SubSeq(rows, 1, CHOOSE n \in enough : \A m \in enough : n <= m)

\* Detailed candidates are looked up in the cache or with yt-dlp.  Without
\* detailed fields the entries of the enumeration are the records.
Materialised(q, s, kept) ==
  IF Plan(q, s).boundary.detailed THEN kept
  ELSE [i \in DOMAIN kept |-> [kept[i] EXCEPT !.d = Null]]

\* The records of one request.
AcquiredRows(q, s, rows) ==
  LET wanted == {r \in ToSet(rows) : /\ ~RejectedEarly(q, s, r)
                                     /\ MultiSource(q) \/ ~RejectedLightly(q, r)}
      candidates == Among(rows, wanted)
      kept == IF Plan(q, s).limited THEN CutAfter(q, s, candidates) ELSE candidates
  IN Materialised(q, s, kept)

-----------------------------------------------------------------------------
(* The query's clauses *)

ReadsTheCte(q) ==
  \E b \in ToSet(q.branches) :
    b.from.s = "cte" \/ \E i \in DOMAIN b.joins : b.joins[i].relation.s = "cte"

NoQuery == [cte |-> <<>>, branches |-> <<>>, all |-> FALSE, order |-> FALSE, limit |-> <<>>]

Init ==
  /\ content \in Contents
  /\ \E sel \in FieldName, o \in Operands :
       query = [NoQuery EXCEPT !.branches = <<Body(sel, o)>>]
  /\ clauses = 0 /\ phase = "build"
  /\ acquired = [s \in Source |-> <<>>]

\* The text of a query in order, but for WITH, which is written last here.
Clause(q) ==
  /\ phase = "build" /\ clauses < MaxClauses /\ Allowed(q)
  /\ query.cte = <<>>
  /\ query' = q /\ clauses' = clauses + 1
  /\ UNCHANGED <<content, phase, acquired>>

InBody == ~query.order /\ query.limit = <<>>
Latest == Len(query.branches)

Join(kind, o, on) ==
  /\ InBody
  /\ query.branches[Latest].joins = <<>> /\ query.branches[Latest].where = <<>>
  /\ Clause([query EXCEPT !.branches[Latest].joins =
               <<[kind |-> kind, relation |-> o, on |-> on]>>])

\* The joined side of an existence join cannot be named.
Where(test) ==
  LET b == query.branches[Latest]
  IN /\ InBody /\ b.where = <<>>
     /\ test.side = "y" => b.joins # <<>> /\ b.joins[1].kind \in {"INNER", "LEFT"}
     /\ Clause([query EXCEPT !.branches[Latest].where = <<test>>])

Union(all, sel, o) ==
  /\ InBody /\ Latest = 1
  /\ Clause([query EXCEPT !.branches = Append(@, Body(sel, o)), !.all = all])

OrderBy == InBody /\ Clause([query EXCEPT !.order = TRUE])
Limit(n) == query.limit = <<>> /\ Clause([query EXCEPT !.limit = <<n>>])

\* WITH cte AS (SELECT t, d FROM o [SEMI JOIN o2] [WHERE test])
With(o, joins, where) ==
  /\ ReadsTheCte(query)
  /\ Clause([query EXCEPT !.cte =
               <<[Body("t", o) EXCEPT !.joins = joins, !.where = where]>>])

\* The requests of the plan one after the other; none depends on another.
Acquire ==
  /\ phase = "build"
  /\ ReadsTheCte(query) => query.cte # <<>>
  /\ phase' = "answer"
  /\ acquired' = [s \in Source |->
                    IF s \notin Requests(query) \/ Boundary(query, s).empty THEN <<>>
                    ELSE AcquiredRows(query, s, content[s])]
  /\ UNCHANGED <<content, query, clauses>>

PhysicalOperands == {o \in Operands : o.k = "source"}
CteJoins ==
  {<<>>} \cup {<<[kind |-> "SEMI", relation |-> o, on |-> on]>> : o \in PhysicalOperands, on \in Ons}
LeftTests == {test \in Tests : test.side = "x"}

Next ==
  \/ \E kind \in Kinds, o \in Operands, on \in Ons : Join(kind, o, on)
  \/ \E test \in Tests : Where(test)
  \/ \E all \in BOOLEAN, sel \in FieldName, o \in Operands : Union(all, sel, o)
  \/ OrderBy
  \/ \E n \in 1..2 : Limit(n)
  \/ \E o \in PhysicalOperands, joins \in CteJoins,
        where \in {<<>>} \cup {<<test>> : test \in LeftTests} : With(o, joins, where)
  \/ Acquire

Spec == Init /\ [][Next]_vars

-----------------------------------------------------------------------------
(* Properties *)

ReadsCte(o) == o.k = "derived" /\ o.s = "cte"
OperandsOf(b) == {b.from} \cup {b.joins[i].relation : i \in DOMAIN b.joins}
NamedBy(o) == IF o.s = "cte" THEN {} ELSE {o.s}

\* The predicate of the first body rejects rows for the whole query.
FirstBodyAlone(q) ==
  LET b == q.branches[1]
      early == b.joins = <<>> /\ \E i \in DOMAIN b.where : b.where[i].f = "t"
  IN early => MultiSource(q) \/ (Len(q.branches) = 1 /\ \A c \in ToSet(q.cte) : c.joins = <<>>)

\* What a constant-false ON skips is used nowhere else.
EliminationAlone(q) ==
  LET b == q.branches[1]
      elsewhere == UNION {UNION {NamedBy(o) : o \in OperandsOf(c)} :
                          c \in ToSet(q.cte) \cup ToSet(Tail(q.branches))}
  IN Eliminated(q) # {} =>
       /\ Eliminated(q) \cap elsewhere = {}
       /\ b.from.k = "derived" => b.from.s \notin Eliminated(q)
       /\ b.joins[1].kind \in {"LEFT", "ANTI"} => NamedBy(b.from) \cap Eliminated(q) = {}

\* The fields of a CTE are pruned where every use of them is seen.
CteFieldsSeen(q) ==
  Prunable(q) => /\ \A b \in ToSet(q.branches) : \A o \in OperandsOf(b) : ~ReadsCte(o)
                 /\ \A c \in ToSet(q.cte) : c.joins = <<>>

\* No predicate of a derived relation waits for detailed metadata below LIMIT.
LimitAbovePlainRelation(q) ==
  LET o == q.branches[1].from
  IN q.limit # <<>> /\ o.k = "derived" => \A i \in DOMAIN o.where : o.where[i].f # "d"

\* The queries outside the known disagreements.
Sound(q) ==
  /\ FirstBodyAlone(q) /\ EliminationAlone(q)
  /\ CteFieldsSeen(q) /\ LimitAbovePlainRelation(q)

JoinClause == [kind : Kinds, relation : Operands, on : Ons]
BodyClauses == [sel : FieldName, from : Operands, joins : Seq(JoinClause), where : Seq(Tests)]
\* A CTE reads a source, and at most asks whether another one has a match.
CteBody ==
  {b \in BodyClauses : /\ b.from \in PhysicalOperands
                       /\ \A i \in DOMAIN b.joins : /\ b.joins[i].kind = "SEMI"
                                                   /\ b.joins[i].relation \in PhysicalOperands}
Query == [cte : Seq(CteBody), branches : Seq(BodyClauses) \ {<<>>},
          all : BOOLEAN, order : BOOLEAN, limit : Seq(1..2)]

TypeOK ==
  /\ content \in Contents /\ query \in Query
  /\ clauses \in 0..MaxClauses /\ phase \in {"build", "answer"}
  /\ acquired \in [Source -> Seq(Row)]

\* The rows and fields the plan leaves out, the requests it skips and the LIMIT
\* that ends an acquisition never show: the query answers on what was acquired
\* what it answers on the complete sources.
ResultUnchanged ==
  phase = "answer" => Result(query, acquired, TRUE) = Result(query, content, TRUE)

\* The equality index answers every join as the nested loop does, NULL and
\* unhashable keys included.
JoinPathsAgree ==
  phase = "answer" => Result(query, content, TRUE) = Result(query, content, FALSE)
=============================================================================
