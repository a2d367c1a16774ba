---------------------------- MODULE QueryResolution ----------------------------
(***************************************************************************)
(* One query body of yt-sql, written clause by clause, resolved against    *)
(* the schema of the acquired rows, and run: by the row evaluator, or by   *)
(* the group evaluator when it aggregates.                                 *)
(*                                                                         *)
(* Not here: set operations, CTEs and joins (QueryAcquisition), DISTINCT,  *)
(* LIMIT and OFFSET, seeded RANDOM, the predicates over one field and      *)
(* literals other than a comparison (QueryRewrite).  Literals stand        *)
(* quoted, as an unquoted one at the end of WHERE takes the words GROUP BY *)
(* and HAVING for its own text.                                            *)
(***************************************************************************)
EXTENDS ScalarExpressions
LOCAL INSTANCE SequencesExt

CONSTANTS
  Atoms,          \* the expressions a query is written from
  Contexts,       \* operators around a Hole, their other operands given
  Aliases,        \* the names AS may give
  Tables,         \* a function from names to sequences of rows
  MaxSteps,       \* bound on the atoms and contexts of a query
  MaxEntries,     \* bound on its terms and clauses
  Admitted(_, _)  \* the queries looked at, a restriction of the search

VARIABLES
  draft,    \* the expression being written: at most one
  steps,    \* the atoms and contexts used so far
  query,    \* the clauses written so far
  phase,    \* write, resolved, ran
  table,    \* the name of the rows acquired
  types,    \* the signatures the resolver gave the expressions
  verdict,  \* of the resolver: accepted, refused, crashed
  result    \* by manner of acquisition: [raised, rows], a row being the
            \* sequence of its columns

vars == <<draft, steps, query, phase, table, types, verdict, result>>

Clauses == <<"group", "select", "where", "having", "order">>
Blank == [group |-> <<>>, select |-> <<>>, where |-> <<>>, having |-> <<>>, order |-> <<>>]

\* The rows as they are; with the needed fields only; in another order, with
\* other draws of RANDOM.
Manners == {"whole", "needed", "shuffled"}
NoResult == [m \in Manners |-> [raised |-> FALSE, rows |-> <<>>]]

-----------------------------------------------------------------------------
(* Resolution of a body *)

NoAlias == ""
Term(e, alias) == [e |-> e, alias |-> alias]
\* A bare term names a field; the resolver gives it no expression.
IsBare(t) == t.e.k = "bare"
Bare(name) == Term(Node("bare", name, <<>>), NoAlias)

Built == <<"id", "title", "upload_date", "duration", "is_live">>

\* The effective projection: id when there is none, every scalar field for *.
Projection(q, schema) ==
  CASE q.select = <<>> -> <<Bare("id")>>
    [] q.select[1].e = Star ->
         [i \in DOMAIN Built |-> Bare(Built[i])]
         \o [i \in 1..Cardinality({n \in DOMAIN schema : schema[n].kind # "collection"} \ ToSet(Built)) |->
               Bare(SetToSeq({n \in DOMAIN schema : schema[n].kind # "collection"} \ ToSet(Built))[i])]
    [] OTHER -> q.select

\* The name of a column, as the expression that would read it.
Named(t) == IF t.alias # NoAlias THEN Field(t.alias) ELSE t.e

IsPosition(e) == e.k = "function" /\ e.op = "POSITION"

RandomPlaced(q) ==
  /\ \A clause \in {"where", "group", "having"} :
       \A i \in DOMAIN q[clause] : ~Calls(q[clause][i], "RANDOM")
  /\ \A i \in DOMAIN q.select :
       LET e == q.select[i].e
       IN  (e.k = "aggregate" /\ Len(e.args) = 2) => ~Calls(e.args[2], "RANDOM")

PositionPlaced(q) ==
  /\ \A clause \in {"where", "group", "having", "order"} :
       \A i \in DOMAIN q[clause] : ~Calls(q[clause][i], "POSITION")
  /\ \A i \in DOMAIN q.select :
       IsPosition(q.select[i].e) \/ ~Calls(q.select[i].e, "POSITION")
  /\ \A i \in DOMAIN q.select, j \in DOMAIN q.order :
       IsPosition(q.select[i].e) => q.order[j] # Named(q.select[i])

\* HAVING and ORDER BY see the aliases; a predicate below them does not.
SeesAlias(e, i) ==
  CASE e.k = "case" -> IsResult(e, i)
    [] e.k \in {"aggregate", "count", "filter"} -> i = 1
    [] OTHER -> TRUE

Aliased(q, name) == {i \in DOMAIN q.select : q.select[i].alias = name}

RECURSIVE Expand(_, _)
Expand(e, q) ==
  IF e.k = "field"
  THEN IF Aliased(q, e.op) = {} THEN e ELSE q.select[CHOOSE i \in Aliased(q, e.op) : TRUE].e
  ELSE [e EXCEPT !.args = [i \in DOMAIN e.args |-> IF SeesAlias(e, i) THEN Expand(e.args[i], q) ELSE e.args[i]]]

Expanded(es, q) == [i \in DOMAIN es |-> Expand(es[i], q)]

Row(schema) == [schema |-> schema, scopes |-> <<>>, structured |-> FALSE, having |-> FALSE]
Having(schema) == [Row(schema) EXCEPT !.having = TRUE]

\* What is resolved of a term, and that a column is no structured value
Read(t) == IF IsBare(t) THEN Field(t.e.op) ELSE t.e
Projected(s) == IF s.out = "ok" /\ s.kind = "structured" THEN Refused ELSE s
ResolveTerm(t, schema) == Projected(Resolve(Read(t), Row(schema)))

Duplicated(terms) ==
  \E i, j \in DOMAIN terms : i < j /\ Named(terms[i]) = Named(terms[j])

IsAggregate(q) ==
  \/ q.group # <<>>
  \/ \E i \in DOMAIN q.select : HasAggregate(q.select[i].e)
  \/ \E i \in DOMAIN q.order : HasAggregate(q.order[i])
  \/ \E i \in DOMAIN q.having : HasAggregate(q.having[i])

RECURSIVE OutsideOfResults(_)
\* Mutant of Outside: it looks into the results of a CASE only.
OutsideOfResults(e) ==
  CASE e.k \in {"aggregate", "member", "bare"} -> {}
    [] e.k = "field" -> {e.op}
    [] OTHER -> UNION {OutsideOfResults(e.args[i]) : i \in {j \in DOMAIN e.args : e.k = "case" => IsResult(e, j)}}

RECURSIVE Outside(_)
\* _fields_outside_aggregates: the fields read once for the group
Outside(e) ==
  CASE e.k \in {"aggregate", "member", "bare"} -> {}
    [] e.k = "field" -> {e.op}
    [] OTHER -> UNION {Outside(e.args[i]) : i \in DOMAIN e.args}

GroupFits(e, group) == Outside(e) = {} \/ (~HasAggregate(e) /\ e \in ToSet(group))

RECURSIVE HavingFits(_, _)
HavingFits(p, group) ==
  CASE p.k \in {"not", "and", "or"} -> \A i \in DOMAIN p.args : HavingFits(p.args[i], group)
    [] p.k \in {"compare", "isnull"} -> \A i \in DOMAIN p.args : GroupFits(p.args[i], group)
    [] OTHER -> TRUE

\* The clauses after the aliases are put in
Resolved(q, schema) ==
  [q EXCEPT !.select = Projection(q, schema), !.having = Expanded(q.having, q),
            !.order = Expanded(q.order, q)]

\* The expressions in the order the resolver takes them
Work(r) ==
  r.where \o r.group \o [i \in DOMAIN r.select |-> Read(r.select[i])] \o r.having \o r.order
Column(r, i) == i - Len(r.where) - Len(r.group)
IsColumn(r, i) == Column(r, i) \in DOMAIN r.select
IsHaving(r, i) == Column(r, i) - Len(r.select) \in DOMAIN r.having

Signatures(r, work, schema) ==
  [i \in DOMAIN work |->
     LET s == Resolve(work[i], IF IsHaving(r, i) THEN Having(schema) ELSE Row(schema))
     IN  IF IsColumn(r, i) THEN Projected(s) ELSE s]

StarPlaced(q) == (q.select # <<>> /\ q.select[1].e = Star) => q.group = <<>> /\ q.having = <<>>

ShapeFits(q, r) ==
  /\ \A i \in DOMAIN q.group : ~HasAggregate(q.group[i])
  /\ ~Duplicated(r.select)
  /\ \A i \in DOMAIN q.order : ~IsLiteral(q.order[i], {"int"})

AggregationFits(r) ==
  IF IsAggregate(r)
  THEN /\ \A i \in DOMAIN r.select : GroupFits(r.select[i].e, r.group)
       /\ \A i \in DOMAIN r.order : GroupFits(r.order[i], r.group)
       /\ \A i \in DOMAIN r.having : HavingFits(r.having[i], r.group)
  ELSE r.having = <<>>

\* _resolve_query_body
Verdict(q, r, signatures) ==
  LET failed == SelectInSeq(signatures, LAMBDA s : s.out # "ok")
  IN  CASE ~RandomPlaced(q) \/ ~PositionPlaced(q) \/ ~StarPlaced(q) -> "refused"
        [] failed # 0 -> signatures[failed].out
        [] ~ShapeFits(q, r) \/ ~AggregationFits(r) -> "refused"
        [] OTHER -> "accepted"

-----------------------------------------------------------------------------
(* Running a resolved body *)

\* SUM, AVG, MIN and MAX of the values that are not NULL; Raised when a sum or
\* a mean overflows.
AggregateValue(op, values) ==
  LET total == FoldLeft(LAMBDA sum, v : IF IsNumber(sum) THEN Arithmetic("+", sum, v) ELSE sum,
                        Whole(0), values)
  IN  CASE op = "COUNT" -> Whole(Len(values))
        [] values = <<>> -> Null
        [] op = "SUM" -> total
        [] op = "AVG" -> IF IsNumber(total) THEN Arithmetic("/", total, Whole(Len(values))) ELSE total
        [] op = "MIN" -> Extreme(values, -1)
        [] op = "MAX" -> Extreme(values, 1)

\* An aggregate over the rows of a group that pass its FILTER
Aggregated(e, group) ==
  LET truths == [i \in DOMAIN group |-> IF Len(e.args) = 2 THEN Truth(e.args[2], group[i]) ELSE "T"]
      passing == SelectSeq([i \in DOMAIN group |-> i], LAMBDA i : truths[i] = "T")
      values == [i \in DOMAIN passing |->
                   IF e.args[1] = Star THEN Whole(1) ELSE Value(e.args[1], group[passing[i]])]
  IN  IF "R" \in ToSet(truths) \/ Raises(values) THEN Raised
      ELSE AggregateValue(e.op, SelectSeq(values, LAMBDA v : ~IsNull(v)))

RECURSIVE GroupValue(_, _, _)
\* _evaluate_group_expression, of a group and the row that represents it.  A
\* condition of CASE is asked of that row.  An overflow is not caught here.
GroupValue(e, group, first) ==
  CASE e.k = "aggregate" -> Aggregated(e, group)
    [] e.k \in {"field", "literal"} \/ (e.k = "function" /\ e.op = "RANDOM") -> Value(e, first)
    [] e.k \in {"unary", "arithmetic"} \/ (e.k = "function" /\ e.op # "CARDINALITY") ->
         Applied(e, [i \in DOMAIN e.args |-> GroupValue(e.args[i], group, first)], Raised)
    [] e.k = "case" ->
         LET Chosen(truths) ==
               CASE Broken(truths) -> Raised
                 [] Branch(e, truths) = 0 -> Null
                 [] OTHER -> GroupValue(e.args[Branch(e, truths)], group, first)
         IN  Chosen([b \in Branches(e) |-> Truth(Condition(e, b), first)])
    [] OTHER -> Raised

RECURSIVE HavingTruth(_, _, _)
HavingTruth(p, group, first) ==
  CASE p.k = "not" -> Opposite(HavingTruth(p.args[1], group, first))
    [] p.k \in {"and", "or"} ->
         Connected(p.k, HavingTruth(p.args[1], group, first), HavingTruth(p.args[2], group, first))
    [] p.k = "truth" -> TruthTest(p.op, HavingTruth(p.args[1], group, first))
    [] p.k \in {"compare", "isnull"} ->
         Judged(p, [i \in DOMAIN p.args |-> GroupValue(p.args[i], group, first)])
    [] OTHER -> "R"

\* Stable insertion by the last item of a row, the ORDER BY value; NULL comes
\* last.  Values Python does not order keep their places, where the code sorts
\* them by their text.
Sorted(rows) ==
  LET present == SelectSeq(rows, LAMBDA x : ~IsNull(Last(x)))
      missing == SelectSeq(rows, LAMBDA x : IsNull(Last(x)))
      Insert(done, x) ==
        LET after == SelectInSeq(done, LAMBDA y : Order(Last(y), Last(x)) = 1)
        IN  IF after = 0 THEN Append(done, x) ELSE InsertAt(done, after, x)
  IN  FoldLeft(Insert, <<>>, present) \o missing

\* The columns of the sorted rows, with the final positions
Numbered(r, rows) ==
  [i \in DOMAIN rows |->
     [c \in DOMAIN r.select |-> IF IsPosition(r.select[c].e) THEN Whole(i) ELSE rows[i][c]]]

Failure == [raised |-> TRUE, rows |-> <<>>]

\* The result of rows that hold the columns and the ORDER BY value
Arranged(r, rows) ==
  IF \E i \in DOMAIN rows : Raises(rows[i]) THEN Failure
  ELSE [raised |-> FALSE, rows |-> Numbered(r, IF r.order = <<>> THEN rows ELSE Sorted(rows))]

\* What is read of a row or a group: the columns and the ORDER BY value
Reading(r) == [c \in DOMAIN r.select |-> r.select[c].e] \o r.order

RowValue(e, env) ==
  CASE e.k = "bare" -> Canonical(e.op, env)
    [] IsPosition(e) -> Null
    [] OTHER -> Value(e, env)

\* _apply_query_body without aggregation
RowResult(r, reading, selected) ==
  Arranged(r, [i \in DOMAIN selected |-> [c \in DOMAIN reading |-> RowValue(reading[c], selected[i])]])

SameKey(a, b) == \A i \in DOMAIN a : Same(a[i], b[i])

\* The rows by group, in the order of the groups' first rows
Groups(selected, keys) ==
  LET firsts == SelectSeq([i \in DOMAIN selected |-> i],
                          LAMBDA i : \A j \in 1..(i - 1) : ~SameKey(keys[i], keys[j]))
      members(n) == SelectSeq([i \in DOMAIN selected |-> i], LAMBDA i : SameKey(keys[i], keys[firsts[n]]))
  IN  [n \in DOMAIN firsts |-> [i \in DOMAIN members(n) |-> selected[members(n)[i]]]]

GroupedValue(e, group, first) ==
  CASE e.k = "bare" -> IF group = <<>> THEN Null ELSE Canonical(e.op, first)
    [] IsPosition(e) -> Null
    [] OTHER -> GroupValue(e, group, first)

NoRowOf(schema, draw) == [NoRow(schema) EXCEPT !.draw = draw]
First(group, nothing) == IF group = <<>> THEN nothing ELSE group[1]

\* The groups HAVING keeps, projected
Surviving(r, reading, groups, truths, nothing) ==
  IF "R" \in ToSet(truths) THEN Failure
  ELSE Arranged(r, [g \in DOMAIN Kept(groups, truths) |->
                      [c \in DOMAIN reading |->
                         GroupedValue(reading[c], Kept(groups, truths)[g],
                                      First(Kept(groups, truths)[g], nothing))]])

HavingTruths(r, groups, nothing) ==
  [g \in DOMAIN groups |->
     IF r.having = <<>> THEN "T" ELSE HavingTruth(r.having[1], groups[g], First(groups[g], nothing))]

GroupsResult(r, groups, nothing) ==
  Surviving(r, Reading(r), groups, HavingTruths(r, groups, nothing), nothing)

\* _apply_aggregate_query
GroupResult(r, selected, keys, nothing) ==
  IF \E i \in DOMAIN keys : Raises(keys[i]) THEN Failure
  ELSE GroupsResult(r, IF r.group = <<>> THEN <<selected>> ELSE Groups(selected, keys), nothing)

Keys(r, selected) ==
  [i \in DOMAIN selected |-> [c \in DOMAIN r.group |-> Value(r.group[c], selected[i])]]

Selected(r, selected, nothing) ==
  IF IsAggregate(r) THEN GroupResult(r, selected, Keys(r, selected), nothing)
  ELSE RowResult(r, Reading(r), selected)

Matched(r, envs, truths, nothing) ==
  IF "R" \in ToSet(truths) THEN Failure ELSE Selected(r, Kept(envs, truths), nothing)

WhereTruths(r, envs) ==
  [i \in DOMAIN envs |-> IF r.where = <<>> THEN "T" ELSE Truth(r.where[1], envs[i])]

RunOn(r, envs, nothing) == Matched(r, envs, WhereTruths(r, envs), nothing)

\* The result of a resolved query over rows, its fields being of the schema,
\* where the i-th row draws draws[i] from RANDOM.
Ran(r, rows, schema, draws) ==
  RunOn(r, [i \in DOMAIN rows |-> [row |-> rows[i], schema |-> schema, elements |-> <<>>, draw |-> draws[i]]],
        NoRowOf(schema, draws[1]))

-----------------------------------------------------------------------------
(* The fields a query needs acquired: _required_body_fields *)

RECURSIVE ExpandAll(_, _)
\* _expand_order_aliases puts the aliases everywhere.
ExpandAll(e, q) ==
  IF e.k = "field" THEN Expand(e, q)
  ELSE [e EXCEPT !.args = [i \in DOMAIN e.args |-> ExpandAll(e.args[i], q)]]

FieldsOf(es) == UNION {FieldsIn(es[i]) : i \in DOMAIN es}

Required(q) ==
  FieldsOf(q.where) \cup FieldsOf(q.group) \cup FieldsOf(q.having)
  \cup FieldsOf([i \in DOMAIN q.order |-> ExpandAll(q.order[i], q)])
  \cup FieldsOf([i \in DOMAIN q.select |-> q.select[i].e])
  \cup (IF q.select = <<>> THEN {"id"} ELSE {})
  \cup (IF q.select # <<>> /\ q.select[1].e = Star THEN {"*"} ELSE {})

\* A name no listing offers, as *, has the whole record acquired.
Acquired(rows, fields) ==
  IF "*" \in fields THEN rows ELSE [i \in DOMAIN rows |-> [n \in DOMAIN rows[i] \cap fields |-> rows[i][n]]]

-----------------------------------------------------------------------------
(* The machine: a query is written, resolved, run *)

Hole == Node("hole", "", <<>>)

RECURSIVE Plugged(_, _)
Plugged(context, e) ==
  IF context = Hole THEN e
  ELSE [context EXCEPT !.args = [i \in DOMAIN context.args |-> Plugged(context.args[i], e)]]

\* Where the grammar wants a predicate; the operand of IS TRUE may be either.
WantsPredicate(e, i) ==
  CASE e.k \in {"not", "and", "or"} -> TRUE
    [] e.k = "case" -> ~IsResult(e, i)
    [] e.k \in Binders \ {"map"} -> i = 2
    [] e.k = "aggregate" -> i = 2
    [] OTHER -> FALSE

RECURSIVE Takes(_, _)
\* The grammar admits e in the hole of the context.
Takes(context, e) ==
  \A i \in DOMAIN context.args :
    IF context.args[i] = Hole
    THEN context.k = "truth" \/ WantsPredicate(context, i) = IsPredicate(e)
    ELSE Takes(context.args[i], e)

Rows == Tables[table]
Schemas == [t \in DOMAIN Tables |-> SchemaOf(Tables[t])]
Schema == Schemas[table]

RECURSIVE Closed(_, _)
Closed(e, depth) ==
  IF e.k = "element" THEN Distance(e) < depth
  ELSE \A i \in DOMAIN e.args : Closed(e.args[i], IF i = 2 /\ e.k \in Binders THEN depth + 1 ELSE depth)

\* A refused operand refuses what stands around it: nothing is written around
\* an expression that every schema refuses.
Hopeful(e) ==
  \/ ~Closed(e, 0)
  \/ \E t \in DOMAIN Tables, having \in BOOLEAN :
       Resolve(Expand(e, query),
               [Row(Schemas[t]) EXCEPT !.structured = TRUE, !.having = having]).out # "refused"

Entries(q) == Len(q.group) + Len(q.select) + Len(q.where) + Len(q.having) + Len(q.order)

Init ==
  /\ draft = <<>>
  /\ steps = 0
  /\ query = Blank
  /\ phase = "write"
  /\ table = "none"
  /\ types = <<>>
  /\ verdict = "none"
  /\ result = NoResult

Begin ==
  /\ phase = "write" /\ draft = <<>>
  /\ steps < MaxSteps /\ Entries(query) < MaxEntries
  /\ \E a \in Atoms : draft' = <<a>>
  /\ steps' = steps + 1
  /\ UNCHANGED <<query, phase, table, types, verdict, result>>

Wrap ==
  /\ phase = "write" /\ draft # <<>>
  /\ steps < MaxSteps
  /\ draft[1] # Star /\ Hopeful(draft[1])
  /\ \E context \in Contexts :
       /\ Takes(context, draft[1])
       /\ draft' = <<Plugged(context, draft[1])>>
  /\ steps' = steps + 1
  /\ UNCHANGED <<query, phase, table, types, verdict, result>>

\* The clauses in the order the resolver reads them, GROUP BY first
Later == [group |-> {"select", "where", "having", "order"}, select |-> {"where", "having", "order"},
          where |-> {"having", "order"}, having |-> {"order"}, order |-> {}]
Single == {"where", "having", "order"}

\* A clause of the query so far that no schema admits: nothing follows it.
Promising(q) ==
  \E t \in DOMAIN Tables :
    /\ \A i \in DOMAIN q.group : Resolve(q.group[i], Row(Schemas[t])).out # "refused" /\ ~HasAggregate(q.group[i])
    /\ \A i \in DOMAIN q.select : q.select[i].e = Star \/ ResolveTerm(q.select[i], Schemas[t]).out # "refused"
    /\ IsAggregate(q) => \A i \in DOMAIN q.select : GroupFits(q.select[i].e, q.group)

Place(clause, entry) ==
  /\ phase = "write" /\ draft # <<>>
  /\ \A later \in Later[clause] : query[later] = <<>>
  /\ clause \in Single => query[clause] = <<>>
  /\ Closed(draft[1], 0) /\ Hopeful(draft[1])
  /\ query' = [query EXCEPT ![clause] = Append(@, entry)]
  /\ Promising(query')
  /\ draft' = <<>>
  /\ UNCHANGED <<steps, phase, table, types, verdict, result>>

PlaceGroup == draft # <<>> /\ draft[1] # Star /\ ~IsPredicate(draft[1]) /\ Place("group", draft[1])
PlaceSelect ==
  /\ draft # <<>> /\ ~IsPredicate(draft[1])
  /\ draft[1] = Star => query.select = <<>>
  /\ query.select # <<>> => query.select[1].e # Star
  /\ \E alias \in Aliases \cup {NoAlias} :
       /\ alias # NoAlias => Aliased(query, alias) = {} /\ draft[1] # Star
       /\ Place("select", Term(draft[1], alias))
PlaceWhere == draft # <<>> /\ IsPredicate(draft[1]) /\ Place("where", draft[1])
PlaceHaving ==
  /\ query.group # <<>> \/ query.select # <<>>
  /\ draft # <<>> /\ IsPredicate(draft[1])
  /\ Place("having", draft[1])
PlaceOrder == draft # <<>> /\ draft[1] # Star /\ ~IsPredicate(draft[1]) /\ Place("order", draft[1])

ResolveQuery ==
  /\ phase = "write" /\ draft = <<>> /\ Entries(query) > 0
  /\ \E t \in DOMAIN Tables :
       /\ Admitted(query, Schemas[t])
       /\ table' = t
       /\ types' = Signatures(Resolved(query, Schemas[t]), Work(Resolved(query, Schemas[t])), Schemas[t])
       /\ verdict' = Verdict(query, Resolved(query, Schemas[t]), types')
  /\ phase' = "resolved"
  /\ UNCHANGED <<draft, steps, query, result>>

\* RANDOM gives each row a number of its own.
RowsFor(m) ==
  CASE m = "whole" -> Rows
    [] m = "needed" -> Acquired(Rows, Required(query))
    [] m = "shuffled" -> Reverse(Rows)
Draws(m) == [i \in 1..(Len(Rows) + 1) |-> IF m = "shuffled" THEN 9 - 2 * i ELSE i + 1]

Run ==
  /\ phase = "resolved" /\ verdict = "accepted"
  /\ result' = [m \in Manners |-> Ran(Resolved(query, Schema), RowsFor(m), Schema, Draws(m))]
  /\ phase' = "ran"
  /\ UNCHANGED <<draft, steps, query, table, types, verdict>>

Next ==
  \/ Begin \/ Wrap
  \/ PlaceGroup \/ PlaceSelect \/ PlaceWhere \/ PlaceHaving \/ PlaceOrder
  \/ ResolveQuery \/ Run

Spec == Init /\ [][Next]_vars

-----------------------------------------------------------------------------
(* Properties *)

\* Resolution decides: it ends in an acceptance or a refusal, never in another
\* exception, and what it accepts runs to a result on every row, also where a
\* provider's values are not of the declared kinds.
AcceptedRuns == verdict # "crashed" /\ \A m \in Manners : ~result[m].raised

\* Every value is of the kind its row's field declares.
Declared ==
  \A i \in DOMAIN Rows : \A name \in DOMAIN Schema :
    Conforms(Canonical(name, [row |-> Rows[i], schema |-> Schema]), Schema[name])

Terms == Projection(query, Schema)

\* The type the resolver gave a column; a collection whose element type it lost
\* is only a list.
Promised(c) ==
  LET type == types[Len(query.where) + Len(query.group) + c].type
  IN  IF type.kind = "crash" THEN Collection(Scalar("unknown", TRUE), TRUE, "stable") ELSE type

\* What a column holds is of the kind, and NULL only with the nullability, that
\* the resolver announced for it: rows of the declared kinds never give a
\* result the output and the enclosing query were told could not come.
ColumnsHonest ==
  phase = "ran" /\ Declared =>
    \A i \in DOMAIN result["whole"].rows, c \in DOMAIN Terms :
      Conforms(result["whole"].rows[i][c], Promised(c))

\* The fields acquisition is asked for are all the query reads: rows that hold
\* nothing else give the same result.
FieldsSuffice == result["needed"] = result["whole"]

\* The columns that neither a draw nor the position in the result decides
Steady == {c \in DOMAIN Terms : ~Calls(Terms[c].e, "RANDOM") /\ ~Calls(Terms[c].e, "POSITION")}

\* Two results with the same rows, each as often, in the steady columns
SameRows(a, b) ==
  LET alike(x, y) == \A c \in Steady : Same(x[c], y[c])
      times(rows, x) == Cardinality({i \in DOMAIN rows : alike(rows[i], x)})
  IN  /\ Len(a) = Len(b)
      /\ \A i \in DOMAIN a : times(a, a[i]) = times(b, a[i])

\* What a query says of its rows does not depend on the order they were
\* acquired in, nor on the numbers RANDOM drew: no value is taken from whichever
\* row of a group came first, and no row is kept or dropped by a draw.
GroupsDeterminate == phase = "ran" => SameRows(result["whole"].rows, result["shuffled"].rows)
=============================================================================
