--------------------------- MODULE MCQueryResolution ---------------------------
(* An instance of QueryResolution: five tables, one operator of each kind. *)
EXTENDS QueryResolution
LOCAL INSTANCE SequencesExt

MCLiterals == [null |-> Null, zero |-> Whole(0), one |-> Whole(1), huge |-> Whole(100), a |-> Text(2), true |-> Flag(TRUE)]
MCDayTexts == {9}
MCCharPoints == 0..12
MCFloatMax == 99

Inner == ElementRef("inner")
Lit(name) == Literal(name)
Live == Node("test", "=", <<Field("is_live"), Lit("true")>>)

MCAtoms ==
  {Field(n) : n \in {"title", "duration", "upload_date", "tags", "chapters", "extra", "n"}}
  \cup {Lit("null"), Lit("one"), Lit("huge"), Inner, Star, Live}
  \cup {Aggregate("COUNT", <<Star>>), Function("RANDOM", <<>>), Function("POSITION", <<>>),
        Node("test", "<", <<Field("duration"), Lit("one")>>)}

MCContexts ==
  {Node("unary", "-", <<Hole>>),
   Node("arithmetic", "/", <<Lit("one"), Hole>>),
   Node("arithmetic", "+", <<Hole, Field("duration")>>),
   Node("arithmetic", "*", <<Hole, Lit("one")>>),
   Node("index", "", <<Hole, Lit("zero")>>),
   Node("index", "", <<Field("tags"), Hole>>),
   Node("member", "title", <<Hole>>),
   Node("count", "", <<Hole, Node("isnull", "", <<Inner>>)>>),
   Node("count", "", <<Field("tags"), Hole>>),
   Node("filter", "", <<Field("chapters"), Hole>>),
   Node("map", "", <<Field("chapters"), Hole>>),
   Node("map", "", <<Hole, Inner>>),
   Node("any", "", <<Field("tags"), Hole>>),
   Node("all", "", <<Hole, Node("compare", "=", <<Inner, Lit("a")>>)>>),
   Node("case", "", <<Hole, Lit("one")>>),
   Node("case", "", <<Live, Hole, Field("duration")>>),
   Node("compare", "=", <<Hole, Field("title")>>),
   Node("compare", "<", <<Lit("one"), Hole>>),
   Node("compare", "IS DISTINCT FROM", <<Hole, Lit("a")>>),
   Node("isnull", "", <<Hole>>),
   Node("not", "", <<Hole>>),
   Node("and", "", <<Hole, Live>>),
   Node("or", "", <<Hole, Node("isnull", "", <<Field("title")>>)>>),
   Node("truth", "T", <<Hole>>),
   Aggregate("COUNT", <<Star, Hole>>)}
  \cup {Aggregate(name, <<Hole>>) : name \in {"COUNT", "SUM", "AVG", "MAX"}}
  \cup {Function(name, <<Hole>>) : name \in {"LOWER", "CARDINALITY", "CHAR"}}
  \cup {Function("CONCAT", <<Hole, Field("title")>>), Function("COALESCE", <<Hole, Field("tags")>>),
        Function("NULLIF", <<Hole, Field("title")>>), Function("GREATEST", <<Hole, Field("duration")>>)}

MCAliases == {"n"}

-----------------------------------------------------------------------------
(* The tables: the columns of two or three rows *)

Chapters == List(<<Dict([title |-> Text(3), start_time |-> Whole(1)]), Dict([title |-> Null, start_time |-> Null])>>)
RowA(extra) == [id |-> Text(5), title |-> Text(1), duration |-> Whole(2), is_live |-> Flag(TRUE),
                 tags |-> List(<<Text(2), Text(4)>>), chapters |-> Chapters, extra |-> extra]
RowB(extra) == [id |-> Text(7), title |-> Text(2), duration |-> Null, is_live |-> Flag(FALSE),
                  upload_date |-> Text(9), tags |-> List(<<>>), extra |-> extra]
RowC(extra) == [id |-> Text(9), title |-> Text(1), duration |-> Fraction(18), is_live |-> Flag(FALSE),
                 upload_date |-> Null, extra |-> extra]
\* A provider's record that does not hold what its fields declare
OddRow(extra) == [id |-> Text(3), title |-> Whole(1), duration |-> Text(2), upload_date |-> Text(4),
               tags |-> Text(1), chapters |-> List(<<Text(1), List(<<>>)>>), extra |-> extra]

Whole3 == <<RowA(Whole(1)), RowB(Null), RowC(Whole(1))>>
Mixed == <<RowA(Whole(1)), RowB(Text(2)), RowC(Fraction(12))>>
Listed == <<RowA(List(<<Whole(1), Null>>)), RowB(List(<<>>))>>
Dirty == <<OddRow(Whole(1)), RowA(Flag(TRUE)), OddRow(Text(2))>>
NoRows == <<>>

MCTables == [whole |-> Whole3, mixed |-> Mixed, lists |-> Listed, odd |-> Dirty, empty |-> NoRows]

-----------------------------------------------------------------------------
(* The queries looked at *)

\* Nodes the group evaluator does not know.
Rowwise == {"index", "member", "count", "filter", "map"}

RECURSIVE NeedsRow(_)
NeedsRow(e) ==
  \/ e.k \in Rowwise
  \/ e.k = "function" /\ e.op = "CARDINALITY"
  \/ /\ e.k # "aggregate"
     /\ \E i \in DOMAIN e.args : (e.k = "case" => IsResult(e, i)) /\ NeedsRow(e.args[i])

RECURSIVE AggregatesIn(_)
AggregatesIn(e) == e.k = "aggregate" \/ \E i \in DOMAIN e.args : AggregatesIn(e.args[i])

RECURSIVE Misplaced(_)
\* An aggregate in a condition that is asked row by row
Misplaced(e) ==
  \E i \in DOMAIN e.args :
    \/ (WantsPredicate(e, i) /\ e.k \notin {"not", "and", "or"}) /\ AggregatesIn(e.args[i])
    \/ Misplaced(e.args[i])

RECURSIVE HasTruth(_)
HasTruth(e) == e.k = "truth" \/ \E i \in DOMAIN e.args : HasTruth(e.args[i])
RECURSIVE TruthOfScalar(_)
TruthOfScalar(e) ==
  \/ e.k = "truth" /\ ~IsPredicate(e.args[1])
  \/ \E i \in DOMAIN e.args : TruthOfScalar(e.args[i])

RECURSIVE SignOfBoolean(_)
SignOfBoolean(e) ==
  \/ e.k = "unary" /\ IsLiteral(e.args[1], {"bool"})
  \/ \E i \in DOMAIN e.args : SignOfBoolean(e.args[i])

RECURSIVE LostType(_, _)
\* An operator that keeps the kind of a collection and not its type
LostType(e, schema) ==
  \/ Resolve(e, Row(schema)).type.kind = "crash"
  \/ \E i \in DOMAIN e.args : LostType(e.args[i], schema)

RECURSIVE Mentions(_, _)
Mentions(e, literal) ==
  e = Lit(literal) \/ \E i \in DOMAIN e.args : Mentions(e.args[i], literal)

RECURSIVE Overflowing(_)
\* A huge number in the arithmetic of a group, or summed up
Overflowing(e) ==
  CASE e.k = "aggregate" -> e.op \in {"SUM", "AVG"} /\ Mentions(e, "huge")
    [] e.k = "arithmetic" -> Mentions(e, "huge")
    [] OTHER -> \E i \in DOMAIN e.args : Overflowing(e.args[i])

Expressions(q) ==
  ToSet(q.group) \cup {q.select[i].e : i \in DOMAIN q.select} \cup ToSet(q.where)
  \cup ToSet(q.having) \cup ToSet(q.order)

\* An alias brought the function into the clause.
Smuggled(es, expanded, name) ==
  \E i \in DOMAIN es : Calls(expanded[i], name) /\ ~Calls(es[i], name)

\* Not looked at, because the code is known to fail there with an exception or
\* a wrong value (each is told in the README):
\*  - an aggregate in a condition asked row by row, or in WHERE;
\*  - IS TRUE of a scalar, and any truth test in HAVING;
\*  - the sign of a boolean literal;
\*  - a collection through CASE, GREATEST, LEAST, MIN or MAX, or a COALESCE or
\*    NULLIF of two types: operators that keep its kind only;
\*  - in an aggregating query, arithmetic or a sum with a number that no float
\*    holds;
\*  - SELECT * or no SELECT of an aggregating query, and the operators that the
\*    group evaluator does not know;
\*  - POSITION and RANDOM behind an alias.
MCAdmitted(q, schema) ==
  LET r == Resolved(q, schema)
      clauses == Expressions(q) \cup ToSet(r.having) \cup ToSet(r.order)
  IN  /\ \A e \in clauses : ~Misplaced(e) /\ ~TruthOfScalar(e) /\ ~SignOfBoolean(e) /\ ~LostType(e, schema)
      /\ \A i \in DOMAIN q.where : ~AggregatesIn(q.where[i])
      /\ \A i \in DOMAIN q.having : ~HasTruth(q.having[i])
      /\ IsAggregate(r) =>
           /\ q.select # <<>> /\ q.select[1].e # Star
           /\ \A e \in {r.select[i].e : i \in DOMAIN r.select} \cup ToSet(r.having) \cup ToSet(r.order) :
                ~NeedsRow(e) /\ ~Overflowing(e)
      /\ ~Smuggled(q.having, r.having, "POSITION") /\ ~Smuggled(q.order, r.order, "POSITION")
      /\ ~Smuggled(q.having, r.having, "RANDOM")
=============================================================================
