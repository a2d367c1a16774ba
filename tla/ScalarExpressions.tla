--------------------------- MODULE ScalarExpressions ---------------------------
(***************************************************************************)
(* The scalar expressions of yt-sql: the schema the resolver infers from   *)
(* the rows, the kind and type it gives each expression or the refusal,    *)
(* and the value the evaluator computes for one row.                       *)
(*                                                                         *)
(* An expression is a node [k, op, args]; a value is a pair of a tag and   *)
(* its content.  Texts stand by their rank, floats by twelfths rounded     *)
(* down; formatting and positions are left out.                            *)
(***************************************************************************)
EXTENDS Integers, Sequences, FiniteSets
LOCAL INSTANCE SequencesExt
Logic == INSTANCE Comparisons

CONSTANTS
  Literals,    \* a function from the literals of the queries to their values
  CharPoints,  \* the code points CHAR takes
  DayTexts,    \* the texts that read as a date
  FloatMax     \* the largest whole number: a float holds no other, a text is no longer

Tags == {"null", "int", "float", "bool", "str"}
ASSUME LiteralsAssumption == \A l \in DOMAIN Literals : Literals[l][1] \in Tags
ASSUME FloatMaxAssumption == FloatMax \in Nat

-----------------------------------------------------------------------------
(* Values *)

Scale == 12
Null == <<"null", 0>>
Whole(n) == <<"int", n>>
Fraction(units) == <<"float", units>>
Flag(b) == <<"bool", IF b THEN 1 ELSE 0>>
Text(rank) == <<"str", rank>>
Day(rank) == <<"date", rank>>
List(elements) == <<"list", elements>>
Dict(members) == <<"dict", members>>
Raised == <<"raised", 0>>

Has(tag, v) == v[1] = tag
IsNull(v) == Has("null", v)
IsNumber(v) == v[1] \in {"int", "float", "bool"}
Units(v) == IF Has("float", v) THEN v[2] ELSE Scale * v[2]
Number(units, whole) == IF whole THEN Whole(units \div Scale) ELSE Fraction(units)

RECURSIVE Same(_, _)
\* Python's a == b
Same(a, b) ==
  CASE IsNumber(a) /\ IsNumber(b) -> Units(a) = Units(b)
    [] a[1] # b[1] -> FALSE
    [] Has("list", a) -> /\ Len(a[2]) = Len(b[2])
                         /\ \A i \in DOMAIN a[2] : Same(a[2][i], b[2][i])
    [] Has("dict", a) -> /\ DOMAIN a[2] = DOMAIN b[2]
                         /\ \A m \in DOMAIN a[2] : Same(a[2][m], b[2][m])
    [] OTHER -> a = b

Unordered == 2
Sign(d) == IF d < 0 THEN -1 ELSE IF d = 0 THEN 0 ELSE 1

RECURSIVE Order(_, _)
\* How Python orders a and b, or that it refuses to
Order(a, b) ==
  CASE IsNumber(a) /\ IsNumber(b) -> Sign(Units(a) - Units(b))
    [] a[1] = b[1] /\ a[1] \in {"str", "date"} -> Sign(a[2] - b[2])
    [] Has("list", a) /\ Has("list", b) ->
         LET common == 1..(IF Len(a[2]) < Len(b[2]) THEN Len(a[2]) ELSE Len(b[2]))
             differ == {i \in common : ~Same(a[2][i], b[2][i])}
             first == CHOOSE i \in differ : \A j \in differ : i <= j
         IN  IF differ = {} THEN Sign(Len(a[2]) - Len(b[2])) ELSE Order(a[2][first], b[2][first])
    [] OTHER -> Unordered

Distinct(a, b) == IF IsNull(a) \/ IsNull(b) THEN IsNull(a) # IsNull(b) ELSE ~Same(a, b)

Compare(op, a, b) ==
  CASE op = "IS DISTINCT FROM" -> Logic!Bool3(Distinct(a, b))
    [] op = "IS NOT DISTINCT FROM" -> Logic!Bool3(~Distinct(a, b))
    [] op \in Logic!Operator /\ (IsNull(a) \/ IsNull(b)) -> "U"
    [] op \in {"=", "!="} -> Logic!Bool3(Same(a, b) = (op = "="))
    [] OTHER -> Logic!Bool3(/\ Order(a, b) # Unordered
                            /\ Logic!Ordered(op, Order(a, b), 0))

Joined(texts) == FoldLeft(LAMBDA n, t : 10 * n + t[2], 0, texts)

Quotient(m, n) == IF n < 0 THEN (-m) \div (-n) ELSE m \div n

IsHuge(units) == units > Scale * FloatMax \/ units < -(Scale * FloatMax)

\* A number that is too large becomes a float: OverflowError
Overflows(op, a, b) ==
  LET m == Units(a)
      n == Units(b)
  IN  IF Has("float", a) \/ Has("float", b) THEN IsHuge(m) \/ IsHuge(n)
      ELSE op = "/" /\ IsHuge(Quotient(m * Scale, n))

\* of two numbers
Computed(op, a, b) ==
  LET m == Units(a)
      n == Units(b)
      whole == ~Has("float", a) /\ ~Has("float", b)
  IN  CASE Overflows(op, a, b) -> Raised
        [] op = "+" -> Number(m + n, whole)
        [] op = "-" -> Number(m - n, whole)
        [] op = "*" -> Number((m * n) \div Scale, whole)
        [] op = "/" -> Fraction(Quotient(m * Scale, n))
        [] op = "%" -> Number(m - n * Quotient(m, n), whole)

\* A text or a list n times
Repeated(v, n) ==
  LET times == [i \in 1..(Units(n) \div Scale) |-> v]
  IN  CASE IsHuge(Units(n)) -> Raised
        [] Has("str", v) -> Text(Joined(times))
        [] OTHER -> List(FlattenSeq([i \in DOMAIN times |-> v[2]]))

(***************************************************************************)
(* Python's arithmetic on whatever a provider has for numbers: Raised for  *)
(* an OverflowError, Null for a TypeError, which both evaluators catch.    *)
(* No text has a percent sign, which % would take for a format.            *)
(***************************************************************************)
Arithmetic(op, a, b) ==
  LET repeats(v, n) == op = "*" /\ v[1] \in {"str", "list"} /\ n[1] \in {"int", "bool"}
  IN  CASE op \in {"/", "%"} /\ IsNumber(b) /\ Units(b) = 0 -> Null
        [] IsNumber(a) /\ IsNumber(b) -> Computed(op, a, b)
        [] op = "+" /\ Has("str", a) /\ Has("str", b) -> Text(Joined(<<a, b>>))
        [] op = "+" /\ Has("list", a) /\ Has("list", b) -> List(a[2] \o b[2])
        [] repeats(a, b) -> Repeated(a, b)
        [] repeats(b, a) -> Repeated(b, a)
        [] op = "%" /\ Has("str", a) /\ b[1] \in {"list", "dict"} -> a
        [] OTHER -> Null

Signed(op, a) ==
  IF ~IsNumber(a) THEN Null
  ELSE Number(IF op = "-" THEN -Units(a) ELSE Units(a), ~Has("float", a))

\* max(values) for side 1, min(values) for side -1
Extreme(values, side) ==
  FoldLeft(LAMBDA best, v : IF Order(v, best) = Unordered THEN Null
                            ELSE IF Order(v, best) = side THEN v ELSE best,
           Head(values), Tail(values))

Element(collection, i) ==
  IF /\ Has("list", collection) /\ Has("int", i)
     /\ i[2] >= 0 /\ i[2] < Len(collection[2])
  THEN collection[2][i[2] + 1] ELSE Null

MemberOf(v, m) == IF Has("dict", v) /\ m \in DOMAIN v[2] THEN v[2][m] ELSE Null

\* An upper-case text has an odd rank, its lower-case form the next.
Lowered(n) == IF n % 2 = 1 THEN n + 1 ELSE n
Uppered(n) == IF n % 2 = 0 /\ n > 0 THEN n - 1 ELSE n

IsPoint(v) == /\ v[1] \in {"int", "float"} /\ Units(v) % Scale = 0
              /\ Units(v) \div Scale \in CharPoints

FunctionNames == {"LOWER", "UPPER", "LENGTH", "CARDINALITY", "COALESCE", "CONCAT", "CHAR",
                  "NULLIF", "GREATEST", "LEAST", "RANDOM", "POSITION"}

FunctionValue(name, vs) ==
  CASE name = "LOWER" -> IF Has("str", vs[1]) THEN Text(Lowered(vs[1][2])) ELSE Null
    [] name = "UPPER" -> IF Has("str", vs[1]) THEN Text(Uppered(vs[1][2])) ELSE Null
    [] name = "LENGTH" -> IF Has("str", vs[1]) THEN Whole(IF vs[1][2] = 0 THEN 0 ELSE 1) ELSE Null
    [] name = "CARDINALITY" -> IF Has("list", vs[1]) THEN Whole(Len(vs[1][2])) ELSE Null
    [] name = "COALESCE" -> LET some == SelectInSeq(vs, LAMBDA v : ~IsNull(v))
                            IN  IF some = 0 THEN Null ELSE vs[some]
    [] name = "CONCAT" -> IF \A i \in DOMAIN vs : Has("str", vs[i]) THEN Text(Joined(vs)) ELSE Null
    [] name = "CHAR" -> IF \A i \in DOMAIN vs : IsPoint(vs[i])
                        THEN Text(Joined([i \in DOMAIN vs |-> Text(100 + Units(vs[i]))])) ELSE Null
    [] name = "NULLIF" -> IF IsNull(vs[1]) \/ Same(vs[1], vs[2]) THEN Null ELSE vs[1]
    [] name \in {"GREATEST", "LEAST"} ->
         IF \E i \in DOMAIN vs : IsNull(vs[i]) THEN Null
         ELSE Extreme(vs, IF name = "GREATEST" THEN 1 ELSE -1)
    [] OTHER -> Raised

-----------------------------------------------------------------------------
(* Types *)

\* shape: the order of a collection, or how a structure's members are known;
\* of: the element of a collection or the members of a structure, by name.
Type(kind, null, shape, of) == [kind |-> kind, null |-> null, shape |-> shape, of |-> of]
Scalar(kind, null) == Type(kind, null, IF kind = "structured" THEN "opaque" ELSE "plain", <<>>)
Collection(element, null, order) ==
  Type("collection", null, order, <<[name |-> "element", type |-> element]>>)
Structured(members, null) == Type("structured", null, "declared", members)
NoType == Scalar("none", TRUE)

ElementType(t) == t.of[1].type
Nullable(t, null) == [t EXCEPT !.null = null]
Member(t, m) ==
  LET at == SelectInSeq(t.of, LAMBDA x : x.name = m)
  IN  IF at = 0 THEN NoType ELSE Nullable(t.of[at].type, t.of[at].type.null \/ t.null)

Numeric(kind) == kind \in {"integer", "number", "count", "duration"}
Loose(kind) == kind \in {"mixed", "unknown"}
Textual(kind) == kind \in {"string", "none"} \/ Loose(kind)

RECURSIVE Conforms(_, _)
\* v is a value the type t promises
Conforms(v, t) ==
  IF IsNull(v) THEN t.null
  ELSE CASE Loose(t.kind) -> TRUE
         [] t.kind \in {"integer", "count"} -> Has("int", v)
         [] t.kind \in {"number", "duration"} -> v[1] \in {"int", "float"}
         [] t.kind = "boolean" -> Has("bool", v)
         [] t.kind = "string" -> Has("str", v)
         [] t.kind = "date" -> Has("date", v)
         [] t.kind = "collection" ->
              Has("list", v) /\ \A i \in DOMAIN v[2] : Conforms(v[2][i], ElementType(t))
         [] t.kind = "structured" ->
              Has("dict", v) /\ \A i \in DOMAIN t.of : Conforms(MemberOf(v, t.of[i].name), t.of[i].type)
         [] OTHER -> FALSE

-----------------------------------------------------------------------------
(* The schema *)

\* One built-in field of each kind, and the collections of two orders.
KnownFields == [id |-> "string", title |-> "string", duration |-> "duration",
                is_live |-> "boolean", upload_date |-> "date"]
ChapterType == Structured(<<[name |-> "title", type |-> Scalar("string", TRUE)],
                            [name |-> "start_time", type |-> Scalar("duration", TRUE)]>>, TRUE)
KnownCollections == [tags |-> Collection(Scalar("string", TRUE), TRUE, "stable"),
                     chapters |-> Collection(ChapterType, TRUE, "unknown")]

ValueKind(v) ==
  CASE Has("bool", v) -> "boolean" [] Has("int", v) -> "integer" [] Has("float", v) -> "number"
    [] Has("str", v) -> "string" [] Has("date", v) -> "date" [] IsNull(v) -> "none"
    [] OTHER -> "structured"

\* infer_kind, for a name without a suffix that decides
InferKind(values) ==
  LET kinds == {ValueKind(v) : v \in {x \in values : ~IsNull(x)}}
  IN  CASE kinds = {} -> "unknown"
        [] kinds \subseteq {"integer", "number"} -> IF "number" \in kinds THEN "number" ELSE "integer"
        [] Cardinality(kinds) = 1 -> CHOOSE k \in kinds : TRUE
        [] OTHER -> "mixed"

RECURSIVE InferCollection(_, _)
\* infer_collection_type, where structured elements are not admitted
InferCollection(values, null) ==
  LET concrete == {v \in values : ~IsNull(v)}
      elements == UNION {ToSet(v[2]) : v \in concrete}
      present == {x \in elements : ~IsNull(x)}
      lists == {x \in present : Has("list", x)}
      element == IF lists # {} /\ lists = present THEN InferCollection(elements, Null \in elements)
                 ELSE IF lists # {} \/ \E x \in present : Has("dict", x) THEN NoType
                 ELSE Scalar(InferKind(elements), Null \in elements)
  IN  IF \/ concrete = {} \/ \E v \in concrete : ~Has("list", v)
         \/ element.kind = "none"
      THEN NoType ELSE Collection(element, null, "stable")

Raw(name, row) == IF name \in DOMAIN row THEN row[name] ELSE Null

\* The schema of a sequence of rows: the type of each field.
SchemaOf(rows) ==
  LET values(name) == {Raw(name, rows[i]) : i \in DOMAIN rows}
      null(name) == rows = <<>> \/ Null \in values(name)
      observed == UNION {{n \in DOMAIN rows[i] : ~Has("dict", rows[i][n])} : i \in DOMAIN rows}
      dynamic == observed \ (DOMAIN KnownFields \cup DOMAIN KnownCollections)
      seen(name) == {rows[i][name] : i \in {j \in DOMAIN rows : name \in DOMAIN rows[j]}}
      inferred(name) == InferCollection(seen(name), null(name))
  IN  [name \in DOMAIN KnownFields \cup DOMAIN KnownCollections \cup dynamic |->
         CASE name \in DOMAIN KnownFields -> Scalar(KnownFields[name], null(name))
           [] name \in DOMAIN KnownCollections -> Nullable(KnownCollections[name], null(name))
           [] inferred(name).kind = "collection" -> inferred(name)
           [] OTHER -> Scalar(InferKind(seen(name)), null(name))]

-----------------------------------------------------------------------------
(* Expressions *)

Node(k, op, args) == [k |-> k, op |-> op, args |-> args]
Field(name) == Node("field", name, <<>>)
Literal(name) == Node("literal", name, <<>>)
\* The element of the innermost enclosing collection, or of the one around it.
ElementRef(distance) == Node("element", distance, <<>>)
Distance(e) == IF e.op = "inner" THEN 0 ELSE 1
Function(name, args) == Node("function", name, args)
Aggregate(name, args) == Node("aggregate", name, args)   \* an argument, a FILTER
Star == Node("star", "*", <<>>)

Binders == {"count", "filter", "map", "any", "all"}
Predicates == {"compare", "test", "isnull", "not", "and", "or", "truth", "any", "all"}
IsPredicate(e) == e.k \in Predicates

RECURSIVE Calls(_, _)
Calls(e, name) ==
  (e.k = "function" /\ e.op = name) \/ \E i \in DOMAIN e.args : Calls(e.args[i], name)

\* A CASE is its conditions and results in turn, and then its ELSE.
HasElse(e) == Len(e.args) % 2 = 1
Branches(e) == 1..(Len(e.args) \div 2)
Condition(e, b) == e.args[2 * b - 1]
IsResult(e, i) == i % 2 = 0 \/ i = Len(e.args)

RECURSIVE HasAggregate(_)
\* _contains_aggregate does not look into the conditions of a CASE, and
\* _having_contains_aggregate not into truth tests and quantifiers.
HasAggregate(e) ==
  CASE e.k = "aggregate" -> TRUE
    [] e.k = "case" -> \E i \in DOMAIN e.args : IsResult(e, i) /\ HasAggregate(e.args[i])
    [] e.k \in {"truth", "any", "all"} -> FALSE
    [] OTHER -> \E i \in DOMAIN e.args : HasAggregate(e.args[i])

Combined(fields) == UNION {fields[i] : i \in DOMAIN fields}

RECURSIVE FieldsInArguments(_)
\* Mutant of FieldsIn: the FILTER of an aggregate is not looked into.
FieldsInArguments(e) ==
  (IF e.k = "field" THEN {e.op} ELSE {})
  \cup UNION {FieldsInArguments(e.args[i]) : i \in {j \in DOMAIN e.args : e.k # "aggregate" \/ j = 1}}

RECURSIVE FieldsIn(_)
\* The required fields of analyse_expression; _combine for a node of parts.
FieldsIn(e) ==
  IF e.k = "field" THEN {e.op} ELSE Combined([i \in DOMAIN e.args |-> FieldsIn(e.args[i])])

RECURSIVE IsConstant(_)
IsConstant(e) ==
  \/ e.k = "literal"
  \/ e.k \in {"unary", "arithmetic", "function", "index"} /\ \A i \in DOMAIN e.args : IsConstant(e.args[i])

-----------------------------------------------------------------------------
(* Evaluation of one row *)

\* env: the row, its schema, the elements bound around, and the row's draw of
\* RANDOM.  Provider text that reads as a date is a date in a date field.
Canonical(name, env) ==
  LET v == Raw(name, env.row)
  IN  IF Has("str", v) /\ v[2] \in DayTexts /\ env.schema[name].kind = "date"
      THEN Day(v[2]) ELSE v

Bind(env, element) == [env EXCEPT !.elements = Append(@, element)]

\* The literal of a field test in the field's own kind; Raised when refused.
\* An integer stands for the duration text of so many seconds.
Converted(kind, v) ==
  CASE Has("bool", v) \/ Loose(kind) \/ kind = "collection" -> v
    [] kind \in {"duration", "count", "integer"} /\ Has("int", v) -> v
    [] kind = "number" /\ v[1] \in {"int", "float"} -> v
    [] kind = "date" /\ Has("str", v) /\ v[2] \in DayTexts -> Day(v[2])
    [] kind = "string" /\ Has("str", v) -> v
    [] kind = "string" /\ IsNumber(v) -> Text(200 + Units(v))
    [] OTHER -> Raised

Any3(truths) == IF "T" \in truths THEN "T" ELSE IF "U" \in truths THEN "U" ELSE "F"
All3(truths) == IF "F" \in truths THEN "F" ELSE IF "U" \in truths THEN "U" ELSE "T"

Opposite(t) == IF t = "R" THEN t ELSE Logic!Not3(t)
TruthTest(op, t) == IF t = "R" THEN t ELSE Logic!Bool3(t = op)
Quantified(k, truths) == IF "R" \in truths THEN "R" ELSE IF k = "any" THEN Any3(truths) ELSE All3(truths)

Raises(values) == \E i \in DOMAIN values : Has("raised", values[i])

\* An operator of its operands' values, an overflow being what the evaluator
\* makes of it
Applied(e, values, overflow) ==
  IF Raises(values) THEN Raised
  ELSE CASE e.k = "unary" -> Signed(e.op, values[1])
         [] e.k = "arithmetic" ->
              LET v == Arithmetic(e.op, values[1], values[2])
              IN  IF Has("raised", v) THEN overflow ELSE v
         [] e.k = "index" -> Element(values[1], values[2])
         [] e.k = "member" -> MemberOf(values[1], e.op)
         [] e.k = "function" -> FunctionValue(e.op, values)

\* A comparison or a test for NULL of its operands' values
Judged(p, values) ==
  IF Raises(values) THEN "R"
  ELSE IF p.k = "isnull" THEN Logic!Bool3(IsNull(values[1]))
  ELSE Compare(p.op, values[1], values[2])

\* The right operand is not evaluated when the left one decides.
Connected(op, s, t) ==
  CASE s = "R" -> "R"
    [] op = "and" -> IF s = "F" THEN "F" ELSE IF t = "R" THEN "R" ELSE Logic!And3(s, t)
    [] op = "or" -> IF s = "T" THEN "T" ELSE IF t = "R" THEN "R" ELSE Logic!Or3(s, t)

\* A CASE whose conditions came out as truths: the result to take, 0 for none
Branch(e, truths) ==
  LET stops == SelectInSeq(truths, LAMBDA t : t \in {"T", "R"})
  IN  IF stops # 0 THEN 2 * stops ELSE IF HasElse(e) THEN Len(e.args) ELSE 0
Broken(truths) ==
  LET stops == SelectInSeq(truths, LAMBDA t : t \in {"T", "R"})
  IN  stops # 0 /\ truths[stops] = "R"

\* The elements of which the predicate is TRUE
Kept(elements, truths) ==
  LET kept == SelectSeq([i \in DOMAIN elements |-> i], LAMBDA i : truths[i] = "T")
  IN  [i \in DOMAIN kept |-> elements[kept[i]]]

Filtered(k, elements, truths) ==
  CASE "R" \in ToSet(truths) -> Raised
    [] k = "count" -> Whole(Len(Kept(elements, truths)))
    [] k = "filter" -> List(Kept(elements, truths))

RECURSIVE Value(_, _), CaseValue(_, _, _), BoundValue(_, _, _)
RECURSIVE Truth(_, _), BoundTruth(_, _, _)

\* _evaluate_scalar_expression
Value(e, env) ==
  CASE e.k = "field" -> Canonical(e.op, env)
    [] e.k = "literal" -> Literals[e.op]
    [] e.k = "element" ->
         LET at == Len(env.elements) - Distance(e)
         IN  IF at \in DOMAIN env.elements THEN env.elements[at] ELSE Null
    [] e.k = "case" -> CaseValue(e, [b \in Branches(e) |-> Truth(Condition(e, b), env)], env)
    [] e.k \in Binders -> BoundValue(e, Value(e.args[1], env), env)
    [] e.k = "function" /\ e.op = "RANDOM" -> Fraction(env.draw)
    [] e.k \in {"unary", "arithmetic", "index", "member", "function"} ->
         Applied(e, [i \in DOMAIN e.args |-> Value(e.args[i], env)], Null)
    [] OTHER -> Raised

CaseValue(e, truths, env) ==
  CASE Broken(truths) -> Raised
    [] Branch(e, truths) = 0 -> Null
    [] OTHER -> Value(e.args[Branch(e, truths)], env)

\* COUNT(c AS x WHERE p), FILTER(c AS x WHERE p) and MAP(c AS x SELECT e)
BoundValue(e, collection, env) ==
  LET elements == collection[2]
      images == [i \in DOMAIN elements |-> Value(e.args[2], Bind(env, elements[i]))]
  IN  CASE Has("raised", collection) -> Raised
        [] ~Has("list", collection) -> Null
        [] e.k = "map" -> IF Raises(images) THEN Raised ELSE List(images)
        [] e.k \in {"count", "filter"} ->
             Filtered(e.k, elements, [i \in DOMAIN elements |-> Truth(e.args[2], Bind(env, elements[i]))])

\* A predicate of one row: T, F, U, or R when the evaluation raises.
Truth(p, env) ==
  CASE p.k = "not" -> Opposite(Truth(p.args[1], env))
    [] p.k \in {"and", "or"} -> Connected(p.k, Truth(p.args[1], env), Truth(p.args[2], env))
    [] p.k = "truth" -> TruthTest(p.op, Truth(p.args[1], env))
    [] p.k \in {"any", "all"} -> BoundTruth(p, Value(p.args[1], env), env)
    [] p.k = "test" ->
         LET v == Canonical(p.args[1].op, env)
         IN  Compare(p.op, v, Converted(env.schema[p.args[1].op].kind, Literals[p.args[2].op]))
    [] p.k \in {"compare", "isnull"} -> Judged(p, [i \in DOMAIN p.args |-> Value(p.args[i], env)])
    [] OTHER -> "R"

BoundTruth(p, collection, env) ==
  CASE Has("raised", collection) -> "R"
    [] ~Has("list", collection) -> "U"
    [] OTHER -> Quantified(p.k, {Truth(p.args[2], Bind(env, collection[2][i])) : i \in DOMAIN collection[2]})

-----------------------------------------------------------------------------
(* Resolution *)

\* What resolving an expression gives: a kind and a type, a refusal, or an
\* exception that is no refusal.  type is NoType when the kind is unknown, and
\* its kind is "crash" where asking for it raises: a collection of which the
\* resolver kept the kind only.
Signature(kind, type) == [out |-> "ok", kind |-> kind, type |-> type]
Refused == [out |-> "refused", kind |-> "none", type |-> NoType]
Crashed == [out |-> "crashed", kind |-> "none", type |-> NoType]
Derived(kind) == IF kind = "collection" THEN Scalar("crash", TRUE) ELSE Scalar(kind, TRUE)
OfKind(kind) == Signature(kind, Derived(kind))
OfType(type) == Signature(type.kind, type)
Truthful == OfKind("boolean")

\* Mutant of CommonKind: what is numeric is whole.
CommonKindWhole(kinds) ==
  LET some == kinds \ {"none"}
  IN  CASE some = {} -> "none"
        [] Cardinality(some) = 1 -> CHOOSE k \in some : TRUE
        [] \A k \in some : Numeric(k) -> "integer"
        [] \E k \in some : Loose(k) -> "mixed"
        [] OTHER -> "incompatible"

\* CASE and the functions of several arguments: one kind for all that have one
CommonKind(kinds) ==
  LET some == kinds \ {"none"}
  IN  CASE some = {} -> "none"
        [] Cardinality(some) = 1 -> CHOOSE k \in some : TRUE
        [] \A k \in some : Numeric(k) -> "number"
        [] \E k \in some : Loose(k) -> "mixed"
        [] OTHER -> "incompatible"

OfCommon(kinds) == IF CommonKind(kinds) = "incompatible" THEN Refused ELSE OfKind(CommonKind(kinds))
KindsOf(parts) == {parts[i].kind : i \in DOMAIN parts}
TypesOf(parts) == {parts[i].type : i \in DOMAIN parts}

IsLiteral(e, tags) == e.k = "literal" /\ Literals[e.op][1] \in tags

ResolveUnary(e, operand) ==
  IF IF e.args[1].k = "literal" THEN IsLiteral(e.args[1], {"str"}) ELSE ~Numeric(operand.kind)
  THEN Refused ELSE OfKind(IF operand.kind = "none" THEN "number" ELSE operand.kind)

ResolveArithmetic(parts) ==
  IF \A k \in KindsOf(parts) : k = "none" \/ Numeric(k) THEN OfKind("number") ELSE Refused

ResolveCase(e, parts) == OfCommon({parts[i].kind : i \in {j \in DOMAIN parts : IsResult(e, j)}})

ResolveMember(e, base) ==
  CASE base.type.kind = "crash" -> Crashed
    [] base.type.kind # "structured" \/ base.type.shape = "opaque" -> Refused
    [] Member(base.type, e.op).kind = "none" -> Refused
    [] OTHER -> OfType(Member(base.type, e.op))

\* A constant index is computed, to v; any other is judged by its kind.
IndexFits(index, kind, v) ==
  IF IsConstant(index) THEN IsNull(v) \/ (Has("int", v) /\ v[2] >= 0)
  ELSE kind \in {"integer", "count", "none"}

ResolveIndex(e, parts, constants) ==
  CASE parts[1].type.kind = "crash" -> Crashed
    [] parts[1].type.kind # "collection" \/ parts[1].type.shape # "stable" -> Refused
    [] ~IndexFits(e.args[2], parts[2].kind, constants[2]) -> Refused
    [] OTHER -> OfType(Nullable(ElementType(parts[1].type), TRUE))

\* Mutant of ResolveAggregate: an aggregate of an aggregate passes.
ResolveAggregateNested(e, argument) ==
  CASE e.op \in {"SUM", "AVG"} /\ argument.kind # "none" /\ ~Numeric(argument.kind) -> Refused
    [] e.op = "COUNT" -> OfKind("integer")
    [] e.op = "AVG" \/ (e.op = "SUM" /\ argument.kind = "none") -> OfKind("number")
    [] OTHER -> OfKind(argument.kind)

ResolveAggregate(e, argument) ==
  CASE HasAggregate(e.args[1]) -> Refused
    [] e.op \in {"SUM", "AVG"} /\ argument.kind # "none" /\ ~Numeric(argument.kind) -> Refused
    [] e.op = "COUNT" -> OfKind("integer")
    [] e.op = "AVG" \/ (e.op = "SUM" /\ argument.kind = "none") -> OfKind("number")
    [] OTHER -> OfKind(argument.kind)

CharFits(argument, kind, v) ==
  /\ kind = "none" \/ Numeric(kind)
  /\ IsConstant(argument) => IsNull(v) \/ IsPoint(v)

\* COALESCE and NULLIF keep the type of collections and structures they agree on.
Preserved(parts) ==
  LET types == {t \in TypesOf(parts) : t.kind # "none"}
      complex == {t \in types : t.kind \in {"collection", "structured"}}
  IN  IF types # {} /\ types = complex /\ Cardinality(complex) = 1
      THEN Nullable(CHOOSE t \in complex : TRUE, TRUE) ELSE NoType

ResolvePreserving(name, parts) ==
  LET common == OfCommon(KindsOf(parts))
      kind == IF name = "NULLIF" /\ parts[1].kind # "none" THEN parts[1].kind ELSE common.kind
  IN  CASE common.out # "ok" -> Refused
        [] \E t \in TypesOf(parts) : t.kind = "crash" -> Crashed
        [] Preserved(parts).kind # "none" -> Signature(kind, Preserved(parts))
        [] OTHER -> OfKind(kind)

ResolveCardinality(argument) ==
  CASE argument.type.kind = "crash" -> Crashed
    [] argument.type.kind # "collection" -> Refused
    [] OTHER -> OfType(Scalar("integer", argument.type.null))

ResolveFunction(e, parts, constants) ==
  CASE e.op \in {"LOWER", "UPPER", "LENGTH", "CONCAT"} ->
         IF \A k \in KindsOf(parts) : Textual(k)
         THEN OfKind(IF e.op = "LENGTH" THEN "integer" ELSE "string") ELSE Refused
    [] e.op = "CARDINALITY" -> ResolveCardinality(parts[1])
    [] e.op = "CHAR" -> IF \A i \in DOMAIN parts : CharFits(e.args[i], parts[i].kind, constants[i])
                        THEN OfKind("string") ELSE Refused
    [] e.op \in {"NULLIF", "COALESCE"} -> ResolvePreserving(e.op, parts)
    [] e.op \in {"GREATEST", "LEAST"} -> OfCommon(KindsOf(parts))
    [] e.op = "POSITION" -> OfKind("integer")
    [] e.op = "RANDOM" -> OfKind("number")

\* COUNT, FILTER, MAP, ANY and ALL over a collection
ResolveBinder(e, collection, body) ==
  CASE e.k = "count" -> OfType(Scalar("integer", collection.type.null))
    [] e.k = "filter" -> OfType(collection.type)
    [] e.k \in {"any", "all"} -> Truthful
    [] HasAggregate(e.args[2]) -> Refused
    [] body.type.kind = "crash" -> Crashed
    [] OTHER -> OfType(Collection(IF body.type.kind = "none" THEN Scalar("unknown", TRUE) ELSE body.type,
                                  collection.type.null, collection.type.shape))

ResolveCompare(kinds) ==
  IF \/ Cardinality(kinds \ {"none"}) <= 1
     \/ \A k \in kinds \ {"none"} : Numeric(k)
     \/ "mixed" \in kinds
  THEN Truthful ELSE Refused

ResolveTest(p, schema) ==
  LET name == p.args[1].op
      literal == Literals[p.args[2].op]
  IN  IF \/ name \notin DOMAIN schema
         \/ schema[name].kind = "structured"
         \/ IsNull(literal)
         \/ Has("raised", Converted(schema[name].kind, literal))
      THEN Refused ELSE Truthful

NullSafe == {"IS DISTINCT FROM", "IS NOT DISTINCT FROM"}

\* A predicate outside HAVING compares a field with a literal only: "test".
Written(p, having) ==
  CASE p.k = "test" \/ p.k \in {"any", "all"} -> ~having
    [] p.k = "compare" -> having \/ p.args[1].k # "field" \/ p.op \in NullSafe
    [] p.k = "truth" -> having \/ p.args[1].k # "field"
    [] OTHER -> TRUE

\* What is resolved below e.args[i]: the collection elements in scope, whether
\* a structured field may stand there, whether this is the level of HAVING.
Below(e, i, c) ==
  [c EXCEPT
     !.scopes = IF e.k = "aggregate" /\ i = 2 THEN <<>> ELSE @,
     !.structured = \/ e.k = "member" \/ e.k \in Binders
                    \/ e.k = "index" /\ i = 1 /\ e.args[1].k = "field"
                    \/ e.k = "isnull" /\ ~c.having /\ e.args[1].k = "field"
                    \/ e.k = "function" /\ e.op \in {"COALESCE", "NULLIF"} /\ c.structured,
     !.having = @ /\ e.k \in {"not", "and", "or", "truth"}]

ResolveLeaf(e, c) ==
  CASE e.k = "literal" -> OfKind(ValueKind(Literals[e.op]))
    [] e.k = "star" -> OfKind("none")
    [] e.k = "element" ->
         LET at == Len(c.scopes) - Distance(e)
         IN  IF at \in DOMAIN c.scopes THEN OfType(c.scopes[at]) ELSE Refused
    [] e.k = "field" -> IF \/ e.op \notin DOMAIN c.schema
                           \/ c.schema[e.op].kind = "structured" /\ ~c.structured
                        THEN Refused ELSE OfType(c.schema[e.op])

NoRow(schema) == [row |-> [n \in {} |-> Null], schema |-> schema, elements |-> <<>>, draw |-> 5]

\* constants: the values of the operands that are constants
ResolveNode(e, parts, constants) ==
  CASE e.k = "unary" -> ResolveUnary(e, parts[1])
    [] e.k = "arithmetic" -> ResolveArithmetic(parts)
    [] e.k = "case" -> ResolveCase(e, parts)
    [] e.k = "member" -> ResolveMember(e, parts[1])
    [] e.k = "index" -> ResolveIndex(e, parts, constants)
    [] e.k = "aggregate" -> ResolveAggregate(e, parts[1])
    [] e.k = "function" -> ResolveFunction(e, parts, constants)
    [] e.k = "compare" -> ResolveCompare(KindsOf(parts))
    [] OTHER -> Truthful

RECURSIVE Resolve(_, _)
Resolve(e, c) ==
  IF IsPredicate(e) /\ ~Written(e, c.having) THEN Refused
  \* IS TRUE of a scalar: no predicate the resolver knows
  ELSE IF e.k = "truth" /\ ~IsPredicate(e.args[1]) THEN Crashed
  ELSE IF e.k = "test" THEN ResolveTest(e, c.schema)
  ELSE IF e.args = <<>> /\ e.k # "function" THEN ResolveLeaf(e, c)
  ELSE IF e.k \in Binders
  THEN LET collection == Resolve(e.args[1], Below(e, 1, c))
           body == Resolve(e.args[2], [Below(e, 2, c) EXCEPT !.scopes = Append(c.scopes, ElementType(collection.type))])
       IN  CASE collection.out # "ok" -> collection
             [] collection.type.kind = "crash" -> Crashed
             [] collection.type.kind # "collection" -> Refused
             [] body.out # "ok" -> body
             [] OTHER -> ResolveBinder(e, collection, body)
  ELSE LET parts == [i \in DOMAIN e.args |-> Resolve(e.args[i], Below(e, i, c))]
           failed == SelectInSeq(parts, LAMBDA s : s.out # "ok")
           constants == [i \in DOMAIN e.args |->
                           IF IsConstant(e.args[i]) THEN Value(e.args[i], NoRow(c.schema)) ELSE Null]
       IN  IF failed # 0 THEN parts[failed] ELSE ResolveNode(e, parts, constants)
=============================================================================
