---------------------------- MODULE SettingValues ----------------------------
(***************************************************************************)
(* The JSON values of a profile's settings, as both downloaders see them.  *)
(* A text is kept as the tokens the validators tell apart: a run of digits *)
(* is one token, so is a word or a separator; blanks around the text and   *)
(* upper case in it are two flags.  A fraction has one digit.              *)
(***************************************************************************)
EXTENDS Integers, Sequences, SequencesExt, FiniteSets

Bad == <<"bad">>                   \* the validator raises
Bool(b) == <<"bool", b>>
Number(n) == <<"int", n>>
Float(n) == <<"float", n>>
List(items) == <<"list", items>>
Text(toks) == <<"str", FALSE, FALSE, toks>>
\* "$values.<name>", and "$$..." for a text that starts with a dollar sign
Ref(name) == <<"ref", name>>
Escaped(toks) == <<"escaped", toks>>

Num(n) == <<"n", n>>
Word(w) == <<"w", w>>

IsText(v) == v[1] = "str"
IsInt(v) == v[1] = "int"
IsBool(v) == v[1] = "bool"
IsList(v) == v[1] = "list"
Yes(v) == v = Bool(TRUE)

Toks(v) == v[4]
Padded(v) == [v EXCEPT ![2] = TRUE]
Capital(v) == [v EXCEPT ![3] = TRUE]
Trim(v) == [v EXCEPT ![2] = FALSE]
Lower(v) == [v EXCEPT ![3] = FALSE]

IsNum(toks) == Len(toks) = 1 /\ toks[1][1] = "n"
AtLeast(toks, min) == IsNum(toks) /\ toks[1][2] >= min
Decimal(n) == IF n < 0 THEN <<Word("-"), Num(-n)>> ELSE <<Num(n)>>

\* str.strip
Strip(toks) ==
  LET solid == {i \in DOMAIN toks : toks[i] # Word(" ")}
  IN IF solid = {} THEN <<>> ELSE SubSeq(toks, Min(solid), Max(solid))
Split(toks, sep) ==
  FoldLeft(LAMBDA acc, t : IF t = sep THEN Append(acc, <<>>)
                                      ELSE Append(Front(acc), Append(Last(acc), t)),
           <<<<>>>>, toks)
Join(parts, sep) ==
  FoldLeft(LAMBDA acc, part : IF acc = <<>> THEN <<part>> ELSE acc \o <<<<sep>>, part>>,
           <<>>, parts)
Joined(parts, sep) == FlattenSeq(Join(parts, sep))

\* [sign] digits, as <<"int", n>>
Signed(toks) ==
  IF IsNum(toks) THEN Number(toks[1][2])
  ELSE IF Len(toks) = 2 /\ toks[1] \in {Word("+"), Word("-")} /\ IsNum(<<toks[2]>>)
       THEN Number(IF toks[1] = Word("-") THEN -toks[2][2] ELSE toks[2][2])
  ELSE Bad

\* A list of items each of which must pass.
Passing(items) == IF Bad \in ToSet(items) THEN Bad ELSE List(items)
All(v, Item(_)) ==
  IF ~IsList(v) \/ v[2] = <<>> THEN Bad ELSE Passing([i \in DOMAIN v[2] |-> Item(v[2][i])])

\* Settings are functions from keys to values; Updated is dict.update.
NoSettings == [k \in {} |-> Bad]
Updated(s, t) == [k \in DOMAIN s \cup DOMAIN t |-> IF k \in DOMAIN t THEN t[k] ELSE s[k]]
Without(s, keys) == [k \in DOMAIN s \ keys |-> s[k]]
Set(s, k, v) == Updated(s, [x \in {k} |-> v])
Is(s, k, v) == k \in DOMAIN s /\ s[k] = v
=============================================================================
