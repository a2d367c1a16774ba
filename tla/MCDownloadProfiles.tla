------------------------- MODULE MCDownloadProfiles -------------------------
(* An instance of ProfilePorts for TLC. *)
EXTENDS ProfilePorts, TLC

W(x) == Text(<<Word(x)>>)
T(toks) == Text(toks)
Chain == ("default" :> "base") @@ ("base" :> "root") @@ ("root" :> NoParent)
Pair == ("default" :> NoParent) @@ ("kid" :> "default")
Cycle == ("default" :> "base") @@ ("base" :> "kid") @@ ("kid" :> "base")
Ghost == ("default" :> "ghost")
Self == ("default" :> "default")
Single == ("kid" :> NoParent)
MCShapes == {Chain, Pair, Cycle, Ghost, Self, Single, [p \in {} |-> NoParent]}
MCCaseFold == ("base" :> 1) @@ ("default" :> 2) @@ ("kid" :> 3) @@ ("root" :> 4)

MCCookieFiles == {W("c1")}

\* Settings that bear on each other, on every layer.
Policy ==
  {<<"cookies", W("c1")>>, <<"cookies", W("c2")>>, <<"no-cookies", Bool(TRUE)>>,
   <<"cookies-from-browser", T(<<Word("firefox"), Word(":"), Word("x")>>)>>,
   <<"live", Bool(TRUE)>>, <<"live", Bool(FALSE)>>, <<"wait-for-video", T(<<Num(5)>>)>>,
   <<"live-from-start", Bool(TRUE)>>, <<"write-live-chat", Bool(TRUE)>>,
   <<"sub-langs", T(<<Word("en"), Word(","), Word("-"), Word("live_chat")>>)>>,
   <<"sub-langs", W("en")>>,
   <<"audio-format", Capital(W("mp3"))>>, <<"audio-quality", T(<<Num(5)>>)>>,
   <<"audio-only", Bool(TRUE)>>, <<"audio-source-codec", W("opus")>>,
   <<"playlist", Bool(FALSE)>>, <<"playlist", Bool(TRUE)>>,
   <<"playlist-items", List(<<Number(2)>>)>>,
   <<"time-ranges", List(<<T(<<Num(10), Word("-"), Num(20)>>)>>)>>,
   <<"sponsorblock", Bool(FALSE)>>, <<"sponsorblock-mark", W("intro")>>,
   <<"min-fps", Number(30)>>, <<"max-fps", Number(25)>>, <<"write-subs", Bool(TRUE)>>,
   <<"embed-subs", Bool(TRUE)>>, <<"impersonate", W("chrome")>>,
   <<"headers", List(<<T(<<Word("user-agent"), Word(":"), Word("x")>>)>>)>>,
   <<"user-agent", W("x")>>, <<"format", W("best")>>, <<"write-thumbnail", Bool(FALSE)>>}
Layers == {"$defaults", "root", "default", "kid"}
CliOnly == {<<"no-wait", Bool(TRUE)>>, <<"whole-item", Bool(TRUE)>>, <<"no-impersonate", Bool(TRUE)>>,
            <<"audio-quality", W("K")>>}

\* One text of each grammar after the other, alone in "$defaults": it is
\* normalised there and once more in every profile below.
Minus == Word("-")
Colon == Word(":")
Rates == {T(<<Num(5), Word("M")>>), Padded(T(<<Num(5), Word("."), Num(2), Word("K")>>)), T(<<Num(7)>>),
          T(<<Num(5), Word("K"), Word("M")>>), T(<<Num(5), Word("."), Word("K")>>), W("M"), Number(5)}
Retries == {Number(3), Number(-1), Padded(Capital(W("infinite"))), Padded(T(<<Num(3)>>)), W("never"),
            Bool(TRUE)}
Qualities == {Number(5), Number(11), T(<<Num(10)>>), T(<<Num(11)>>), Padded(T(<<Num(128), Word("K")>>)),
              T(<<Num(0), Word("K")>>), T(<<Num(1), Word("."), Num(5), Word("M")>>), W("K")}
Waits == {Number(5), Number(0), Padded(T(<<Num(5)>>)), T(<<Num(5), Minus, Num(9)>>),
          T(<<Num(9), Minus, Num(5)>>), T(<<Num(0), Minus, Num(5)>>), T(<<Num(5), Minus>>)}
Slices == {T(<<Num(2), Colon>>), T(<<Colon, Minus, Num(2)>>), T(<<Colon>>), T(<<Colon, Colon, Num(2)>>),
           T(<<Word("+"), Num(2), Colon, Num(4), Colon, Num(0)>>), T(<<Colon, Colon, Colon>>),
           T(<<Num(2), Word(" "), Colon, Num(4)>>), Padded(T(<<Minus, Num(3)>>)), Number(0), Number(-3),
           T(<<Word("+"), Num(3)>>), W("x"), Bool(TRUE)}
Ranges == {T(<<Num(10), Word(" "), Minus, Word(" "), Num(20)>>),
           T(<<Num(1), Word(" "), Num(0), Minus, Num(20)>>),
           T(<<Minus, Num(10), Minus, Minus, Num(5)>>), T(<<Num(10), Minus, Num(10)>>),
           Padded(Capital(T(<<Num(1), Colon, Num(30), Minus, Word("inf")>>))),
           T(<<Num(90), Colon, Num(30), Minus, Word("inf")>>), T(<<Num(10), Minus, Minus, Num(5)>>),
           T(<<Num(1), Colon, Num(90), Colon, Num(0), Minus, Word("inf")>>),
           T(<<Num(1), Colon, Num(0), Minus, Num(61)>>), T(<<Num(1), Colon, Num(1), Minus, Num(61)>>),
           T(<<Num(1), Word("."), Num(5), Minus, Num(1), Word("."), Num(6)>>), T(<<Num(10), Minus>>),
           List(<<T(<<Num(5)>>), T(<<Num(9)>>)>>), List(<<T(<<Num(5)>>), T(<<Num(5)>>)>>),
           List(<<T(<<Minus, Num(5)>>), W("inf")>>), List(<<W("inf"), T(<<Num(5)>>)>>), Number(5)}
Bounds == {Number(720), T(<<Num(720), Word("p")>>), Padded(T(<<Num(720)>>)), T(<<Num(0)>>), Number(0),
           W("best"), W("p"), Bool(TRUE)}
Marks == {W("intro"), W("chapter"), W("odd"), Padded(T(<<Word("all"), Word(","), Word(" "), Minus, Word("intro")>>)),
          T(<<Word("intro"), Word(","), Word(",")>>), Capital(W("intro"))}
HeaderTexts == {Padded(T(<<Word("a"), Colon, Word(" "), Word("b"), Colon, Word("c")>>)),
                T(<<Word("a"), Colon>>), T(<<Word("a"), Colon, Colon>>), T(<<Colon, Word("b")>>), W("a"), T(<<Word("a"), Colon, Word(" ")>>)}
Texts == {W("x"), Padded(Capital(W("x"))), T(<<>>), Padded(T(<<>>)), Number(1), Escaped(<<Word("$"), Word("x")>>)}
Codecs == {Padded(Capital(W("vp9"))), T(<<Word("avc"), Word("."), Num(1)>>), T(<<Minus, Word("x")>>),
           T(<<Word("a"), Word("["), Word("b")>>), T(<<>>)}
Lists(items) == {List(<<i>>) : i \in items} \cup {List(<<>>)}
Grammar ==
  ({"limit-rate"} \X Rates) \cup ({"retries"} \X Retries) \cup ({"audio-quality"} \X Qualities)
  \cup ({"wait-for-video"} \X Waits) \cup ({"playlist-items"} \X Lists(Slices))
  \cup ({"time-ranges"} \X Lists(Ranges)) \cup ({"min-resolution", "resolution"} \X Bounds)
  \cup ({"sponsorblock-mark", "sponsorblock-remove"} \X Marks)
  \cup ({"headers"} \X Lists(HeaderTexts)) \cup ({"output"} \X Texts)
  \cup ({"retry-sleep", "chapter-sections"} \X Lists(Texts \cup {W("[")}))
  \cup ({"preferred-video-codec"} \X Codecs)
  \cup ({"merge-container"} \X {Capital(W("mkv")), Padded(W("mkv")), W("x"), Number(1)})
  \cup ({"ip-family"} \X {Capital(W("ipv4")), W("ipv5")})
  \cup ({"preferred-hdr"} \X {Capital(W("dv")), W("sdr"), W("x")})
  \cup ({"cookies-from-browser"} \X {Padded(T(<<Word("edge"), Word("+"), Word("k")>>)), W("lynx"),
                                     Capital(W("opera")), T(<<Colon>>)})
  \cup ({"socket-timeout"} \X {Number(3), Float(2), Number(0), W("x")})
  \cup ({"preferred-fps"} \X {Number(0), Number(60), T(<<Num(60)>>)})
  \cup ({"live", "unknown"} \X {W("yes"), Bool(FALSE)})
\* A run of a live stream with its chat, to begin with.
LiveBase == ("live" :> Bool(TRUE)) @@ ("write-live-chat" :> Bool(TRUE))
MCBases == {NoSettings, LiveBase}
LiveTopics == {"live", "write-live-chat", "live-from-start", "sub-langs", "time-ranges", "playlist"}
Support == {<<"live", Bool(TRUE)>>, <<"audio-format", Capital(W("mp3"))>>}

\* Through "values".
MCValueTables ==
  {[x \in {} |-> Bad],
   ("a" :> Ref("b")) @@ ("b" :> Padded(W("x"))) @@ ("c" :> Ref("d")) @@ ("d" :> Ref("c"))
   @@ ("e" :> List(<<Ref("b"), W("y")>>)) @@ ("f" :> Escaped(<<Word("$"), Word("b")>>))}
Pointers ==
  {<<"output", Ref(x)>> : x \in {"a", "c", "f", "missing"}}
  \cup {<<"retry-sleep", Ref("e")>>, <<"retry-sleep", List(<<Ref("b"), Ref("f")>>)>>}

MCPairs ==
  {<<layer, pair[1], pair[2]>> : layer \in Layers \cup {"cli"}, pair \in Policy}
  \cup {<<"cli", pair[1], pair[2]>> : pair \in CliOnly}
  \cup {<<"$defaults", pair[1], pair[2]>> : pair \in Grammar}
  \cup {<<layer, pair[1], pair[2]>> : layer \in {"$defaults", "root"}, pair \in Pointers}

\* A text of Grammar stands alone, beside what it cannot do without; the
\* references too.
Special(pair) == pair \in (Grammar \cup Pointers) \ Policy
Pairings(s) == {<<k, s[k]>> : k \in DOMAIN s}
MCWritable(f, c) ==
  LET layers == UNION {Pairings(f.profiles[p]) : p \in Declared(f)}
      all == layers \cup Pairings(f.defaults) \cup Pairings(c)
  IN /\ all # {} => f.parent \in {Chain, Pair, Single}
     /\ Pairings(LiveBase) \subseteq Pairings(f.defaults) =>
          f.parent = Pair /\ f.values = [x \in {} |-> Bad] /\ \A pair \in all : pair[1] \in LiveTopics
     /\ Cardinality(CookieKeys \cap DOMAIN c) <= 1
     /\ ~({"impersonate", "no-impersonate"} \subseteq DOMAIN c)     \* argparse
     /\ (f.parent = Single \/ f.values # [x \in {} |-> Bad]) =>
          \A pair \in all : Special(pair) \/ pair \in Support
     /\ (\E pair \in all : Special(pair)) =>
          \A pair \in all : Special(pair) \/ pair \in Support
     /\ Cardinality({pair \in all : Special(pair)}) <= 1

Plain == [name |-> NoParent, collection |-> "no", file |-> "no", targets |-> <<"v">>, ids |-> TRUE,
          removal |-> "no", reports |-> FALSE, mode |-> "run", identity |-> FALSE,
          reset |-> FALSE, ignore |-> FALSE]
Batch == [Plain EXCEPT !.targets = <<>>]
Collection == [Plain EXCEPT !.targets = <<>>, !.collection = "valid", !.identity = TRUE]
Usual ==
  {Plain, [Plain EXCEPT !.name = "kid"], [Batch EXCEPT !.removal = "ids"],
   [Batch EXCEPT !.removal = "rows", !.mode = "explain"],
   [Collection EXCEPT !.removal = "ids", !.reset = TRUE]}
\* How targets are given and refused; a short file is enough for these.
Targets ==
  {[Batch EXCEPT !.file = "given", !.removal = "rows"], [Batch EXCEPT !.file = "missing"],
   [Plain EXCEPT !.file = "given"], [Batch EXCEPT !.ids = FALSE], [Plain EXCEPT !.targets = <<"-">>],
   [Plain EXCEPT !.targets = <<"-", "v">>], [Plain EXCEPT !.targets = <<"file">>, !.removal = "ids"],
   [Plain EXCEPT !.removal = "ids"], [Plain EXCEPT !.reports = TRUE],
   [Collection EXCEPT !.collection = "invalid"], [Collection EXCEPT !.targets = <<"v">>],
   [Collection EXCEPT !.removal = "rows"], [Collection EXCEPT !.identity = FALSE, !.reset = TRUE],
   [Collection EXCEPT !.ignore = TRUE], [Collection EXCEPT !.ignore = TRUE, !.reset = TRUE],
   [Collection EXCEPT !.mode = "dry"], [Batch EXCEPT !.removal = "ids", !.mode = "dry"],
   [Plain EXCEPT !.ignore = TRUE], [Plain EXCEPT !.name = "gone"]}
MCRequests(written) == IF written <= 1 THEN Usual \cup Targets ELSE Usual
=============================================================================
