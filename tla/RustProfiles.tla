---------------------------- MODULE RustProfiles ----------------------------
(***************************************************************************)
(* The profile file, the selection and the plan in the native downloader   *)
(* (crate yt-downloader): pure functions of the file, the explicit options *)
(* and the targets.                                                        *)
(***************************************************************************)
EXTENDS SettingValues

CONSTANT CaseFold      \* the position of a name in case-folded order

NoParent == "none"
Refused == [ok |-> FALSE]

BOOLEAN_SETTINGS ==
  {"no-cookies", "reverse-playlist", "playlist", "write-subs", "write-auto-subs", "embed-subs",
   "write-thumbnail", "embed-thumbnail", "write-info-json", "embed-metadata", "embed-chapters",
   "sponsorblock", "audio-only", "audio-source-fallback", "live", "live-from-start",
   "write-live-chat"}
NONEMPTY_STRING_SETTINGS ==
  {"path", "output", "format", "cookies", "archive", "temp-path", "user-agent", "impersonate",
   "referer", "proxy", "source-address", "sub-langs", "sub-format"}
POSITIVE_INTEGER_SETTINGS ==
  {"min-fps", "max-fps", "preferred-fps", "preferred-audio-channels", "concurrent-fragments"}

-----------------------------------------------------------------------------
(* The validators *)

Words(ws) == {Word(w) : w \in ws}
Filled(v) == IsText(v) /\ Toks(v) # <<>>
Digits(toks) == IsNum(toks)
\* <<whole, fraction>>
Decimals(toks) ==
  Digits(toks) \/ (Len(toks) = 3 /\ Digits(<<toks[1]>>) /\ toks[2] = Word(".") /\ Digits(<<toks[3]>>))

Trimmed(v) == IF Filled(v) THEN Trim(v) ELSE Bad

\* validate_cookie_browser: what precedes the first '+' or ':' is the browser.
CookieBrowser(v) ==
  LET Known == Words({"brave", "chrome", "chromium", "edge", "firefox", "opera", "safari",
                      "vivaldi", "whale"})
      named(toks) == toks[1] \in Known /\ (Len(toks) = 1 \/ toks[2] \in Words({"+", ":"}))
  IN IF Filled(v) /\ named(Toks(v)) THEN Trim(v) ELSE Bad

\* validate_resolution: a bound becomes an integer, the preference stays as it is.
Resolution(v, bound) ==
  LET text == IF IsText(v) THEN Toks(v)
              ELSE IF bound /\ IsInt(v) /\ v[2] >= 0 THEN <<Num(v[2])>> ELSE <<>>
      digits == IF text # <<>> /\ Last(text) = Word("p") THEN Front(text) ELSE text
  IN IF ~bound /\ text = <<Word("best")>> THEN v
     ELSE IF ~Digits(digits) \/ digits[1][2] = 0 THEN Bad
     ELSE IF bound THEN Number(digits[1][2]) ELSE v

\* Mutant: the case stays as it was written.
ChoiceAsWritten(v, words) ==
  IF IsText(v) /\ ~v[2] /\ Toks(v) \in {<<w>> : w \in Words(words)} THEN v ELSE Bad

\* validate_choice: any case, no trimming.
Choice(v, words) ==
  IF IsText(v) /\ ~v[2] /\ Toks(v) \in {<<w>> : w \in Words(words)} THEN Lower(v) ELSE Bad

\* validate_audio_quality
AudioQuality(v) ==
  IF IsInt(v) /\ v[2] >= 0 THEN IF v[2] <= 10 THEN Text(<<Num(v[2])>>) ELSE Bad
  ELSE IF ~Filled(v) THEN Bad
  ELSE IF Digits(Toks(v)) /\ Toks(v)[1][2] <= 10 THEN Trim(v)
  ELSE IF /\ Last(Toks(v)) \in Words({"K", "M"}) /\ Decimals(Front(Toks(v)))
          /\ Toks(v)[1] # Num(0)
  THEN Capital(Trim(v)) ELSE Bad

\* validate_rate: at most one unit.
Rate(v) ==
  LET unit == Words({"K", "M", "G", "T", "P"})
      digits == IF Last(Toks(v)) \in unit THEN Front(Toks(v)) ELSE Toks(v)
  IN IF Filled(v) /\ Decimals(digits) THEN Trim(v) ELSE Bad

\* validate_retry
Retry(v) ==
  IF IsInt(v) /\ v[2] >= 0 THEN Text(<<Num(v[2])>>)
  ELSE IF Filled(v) /\ (Toks(v) = <<Word("infinite")>> \/ Digits(Toks(v)))
  THEN Lower(Trim(v)) ELSE Bad

\* validate_string_list
StringList(v) == All(v, Trimmed)

\* validate_codec
Codec(v) ==
  IF /\ Filled(v) /\ Toks(v)[1] \notin Words({".", "_", "+", "-"})
     /\ ToSet(Toks(v)) \cap Words({":", "[", " ", ","}) = {}
  THEN Lower(Trim(v)) ELSE Bad

\* str::parse::<i64>: a sign and digits, no blanks.
Index(toks) == Signed(toks)

\* validate_playlist_item
Item(v) ==
  LET text == IF IsInt(v) THEN Decimal(v[2]) ELSE IF IsText(v) THEN Toks(v) ELSE <<>>
      parts == Split(text, Word(":"))
      wrong == {part \in ToSet(parts) : part # <<>> /\ Index(part) \in {Bad, Number(0)}}
      shown == [i \in DOMAIN parts |->
                  IF parts[i] = <<>> THEN <<>> ELSE Decimal(Index(parts[i])[2])]
      open == {i \in DOMAIN parts : parts[i] = <<>>}
  IN IF Index(text) # Bad
     THEN IF Index(text) = Number(0) THEN Bad ELSE Text(Decimal(Index(text)[2]))
     ELSE IF Len(parts) \notin {2, 3} \/ wrong # {} \/ open = DOMAIN parts THEN Bad
     ELSE Text(Joined(shown, Word(":")))
\* validate_playlist_items
Items(v) == All(v, Item)

\* validate_wait_for_video
Wait(v) ==
  LET text == IF IsInt(v) /\ v[2] >= 0 THEN <<Num(v[2])>> ELSE IF IsText(v) THEN Toks(v) ELSE <<>>
      split == Split(text, Word("-"))
      lower == split[1]
  IN IF /\ Len(split) <= 2 /\ Digits(lower) /\ lower # <<Num(0)>>
        /\ Len(split) = 2 => Digits(split[2]) /\ split[2][1][2] >= lower[1][2]
     THEN Text(text) ELSE Bad

\* validate_sponsorblock_categories
Categories(v, remove) ==
  LET Mark == Words({"sponsor", "intro", "outro", "selfpromo", "preview", "filler", "interaction",
                     "music_offtopic", "hook", "poi_highlight", "chapter", "all", "default"})
      items == [i \in DOMAIN Split(Toks(v), Word(",")) |-> Strip(Split(Toks(v), Word(","))[i])]
      bare(item) == IF item # <<>> /\ item[1] = Word("-") THEN Tail(item) ELSE item
      wanted == Mark \ (IF remove THEN Words({"poi_highlight", "chapter"}) ELSE {})
  IN IF Filled(v) /\ ~v[3] /\ \A item \in ToSet(items) : bare(item) \in {<<w>> : w \in wanted}
     THEN Text(Joined(items, Word(","))) ELSE Bad

\* validate_section_timestamp: every part but the first stays below 60.
Timestamp(toks, inf) ==
  LET body == IF toks # <<>> /\ toks[1] = Word("-") THEN Tail(toks) ELSE toks
      parts == Split(body, Word(":"))
      n == Len(parts)
  IN \/ inf /\ toks = <<Word("inf")>>
     \/ /\ n <= 3 /\ Decimals(parts[n])
        /\ \A i \in 1..n-1 : Digits(parts[i])
        /\ \A i \in 2..n : parts[i][1][2] < 60

\* timestamp_seconds, in tenths
Seconds(toks) ==
  LET parts == Split(toks, Word(":"))
      tenths(part) == part[1][2] * 10 + (IF Len(part) = 3 THEN part[3][2] ELSE 0)
  IN FoldLeft(LAMBDA acc, part : acc * 60 + tenths(part), 0, parts)

\* normalise_time_range
Span(start, stop) ==
  IF /\ Timestamp(start, FALSE) /\ Timestamp(stop, TRUE)
     /\ (stop # <<Word("inf")>> /\ start[1] # Word("-") /\ stop[1] # Word("-"))
          => Seconds(stop) > Seconds(start)
  THEN Text(start \o <<Word("-")>> \o stop) ELSE Bad

\* validate_time_ranges: a leading minus is START's, the next one separates.
TimeRange(v) ==
  LET from == IF IsText(v) /\ Toks(v) # <<>> /\ Toks(v)[1] = Word("-") THEN 2 ELSE 1
      at == {i \in from..Len(Toks(v)) : Toks(v)[i] = Word("-")}
      sep == CHOOSE i \in at : \A j \in at : i <= j
      Stripped(start, stop) == Span(Strip(start), Strip(stop))
  IN IF IsList(v)
     THEN IF Len(v[2]) = 2 /\ IsText(v[2][1]) /\ IsText(v[2][2])
          THEN Stripped(Toks(v[2][1]), Toks(v[2][2])) ELSE Bad
     ELSE IF ~IsText(v) \/ at = {} THEN Bad
     ELSE Stripped(SubSeq(Toks(v), 1, sep - 1), SubSeq(Toks(v), sep + 1, Len(Toks(v))))
TimeRanges(v) == All(v, TimeRange)

\* headers: FIELD:VALUE, neither blank.
Headers(v) ==
  LET field(h) == Strip(Head(Split(Toks(h), Word(":"))))
      content(h) == Strip(Joined(Tail(Split(Toks(h), Word(":"))), Word(":")))
  IN IF StringList(v) # Bad /\ \A h \in ToSet(v[2]) : field(h) # <<>> /\ content(h) # <<>>
     THEN StringList(v) ELSE Bad

\* The dispatch of validate_settings.
Validated(k, v) ==
  CASE k \in BOOLEAN_SETTINGS -> IF IsBool(v) THEN v ELSE Bad
    [] k \in NONEMPTY_STRING_SETTINGS -> Trimmed(v)
    [] k \in POSITIVE_INTEGER_SETTINGS -> IF IsInt(v) /\ v[2] > 0 THEN v ELSE Bad
    [] k = "cookies-from-browser" -> CookieBrowser(v)
    [] k = "resolution" -> Resolution(v, FALSE)
    [] k \in {"min-resolution", "max-resolution"} -> Resolution(v, TRUE)
    [] k = "preferred-hdr" -> Choice(v, {"sdr", "hdr", "dv"})
    [] k = "merge-container" -> Choice(v, {"avi", "flv", "mkv", "mov", "mp4", "webm"})
    [] k = "audio-format" ->
         Choice(v, {"best", "aac", "alac", "flac", "m4a", "mp3", "opus", "vorbis", "wav"})
    [] k = "audio-quality" -> AudioQuality(v)
    [] k \in {"limit-rate", "throttled-rate"} -> Rate(v)
    [] k \in {"retries", "fragment-retries", "file-access-retries", "extractor-retries"} -> Retry(v)
    [] k = "headers" -> Headers(v)
    [] k \in {"retry-sleep", "extractor-args"} -> StringList(v)
    [] k \in {"preferred-video-codec", "preferred-audio-codec", "audio-source-codec",
              "audio-source-container"} -> Codec(v)
    [] k = "playlist-items" -> Items(v)
    [] k = "time-ranges" -> TimeRanges(v)
    [] k = "wait-for-video" -> Wait(v)
    [] k = "sponsorblock-mark" -> Categories(v, FALSE)
    [] k = "sponsorblock-remove" -> Categories(v, TRUE)
    [] k = "ip-family" -> Choice(v, {"ipv4", "ipv6"})
    [] k = "socket-timeout" -> IF v[1] \in {"int", "float"} /\ v[2] > 0 THEN Float(v[2]) ELSE Bad
    [] OTHER -> Bad                    \* chapter-sections, and unknown keys

Exceeds(s, low, high) == {low, high} \subseteq DOMAIN s /\ s[low][2] > s[high][2]
Enabled(s, k) == Is(s, k, Bool(TRUE))

\* What validate_settings refuses between two settings.
Conflicting(s) ==
  \/ Cardinality({"cookies", "cookies-from-browser", "no-cookies"} \cap DOMAIN s) > 1
  \/ Exceeds(s, "min-resolution", "max-resolution") \/ Exceeds(s, "min-fps", "max-fps")
  \/ "audio-quality" \in DOMAIN s /\ "audio-format" \notin DOMAIN s
  \/ Is(s, "playlist", Bool(FALSE)) /\ "playlist-items" \in DOMAIN s
  \/ "wait-for-video" \in DOMAIN s /\ ~Enabled(s, "live")
  \/ (Enabled(s, "live-from-start") \/ Enabled(s, "write-live-chat")) /\ ~Enabled(s, "live")
  \/ "time-ranges" \in DOMAIN s /\ Enabled(s, "live")

\* validate_settings
Judged(s) ==
  IF (\E k \in DOMAIN s : s[k] = Bad) \/ Conflicting(s) THEN Refused
  ELSE [ok |-> TRUE, settings |-> s]
ValidateSettings(s) == Judged([k \in DOMAIN s |-> Validated(k, s[k])])

-----------------------------------------------------------------------------
(* The file *)

RECURSIVE ResolveValue(_, _, _)
ResolveValue(v, values, chain) ==
  CASE v[1] = "escaped" -> Text(v[2])
    [] v[1] = "ref" ->
         IF v[2] \in DOMAIN values /\ v[2] \notin chain
         THEN ResolveValue(values[v[2]], values, chain \cup {v[2]}) ELSE Bad
    [] IsList(v) ->
         Passing([i \in DOMAIN v[2] |-> ResolveValue(v[2][i], values, chain)])
    [] OTHER -> v
ResolveSettings(s, values) == [k \in DOMAIN s |-> ResolveValue(s[k], values, {})]
Unresolved(s) == \E k \in DOMAIN s : s[k] = Bad

RECURSIVE Rooted(_, _, _)
\* visit: the walk to the root meets no profile twice.
Rooted(parent, p, stack) ==
  /\ p \notin stack
  /\ parent[p] # NoParent => Rooted(parent, parent[p], stack \cup {p})

\* parse_profile_structure, of a version 3 document
ParseProfileStructure(f) ==
  /\ \A p \in DOMAIN f.parent : f.parent[p] \in DOMAIN f.parent \cup {NoParent}
  /\ \A p \in DOMAIN f.parent : Rooted(f.parent, p, {})

RECURSIVE ResolveProfile(_, _, _)
\* resolve_profile: nothing is validated on the way.
ResolveProfile(f, defaults, p) ==
  LET own == ResolveSettings(f.profiles[p], f.values)
      Below(inherited) ==
        [settings |-> Updated(Updated(defaults, inherited.settings), own),
         ancestry |-> inherited.ancestry,
         sources |-> Updated(Updated([k \in DOMAIN defaults |-> "$defaults"], inherited.sources),
                             [k \in DOMAIN own |-> p])]
      ancestor == f.parent[p]
  IN IF ancestor = NoParent
     THEN Below([settings |-> NoSettings, ancestry |-> <<>>, sources |-> [k \in {} |-> p]])
     ELSE Below([ResolveProfile(f, defaults, ancestor) EXCEPT !.ancestry = Append(@, ancestor)])

\* resolve_profile_structure fails on a reference that leads nowhere.
References(f) ==
  /\ ~Unresolved(ResolveSettings(f.defaults, f.values))
  /\ \A p \in DOMAIN f.parent : ~Unresolved(ResolveSettings(f.profiles[p], f.values))

\* load_validated_profiles: "$defaults" is judged in the profiles it reaches.
ValidateProfiles(resolved, validated) ==
  IF \E p \in DOMAIN resolved : ~validated[p].ok THEN Refused
  ELSE [ok |-> TRUE,
        profiles |-> [p \in DOMAIN resolved |->
                        [resolved[p] EXCEPT !.settings = validated[p].settings]]]
ResolvedProfiles(resolved) ==
  ValidateProfiles(resolved, [p \in DOMAIN resolved |-> ValidateSettings(resolved[p].settings)])
LoadValidatedProfiles(f) ==
  IF ~ParseProfileStructure(f) \/ ~References(f) THEN Refused
  ELSE ResolvedProfiles(
         [p \in DOMAIN f.parent |->
            ResolveProfile(f, ResolveSettings(f.defaults, f.values), p)])

\* render_profile_tree: roots, and below each its children in case-folded order.
RECURSIVE Emit(_, _, _)
Emit(profiles, parent, depth) ==
  LET Of(p) == IF profiles[p].ancestry = <<>> THEN NoParent ELSE Last(profiles[p].ancestry)
      kids == SortSeq(SetToSeq({p \in DOMAIN profiles : Of(p) = parent}),
                      LAMBDA p, q : CaseFold[p] < CaseFold[q])
  IN FlattenSeq([i \in DOMAIN kids |-> <<<<kids[i], depth>>>> \o Emit(profiles, kids[i], depth + 1)])
RenderProfileTree(profiles) == Emit(profiles, NoParent, 1)

-----------------------------------------------------------------------------
(* The invocation *)

\* extract_overrides: the options it knows; the others fail closed.
Overridable ==
  {"playlist", "audio-only", "embed-metadata", "embed-chapters", "embed-thumbnail",
   "audio-format", "audio-quality"}

\* Mutant: the explicit options go in unvalidated.
SelectUnvalidated(profiles, requested, overrides) ==
  LET name == IF requested # NoParent THEN requested
              ELSE IF "default" \in DOMAIN profiles THEN "default" ELSE NoParent
      stored == IF name = NoParent THEN [settings |-> NoSettings, sources |-> [k \in {} |-> name]]
                ELSE profiles[name]
  IN IF name \notin DOMAIN profiles \cup {NoParent} THEN Refused
     ELSE [ok |-> TRUE, settings |-> Updated(stored.settings, overrides),
           sources |-> Updated(stored.sources, [k \in DOMAIN overrides |-> "cli"])]

\* select_stored_profile and select_profile: the merged settings are validated again.
SelectProfile(profiles, requested, overrides) ==
  LET name == IF requested # NoParent THEN requested
              ELSE IF "default" \in DOMAIN profiles THEN "default" ELSE NoParent
      stored == IF name = NoParent THEN [settings |-> NoSettings, sources |-> [k \in {} |-> name]]
                ELSE profiles[name]
      Over(merged) ==
        IF ~merged.ok THEN Refused
        ELSE [ok |-> TRUE, settings |-> merged.settings,
              sources |-> Updated(stored.sources, [k \in DOMAIN overrides |-> "cli"])]
  IN IF name \notin DOMAIN profiles \cup {NoParent} THEN Refused
     ELSE Over(ValidateSettings(Updated(stored.settings, overrides)))

\* resolve_targets: a collection needs its own resolver.
ResolveTargets(r) ==
  LET Source(kind) == [ok |-> TRUE, kind |-> kind]
      Batch(exists) == IF exists THEN Source("batch") ELSE Refused
  IN CASE r.collection # "no" -> Refused
       [] r.collection = "no" /\ r.file # "no" ->
            IF r.targets # <<>> THEN Refused ELSE Batch(r.file # "missing")
       [] OTHER ->
            IF r.targets = <<>> THEN Batch(r.ids)
            ELSE IF \E i \in DOMAIN r.targets : r.targets[i] = "-"
            THEN IF Len(r.targets) = 1 THEN Source("stdin") ELSE Refused
            ELSE IF Len(r.targets) = 1 /\ r.targets[1] = "file" THEN Batch(TRUE)
            ELSE Source("direct")

\* plan_invocation: a switch for each of five settings, and no others.
Planned == {"playlist", "write-info-json", "write-thumbnail", "write-subs", "write-auto-subs"}
PlanInvocation(settings, source) ==
  IF ~(DOMAIN settings \subseteq Planned) THEN Refused
  ELSE [ok |-> TRUE, source |-> source.kind, on |-> {k \in DOMAIN settings : Yes(settings[k])},
        off |-> {k \in DOMAIN settings : ~Yes(settings[k])}]
=============================================================================
