--------------------------- MODULE ProfileSettings ---------------------------
(***************************************************************************)
(* Validation and normalisation of a profile's settings by yt-download.py, *)
(* and the JSON schema it publishes for them.                              *)
(***************************************************************************)
EXTENDS SettingValues

BooleanKeys ==
  {"no-cookies", "reverse-playlist", "playlist", "write-subs", "write-auto-subs",
   "embed-subs", "write-thumbnail", "embed-thumbnail", "write-info-json",
   "embed-metadata", "embed-chapters", "sponsorblock", "audio-only",
   "audio-source-fallback", "live", "live-from-start", "write-live-chat"}
PositiveKeys ==
  {"min-fps", "max-fps", "preferred-fps", "preferred-audio-channels", "concurrent-fragments"}
TextKeys ==
  {"path", "output", "format", "cookies", "archive", "temp-path", "user-agent",
   "impersonate", "referer", "proxy", "source-address", "sub-langs", "sub-format"}
RetryKeys == {"retries", "fragment-retries", "file-access-retries", "extractor-retries"}
CodecKeys == {"preferred-video-codec", "preferred-audio-codec", "audio-source-codec"}

Browsers == {"brave", "chrome", "chromium", "edge", "firefox", "opera", "safari",
             "vivaldi", "whale"}
AudioFormats == {"best", "aac", "alac", "flac", "m4a", "mp3", "opus", "vorbis", "wav"}
Containers == {"avi", "flv", "mkv", "mov", "mp4", "webm"}
RemoveCategories == {"sponsor", "intro", "outro", "selfpromo", "preview", "filler",
                     "interaction", "music_offtopic", "hook", "all", "default"}
MarkCategories == RemoveCategories \cup {"poi_highlight", "chapter"}
Units == {Word(u) : u \in {"K", "M", "G", "T", "P"}}
CookieKeys == {"cookies", "cookies-from-browser", "no-cookies"}

-----------------------------------------------------------------------------
(* The validators *)

\* A text is stripped and must not be empty.
StringSetting(v) == IF IsText(v) /\ Toks(v) # <<>> THEN Trim(v) ELSE Bad
BooleanSetting(v) == IF IsBool(v) THEN v ELSE Bad
PositiveSetting(v) == IF IsInt(v) /\ v[2] >= 1 THEN v ELSE Bad

WithoutP(toks) == IF toks # <<>> /\ Last(toks) = Word("p") THEN Front(toks) ELSE toks

\* validate_resolution; the profile keeps the text as it was written.
ResolutionSetting(v) ==
  IF IsText(v) /\ (Toks(v) = <<Word("best")>> \/ AtLeast(WithoutP(Toks(v)), 1)) THEN v ELSE Bad
BoundSetting(v) ==
  LET toks == IF IsInt(v) THEN Decimal(v[2])
              ELSE IF IsText(v) THEN WithoutP(Toks(v)) ELSE <<>>
  IN IF AtLeast(toks, 1) THEN Number(toks[1][2]) ELSE Bad

\* One of a few words, in any case; blanks are not stripped.
ChoiceSetting(v, words) ==
  IF IsText(v) /\ ~v[2] /\ Len(Toks(v)) = 1 /\ Toks(v)[1] \in {Word(w) : w \in words}
  THEN Lower(v) ELSE Bad

BrowserSetting(v) ==
  IF IsText(v) /\ Toks(v) # <<>> /\ Toks(v)[1] \in {Word(b) : b \in Browsers}
     /\ (Len(Toks(v)) > 1 => Toks(v)[2] \in {Word("+"), Word(":")})
  THEN Trim(v) ELSE Bad

Fraction(toks) ==
  \/ IsNum(toks)
  \/ Len(toks) = 3 /\ IsNum(<<toks[1]>>) /\ toks[2] = Word(".") /\ IsNum(<<toks[3]>>)
RateSetting(v) ==
  IF IsText(v) /\ (\/ Fraction(Toks(v))
                   \/ Toks(v) # <<>> /\ Last(Toks(v)) \in Units /\ Fraction(Front(Toks(v))))
  THEN Trim(v) ELSE Bad

\* Mutant: blanks and case stay.
RetryAsWritten(v) ==
  IF IsInt(v) THEN (IF v[2] >= 0 THEN Text(Decimal(v[2])) ELSE Bad)
  ELSE IF IsText(v) /\ (Toks(v) = <<Word("infinite")>> \/ IsNum(Toks(v))) THEN v ELSE Bad

RetrySetting(v) ==
  IF IsInt(v) THEN (IF v[2] >= 0 THEN Text(Decimal(v[2])) ELSE Bad)
  ELSE IF IsText(v) /\ (Toks(v) = <<Word("infinite")>> \/ IsNum(Toks(v)))
  THEN Lower(Trim(v)) ELSE Bad

\* A name of letters, digits, '.', '_', '+' and '-' that starts with neither sign.
CodecSetting(v) ==
  IF IsText(v) /\ Toks(v) # <<>> /\ Toks(v)[1] \notin {Word("+"), Word("-"), Word("."), Word("_")}
     /\ {Word(":"), Word("["), Word(" "), Word(",")} \cap ToSet(Toks(v)) = {}
  THEN Lower(Trim(v)) ELSE Bad

\* 0..10 or a bitrate, whose unit is written in upper case.
AudioQualitySetting(v) ==
  IF IsInt(v) THEN (IF v[2] \in 0..10 THEN Text(Decimal(v[2])) ELSE Bad)
  ELSE IF ~IsText(v) THEN Bad
  ELSE IF IsNum(Toks(v)) /\ Toks(v)[1][2] <= 10 THEN Trim(v)
  ELSE IF /\ Toks(v) # <<>> /\ Last(Toks(v)) \in {Word("K"), Word("M")}
          /\ Fraction(Front(Toks(v))) /\ Toks(v)[1][2] >= 1
  THEN Capital(Trim(v)) ELSE Bad

StringListSetting(v) == All(v, StringSetting)
HeadersSetting(v) ==
  LET parts(h) == Split(Toks(h), Word(":"))
      Header(h) == IF StringSetting(h) # Bad /\ Len(parts(h)) >= 2 /\ Strip(parts(h)[1]) # <<>>
                      /\ Strip(Joined(Tail(parts(h)), Word(":"))) # <<>>
                   THEN Trim(h) ELSE Bad
  IN All(v, Header)

\* A list of categories, in lower case.
SponsorSetting(v, allowed) ==
  LET items == [i \in DOMAIN Split(Toks(v), Word(",")) |-> Strip(Split(Toks(v), Word(","))[i])]
      Category(item) == IF item # <<>> /\ item[1] = Word("-") THEN Tail(item) ELSE item
  IN IF IsText(v) /\ ~v[3] /\ \A i \in DOMAIN items : Category(items[i]) \in {<<Word(c)>> : c \in allowed}
     THEN Text(Joined(items, Word(","))) ELSE Bad

\* MIN or MIN-MAX seconds
WaitSetting(v) ==
  LET toks == IF IsInt(v) THEN Decimal(v[2]) ELSE IF IsText(v) THEN Toks(v) ELSE <<>>
      parts == Split(toks, Word("-"))
  IN IF /\ Len(parts) <= 2 /\ \A i \in DOMAIN parts : AtLeast(parts[i], 1)
        /\ Len(parts) = 2 => parts[2][1][2] >= parts[1][1][2]
     THEN Text(toks) ELSE Bad

\* [START]:[STOP][:STEP]; int() takes signs and blanks.
SliceText(toks) ==
  LET raw == Split(toks, Word(":"))
      part(i) == IF raw[i] = <<>> THEN Text(<<>>) ELSE Signed(Strip(raw[i]))
      parts == [i \in DOMAIN raw |-> part(i)]
      shown == [i \in DOMAIN raw |-> IF IsInt(parts[i]) THEN Decimal(parts[i][2]) ELSE <<>>]
  IN IF /\ Len(raw) \in {2, 3}
        /\ \A i \in DOMAIN parts : parts[i] \notin {Bad, Number(0)}
        /\ ~(shown[1] = <<>> /\ shown[2] = <<>> /\ (Len(raw) = 2 \/ shown[Len(raw)] = <<>>))
     THEN Text(Joined(shown, Word(":"))) ELSE Bad
PlaylistItem(v) ==
  LET n == IF IsInt(v) THEN v ELSE IF IsText(v) THEN Signed(Toks(v)) ELSE Bad
  IN IF n = Number(0) THEN Bad
     ELSE IF IsInt(n) THEN Text(Decimal(n[2]))
     ELSE IF IsText(v) THEN SliceText(Toks(v)) ELSE Bad
PlaylistItemsSetting(v) == All(v, PlaylistItem)

\* [-]S, [-]M:S or [-]H:M:S; the last two parts stay below 60.
Stamp(toks, inf) ==
  LET body == IF toks # <<>> /\ toks[1] = Word("-") THEN Tail(toks) ELSE toks
      parts == Split(body, Word(":"))
      n == Len(parts)
  IN \/ inf /\ toks = <<Word("inf")>>
     \/ /\ n <= 3 /\ Fraction(parts[n]) /\ \A i \in 1..n-1 : IsNum(parts[i])
        /\ n >= 2 => parts[n][1][2] < 60 /\ parts[n-1][1][2] < 60

\* In tenths of a second.
Tenths(toks) ==
  LET parts == Split(toks, Word(":"))
      whole == FoldLeft(LAMBDA acc, part : acc * 60 + part[1][2], 0, parts)
  IN whole * 10 + IF Len(Last(parts)) = 3 THEN Last(parts)[3][2] ELSE 0
Absolute(toks) == toks # <<Word("inf")>> /\ toks[1] # Word("-")

\* From START to STOP, either between blanks.
StampRange(start, stop) ==
  IF /\ Stamp(start, FALSE) /\ Stamp(stop, TRUE)
     /\ Absolute(start) /\ Absolute(stop) => Tenths(stop) > Tenths(start)
  THEN Text(start \o <<Word("-")>> \o stop) ELSE Bad

\* (-?[^-]+)-(-?.+): START keeps a leading minus, the next one separates.
RangeParts(toks) ==
  LET at == {i \in 2..Len(toks) : toks[i] = Word("-")}
      i == CHOOSE i \in at : \A j \in at : i <= j
  IN IF at = {} \/ i = Len(toks) THEN <<>>
     ELSE <<SubSeq(toks, 1, i - 1), SubSeq(toks, i + 1, Len(toks))>>
TimeRangeItem(v) ==
  LET parts == IF IsText(v) THEN RangeParts(Toks(v))
               ELSE IF IsList(v) /\ Len(v[2]) = 2 /\ IsText(v[2][1]) /\ IsText(v[2][2])
               THEN <<Toks(v[2][1]), Toks(v[2][2])>> ELSE <<>>
  IN IF parts = <<>> THEN Bad ELSE StampRange(Strip(parts[1]), Strip(parts[2]))
TimeRangesSetting(v) == All(v, TimeRangeItem)

\* A regular expression that compiles, kept as it was written.
ChapterSetting(v) ==
  All(v, LAMBDA item : IF StringSetting(item) # Bad /\ Last(Toks(item)) # Word("[")
                       THEN item ELSE Bad)
TimeoutSetting(v) == IF v[1] \in {"int", "float"} /\ v[2] > 0 THEN Float(v[2]) ELSE Bad

\* _validate_profile_setting
Validated(k, v) ==
  CASE k \in BooleanKeys -> BooleanSetting(v)
    [] k \in PositiveKeys -> PositiveSetting(v)
    [] k \in TextKeys -> StringSetting(v)
    [] k = "resolution" -> ResolutionSetting(v)
    [] k \in {"min-resolution", "max-resolution"} -> BoundSetting(v)
    [] k = "cookies-from-browser" -> BrowserSetting(v)
    [] k \in CodecKeys \cup {"audio-source-container"} -> CodecSetting(v)
    [] k = "audio-format" -> ChoiceSetting(v, AudioFormats)
    [] k = "audio-quality" -> AudioQualitySetting(v)
    [] k = "preferred-hdr" -> ChoiceSetting(v, {"sdr", "hdr", "dv"})
    [] k = "merge-container" -> ChoiceSetting(v, Containers)
    [] k = "ip-family" -> ChoiceSetting(v, {"ipv4", "ipv6"})
    [] k \in {"limit-rate", "throttled-rate"} -> RateSetting(v)
    [] k \in RetryKeys -> RetrySetting(v)
    [] k = "headers" -> HeadersSetting(v)
    [] k \in {"retry-sleep", "extractor-args"} -> StringListSetting(v)
    [] k = "socket-timeout" -> TimeoutSetting(v)
    [] k = "playlist-items" -> PlaylistItemsSetting(v)
    [] k = "wait-for-video" -> WaitSetting(v)
    [] k = "chapter-sections" -> ChapterSetting(v)
    [] k = "time-ranges" -> TimeRangesSetting(v)
    [] k = "sponsorblock-mark" -> SponsorSetting(v, MarkCategories)
    [] k = "sponsorblock-remove" -> SponsorSetting(v, RemoveCategories)
    [] OTHER -> Bad

-----------------------------------------------------------------------------
(* A profile as a whole *)

Above(s, low, high) == {low, high} \subseteq DOMAIN s /\ s[low][2] > s[high][2]

\* Options that only a live run has.
LiveOptions(s) ==
  {k \in {"live-from-start", "write-live-chat"} : Is(s, k, Bool(TRUE))}
  \cup ({"wait-for-video"} \cap DOMAIN s)

Conflicts(s) ==
  \/ Cardinality(CookieKeys \cap DOMAIN s) > 1
  \/ Above(s, "min-resolution", "max-resolution") \/ Above(s, "min-fps", "max-fps")
  \/ "audio-quality" \in DOMAIN s /\ "audio-format" \notin DOMAIN s
  \/ Is(s, "playlist", Bool(FALSE)) /\ "playlist-items" \in DOMAIN s
  \/ LiveOptions(s) # {} /\ ~Is(s, "live", Bool(TRUE))

\* validate_profile_settings
Normalised(s) == [k \in DOMAIN s |-> Validated(k, s[k])]
Coherent(s) == (\A k \in DOMAIN s : s[k] # Bad) /\ ~Conflicts(s)

-----------------------------------------------------------------------------
(* The published schema *)

SchemaText(v) == IsText(v) /\ Toks(v) # <<>>
SchemaItems(v, Item(_)) == IsList(v) /\ v[2] # <<>> /\ \A i \in DOMAIN v[2] : Item(v[2][i])
SchemaChoice(v, words) == IsText(v) /\ ~v[2] /\ Toks(v) \in {<<Word(w)>> : w \in words}

\* profile_setting_schema: the bounds and preferences of the media.
SchemaTakesMedia(k, v) ==
  CASE k \in {"min-resolution", "max-resolution"} ->
         \/ IsInt(v) /\ v[2] >= 1
         \/ IsText(v) /\ ~v[2] /\ AtLeast(WithoutP(Toks(v)), 1)
    [] k = "audio-quality" ->
         \/ IsInt(v) /\ v[2] \in 0..10
         \/ IsText(v) /\ ~v[2] /\ \/ IsNum(Toks(v)) /\ Toks(v)[1][2] <= 10
                                  \/ Fraction(Front(Toks(v))) /\ Last(Toks(v)) \in {Word("K"), Word("M")}
    [] k = "audio-format" -> SchemaChoice(v, AudioFormats)
    [] k = "merge-container" -> SchemaChoice(v, Containers)
    [] k = "preferred-hdr" -> SchemaChoice(v, {"sdr", "hdr", "dv"})
    [] OTHER -> SchemaText(v)

\* profile_setting_schema: what one property of the schema takes.
SchemaTakes(k, v) ==
  CASE k \in BooleanKeys -> IsBool(v)
    [] k \in PositiveKeys -> IsInt(v) /\ v[2] >= 1
    [] k = "resolution" ->
         IsText(v) /\ ~v[2] /\ (Toks(v) = <<Word("best")>> \/ AtLeast(WithoutP(Toks(v)), 1))
    [] k = "playlist-items" -> SchemaItems(v, LAMBDA i : SchemaText(i) \/ (IsInt(i) /\ i[2] # 0))
    [] k = "wait-for-video" ->
         \/ IsInt(v) /\ v[2] >= 1
         \/ IsText(v) /\ ~v[2] /\ LET parts == Split(Toks(v), Word("-"))
                                  IN Len(parts) <= 2 /\ \A i \in DOMAIN parts : IsNum(parts[i])
    [] k = "time-ranges" ->
         SchemaItems(v, LAMBDA i : SchemaText(i) \/ (IsList(i) /\ Len(i[2]) = 2))
    [] k = "headers" ->
         SchemaItems(v, LAMBDA h : IsText(h) /\ Len(Split(Toks(h), Word(":"))) >= 2)
    [] k \in {"chapter-sections", "retry-sleep", "extractor-args"} -> SchemaItems(v, SchemaText)
    [] k = "socket-timeout" -> v[1] \in {"int", "float"} /\ v[2] > 0
    [] k \in RetryKeys ->
         \/ IsInt(v) /\ v[2] >= 0
         \/ IsText(v) /\ ~v[2] /\ ~v[3] /\ (Toks(v) = <<Word("infinite")>> \/ IsNum(Toks(v)))
    [] k = "ip-family" -> SchemaChoice(v, {"ipv4", "ipv6"}) /\ ~v[3]
    [] OTHER -> SchemaTakesMedia(k, v)

SchemaExcludes(s) ==
  \/ Cardinality(CookieKeys \cap DOMAIN s) > 1
  \/ "audio-quality" \in DOMAIN s /\ "audio-format" \notin DOMAIN s
  \/ Is(s, "playlist", Bool(FALSE)) /\ "playlist-items" \in DOMAIN s
  \/ LiveOptions(s) # {} /\ ~Is(s, "live", Bool(TRUE))
SchemaAdmits(s) == ~SchemaExcludes(s) /\ \A k \in DOMAIN s : SchemaTakes(k, s[k])
=============================================================================
