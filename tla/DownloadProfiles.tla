-------------------------- MODULE DownloadProfiles --------------------------
(***************************************************************************)
(* From the profile file and the command line to the yt-dlp command, in    *)
(* the order main() of yt-download.py takes the steps: load and validate   *)
(* every profile, select one, merge the explicit options over it, resolve  *)
(* the input, make the plan, explain it or reconcile the queue or the      *)
(* collection, build the command.                                          *)
(*                                                                         *)
(* The writing of the file and of the command line comes first, one setting*)
(* at a time.  What the queue and the collection state hold is the subject *)
(* of CompletionQueue and CollectionContinuation; here they are effects    *)
(* that have happened or not.                                              *)
(***************************************************************************)
EXTENDS ProfileSettings

CONSTANTS
  Shapes,          \* the profiles of the file and their parents
  Bases,           \* what "$defaults" holds to begin with
  Pairs,           \* the settings written: <<layer, key, value>>
  ValueTables,     \* the "values" of the file
  Requests(_),     \* how targets are given, removal and run modes, for so many settings
  CookieFiles,     \* the cookie files that exist
  CaseFold,        \* the position of a name in case-folded order
  DefaultCookies,  \* whether the script-local cookies.txt exists
  Writable(_, _),  \* the settings an instance writes into one file
  MaxWrites        \* bound: settings written to the file and the command line

VARIABLES
  file,            \* [parent, profiles, hasDefaults, defaults, values]
  cli,             \* the explicit options
  writes,
  phase,           \* write, loaded, refused, prepared, planned, explained,
                   \* ready, launched, failed
  loaded,          \* the result of load_profiles
  settings, sources,  \* of the invocation
  request, input,  \* the command line's targets and modes; what they resolve to
  effects,         \* what the invocation has changed outside itself
  command

vars == <<file, cli, writes, phase, loaded, settings, sources, request, input, effects, command>>

NoParent == "none"
Declared(f) == DOMAIN f.parent

-----------------------------------------------------------------------------
(* References *)

RECURSIVE Resolved(_, _, _)
\* _resolve_reusable_value
Resolved(v, values, chain) ==
  IF v[1] = "escaped" THEN Text(v[2])
  ELSE IF v[1] = "ref" THEN
    IF v[2] \in chain \/ v[2] \notin DOMAIN values THEN Bad
    ELSE Resolved(values[v[2]], values, chain \cup {v[2]})
  ELSE IF IsList(v) THEN Passing([i \in DOMAIN v[2] |-> Resolved(v[2][i], values, chain)])
  ELSE v

\* _resolve_profile_references
References(s, values) == [k \in DOMAIN s |-> Resolved(s[k], values, {})]
Dangling(s) == \E k \in DOMAIN s : s[k] = Bad

-----------------------------------------------------------------------------
(* Loading *)

Refused == [ok |-> FALSE]

\* The structure every profile must have before any is resolved.
ShapeRefused(f) ==
  \E p \in Declared(f) :
    \/ f.parent[p] # NoParent /\ f.parent[p] \notin Declared(f)
    \/ f.parent[p] = p
    \/ Dangling(References(f.profiles[p], f.values))

\* Mutant: what a profile sets itself loses to its parent.
LayeredParentLast(defaults, parent, own) == Updated(Updated(defaults, own), parent)

\* dict.update, one layer after the other.
Layered(defaults, parent, own) == Updated(Updated(defaults, parent), own)

\* A profile from its layers; above is its resolved parent.
Root == [ok |-> TRUE, settings |-> NoSettings, ancestry |-> <<>>, sources |-> [k \in {} |-> ""]]
Profile(s, ancestry, origins) ==
  IF ~Coherent(s) THEN Refused
  ELSE [ok |-> TRUE, settings |-> s, ancestry |-> ancestry, sources |-> origins]
Derived(f, p, defaults, above) ==
  IF ~above.ok THEN Refused
  ELSE Profile(Normalised(Layered(defaults, above.settings, References(f.profiles[p], f.values))),
               above.ancestry \o (IF f.parent[p] = NoParent THEN <<>> ELSE <<f.parent[p]>>),
               Updated(Updated([k \in DOMAIN defaults |-> "$defaults"], above.sources),
                       [k \in DOMAIN f.profiles[p] |-> p]))

RECURSIVE ProfileOf(_, _, _, _)
\* resolve(name) of load_profiles; what it remembers of a profile that was
\* resolved before is what it would find again.
ProfileOf(f, defaults, p, visiting) ==
  IF p \in visiting THEN Refused
  ELSE Derived(f, p, defaults,
               IF f.parent[p] = NoParent THEN Root
               ELSE ProfileOf(f, defaults, f.parent[p], visiting \cup {p}))

\* Mutant: a profile that is not valid is left out.
GoodOnly(profiles) ==
  LET good == {p \in DOMAIN profiles : profiles[p].ok}
  IN [ok |-> TRUE, profiles |-> [p \in good |-> profiles[p]]]

\* load_profiles: every profile is resolved, the unselected ones too.
AllOrNothing(profiles) ==
  IF \E p \in DOMAIN profiles : ~profiles[p].ok THEN Refused
  ELSE [ok |-> TRUE, profiles |-> profiles]
LoadBelow(f, defaults) ==
  IF ~Coherent(defaults) \/ ShapeRefused(f) THEN Refused
  ELSE AllOrNothing([p \in Declared(f) |-> ProfileOf(f, defaults, p, {})])
Load(f) == LoadBelow(f, Normalised(References(f.defaults, f.values)))

\* profile_tree: the names with their depths, siblings in case-folded order.
RECURSIVE Branch(_, _, _)
Branch(profiles, p, depth) ==
  LET Parent(q) == IF profiles[q].ancestry = <<>> THEN NoParent ELSE Last(profiles[q].ancestry)
      children == SetToSortSeq({q \in DOMAIN profiles : Parent(q) = p},
                               LAMBDA q, r : CaseFold[q] < CaseFold[r])
      below == [i \in DOMAIN children |-> Branch(profiles, children[i], depth + 1)]
  IN (IF p = NoParent THEN <<>> ELSE <<<<p, depth>>>>) \o FlattenSeq(below)
Tree(profiles) == Branch(profiles, NoParent, 0)

-----------------------------------------------------------------------------
(* The effective settings *)

\* select_profile: the profile asked for, or the one called default.
Selected(profiles, name) ==
  LET none == [ok |-> TRUE, settings |-> NoSettings, sources |-> [k \in {} |-> name]]
  IN IF name \in DOMAIN profiles THEN profiles[name]
     ELSE IF name # NoParent THEN Refused
     ELSE IF "default" \in DOMAIN profiles THEN profiles["default"] ELSE none

\* Options without a setting of their own: --no-impersonate, --whole-item and
\* --no-wait-for-video.
Switches == {"no-impersonate", "whole-item", "no-wait"}

Categories == {"sponsorblock-mark", "sponsorblock-remove"}
Sections == {"chapter-sections", "time-ranges"}
LiveKeys == {"live-from-start", "wait-for-video", "write-live-chat"}
Given(s, keys) == keys \cap DOMAIN s # {}
When(condition, keys) == IF condition THEN keys ELSE {}

\* What a switch empties, in the profile and on the command line alike.
Negated(options) == When("no-impersonate" \in DOMAIN options, {"impersonate"})
                    \cup When("no-wait" \in DOMAIN options, {"wait-for-video"})

\* explicit_profile_settings, less the setting that merge_profile_settings removes
\* because it is None: the file's validators, but for Booleans and paths, which
\* argparse has made already; an emptied value is not validated.
Explicit(options) == Normalised(Without(options, Switches \cup Negated(options)))

\* Mutant: the other cookie settings of the profile stay.
WithdrawnCookies(options) ==
  When(Given(options, Categories) /\ "sponsorblock" \notin DOMAIN options, {"sponsorblock"})
  \cup When(Is(options, "sponsorblock", Bool(FALSE)), Categories)
  \cup When(Is(options, "live", Bool(FALSE)), LiveKeys)
  \cup When("whole-item" \in DOMAIN options, Sections) \cup Negated(options)

\* What of the profile an explicit option takes back.
Withdrawn(options) ==
  When(Given(options, CookieKeys), CookieKeys)
  \cup When(Given(options, Categories) /\ "sponsorblock" \notin DOMAIN options, {"sponsorblock"})
  \cup When(Is(options, "sponsorblock", Bool(FALSE)), Categories)
  \cup When(Is(options, "live", Bool(FALSE)), LiveKeys)
  \cup When("whole-item" \in DOMAIN options, Sections) \cup Negated(options)

\* merge_profile_settings: --whole-item takes back the profile's sections only.
Merged(stored, options) == Updated(Without(stored, Withdrawn(options)), Explicit(options))

\* resolve_profile_settings
SourcesOf(selected, options) ==
  Updated(Without(selected.sources, Withdrawn(options)),
          [k \in DOMAIN Explicit(options) |-> "cli"])

-----------------------------------------------------------------------------
(* The policy *)

Flag(s, k, default) == IF k \in DOMAIN s THEN Yes(s[k]) ELSE default
Audio(s) == Flag(s, "audio-only", FALSE) \/ "audio-format" \in DOMAIN s
Live(s) == Flag(s, "live", FALSE)
Partial(s) == Given(s, Sections)
HardConstraints == {"min-resolution", "max-resolution", "min-fps", "max-fps"}
VideoOnly == HardConstraints \cup
  {"preferred-fps", "preferred-video-codec", "preferred-hdr", "merge-container"}
NamesHeader(s, name) ==
  "headers" \in DOMAIN s
  /\ \E h \in ToSet(s["headers"][2]) : Strip(Split(Toks(h), Word(":"))[1]) = <<Word(name)>>

\* What resolve_profile_policy refuses, across settings of every layer.
PolicyConflicts(s) ==
  \/ Above(s, "min-resolution", "max-resolution") \/ Above(s, "min-fps", "max-fps")
  \/ "format" \in DOMAIN s /\ (Given(s, HardConstraints) \/ Audio(s))
  \/ ~Audio(s) /\ Given(s, {"audio-source-codec", "audio-source-container", "audio-source-fallback"})
  \/ "audio-quality" \in DOMAIN s /\ "audio-format" \notin DOMAIN s
  \/ Audio(s) /\ (Given(s, VideoOnly) \/ Flag(s, "embed-subs", FALSE))
  \/ "playlist-items" \in DOMAIN s /\ Is(s, "playlist", Bool(FALSE))
  \/ Partial(s) /\ Live(s)
  \/ LiveOptions(s) # {} /\ ~Live(s)
  \/ "cookies" \in DOMAIN s /\ s["cookies"] \notin CookieFiles
  \/ "user-agent" \in DOMAIN s /\ NamesHeader(s, "user-agent")
  \/ "referer" \in DOMAIN s /\ NamesHeader(s, "referer")

\* cookies_file or cookies_from_browser, of which at most one is set.
CookieSwitch(s) ==
  IF "cookies" \in DOMAIN s THEN {<<"--cookies", s["cookies"]>>}
  ELSE IF "cookies-from-browser" \in DOMAIN s
  THEN {<<"--cookies-from-browser", s["cookies-from-browser"]>>}
  ELSE IF ~Flag(s, "no-cookies", FALSE) /\ DefaultCookies
  THEN {<<"--cookies", Text(<<Word("cookies.txt")>>)>>} ELSE {}

-----------------------------------------------------------------------------
(* The input and the plan *)

\* resolve_input; a collection's targets are positional.
InputOf(r) ==
  IF r.collection # "no" THEN
    IF r.file # "no" \/ r.targets # <<>> \/ r.collection = "invalid" THEN Refused
    ELSE [ok |-> TRUE, kind |-> "collection"]
  ELSE IF r.file # "no" THEN
    IF r.targets # <<>> \/ r.file = "missing" THEN Refused ELSE [ok |-> TRUE, kind |-> "batch"]
  ELSE IF r.targets = <<>> THEN
    IF r.ids THEN [ok |-> TRUE, kind |-> "batch"] ELSE Refused
  ELSE IF "-" \in ToSet(r.targets) THEN
    IF Len(r.targets) = 1 THEN [ok |-> TRUE, kind |-> "stdin"] ELSE Refused
  ELSE IF r.targets = <<"file">> THEN [ok |-> TRUE, kind |-> "batch"]
  ELSE [ok |-> TRUE, kind |-> "direct"]

\* --remove-completed-ids is dropped, with a warning, for a collection.
Removal(r, in) == IF in.kind = "collection" /\ r.removal = "ids" THEN "no" ELSE r.removal

\* validate_remove_completed_ids and the check before it
RemovalRefused(r, in) ==
  IF in.kind = "collection" THEN r.removal = "rows"
  ELSE IF r.removal = "no" THEN r.reports ELSE in.kind # "batch"

\* Mutant: an excerpt may remove its target from the queue.
PlanRefusedItems(s, r, in) == Removal(r, in) # "no" /\ "playlist-items" \in DOMAIN s

\* create_download_plan
PlanRefused(s, r, in) ==
  Removal(r, in) # "no" /\ ("playlist-items" \in DOMAIN s \/ Partial(s))

-----------------------------------------------------------------------------
(* The command *)

Option(s, k, flag) == IF k \in DOMAIN s THEN {<<flag, s[k]>>} ELSE {}
Present(condition, flag) == IF condition THEN {<<flag, "">>} ELSE {}
Toggle(condition, yes, no) == IF condition THEN {<<yes, "">>} ELSE {<<no, "">>}
Each(s, k, flag) == IF k \in DOMAIN s THEN {<<flag, v>> : v \in ToSet(s[k][2])} ELSE {}
Default(s, k, v) == IF k \in DOMAIN s THEN s[k] ELSE v

\* effective_format_selector: the hard constraints of the one media selector.
AudioFilters == <<"audio-source-codec", "audio-source-container">>
VideoFilters == <<"min-resolution", "max-resolution", "min-fps", "max-fps">>
FormatSelector(s) ==
  LET filters == SelectSeq(IF Audio(s) THEN AudioFilters ELSE VideoFilters,
                           LAMBDA k : k \in DOMAIN s)
      bounds == [i \in DOMAIN filters |-> <<filters[i], s[filters[i]]>>]
  IN IF Audio(s)
     THEN <<"ba", bounds, filters # <<>> /\ Flag(s, "audio-source-fallback", TRUE)>>
     ELSE IF filters = <<>> THEN <<"format", Default(s, "format", Text(<<Word("bv+ba/best")>>))>>
     ELSE <<"bv", bounds>>

\* sort_selector: the preferences, strongest first.
SortSelector(s) ==
  LET wanted == IF Audio(s) THEN <<"preferred-audio-codec", "preferred-audio-channels">>
                ELSE <<"preferred-video-codec", "preferred-audio-codec",
                       "preferred-audio-channels", "preferred-fps", "preferred-hdr">>
      stated == SelectSeq(wanted, LAMBDA k : k \in DOMAIN s)
  IN <<[i \in DOMAIN stated |-> <<stated[i], s[stated[i]]>>],
       IF Audio(s) THEN <<"lang", "br", "size">>
       ELSE <<"res", Lower(Trim(Default(s, "resolution", Text(<<Num(1440)>>))))>> >>

\* live_chat joins the subtitle languages; an exclusion of it raises.
LiveChat == <<Word("live_chat")>>
Languages(s) == Split(Toks(s["sub-langs"]), Word(","))
ExcludesLiveChat(s) ==
  /\ Flag(s, "write-live-chat", FALSE) /\ "sub-langs" \in DOMAIN s
  /\ <<Word("-")>> \o LiveChat \in ToSet(Languages(s))
SubtitleSwitch(s) ==
  IF ~Flag(s, "write-live-chat", FALSE) THEN Option(s, "sub-langs", "--sub-langs")
  ELSE IF "sub-langs" \notin DOMAIN s THEN {<<"--sub-langs", Text(LiveChat)>>}
  ELSE IF LiveChat \in ToSet(Languages(s)) THEN Option(s, "sub-langs", "--sub-langs")
  ELSE {<<"--sub-langs", Text(Toks(s["sub-langs"]) \o <<Word(",")>> \o LiveChat)>>}

MediaSwitches(s) ==
  {<<"-f", FormatSelector(s)>>, <<"-S", SortSelector(s)>>,
   <<"-r", Default(s, "limit-rate", Text(<<Num(20), Word("M")>>))>>}
  \cup (IF Partial(s) THEN {<<"--no-download-archive", "">>}
        ELSE {<<"--download-archive", Default(s, "archive", Text(<<Word("archive.txt")>>))>>})
  \cup Present(~Audio(s), "--video-multistreams")
  \cup Present("audio-format" \in DOMAIN s, "--extract-audio")
  \cup Option(s, "audio-format", "--audio-format") \cup Option(s, "audio-quality", "--audio-quality")
  \cup Option(s, "merge-container", "--merge-output-format")

FileSwitches(s) ==
  Present(Flag(s, "write-subs", FALSE) \/ Flag(s, "write-live-chat", FALSE), "--write-subs")
  \cup Present(Flag(s, "write-auto-subs", FALSE), "--write-auto-subs")
  \cup SubtitleSwitch(s) \cup Option(s, "sub-format", "--sub-format")
  \cup UNION {Present(Flag(s, k, FALSE), "--" \o k) :
              k \in {"embed-subs", "write-thumbnail", "embed-thumbnail", "write-info-json"}}
  \cup Toggle(Flag(s, "embed-metadata", TRUE), "--embed-metadata", "--no-embed-metadata")
  \cup Toggle(Flag(s, "embed-chapters", TRUE), "--embed-chapters", "--no-embed-chapters")
  \cup (IF Flag(s, "sponsorblock", TRUE)
        THEN Option(s, "sponsorblock-mark", "--sponsorblock-mark")
             \cup {<<"--sponsorblock-remove",
                     Default(s, "sponsorblock-remove", Text(<<Word("all")>>))>>}
        ELSE {<<"--no-sponsorblock", "">>})

NetworkSwitches(s) ==
  UNION {Option(s, k, "--" \o k) :
         k \in {"throttled-rate", "impersonate", "proxy", "socket-timeout", "source-address",
                "concurrent-fragments"} \cup RetryKeys}
  \cup Option(s, "user-agent", "--add-headers User-Agent")
  \cup Option(s, "referer", "--add-headers Referer") \cup Each(s, "headers", "--add-headers")
  \cup Option(s, "ip-family", "--force") \cup Each(s, "retry-sleep", "--retry-sleep")
  \cup CookieSwitch(s)

SectionOutput == Text(<<Word("section-number"), Word("section-title")>>)
OutputSwitches(s) ==
  (IF Partial(s) THEN {<<"--output", SectionOutput>>} ELSE Option(s, "output", "--output"))
  \cup Option(s, "path", "--paths home")
  \cup {<<"--paths temp", Default(s, "temp-path", Text(<<Word("temp")>>))>>}
  \cup (IF "extractor-args" \in DOMAIN s THEN Each(s, "extractor-args", "--extractor-args")
        ELSE {<<"--extractor-args", Text(<<Word("player-client")>>)>>})

SelectionSwitches(s, in) ==
  (IF Flag(s, "live-from-start", FALSE) THEN {<<"--live-from-start", "">>}
   ELSE Present(Live(s), "--no-live-from-start"))
  \cup (IF "wait-for-video" \in DOMAIN s THEN Option(s, "wait-for-video", "--wait-for-video")
        ELSE Present(Live(s), "--no-wait-for-video"))
  \cup UNION {Each(s, k, "--download-sections " \o k) : k \in Sections}
  \cup Option(s, "playlist-items", "-I")
  \cup Present(Flag(s, "reverse-playlist", FALSE), "--playlist-reverse")
  \cup (IF in.kind = "collection"
        THEN {<<"--no-playlist", "">>, <<"--use-postprocessor", "CollectionMetadata">>}
        ELSE Present(Is(s, "playlist", Bool(TRUE)), "--yes-playlist")
             \cup Present(Is(s, "playlist", Bool(FALSE)), "--no-playlist"))

\* The callbacks after each file, and the targets: rows are read from the queue
\* again, a collection's are the remaining ones.
HookSwitches(r, in, recorded) ==
  Present(recorded, "--exec record-collection-completion")
  \cup (IF Removal(r, in) = "no" THEN {}
        ELSE {<<"--exec remove-completed", Removal(r, in)>>})
  \cup {<<"targets", IF in.kind = "batch" /\ r.removal = "rows" THEN "rows" ELSE in.kind>>}

\* build_yt_dlp_command
Command(s, r, in, recorded) ==
  MediaSwitches(s) \cup FileSwitches(s) \cup NetworkSwitches(s) \cup OutputSwitches(s)
  \cup SelectionSwitches(s, in) \cup HookSwitches(r, in, recorded)

-----------------------------------------------------------------------------
(* Steps *)

NoRequest == [name |-> NoParent]
NoInput == [ok |-> FALSE]

Init ==
  /\ \E parent \in Shapes, values \in ValueTables, defaults \in Bases :
       /\ file = [parent |-> parent, values |-> values, defaults |-> defaults,
                  profiles |-> [p \in DOMAIN parent |-> NoSettings]]
       /\ Writable(file, NoSettings)
  /\ cli = NoSettings /\ writes = 0 /\ phase = "write" /\ loaded = Refused
  /\ settings = NoSettings /\ sources = [k \in {} |-> ""]
  /\ request = NoRequest /\ input = NoInput /\ effects = {} /\ command = {}

Write(layer, k, v) ==
  LET written == CASE layer = "cli" -> file
                   [] layer = "$defaults" -> [file EXCEPT !.defaults = Set(@, k, v)]
                   [] OTHER -> [file EXCEPT !.profiles[layer] = Set(@, k, v)]
      given == IF layer = "cli" THEN Set(cli, k, v) ELSE cli
  IN /\ phase = "write" /\ writes < MaxWrites
     /\ layer \in {"cli", "$defaults"} \cup Declared(file)
     /\ Writable(written, given)
     /\ file' = written /\ cli' = given /\ writes' = writes + 1
     /\ UNCHANGED <<phase, loaded, settings, sources, request, input, effects, command>>

Refuse == phase' = "refused"

LoadProfiles ==
  /\ phase = "write"
  /\ loaded' = Load(file)
  /\ IF loaded'.ok THEN phase' = "loaded" ELSE Refuse
  /\ UNCHANGED <<file, cli, writes, settings, sources, request, input, effects, command>>

\* Combinations of options that main refuses before it reads the file.
ArgumentsRefused(r) ==
  \/ r.mode = "dry" /\ (r.reports \/ r.reset)
  \/ (r.reset \/ r.ignore) /\ r.collection = "no"
  \/ r.reset /\ r.ignore

\* select_profile and explicit_profile_settings, and resolve_profile_settings.
Prepare(r) ==
  LET selected == Selected(loaded.profiles, r.name)
  IN /\ phase = "loaded" /\ request' = r
     /\ IF ArgumentsRefused(r) \/ ~selected.ok \/ Dangling(Explicit(cli))
        THEN Refuse /\ UNCHANGED <<settings, sources>>
        ELSE /\ phase' = "prepared"
             /\ settings' = Merged(selected.settings, cli) /\ sources' = SourcesOf(selected, cli)
     /\ UNCHANGED <<file, cli, writes, loaded, input, effects, command>>

MakePlan ==
  LET in == InputOf(request)
  IN /\ phase = "prepared"
     /\ input' = in
     /\ IF ~in.ok THEN Refuse
        ELSE IF \/ RemovalRefused(request, in) \/ PolicyConflicts(settings)
                \/ PlanRefused(settings, request, in)
        THEN Refuse ELSE phase' = "planned"
     /\ UNCHANGED <<file, cli, writes, loaded, settings, sources, request, effects, command>>

\* --explain shows the command of the plan.
Explain ==
  /\ phase = "planned" /\ request.mode = "explain"
  /\ IF ExcludesLiveChat(settings) THEN phase' = "failed" /\ UNCHANGED command
     ELSE phase' = "explained" /\ command' = Command(settings, request, input, FALSE)
  /\ UNCHANGED <<file, cli, writes, loaded, settings, sources, request, input, effects>>

Continued == input.kind = "collection" /\ request.identity /\ ~request.ignore

\* The queue loses what is archived; a collection without an identity cannot be
\* reset, another one is reset and observed under its lock.
Reconcile ==
  /\ phase = "planned" /\ request.mode # "explain"
  /\ IF request.reset /\ ~request.identity THEN Refuse ELSE phase' = "ready"
  /\ effects' = IF request.mode = "dry" \/ phase' = "refused" THEN {}
                ELSE When(Removal(request, input) # "no", {"queue"})
                     \cup When(request.reset, {"cleared"}) \cup When(Continued, {"observed"})
  /\ UNCHANGED <<file, cli, writes, loaded, settings, sources, request, input, command>>

\* Nothing is left of the collection: no command.
Idle ==
  /\ phase = "ready" /\ Continued /\ request.mode = "run"
  /\ phase' = "done"
  /\ UNCHANGED <<file, cli, writes, loaded, settings, sources, request, input, effects, command>>

\* recorded: the continuation database answered.
Launch(recorded) ==
  /\ phase = "ready"
  /\ recorded => Continued /\ request.mode = "run"
  /\ IF ExcludesLiveChat(settings) THEN phase' = "failed" /\ UNCHANGED command
     ELSE phase' = "done" /\ command' = Command(settings, request, input, recorded)
  /\ UNCHANGED <<file, cli, writes, loaded, settings, sources, request, input, effects>>

Next ==
  \/ \E pair \in Pairs : Write(pair[1], pair[2], pair[3])
  \/ LoadProfiles
  \/ \E r \in Requests(writes) : Prepare(r)
  \/ MakePlan
  \/ Explain
  \/ Reconcile
  \/ Idle
  \/ \E recorded \in BOOLEAN : Launch(recorded)

Spec == Init /\ [][Next]_vars

-----------------------------------------------------------------------------
(* Properties *)

\* The sets that hold the parent of each of their members.
Closed(f) ==
  {S \in SUBSET Declared(f) : \A p \in S : f.parent[p] \in S \cup {NoParent}}
Lineage(f, p) == {q \in Declared(f) : \A S \in Closed(f) : p \in S => q \in S}
\* Every profile has a root, and none a parent that is not there.
Forest(f) ==
  /\ \A p \in Declared(f) : f.parent[p] \in Declared(f) \cup {NoParent}
  /\ \A S \in SUBSET Declared(f) : S # {} => \E p \in S : f.parent[p] \notin S

\* The layer of the file that decides setting k of profile p, and its value.
Declarers(f, p, k) == {q \in Lineage(f, p) : k \in DOMAIN f.profiles[q]}
Layer(f, p, k) ==
  IF Declarers(f, p, k) = {} THEN "$defaults"
  ELSE CHOOSE q \in Declarers(f, p, k) : Declarers(f, p, k) \subseteq Lineage(f, q)
Raw(f, layer) == IF layer = "$defaults" THEN f.defaults ELSE f.profiles[layer]
Stored(f, p) ==
  LET keys == DOMAIN f.defaults \cup UNION {DOMAIN f.profiles[q] : q \in Lineage(f, p)}
  IN [k \in keys |-> Validated(k, Resolved(Raw(f, Layer(f, p, k))[k], f.values, {}))]

\* The file has just been read; nothing later changes what was found in it.
Read == phase \in {"loaded", "refused"} /\ request = NoRequest

\* A file is taken if and only if its profiles form a forest and every one of
\* them, and $defaults alone, is coherent: the order in which load_profiles
\* resolves them and what it remembers of them do not matter, nor does a profile
\* nobody selects go unread.
LoadExact ==
  Read =>
    (loaded.ok <=> /\ Forest(file)
                   /\ Coherent(Normalised(References(file.defaults, file.values)))
                   /\ \A p \in Declared(file) : Coherent(Stored(file, p)))

SelectedName == IF request.name # NoParent \/ "default" \notin Declared(file)
                THEN request.name ELSE "default"
StoredSettings == IF SelectedName \in Declared(file) THEN Stored(file, SelectedName)
                                                    ELSE NoSettings

\* The options of the command line that ask for something; a waiting time beside
\* --no-wait-for-video does not.
Asked == DOMAIN cli \ (Switches \cup (IF "no-wait" \in DOMAIN cli THEN {"wait-for-video"} ELSE {}))

\* "explicit-cli, selected-profile, ancestor-profiles, $defaults": each setting
\* has the value its highest layer wrote, normalised once however often it was
\* inherited, and names that layer; what is missing was taken back, and a
\* waiting time that is given and refused at once is in neither.
PrecedenceKept ==
  phase = "prepared" =>
    /\ DOMAIN settings = (DOMAIN StoredSettings \ Withdrawn(cli)) \cup Asked
    /\ "no-wait" \in DOMAIN cli => "wait-for-video" \notin DOMAIN settings
    /\ \A k \in DOMAIN settings :
         IF k \in Asked
         THEN settings[k] = Validated(k, cli[k]) /\ sources[k] = "cli"
         ELSE settings[k] = StoredSettings[k] /\ sources[k] = Layer(file, SelectedName, k)

Passed(flag) == \E switch \in command : switch[1] = flag

\* A command asks for one thing: one cookie source, and none when cookies are
\* off; no wait and no impersonation that an option takes back; live switches only
\* of a live run; an excerpt, which leaves no record in the archive and no claim on
\* the queue; an audio workflow without video filters; queue removal of whole items
\* of a file.
CommandCoherent ==
  command # {} =>
    /\ ~(Passed("--cookies") /\ Passed("--cookies-from-browser"))
    /\ Is(cli, "no-cookies", Bool(TRUE)) => ~Passed("--cookies") /\ ~Passed("--cookies-from-browser")
    /\ "no-wait" \in DOMAIN cli => ~Passed("--wait-for-video")
    /\ "no-impersonate" \in DOMAIN cli => ~Passed("--impersonate")
    /\ Passed("--live-from-start") \/ Passed("--wait-for-video") => Live(settings)
    /\ Partial(settings) =>
         /\ ~Passed("--download-archive") /\ <<"--output", SectionOutput>> \in command
         /\ ~Passed("--exec remove-completed") /\ ~Live(settings)
    /\ Passed("--extract-audio") => /\ ~Passed("--video-multistreams") /\ ~Passed("--embed-subs")
                                    /\ ~Passed("--merge-output-format")
    /\ Passed("--exec remove-completed") =>
         /\ ~Passed("-I") /\ \E t \in {"batch", "rows"} : <<"targets", t>> \in command
    /\ Passed("-I") /\ input.kind # "collection" => ~Passed("--no-playlist")

\* What load_profiles accepts and normalises is what the published schema calls
\* canonical; a resolution alone is kept as written, blanks and all.
CanonicalInSchema ==
  Read /\ loaded.ok => \A p \in DOMAIN loaded.profiles :
                 LET s == loaded.profiles[p].settings
                 IN SchemaAdmits(IF "resolution" \in DOMAIN s
                                 THEN Set(s, "resolution", Trim(s["resolution"])) ELSE s)

\* A plan is "ready for explanation or execution": violated, a policy that
\* excludes the live chat it asks for fails when the command is built, after the
\* queue was reconciled or the collection's state cleared.
PlannedIsReady == phase = "failed" => effects = {}
=============================================================================
