---------------------------- MODULE ProfilePorts ----------------------------
(***************************************************************************)
(* The two downloaders on one profile file: yt-download.py, whose steps    *)
(* DownloadProfiles takes, and the native crate, whose loading, selection  *)
(* and planning RustProfiles computes from the same file, options and      *)
(* targets.                                                                *)
(***************************************************************************)
EXTENDS DownloadProfiles

Rust == INSTANCE RustProfiles

Native == Rust!LoadValidatedProfiles(file)

Written(k) ==
  LET layers == {file.defaults} \cup {file.profiles[p] : p \in Declared(file)}
  IN {s[k] : s \in {t \in layers : k \in DOMAIN t}}
Values(k) == {Resolved(v, file.values, {}) : v \in Written(k)}

\* What the crate does not take yet, or takes differently on purpose: chapter
\* sections, excerpts of a live run, blanks inside a slice.
Unported ==
  \/ Values("chapter-sections") # {}
  \/ \E p \in Declared(file) : "time-ranges" \in DOMAIN Stored(file, p) /\ Live(Stored(file, p))
  \/ \E v \in Values("playlist-items") :
       \E item \in ToSet(v[2]) : IsText(item) /\ Word(" ") \in ToSet(Toks(item))

\* What it takes and the Python downloader refuses: a "$defaults" that is bad on
\* its own and overridden by every profile, and M:S with an hour or more.
HourInMinutes(toks) ==
  \E i \in DOMAIN toks : i < Len(toks) /\ toks[i][1] = "n" /\ toks[i][2] >= 60 /\ toks[i+1] = Word(":")
Laxer ==
  \/ ~Coherent(Normalised(References(file.defaults, file.values)))
  \/ \E v \in Values("time-ranges") : \E item \in ToSet(v[2]) :
       IsText(item) /\ HourInMinutes(Toks(item))

\* "Parse, resolve and validate every profile": of one file both make the same
\* profiles, ancestries, sources and tree, although one validates after every
\* layer and the other only the sum of the layers; and they disagree about
\* taking a file in the named cases only.
SameFile(native) ==
  /\ loaded.ok /\ native.ok =>
       /\ \A p \in Declared(file) :
            /\ native.profiles[p].settings = loaded.profiles[p].settings
            /\ native.profiles[p].ancestry = loaded.profiles[p].ancestry
            /\ native.profiles[p].sources = loaded.profiles[p].sources
       /\ Rust!RenderProfileTree(native.profiles) = Tree(loaded.profiles)
  /\ loaded.ok => native.ok \/ Unported
  /\ native.ok => loaded.ok \/ Laxer
FilesAgree == Read => SameFile(Native)

Switched(k) ==
  CASE k = "playlist" -> "--yes-playlist"
    [] OTHER -> "--" \o k

\* One file, the same explicit options and the same targets: the crate selects
\* the settings the Python downloader selects, refuses none that the latter
\* plans, finds the same kind of source, and plans the same switches.
SameInvocation(selection, source, plan) ==
  /\ selection.ok => selection.settings = settings /\ selection.sources = sources
  /\ phase # "prepared" =>
       /\ selection.ok
       /\ request.collection = "no" => source.ok /\ source.kind = input.kind
  /\ command # {} /\ source.ok /\ plan.ok =>
       \A k \in Rust!Planned : k \in plan.on <=> Passed(Switched(k))
SameFrom(native, source) ==
  native.ok => SameInvocation(Rust!SelectProfile(native.profiles, request.name, cli), source,
                              Rust!PlanInvocation(settings, source))
InvocationsAgree ==
  /\ phase \notin {"write", "loaded", "refused"} /\ DOMAIN cli \subseteq Rust!Overridable
  => SameFrom(Native, Rust!ResolveTargets(request))

\* Violated: "invalid stored policy cannot go unnoticed" (profile_pipeline.rs);
\* "$defaults" may be what the crate itself refuses, if every profile overrides it.
StoredPolicyNoticed ==
  Read /\ Native.ok => Rust!ValidateSettings(Rust!ResolveSettings(file.defaults, file.values)).ok
=============================================================================
