# A TLA+ development of yt-media-tools

This directory holds TLA+ modules for the parts of yt-media-tools in which several processes,
threads, files and commits meet and for the rules its queries and profiles obey, the TLC
configurations that model-check them, and TLAPS proofs of the results that matter most. Every
definition is a translation of code; `PROJECT.json` ("map") names the lines it stands for.

## 1. The system

The repository holds two command line tools in Python, a plugin for yt-dlp, and a rewrite of the
downloader in Rust.

* `yt-discover.py` with the package `yt_media_tools/` (29,000 lines) answers queries in yt-sql about
  the media of channels, playlists and collections. It keeps what it learns in a SQLite cache that
  several processes share.
* `yt-download.py` (4,600 lines) turns profiles, queue files and collection files into a yt-dlp
  command, runs it, and records what it completed, with the help of callback processes that yt-dlp
  starts.
* `yt_dlp_plugin_packages/` gives the files of a collection run their positions.
* `rust/crates/yt-downloader/` is the downloader's library in Rust: profiles, planning, supervised
  execution.

### Inventory

| Component | State it keeps | Operations | Meets | What makes it correct |
|---|---|---|---|---|
| Cache startup and migration (`cache_startup.py`, `cache_discovery.py`, `cache_v3_to_v4_migration.py`) | the v3 and v4 database files, the lock file | lock, discover, decide, create, migrate in stages, certify, cut over, clean up | other starts, explicit `--cache` users, kills | no fact lost; an active cache is complete; failures leave a startable directory |
| v4 entity store (`cache_entity_store.py`, `cache.py`) | entities, metadata, acquisition state, source entries, frontiers, observations, coverage | `put_many`, source recorders, readers | other connections, maintenance | rows describe their entity; ages are honest |
| Retention and pruning (`cache_maintenance.py`) | the same tables | plan, execute, prune, collect | writers that hold rowids | only old or released rows go |
| Registry (`cache_registry_store.py`) | field and context declarations | reconcile, allocate | the entity store | one column per field, never reused |
| Discovery application (`discover_application.py`) | what a listing has seen; a source's ordering, frontier and coverage | incremental and date-bounded listing, acquisition, commits | cache, yt-dlp, a feed that moves, other runs | no hole in the stored ordering; coverage claimed only when complete; shortcuts lose no row |
| Acquisition (`planner.py`, `discover_acquisition.py`, `staged_predicates.py`) | batches in flight | plan per source, reject early, stop at LIMIT | providers | rows and fields left out never show |
| Query front end (`query_parser.py`, `query_resolver.py`, `schema.py`, `query_properties.py`) | none | parse, infer the schema, resolve, type, collect the fields | records of providers | what is accepted runs; announced types are kept; the fields suffice |
| Evaluation (`query_evaluator.py`) | none | filter, group, join, combine, sort | the resolver | results independent of the path taken and of the order of rows |
| Optimiser (`optimizer.py`, `optimizer_proofs.py`, `semantic_provability.py`) | none | rewrite to a fixed point, prove | | rewrites keep the meaning under three-valued logic |
| Collection continuation (`collection_state.py`, `yt-download.py`) | completed targets and an observation per collection; a lock per collection | reset, read, compare, record, callbacks, final check and clear | yt-dlp, its callbacks, other invocations, edits | only retrieved targets are skipped; no evidence lost |
| Layout of that database (`collection_state.py`) | `user_version` and two tables | create, upgrade | concurrent connections | users see the complete layout |
| Queue files (`yt-download.py`) | queue file, archive, report | removal by callbacks, reconciliation, report | other runs and writers | completed lines leave, others stay; honest report |
| Downloader profiles and command (`yt-download.py`) | the profile file; what an invocation has done before it starts yt-dlp | validate, inherit, merge, resolve the input, plan, reconcile, build the command | the queue and the collection state | the highest layer decides; a coherent command |
| Rust profiles (`profile_*.rs`, `target*.rs`, `plan*.rs`) | the profile file | parse, resolve, select, plan | the same files as the Python tool | both tools read one file the same way |
| Rust supervision (`supervision.rs`, `lifecycle.rs`, `progress_stream.rs`) | lifecycle, child, reader thread, bounded channel | spawn, poll, cancel, join or detach | the child, its descendants, the caller's token | one ending, complete success, no stall |
| Rust metadata acquisition (`metadata.rs`) | child and reader | read up to a deadline | | the child is reaped, the deadline kept |
| Metadata plugin | positions still to hand out | one lookup per file | order of arrival | duplicates get distinct positions |
| Database maintenance (`database_maintenance.py`) | the cache file | checks, checkpoint, VACUUM | other connections | no maintenance on a damaged file |
| Explanations, output, runtimes, CLI | none, or subprocesses | present, adapt | | |

The full list, with its status, is "components" in `PROJECT.json`; the places where this code is
hard to test are its "hazards", each with the properties that watch over it, or why none does.

### Where it is hard

* **Interleaving.** Starts on one cache directory; writers with several commits per record; two runs
  on one channel that publishes and withdraws meanwhile; invocations on one collection or one queue
  file, and callbacks that outlive their invocation; a supervisor, a reader thread, a child and its
  descendant.
* **Crashes.** A kill releases `flock` at once and leaves what was committed: half a migration, half
  a layout, half a record, half of what a listing learnt, or a running yt-dlp.
* **Partial failure.** Every stage of a migration, every use of the continuation database, `kill`,
  `wait` and `try_wait`, and every request to a provider may fail, alone and together.
* **Stale knowledge.** Rowids kept across commits, retention plans executed later, files read before
  a lock, archives read twice, cached records beside fresh listings, proofs about a predicate before
  its literals have types.
* **Several readings of one thing.** The parser, the resolver, the row evaluator, the group
  evaluator and the analysis of fields each walk the same expression; a planner and an executor look
  at the same query; two programs read one profile file.

## 2. Modules

| Module | Models | Composes or refines |
|---|---|---|
| `CacheHandover` | the promise of managed startup | |
| `CacheStartup` | lock, discovery, creation, migration, cut-over, cleanup, ordinary work, `--cache` users | implements `CacheHandover` |
| `EntityStore` | `put_many`, source recorders, readers, retention, pruning | |
| `Discovery` | two runs on one channel facet, the feed, the shared cache | |
| `Comparisons` | values, three-valued truth, comparisons, bound selection | used by the two below and by `ScalarExpressions` |
| `QueryRewrite` | a predicate from the parser to its fixed point, proofs and stages | uses `Comparisons` |
| `QueryAcquisition` | a query of several clauses, the plan of each source, the facts proved of it, the execution | uses `Comparisons` |
| `ScalarExpressions` | schema, types, resolution and values of expressions | uses `Comparisons` |
| `QueryResolution` | one query body: clauses, resolver, required fields, row and group evaluators | extends `ScalarExpressions` |
| `CollectionContinuation` | one collection's invocations, yt-dlp, callbacks, edits | |
| `CollectionSchema` | `CollectionState.connect` statement by statement | |
| `CompletionQueue` | queue rewrites, reconciliation, report | |
| `SettingValues`, `ProfileSettings` | JSON values; validation, normalisation and published schema of settings | |
| `DownloadProfiles` | from the profile file and the options to the yt-dlp command | extends `ProfileSettings` |
| `RustProfiles` | loading, selection, targets and plan of the crate | uses `SettingValues` |
| `ProfilePorts` | both downloaders on one file | composes `DownloadProfiles` and `RustProfiles` |
| `DownloadAttempt` | the promise of one supervised attempt | |
| `DownloadSupervision` | `supervise_inner`, lifecycle, reader thread, channel, pipe | implements `DownloadAttempt` |
| `MC...` | values for TLC | extend their module |
| `..._proofs` | invariants, lemmas, theorems | extend their module and `TLAPS` |

Definitions called a mutant in their comment are plausible faults of the definition after them.
They are used by nothing; put in the place of that definition, each makes one property fail.

### CacheStartup

State: the shape and content of the two database files, the holder of
`.metadata-cache-startup.lock`, and per process its stage, options, unread rows and open handle. A
*fact* is one row of knowledge. One action is the code up to the next commit or file-system call:
`Acquire` (flock), `Discover` (discovery and resolution), `Confirm` (the prompt, inside the lock),
`InitTables` and `InitMark` (`initialise_v4_cache`), `Stamp` (the incomplete marker),
`PopulateSources`, `OpenRows`, `PopulateBatch`, `Certify`, `Finalise`, `Verify`, `UnlinkSource`, and
`Cleanup` (the handler of `execute_cache_startup`). `Fault` raises at any stage, `Kill` ends a
process anywhere. `Explicit` processes open, write and close either file without the lock;
`OpenV4` turns an unfinished destination into a foreign file, as the ordinary opener does.

The constant `StampWindow` says whether the program may stop for good between the commit that
declares a new destination complete and the one that stamps it incomplete. It exists because that
window is real and breaks the promise (section 5); with FALSE everything else is examined.

### EntityStore

State: the v4 tables by rowid, the clock, one job per writer, and the maintenance in progress. A
metadata row is the video it describes and the time of its oldest value: the program writes the
columns a record has a scalar for, and a field with a list or an object keeps what its column held,
which `OddValues` allows (`Oldest`). `PutEntity`, `PutMeta`,
`CheckAttempt`, `PutSuccess` and `PutCollections` are the statements of `put_many`; the attempt time
is read in a transaction of its own, and the table refuses a failure older than the last success.
`List...` are the commits of a source listing, which may be empty. `PlanRetention`
and `ExecuteRetention` are separated by anything; pruning collects released entities one by one with
a look at provider and source state before each deletion. A rowid is one more than the largest in
use, so that the rowid of a collected entity can return. `Exclusive` keeps maintenance apart from
writers: no code under `src/` runs them together today, and with `Exclusive = FALSE` the reuse of a
rowid does attach rows to the wrong video. `Overlap` lets two writers acquire one video.

Readers change nothing and are operators: `Observation` is `field_observation`, which raises for an
unknown entity and for a success without its metadata row, `CachedItem` a lookup by video, and
`Named`, `Recorded` and `Counted` are three ways to read a listing.

Retention, pruning and `record_acquisition_failure` have no caller in the program yet; they are
modelled as the API they are.

### Discovery

State: the newest-first feed of a channel and the titles on it (both external: `Publish`, `Withdraw`
and `Retitle` move them at any time), the stored ordering, frontier and coverage of the source, the
detailed records and which of them are fresh (`Age`), and per run what it has listed, confirmed,
queued, held and missed. `Start` takes the stored ordering and `ReadFrontier`, in a read of its own,
the frontier without which the ordering is not used; then one of the three listings follows:
`ListOverlap` reads up to `Confirm` known entries in a row and joins the rest of the ordering,
`ListBounded` stops after `Boundary` entries older than the date the query asks for, approximate
dates being off by up to `Drift` and given `Margin`, `ListAll` reads to the end. `BatchBegin`,
`Fetch` and `BatchEnd` are the batches of detailed records, from the cache or from yt-dlp, and the
early end at LIMIT. `RecordEntries`, `RecordFrontier` and `RecordCoverage` are commits of their own;
another run, a stop (`Fails`) or the feed may come between any two. Videos are numbered in the order
of publication and `Day` gives their upload dates, which never descend with the number; titles are exact in a listing, dates approximate, all else needs the detailed record.

History variables keep the feed that an ordering or a coverage was taken from, so that the
properties can speak of the listing a stored fact is about. Constants switch the cases in which the
promise is known to fail (`Cuts`: a listing may end early without an error; `Specialised`: a
source-specialised query records coverage).

### Comparisons and QueryRewrite

`Comparisons` holds what the evaluator and the optimiser both stand on: comparisons of values that
may be NULL or of other kinds, inverted operators, and the choice of the stronger of two bounds.
`QueryRewrite` builds a predicate atom by atom (`Join`, `Negate`, `TestTruth`), then applies
`Pass` until nothing changes or the pass limit is reached. The planner's proofs (`NeverTrue`) and
predicate stages work on `Written[origin]`, the parsed predicate, as in the program: there a number
written with a unit is still a text. `Predicate` is the set of trees of bounded depth, and what walks a
tree is a recursive function on it, so that the proofs can speak of it.

### QueryAcquisition

A query gets its clauses one at a time (`Join`, `Where`, `Union`, `OrderBy`, `Limit`, `With`), each
a step so that every prefix is a query too. `Acquire` plans each source boundary (the predicate any
use of the source needs, the fields, constant-false joins, LIMIT), takes the rows the plan asks for,
and the answer on them is compared with the answer on the complete sources. `RelationFacts` is what
`prove_query_relation_facts` says of the query alone: whether its result is empty and how long it can
be. `Allowed` leaves out the
shapes for which the comparison is known to fail (section 5).

### ScalarExpressions and QueryResolution

`ScalarExpressions` has the schema inferred from the rows, the signature `Resolve` gives an
expression (a kind and a type, a refusal, or an exception that is no refusal), and `Value` and
`Truth`, the evaluator on one row. `QueryResolution` is the machine around them: `Begin` and `Wrap`
write an expression from atoms and operators, `PlaceGroup`, `PlaceSelect`, `PlaceWhere`,
`PlaceHaving` and `PlaceOrder` put it into the query, `ResolveQuery` picks the rows, infers the
schema and resolves (`Verdict`), and `Run` evaluates an accepted query three times: on the rows as
they are, on rows that hold the required fields only, and on the rows in another order with other
draws of RANDOM.

Texts stand by their rank, floats by twelfths rounded down, LENGTH tells empty from non-empty, and
values Python cannot order keep their places in ORDER BY (the code then sorts by their text).
Literals stand quoted. `Admitted` leaves out the shapes for which the code is known to fail.
Arithmetic is Python's on whatever a record holds: texts and lists are added and repeated, and a
number beyond `FloatMax` does not become a float (no text has a percent sign, which `%` would format).
The model was compared with the program itself: 87,000 pairs of a query and a table, taken from the
reachable states, were written out as yt-sql and run through the parser, the resolver and the
evaluator; verdicts and results agree up to the abstractions just named.

### SettingValues, ProfileSettings, DownloadProfiles, RustProfiles and ProfilePorts

State: the profile file, the explicit options, what has been loaded, the settings of the invocation
and the layer each comes from, the input, the plan, the effects so far and the command. `Write` adds
one setting to a layer or an option to the command line; `LoadProfiles`, `Prepare`, `MakePlan`,
`Explain`, `Reconcile`, `Idle` and `Launch` follow `main` in its order, so that an error of a later
step finds the effects of an earlier one. `ProfileSettings` has the validators as functions of JSON
values and the JSON schema the program publishes. `RustProfiles` computes what the crate makes of the
same file, options and targets; `ProfilePorts` states that the two agree. A text is a sequence of
tokens, so that signs, blanks, upper case and ranges are told apart without characters.

### CollectionContinuation

State: completion rows and observation of one collection, the collection file, the lock, and per
invocation its stage, options, targets, what it knows to be completed, its yt-dlp and its callback.
`Start` reads the file before the lock, as `main` does. `Reset`, `ReadCompleted`,
`CompareObservation`, `RecordObservation`, `Check` and `Clear` are uses of the database and may each
fail (`Fails`): the run then goes on untracked, or ends. yt-dlp retrieves, passes over or stops in
any order; the callback reads the file again (`CallbackRead`) and writes its row without the lock
(`CallbackRecord`). `Kill` frees the lock and leaves yt-dlp and callback alive. `OtherRelease` leaves
an observation with a fingerprint version the code does not know, which it retains.

### CollectionSchema

`connect` as a sequence of reads and commits. Python's `sqlite3` opens no transaction for
`CREATE TABLE` or `PRAGMA user_version`, so each is a commit; the model starts in each layout
`connect` accepts. The check of column names, which cannot fail for tables this code created, is
left out. Its names are not those of `CollectionContinuation` (`LayoutSpec`, `at`, `losses`), so that
the proofs about both can stand in one module.

### CompletionQueue

State: the lines of the queue, yt-dlp's archive, per run its snapshot of requested targets and of
the archive, its removal in progress and its report. The queue is read by `Start`, the archive by
`ReadBefore`, and once more by `ReadArchive` for the reconciliation. A removal is a read
(`RemovalRead`) and a rename (`Replace`) with anything in between: another program may append any
line, one of a target in hand included (`Append`), and a download of another queue may write the
archive (`RecordElsewhere`). A line is the target that readers take from it, and
whether its bytes are exactly that ID. Order and duplicates are left out: all matching lines go at
once.

### DownloadSupervision

State: the lifecycle and the events the sink received, the token, the next statement of
`supervise_inner` and `finish_reader`, the child, a descendant that inherited standard error, the
reader thread, the pipe and the bounded channel. Progress records are numbered in the order of
writing; parsing is left out, except that what reaches the channel is a valid record. `DrainOne` and
`Drained` are the turns and the end of `drain_progress`; `Detach` is the 500 ms limit of
`finish_reader`, at any time because durations are not modelled. After the call has returned, the
receiver is gone and a detached reader discards what it reads. `Call` may be repeated with the same
lifecycle, as its interface allows.

## 3. What is checked

Run in this directory, for example `tlc -workers 2 -config Supervision.cfg DownloadSupervision`.

| Run | Configuration | Question | What holds |
|---|---|---|---|
| `startup` | `CacheStartup.cfg` | two managed starts, every option, two faults or kills | the active cache holds everything, v3 goes only after cut-over, the refinement of `CacheHandover`, termination |
| `startup_explicit` | `CacheStartupExplicit.cfg` | the same beside a process with `--cache` | no fact lost, workers keep their file |
| `store` | `EntityStore.cfg` | two overlapping writers, retention and pruning between jobs | rows keep their video, a success has its metadata, only old and released rows go |
| `discovery` | `Discovery.cfg` | two runs on a channel that publishes, withdraws and retitles | no hole in the stored ordering, honest coverage, complete answers |
| `query` | `Query.cfg` | every predicate of three parts over twenty atoms | the same truth on every row after every pass, a fixed point, sound proofs and stages |
| `acquisition` | `Acquisition.cfg` | every query of three clauses after FROM | the answer on what was acquired is the answer on everything, by either join path |
| `resolution` | `Resolution.cfg` | every query body of three terms and clauses, three steps of writing, over five tables | what is accepted runs, columns keep their types, the fields suffice, results do not depend on the order of rows |
| `continuation` | `Continuation.cfg` | two invocations, an edit, a database error, a kill | only retrieved targets are skipped, evidence is kept, downloads are serialised, termination |
| `schema` | `Schema.cfg` | three connections, four attempts, one kill | users see the current layout |
| `queue` | `Queue.cfg` | runs in turn and side by side, annotated rows | unrelated lines are kept by rewrites, the report is honest |
| `supervision` | `Supervision.cfg` | child, descendant, reader, supervisor, cancellation, two failing calls | one story, complete success, no stall, the refinement of `DownloadAttempt` |
| `profiles` | `Profiles.cfg` | every profile file and command line of two settings over the shapes of an instance | the highest layer decides, a coherent command, canonical settings satisfy the published schema, both downloaders agree |

The properties the runs check are `PROJECT.json`'s "properties". These also hold on the instances and
can be added to a configuration: each module's `TypeOK`, `BlockedOnlyByDebris` (`CacheStartup`),
`ObservationCurrent` (`CollectionContinuation`), `RestsAcceptedUnlessTorn` (`CollectionSchema`),
`CompletedLeave` (`CompletionQueue`), `ProgressInOrder` and `EndedIsReaped` (`DownloadSupervision`),
`ProofsHold` (`QueryRewrite`), `LoadExact` (`DownloadProfiles`). So does `FreshnessHonest`
(`EntityStore`) where no two connections acquire the same video at once and every record has scalars
only. All of them but `ProofsHold`
and `LoadExact` are proved (section 4).

### Configurations that fail

Each shows one of the disagreements of section 5; TLC prints the history that leads to it.

| Configuration | Module | Violated |
|---|---|---|
| `CacheStartupWindow.cfg` | `MCCacheStartup` | `ActiveHoldsEverything` |
| `EntityStoreStamp.cfg` | `MCEntityStore` | `FreshnessHonest` |
| `ContinuationExcerpt.cfg` | `MCCollectionContinuation` | `SkippedWereRetrieved` |
| `SchemaTorn.cfg` | `CollectionSchema` | `RestsAccepted` |
| `QueueLost.cfg` | `MCCompletionQueue` | `UnrelatedKept` |
| `DiscoveryCut.cfg` | `MCDiscovery` | `TrustedOrder` |
| the same, with `Cuts = FALSE`, `Specialised = TRUE` and the invariant `CoverageHonest` | `MCDiscovery` | `CoverageHonest` |
| `DiscoveryOverlay.cfg` | `MCDiscovery` | `ShortAnswerSawAll` |
| `QueryProofs.cfg` | `MCQueryRewrite` | `NeverTrueHolds` |
| `AcquisitionUnion.cfg` | `MCQueryAcquisition` | `ResultUnchanged` |
| `ProfilesReady.cfg` | `MCDownloadProfiles` | `PlannedIsReady` |
| the same, with `StoredPolicyNoticed` as its invariant | `MCDownloadProfiles` | `StoredPolicyNoticed` |

### Bounds, and why they are enough

* `startup`: a hand-over concerns one migrating and one waiting process, and a third one behaves as
  the second does. Two media facts with a batch of one make a population of two commits, so that a
  failure can leave a part; one source fact makes the source stage visible. Two faults cover a
  failure followed by a kill during its cleanup or of the next process. The explicit run has one
  fault, as its process multiplies the states.
* `store` (1,497,000 states): two videos and two rowids let a rowid be freed and handed out again; three jobs let two
  overlap and a third follow; a clock of three values and a window of 0 give younger, equal and
  older rows.
* `discovery` (2,870,000 states): a feed of three videos that can grow to five, two runs with one
  restart, two events of the feed or the cache, one failure. Two known entries confirm an overlap
  and two old ones a boundary (five and three in the program), so that a feed of three has both a
  confirmed and an unconfirmed one. The first three videos are older than the bound of the
  date-bounded query and the other two are of the day it begins with: the listing stops after two of
  the three, an old entry may stand above a wanted one, and a margin that is a day short, or one old
  entry that suffices, stops it above a wanted one too (the former is the mutant). Margin and drift
  are two days (45 in the program for the margin). The three queries list in the three ways, with and
  without LIMIT and a lightweight conjunct.
* `query` (345,000 states): two literals of a kind with a value below, between and above, NULL, a field
  no source has, one that is never NULL, an enumeration of two spellings. Every rule of the
  optimiser takes at most two atoms and a connective, so three parts hold a redex and its context.
* `acquisition` (301,000 states): two sources with repeated, NULL and list values; three clauses give
  every pair of uses of a source around a join, a UNION, a CTE or a derived relation with a LIMIT.
* `resolution` (465,000 states): one atom of each kind of field and one operator of each kind, so that each
  arm of resolver and evaluators meets an operand of every kind; one literal that no float holds
  (`FloatMax`, 99 here); tables with clean, mixed, listed and malformed records, and none. Three steps give an aggregate or a binder around an operator, or an
  alias and its use; three entries give a GROUP BY, a column and a HAVING or ORDER BY.
* `continuation`: two targets and two revisions of the file allow a partly completed collection and an
  edit that drops a target, or else one observation of another release. One kill leaves a yt-dlp and
  a callback alive beside the next invocation, and one database error reaches every use (769,000
  states).
* `schema`: three processes and four attempts let two creators race while a third reads between
  them, and one come back after a failure.
* `queue` (2,567,000 states): two runs, side by side or in turn; the line set has a plain, an annotated
  and an unrelated line; one line is appended, which may be one just removed, and any target may be
  archived by another download.
* `supervision`: pipe and channel hold two records and five are written, so both fill, drop and
  drain again; two failing calls give a reader failure followed by a failing `kill`, `wait` or
  `try_wait`; a second call meets a used lifecycle.
* `profiles` (367,000 states): inheritance as a chain, a pair, a single profile and four malformed shapes; about
  thirty pairs of a layer and a policy, two of them at a time, over an empty base and a live one with
  chat; each text of the grammars of rates, retries, slices and ranges in `$defaults`. A conflict
  the code knows is between two settings, or one setting and the input.

Symmetry is used in runs without liveness only, on sets whose members the specification treats
alike. Deadlock is not checked where a behaviour is one query or one invocation that ends
(`query`, `acquisition`, `resolution`, `profiles`) and in `discovery`, where the bounds end it.

### Fairness

* `CacheStartup`: weak fairness of each started process: it keeps running, the person at the prompt
  answers, and the kernel grants the lock again and again. Nothing is assumed of starts, faults,
  kills or ordinary work. Liveness needs no strong fairness as each process starts a bounded number
  of times.
* `CollectionContinuation`: the invocation and its yt-dlp with callbacks are scheduled; yt-dlp ends
  at some time. Interrupts, kills and edits need not occur.
* `DownloadSupervision`: the supervisor and the reader are threads that get scheduled. Child,
  descendant and caller owe nothing: the child may run for ever, and `SupervisionEnds` is stated for
  a child that is gone or cancelled. It excepts the state in which `kill` failed and `wait` blocks on
  a living child; `PipeMoves`, its second half, says that this child at least is not blocked on a full
  pipe, which a reader that waited for room in the channel would cause.
* `CompletionQueue`: the runs go on; used by the violation only, so that the counterexample is one
  of a program that keeps going.
* The query and profile modules state safety only: each step is a function of its input, and
  `NeverGivesUp` is the bounded form of termination.

## 4. What is proved

For all values of the constants, under the named ASSUMEs of the modules:

| Module | Theorem | Assumes | Says |
|---|---|---|---|
| `CacheStartup_proofs` | `TypeCorrect` | | type invariant |
| | `NothingLost`, `ActiveComplete`, `WorkersSafe` | `~StampWindow` | the three safety invariants, `--cache` users included |
| | `ImplementsHandover`, `SourceSafe` | `~StampWindow`, no explicit users | refinement and the action property |
| | `FailuresDoNotBlock` | `~StampWindow`, no explicit users | after a failure the program handles, the next start works |
| `EntityStore_proofs` | `TypeCorrect`, `RowsKeepTheirVideo`, `SuccessesHaveMetadata`, `YoungMetadataIsKept`, `OnlyReleasedAreCollected` | `Exclusive` | all that the `store` run checks |
| | `FreshUnlessOverlapping` | `Exclusive`, `~Overlap`, `~OddValues` | no success is dated later than the values it stands for |
| | `ReadersAreServed` | `Exclusive` | no reader of a stored row meets an unknown entity, or a success without metadata |
| | `ListingsAreRead` | `Exclusive` | the ways to read a listing agree, each video once |
| | `FreshValuesAreYoung` | `Exclusive`, `~Overlap`, `~OddValues` | what a reader takes for fresh was fetched within the window |
| `CollectionContinuation_proofs` | `TypeCorrect`, `EvidenceIsKept`, `DownloadsAreSerialised` | | type, action property, mutual exclusion until a kill |
| | `OnlyRetrievedAreSkipped` | `~Excerpts` | only retrieved targets are skipped |
| | `ObservationIsCurrent` | | the database names the sequence the running yt-dlp was given |
| | `LayoutTypeCorrect`, `OnlyCompleteLayoutsAreUsed` | | of `CollectionSchema`: type, users see the current layout |
| | `RacesLeaveNoTear` | | races without a death leave a layout that is accepted |
| `CompletionQueue_proofs` | `TypeCorrect`, `RewritesKeepUnrelated` | | type, rewrites drop no unrelated line |
| | `ReportIsHonest` | `RowMode` | the report of a run that had the queue to itself, beside other writers |
| | `RetrievedTargetsLeave` | `RowMode` | such a run leaves no retrieved target queued unless it was added again |
| `DownloadSupervision_proofs` | `TypeCorrect`, `TellsOneStory`, `SuccessComplete`, `ImplementsAttempt` | | type, the two safety invariants, refinement |
| | `ProgressArrivesInOrder`, `EndedChildrenAreReaped` | | progress is in order and without repetition; no child is left unreaped |
| `Discovery_proofs` | `TypeCorrect` | | type invariant |
| | `OrderTrusted` | `~Cuts` | the stored ordering has no hole |
| | `CoverageIsHonest` | `~Cuts`, `~Specialised` | complete coverage means a record of every entry |
| | `AnswersAreComplete` | `~Cuts`, `NoOverlay` | no wanted video is left out of an answer |
| | `ShortAnswers` | `NoOverlay` | an answer below LIMIT has passed over nothing |
| `Query_proofs` | `TypeCorrect` | | type invariant of `QueryAcquisition` |
| | `JoinPathsAreEqual` | | the equality index answers every query as the nested loop does |
| | `ResultsAreUnchanged` | every `Allowed` query is `Sound` | the planned acquisition changes no answer |
| | `RelationFactsHold` | no aggregates, as in the whole module | a result proved empty is empty, and none is longer than `max_rows` |
| `QueryRewrite_proofs` | `TruthKept` | every atom `WellTyped` | no number of passes changes a predicate's truth on any row |
| | `ProofsAreTrue` | every atom `WellTyped` | a truth proved from capabilities is the value on every row |
| | `StagesAreRight` | every atom `WellTyped`, no literal of a listing field written with a unit | a video is rejected or accepted on its listing only as the query does |
| | `EmptinessIsRight` | every atom `WellTyped` | a predicate proved never TRUE is TRUE of no row, unless it reads a field of disagreement 9 (`ReadAsMeant`) |
| | `ConnectRegroups`, `LiteralsDecide` | | flattening AND and OR, and dropping literals, keep the truth value |
| | `InvertedTwice`, `InvertedIsNot` | values comparable | pushing NOT into a comparison is right on NULL too |
| | `DominantKeepsTruth`, `CrossedBoundsUnsatisfiable` | values of the literals' kind | the bound the optimiser keeps decides like the pair; crossed bounds hold of nothing |
| | `ContainedListDecides`, `SingletonListIsEquality` | | the rules for IN lists |

### The arguments

* **Startup.** None of the safety invariants is inductive. `LockInv` says that exactly the holder is
  at a stage inside the lock, so at most one process builds. `SourceInv` says that v3 has every fact
  as long as v4 is not complete and during construction; `TargetInv` says what v4 has at which stage
  of the holder; `WorkInv` says that who relies on v4 does so while nobody builds. A step is then
  examined for the one holder and for the others, which it cannot disturb. The refinement needs
  `HandInv` too: what a migration has read and not yet written is still in v3, which an explicit
  writer could break. Hence the assumption. `DebrisInv` says of an unfinished destination that a
  process at one of the stages `Carrying` has it in hand, or that it was left behind knowingly.
* **Store.** `InHand` says that what a job remembers (rowid, video) is what the tables say; it is
  true because a collected entity is in no job's hands, which is `Alone`: maintenance excludes
  writers. `KeeperInv` says that what a plan or a look at the tables found out is still true when it
  is used. `FreshInv`: the values a job puts are younger than every success of a video
  it has still to write, and jobs claim disjoint videos; the latter is what `Overlap` gives up. With
  `OddValues` a column keeps its old value beside a new success, and the statement is false. For
  the readers `RefInv` has two parts: one entity per video, and every row that names an entity, in
  the tables or in the hands of a job, names an existing one.
* **Continuation.** `LockHeld` ties the lock to its stages; `CheckedInv` says that between the final
  check and the removal the rows of the collection only grow, because callbacks add and only a
  holder removes. `EvidenceInv` follows a retrieved target from yt-dlp through its callback to its
  row and to a reader. `AttendedInv`: until a kill, every yt-dlp is one its invocation waits for.
  `ObservedInv`: only the holder of the lock writes the observation, and it keeps the lock until its
  yt-dlp has ended or it was killed.
* **Schema.** Creators are ordered by the statement at which `CREATE TABLE` lets one pass. `TornInv`:
  until somebody dies, a layout that would be refused is one a process is about to complete.
* **Queue.** A rewrite puts back a snapshot, so the property is about what file and snapshots of all
  runs differ in: `AgreeInv` says that such a line's target is in the archive, removed by somebody or
  restored by a stale rewrite, and `RemovalInv` that a removal has a reason. For the report `KeptInv`
  says that a target the run took from the file and that it, or a snapshot, no longer names is
  archived, and `ArchiveInv` whence the archive has what it gained: retrieved by the run or recorded
  elsewhere. `SoleInv`: what was archived before the run is still to remove or was added again. In ID
  mode a marked line survives its removal, and an archived target can be unresolved without that:
  hence `RowMode`. `GoneInv` says that what the run retrieved has left file and snapshot, the target
  of the removal in progress and those appended again excepted.
* **Supervision.** `PhaseInv` and `AimInv` say how statement, lifecycle and child agree: in
  particular that a pending ending is still legal when it is reached. `ReaderInv` says that a reader
  that ended well has seen the end of everything. `QueueInv` is the heart of completeness: while
  running, what the channel accepted is what was delivered followed by what is queued. `StoryInv`
  gives the events for each state of the lifecycle. `OrderInv`: record numbers ascend along what was
  accepted, what is in the pipe and what is still to be written. `ReapInv`: without a fault the loop
  is left only after a successful wait.
* **Discovery.** The properties compare the end of a run with the feed at its beginning, so
  `ListingInv` says of each run what the feed may have become: newer entries are added near the top,
  others leave, the rest keep their order (`Tracks`); what the run listed so far is that feed down to
  where it stands (`Observes`). An incremental run ends at `Confirm` known entries, a bounded one at
  `Boundary` old ones. `FeedAssumption`, which is what the program chooses five, three and 45 days
  for, says that an entry out of place is so by fewer positions or days; `BeyondRun` then shows by
  counting that nothing new or wanted can follow. `WorkInv` says of the acquisition that each
  candidate is ahead, a row, missed, or rejected by the listing, and that the early end at LIMIT has
  counted rows the answer contains; it needs `NoOverlay`, disagreement 8, and `CachedInv` says which
  of the listed entries have a record when coverage is written. `Cuts` and `Specialised` are
  disagreements 6 and 7.
* **Comparisons.** Statements about values, not about a behaviour: each rule the optimiser applies is
  the equality of two three-valued truths for every value of the field, by the case NULL or not and
  the order of numbers or of ranks.
* **Rewriting.** `TruthKept` shows that the rules are applied where those theorems allow it, under
  each other and to whole trees. `RewriteInv` says that the predicate of the query is built of at most
  `size` parts, that every leaf of it is `WellTyped`, and that the rewritten one is of the same kind
  and has the same truth on every row (`Rewrites`): the induction is over the passes, and one pass is
  examined by the depth of the tree (`PassRewrites`). Of a junction `_flatten`, `_deduplicate_terms`,
  the two simplifications and `_rebuild` are shown to keep the joint truth of the list of operands
  (`Joint`): each removal drops a term that the joint truth of the others already has, whichever pair
  comes first, and is repeated as often as the list is long. For the capabilities `ProvenTestIs` and
  `ProvenJunctionIs` say that what is proved of a part is its truth on each row. `WellTyped` is what
  resolution guarantees of an ordering, with three exclusions that section 5 names; the atoms of
  `query` satisfy it (`MCTyped`; `MCPlain` for the other hypotheses), and TLC checked `RewriteInv` and `ProofsHold` there.
* **Stages.** The terms of the parsed query are those of the resolved one, parsed (`FlattenWritten`), on
  the same fields (`WrittenFields`). A term that the planner takes for the listing has listing fields
  only, and under `WrittenAlike` it is its own parsed form (`WrittenSame`); its truth depends on those
  fields' values (`EvaluateLocal`), so a listing that has them decides it as the complete row does
  (`EarlyTerm`). `Grown`, the query is made of the atoms given, is the invariant.
* **Emptiness.** Suppose a row on which all terms of an AND are TRUE (`AllTrue`). Each constraint found on
  a field comes from one of its terms (`ConstraintsFrom`), so the row meets it, in the text as in the
  number (`ConstraintMet`, `OrderKept`); the strongest bound is one of the constraints
  (`StrongestFrom`), so the proof needs no order in which bounds replace each other. Two equalities, an
  equality outside a list, crossed bounds and a NULL that must not be one are then impossible, each by
  a lemma of its own (`NoContradiction`); with the capabilities (`WrittenProven`) and the induction
  over the tree, `NeverTrueRight` and the invariant `Grown` give the theorem. The code is wrong in the
  cases of disagreement 9 and its like, so the theorem is about the other predicates: `ReadAsMeant` asks
  of each field the predicate reads, and of no other, that its literals differ in more than case and
  have texts ordered as they are (`LiteralsKept`), which fails for 9m and 10m, 1000 and 1k, 'A' and 'a',
  and that no BETWEEN ignores case and no IS NULL stands beside IS DISTINCT FROM (`PlainTests`). What it
  shows is that a wrong proof of emptiness needs such a field: the search for contradictions has no
  other fault.
* **Queries.** `Among` is a recursive function, and what it says of the rows it keeps is shown by
  induction on the number of rows (`AllNumbers`, `Recursion`). `EqualValues`: an equality comparison
  of hashable values other than NULL is TRUE exactly when they are equal, so the rows found under a
  key are those the nested loop takes (`IndexedIsReference`), and each kind of join follows. The
  index does not decide on the content, only on what `TypeOK` says of it: the rest is types.
* **Acquisition.** `ResultUnchanged` is proved for every content of the sources and every query that
  is `Sound`, which `MCAllowed` of the run demands (`AcquisitionUnion.cfg` has a query that is not,
  and its counterexample). `Same(d)` relates two rows that agree on what a use reads of them, the
  costly field `d` included or not. What is acquired of a source is `Related` by it to the rows that
  the source's predicate keeps; filters, every kind of join, projection, UNION and ORDER BY keep
  related sequences related, provided that a test or an ON that reads `d` finds it (`FilterRelated`
  and its like). What is left out fails the predicate of every use that is live; under a
  constant-false ON no row is asked for (`Eliminated`); and the CTE is the same argument once more,
  for rows of its own. An early LIMIT takes a prefix of one source, and the answer is full before the
  prefix ends (`LimitedAnswer`). `AnswerInv` is the inductive invariant: types, what the grammar
  writes, `Sound` as soon as the CTE that is read is written, and after `Acquire` the acquired
  records as a function of query and content. Each conjunct of `Sound` is used, and each stands for a
  disagreement of section 5.
* **Relation facts.** A constant FALSE or an empty relation leaves no row wherever it stands in a
  body, and no row comes back from a filter, a derived relation, a side of a join, a CTE, UNION or
  ORDER BY (`EmptyBody`, `EmptyResult`). LIMIT is the bound because the answer is a prefix
  (`FirstOfFits`). The theorem is about queries without aggregates, of which the module has none, and
  would be false of others: of `SELECT COUNT(*) AS n FROM '@a' WHERE 1 = 2` the code proves an empty
  result and returns one row. Nothing in the program asks for these facts yet.

The statements about readers and relation facts are theorems only; TLC examined them on the
instances of `store` and of the acquisition runs first, where both kinds of fact occur, and
`FreshValuesAreYoung` fails as soon as `Overlap` or `OddValues` is allowed.

Every inductive invariant was checked by TLC on the instances above before it was proved.

### What is only model-checked

* Liveness (`StartupEnds`, `InvocationEnds`, `SupervisionEnds`): the proof system does not handle
  ENABLED and fairness here.
* Of `QueryRewrite`: `NeverGivesUp`, since how many passes a predicate needs is a matter of its shape
  and of the limit.
* `ScalarExpressions` and `QueryResolution`: expressions are trees walked by RECURSIVE operators,
  which are beyond the provers.
* The profile modules: references, parents and the profile tree are followed by RECURSIVE operators, as
  in the code, and all properties are about what these return or stand in a module with them; TLC
  compares two computations on every file written.
* The violations, which are counterexamples.

## 5. Disagreements between the code and what is said of it

Each switches on one case that the runs above leave out, by the configuration named, and lets TLC
find the history in which a documented promise fails.

1. **A new cache is complete before it is marked incomplete** (`CacheStartupWindow.cfg`).
   `initialise_v4_cache` commits schema 4 / complete (`cache.py:112-114`) and
   `_initialise_destination` stamps 3 / incomplete afterwards (`cache_v3_to_v4_migration.py:115`). A
   process killed in between leaves an empty database that the next start takes for the active
   cache. `docs/YT-DISCOVER-CACHE-V4-DESIGN.md:296`: "During construction the destination retains the
   schema-v3/incomplete marker".
2. **Old values under a new time** (`EntityStoreStamp.cfg`). Metadata and acquisition state are two
   commits (`cache.py:597`), so the older of two writers can replace the values of the younger one
   before that one records its success. One writer does it too (`OddValues = TRUE` instead of
   `Overlap = TRUE`): a field for which a record has a list or an object is left out of the update
   (`cache_v4_ytdlp.py:94`), keeps its old column and gets the new time. `docs/YT-DISCOVER-CACHE-V4-DESIGN.md:89`: the "age comes from
   that group's `last_success_at`".
3. **An excerpt marks its target completed** (`ContinuationExcerpt.cfg`). The completion callback is
   passed to partial-media runs of an identified collection too (`yt-download.py:4124`);
   `yt-download.py:3655`: "a derivative section does not establish completion of the source target".
4. **Creation and upgrade are not transactions** (`SchemaTorn.cfg`). `with connection` opens none for
   CREATE TABLE and PRAGMA (`collection_state.py:127`); the comment above it says "Upgrade in one
   transaction".
5. **Queue rewrites lose lines** appended between the read and the rename (`QueueLost.cfg`,
   `yt-download.py:3104`); `docs/DOWNLOADER-README.md:185`: they "preserve unrelated lines".
6. **A listing cut short passes for a complete one** (`DiscoveryCut.cfg`). `enumerate_all_flat` does
   not look at the exit status of yt-dlp. What was listed becomes the source's stored ordering and
   coverage; the docstring at `cache.py:698` and `docs/YT-DISCOVER-CACHE-V3-CONTRACT.md:146` reserve
   both for complete listings.
7. **Coverage without the records** (`DiscoveryCut.cfg` with `Specialised` and `CoverageHonest`). What
   YouTube.js or ytmusicapi answer is not stored in the cache of detailed records, but the run still records complete coverage, with
   "detailed metadata for every observed entry" (`discover_application.py:1592-1608`). An offline query
   then trusts a cache that lacks the entries; `docs/METADATA-PROVIDER-CAPABILITIES.md:49` and
   `docs/YT-DISCOVER-CACHE-V3-CONTRACT.md:152` say that they are not persisted, and
   `docs/DISCOVER-README.md:189` that incomplete coverage is announced.
8. **A cached record hides the fresh title** (`DiscoveryOverlay.cfg`). The early end at LIMIT counts
   rows by the listing (`discover_acquisition.py:389-454`), the answer is computed on the listing
   overlaid by cached records (`discover_application.py:1265-1282`). A retitled video is counted and
   then rejected, and the answer ends short although the source has more.
9. **Proofs on literals without types** (`QueryProofs.cfg`). `plan_query` works on the parsed query,
   where a literal that is not a number in plain digits is still its text
   (`semantic_provability.py:191`), so `duration >= 9m AND duration < 10m` compares '9m' with '10m', is
   taken for a contradiction (`:384`), and the branch is left out; `docs/YT-SQL-OPTIMISATION.md:253`:
   proofs "operate only on forms whose truth conditions are explicit and type-safe".
10. **The first body of a UNION filters them all** (`AcquisitionUnion.cfg`). When every body reads one
    source, listed entries are rejected by the predicate of the first body alone
    (`discover_application.py:1178`, `1337`, `1454`), so rows that another body needs are never
    acquired; `docs/DISCOVER-CHANGELOG.md:394`: predicates are combined "with OR so every logical use
    remains satisfiable", and `docs/YT-SQL-OPTIMISATION.md:299` says the same.
11. **A plan that cannot be carried out** (`ProfilesReady.cfg`). `write-live-chat` with `sub-langs`
    that leave out `live_chat` passes `create_download_plan`; building the command then raises
    ValueError (`yt-download.py:4001`) after the queue was reconciled and the continuation reset, and
    under `--explain`. The docstring of `DownloadPlan` (`yt-download.py:695`): "Fully resolved Downloader
    plan ready for explanation or execution".
12. **Stored policy the Rust tool does not notice** (`ProfilesReady.cfg` with the invariant
    `StoredPolicyNoticed`). The crate validates the resolved settings of each profile; a value in
    `$defaults` that every profile overrides is never looked at. `profile_pipeline.rs:25`: it validates
    everything "so invalid stored policy cannot go unnoticed".

### Seen while modelling, without a configuration

Of the cache and the stores: the ordinary opener adds legacy tables to a destination under
construction (`cache.py:177`); `put_many` says it upserts atomically and commits per statement, so a
kill leaves a record in part (`cache.py:655`); of two writers the earlier attempt can be stored last
(`cache_entity_store.py:430`); a reference added between check and deletion goes with the entity, and
a reused rowid attaches rows to another video, once maintenance runs beside writers
(`cache_entity_store.py:818` and `:145`); entries and frontier of a listing are two commits; an
incremental merge keeps members that left the feed until the next complete listing; `source_records`
of schema 4 joins through `source_entries`.

Of downloads: yt-dlp left by a killed invocation works beside the next one (`yt-download.py:4173`); a
target given as a URL is never recorded as completed (`yt-download.py:3297`); a removal from a stale
snapshot restores an ID another one removed (`yt-download.py:3124`); a first line with a byte order
mark is never removed in ID mode (`yt-download.py:3111`); in rows mode a queue that reconciliation
emptied still starts yt-dlp, without targets; a cancellation while a descendant holds the pipe ends
as failed rather than cancelled (`supervision.rs:214`).

Of profiles: a child profile cannot drop a cookie, live or audio key of its parent; one bad profile
makes the whole file unusable; `resolution` is stored as written although the schema knows the
canonical names only. The crate accepts minutes of 60 and more in `M:S`, which Python refuses; orders
tree entries that differ in case only the other way; refuses time ranges with live options when it
loads and slices with inner blanks; does not know `chapter-sections`.

Of planning: an ON that never holds skips a source that a derived relation or another body still
reads (`planner.py:771-825`); fields of a CTE are pruned although a derived relation reads them, or
the CTE itself joins (`cte_dependencies.py`); LIMIT over a derived relation stops before its inner
WHERE has the detailed fields it needs. `view_count = 1000 AND view_count = 1k` and `live_status = 'A'
AND live_status = 'a'` are taken for contradictions, since the written literals differ
(`semantic_provability.py:345`), and so is `live_status = 'a' AND live_status BETWEEN 'A' AND 'B'`
(`:380`), of which 'A' is TRUE. On these names, which ignore case, the optimiser picks the stronger of
two orderings by the literals as written (`optimizer.py:668`) and makes BETWEEN of one value, which the
evaluator compares exactly, an equality, which it does not. `x IS NULL AND x IS DISTINCT FROM 5` is proved never true
(`docs/YT-SQL.md:35`, `docs/DISCOVER-CHANGELOG.md:717`); `BETWEEN NULL AND NULL` and `IN (NULL)`
collapse to false under NOT; NOT over a comparison of a field of mixed kinds is inverted although
neither side is defined; `source_index` counts acquired rows.

Of the language: an unquoted text literal takes the words GROUP BY and HAVING into itself
(`query_parser.py:1618-1655`): `... WHERE view_count > 3 GROUP BY title` is refused as a bad count, and
`WHERE title = Foo GROUP BY title` compares with the whole text and does not group
(`docs/YT-SQL.md:101`). Aliases are expanded everywhere by `_expand_order_aliases`
(`query_properties.py:762-779`) but resolved in scalar positions only, so that an alias of POSITION
raises AssertionError and an alias of RANDOM passes where RANDOM is refused
(`docs/DISCOVER-CHANGELOG.md:592`); RANDOM in the FILTER of an aggregate inside an expression passes
too. AssertionError also follows the truth test of a scalar, aggregates in WHERE, in CASE conditions,
in FILTER and in collection predicates, truth tests in HAVING, and `tags[0]`, CARDINALITY, MEMBER,
FILTER, MAP and COUNT AS in a grouped query (`docs/YT-SQL.md:369`). COALESCE of collections of two
types, CASE, GREATEST and MAX over collections raise ValueError. In a grouped query arithmetic, SUM
and AVG catch TypeError only (`query_evaluator.py:652`, `:657`, `:697`) where the evaluator of rows
catches ValueError and OverflowError too (`:183`): with a number of four hundred digits,
`SELECT 10..0 / 1` gives NULL and `SELECT 10..0 / COUNT(*)` raises. `SELECT *` and the default
projection pass with ORDER BY COUNT(*) or GROUP BY and show one row's values; `SELECT *` is refused
when a dynamic field holds a list of records. `-TRUE` is accepted as a boolean of value -1. The check
that a grouped query reads grouped fields only (`_fields_outside_aggregates`) overlooks members and
relation fields. A division by zero is announced as never NULL. The draws of a seeded RANDOM depend
on which fields were acquired.

`MCAdmitted` (`resolution`) and `Sound` (`acquisition`) name the shapes left out of the runs for these
reasons, one definition for each.

## 6. What is not modelled, and why

* Contents of rows, of files and of messages: the models keep what the properties tell apart.
* Durations: time-outs fire at any time, polling intervals are absent.
* `drain_progress` under an endless flood of records: the output is bounded (`MaxOut`).
* Maintenance after the startup lock is released; schema-3 single files.
* Which records NORMAL certification samples: the model compares what was copied.
* Provider adapters and yt-dlp itself: nondeterministic environment.
* Of discovery: queries answered from the enumeration alone (`discover_application.py:1294-1348`), which
  record the ordering of a complete listing but never a complete coverage; runs without a cache and
  those that hand the whole source to yt-dlp (`:1508-1534`); offline mode, exclusion by an archive, collection output, the choice of
  providers.
* Of the language: tokens, formatting, units and dates; LIKE and regular expressions; DISTINCT and
  seeded RANDOM; the resolution of CTEs, joins and set operations, whose evaluation is in
  `QueryAcquisition`; predicates of collections evaluate every element where the code stops at the
  first that decides. `infer_dynamic_structured_type` and `_infer_dynamic_value_type` are not reached
  from a query's schema.
* Of the planner: heuristics that choose between equivalent plans, HAVING and scalar folding.
* Metadata plugin, registry, database maintenance, collection interchange, `metadata.rs`: small
  machines of their own, in the plan below.
* Command lines of the crate, explanations, status, output, option parsing: pure presentation.

## 7. Plan

Done, in this order: startup with its abstract hand-over; entity store; continuation and its
database; queue files; supervision with its abstract attempt; proofs of each; the listing and
acquisition of a source, proved; rewriting and its comparison rules, proved; acquisition of whole
queries, proved; resolution and evaluation of a query body; profiles of both downloaders.

Next, the modelling:

1. Resolution of joins, CTEs and set operations, composed with `QueryResolution`.
2. `CollectionPositions` (metadata plugin), `CacheRegistry` (columns never reused) and
   `DatabaseMaintenance`.
3. `MetadataDeadline`: acquisition in `metadata.rs`, beside `DownloadSupervision`.
4. Collection interchange: what a written collection file is read as.

Then the profile modules without RECURSIVE, so that `CommandCoherent` and `PrecedenceKept` can be
proved for every file and every command line.
