------------------------------- MODULE Discovery -------------------------------
(***************************************************************************)
(* yt-discover on one channel facet: several runs share a metadata cache.  *)
(* A run reads the trusted ordering and the frontier, lists the            *)
(* newest-first feed (up to an overlap with known entries, up to a date    *)
(* boundary, or to its end),                                               *)
(* takes the detailed metadata of the candidates in batches from the cache *)
(* or from yt-dlp, records what it learnt in separate commits and          *)
(* evaluates the query.                                                    *)
(*                                                                         *)
(* Videos are numbered in the order of publication, several on one day.    *)
(* The feed, yt-dlp and the age of cached rows are external and move at    *)
(* any time.  Lightweight entries carry an exact title and an approximate  *)
(* date; everything else of a query's predicate is decided by the detailed *)
(* record.                                                                 *)
(***************************************************************************)
EXTENDS Integers, Sequences, FiniteSets

CONSTANTS
  Proc,            \* runs of yt-discover on one cache
  Nothing,         \* no frontier, no coverage
  Day,             \* the upload date of each video
  Confirm,         \* FRONTIER_OVERLAP_CONFIRMATIONS
  Reach,           \* a new entry appears among the first Reach of the feed
  Boundary,        \* BOUNDARY_CONFIRMATION_ENTRIES
  Margin,          \* APPROXIMATE_DATE_MARGIN_DAYS
  Drift,           \* how far an approximate date is from the upload date
  Batch,           \* batch_size of _limit_aware_cached_acquire
  Good,            \* videos whose detailed fields satisfy the predicate
  Queries,         \* the queries of the runs
  Cuts,            \* TRUE: yt-dlp may die in the middle of a complete listing
  Specialised,     \* TRUE: YouTube.js or ytmusicapi may answer for yt-dlp
  Titled,          \* videos whose first title satisfies the predicate
  First, Last,     \* videos 1..First are published, First+1..Last may be
  MaxStarts, MaxEvents, MaxFaults   \* bounds

Video == 1..Last
NoLimit == Last + 1
Query == [mode : {"incremental", "full", "bounded"},
          test : {"detail", "either", "both"},   \* g; title OR g; title AND g
          limit : Nat, since : Nat]

ASSUME QueryAssumption ==
  /\ Queries \subseteq Query /\ Queries # {} /\ Good \subseteq Video
  /\ Titled \subseteq Video
  /\ Nothing \notin [known : Nat, head : Video]
  /\ Nothing \notin [complete : BOOLEAN, entries : Nat]
ASSUME DayAssumption ==
  /\ Day \in [Video -> Nat]
  /\ \A v, w \in Video : v <= w => Day[v] <= Day[w]
ASSUME DiscoveryBoundAssumption ==
  /\ First \in Nat /\ Last \in Nat /\ First <= Last
  /\ Confirm \in Nat \ {0} /\ Boundary \in Nat \ {0} /\ Batch \in Nat \ {0}
  /\ Margin \in Nat /\ Drift \in Nat /\ Reach \in Nat \ {0}
  /\ MaxStarts \in Nat /\ MaxEvents \in Nat /\ MaxFaults \in Nat
  /\ Cuts \in BOOLEAN /\ Specialised \in BOOLEAN
\* What the two confirmation counts and the margin are chosen for.
ASSUME FeedAssumption ==
  Reach <= Confirm /\ Reach <= Boundary /\ Drift <= Margin

VARIABLES
  feed,            \* the source's listing, newest first
  born,            \* videos published so far
  titled,          \* videos whose current title satisfies the predicate
  order,           \* source_entries
  frontier,        \* source_frontiers
  coverage,        \* source_coverage
  cached,          \* videos with a detailed record, and of these
  fresh,           \*   the ones no freshness policy rejects,
  ctitled,         \*   the ones whose recorded title satisfies the predicate
  pc, query,
  prior,           \* per run: the trusted ordering it started from
  listed,          \* per run: the lightweight entries it has read
  confirmed,       \* per run: frontier_confirmed
  observed,        \* per run: observed_ids_for_cache
  todo,            \* per run: candidates no batch has taken yet
  batch, held, need,  \* per run: ids of the batch, records read, ids to refresh
  rows,            \* per run: ids of raw_records
  rtitled,         \* per run: the rows whose title satisfies the predicate
  missed,          \* per run: candidates without any record
  feedRead,        \* history: the feed at the moment the run listed it
  titleRead,       \* history: the titles at that moment
  orderFrom,       \* history: the feed the stored ordering was taken from
  coverFrom,       \* history: the feed the stored coverage speaks of
  starts, events, faults

store == <<order, frontier, coverage, orderFrom, coverFrom>>
cache == <<cached, fresh, ctitled>>
source == <<feed, born, titled>>
listing == <<prior, listed, confirmed, observed, feedRead, titleRead>>
work == <<todo, batch, held, need, rows, rtitled, missed>>
budget == <<starts, events, faults>>
vars == <<source, store, cache, pc, query, listing, work, budget>>

Members(s) == {s[i] : i \in DOMAIN s}
\* SelectSeq(s, LAMBDA v : v \in S), by positions
Kept(s, S) ==
  LET at == {i \in DOMAIN s : s[i] \in S}
      Nth(n) == CHOOSE i \in at : Cardinality({j \in at : j <= i}) = n
  IN [n \in 1..Cardinality(at) |-> s[Nth(n)]]
Prefix(s, n) == SubSeq(s, 1, n)
Least(S) == CHOOSE n \in S : \A m \in S : n <= m

PC == {"off", "look", "list", "begin", "fetch", "entries", "frontier",
       "cover", "answer"}

TypeOK ==
  /\ Members(feed) \subseteq 1..born /\ born \in First..Last
  /\ titled \subseteq Video
  /\ fresh \subseteq cached /\ cached \subseteq Video /\ ctitled \subseteq cached
  /\ Members(order) \subseteq Video
  /\ frontier \in [known : 1..Last, head : Video] \cup {Nothing}
  /\ coverage \in [complete : BOOLEAN, entries : 0..Last] \cup {Nothing}
  /\ pc \in [Proc -> PC] /\ query \in [Proc -> Queries]
  /\ \A p \in Proc :
       /\ Members(prior[p]) \cup Members(listed[p]) \subseteq Video
       /\ Members(todo[p]) \cup Members(batch[p]) \cup need[p] \cup held[p]
            \subseteq Video
       /\ rows[p] \cup missed[p] \subseteq Members(observed[p])
       /\ rtitled[p] \subseteq rows[p] \cup held[p]
  /\ confirmed \in [Proc -> BOOLEAN]

Descending(n) == [i \in 1..n |-> n + 1 - i]

Init ==
  /\ feed = Descending(First) /\ born = First
  /\ titled = Titled
  /\ order = <<>> /\ frontier = Nothing /\ coverage = Nothing
  /\ cached = {} /\ fresh = {} /\ ctitled = {}
  /\ pc = [p \in Proc |-> "off"]
  /\ query = [p \in Proc |-> CHOOSE q \in Queries : TRUE]
  /\ prior = [p \in Proc |-> <<>>] /\ listed = [p \in Proc |-> <<>>]
  /\ confirmed = [p \in Proc |-> FALSE] /\ observed = [p \in Proc |-> <<>>]
  /\ todo = [p \in Proc |-> <<>>] /\ batch = [p \in Proc |-> <<>>]
  /\ held = [p \in Proc |-> {}] /\ need = [p \in Proc |-> {}]
  /\ rows = [p \in Proc |-> {}] /\ rtitled = [p \in Proc |-> {}]
  /\ missed = [p \in Proc |-> {}]
  /\ feedRead = [p \in Proc |-> <<>>] /\ titleRead = [p \in Proc |-> {}]
  /\ orderFrom = <<>> /\ coverFrom = <<>>
  /\ starts = 0 /\ events = 0 /\ faults = 0

Goto(p, l) == pc' = [pc EXCEPT ![p] = l]
Put(f, p, v) == [f EXCEPT ![p] = v]
Faulty == faults < MaxFaults /\ faults' = faults + 1

-----------------------------------------------------------------------------
(* The source, external: its owner, and the passing of time *)

Eventful == events < MaxEvents /\ events' = events + 1

\* A new entry appears near the top of the newest-first feed.
Publish ==
  /\ Eventful /\ born < Last /\ born' = born + 1
  /\ \E n \in 0..(Reach - 1) :
       /\ n <= Len(feed)
       /\ feed' = Prefix(feed, n) \o <<born'>> \o SubSeq(feed, n + 1, Len(feed))
  /\ UNCHANGED <<titled, store, cache, pc, query, listing, work, starts, faults>>

Withdraw ==
  /\ Eventful /\ \E n \in DOMAIN feed :
       feed' = Prefix(feed, n - 1) \o SubSeq(feed, n + 1, Len(feed))
  /\ UNCHANGED <<born, titled, store, cache, pc, query, listing, work, starts,
                 faults>>

Retitle ==
  /\ Eventful
  /\ \E v \in Members(feed) :
       titled' = IF v \in titled THEN titled \ {v} ELSE titled \cup {v}
  /\ UNCHANGED <<feed, born, store, cache, pc, query, listing, work, starts,
                 faults>>

\* A required field of a cached record passes its maximum age.
Age ==
  /\ Eventful /\ \E v \in fresh : fresh' = fresh \ {v}
  /\ UNCHANGED <<source, store, cached, ctitled, pc, query, listing, work,
                 starts, faults>>

-----------------------------------------------------------------------------
(* Listing the feed *)

\* source_entry_ids: only an incremental run makes use of the ordering.
Start(p) ==
  /\ pc[p] = "off" /\ starts < MaxStarts /\ starts' = starts + 1
  /\ \E q \in Queries :
       /\ query' = Put(query, p, q)
       /\ prior' = Put(prior, p, IF q.mode = "incremental" THEN order ELSE <<>>)
       /\ Goto(p, IF q.mode = "incremental" THEN "look" ELSE "list")
  /\ UNCHANGED <<source, store, cache, listed, confirmed, observed, feedRead,
                 titleRead, work, events, faults>>

\* source_frontier, read after the ordering: without one all is listed.
ReadFrontier(p) ==
  /\ pc[p] = "look"
  /\ prior' = Put(prior, p, IF frontier = Nothing THEN <<>> ELSE prior[p])
  /\ Goto(p, "list")
  /\ UNCHANGED <<source, store, cache, query, listed, confirmed, observed, feedRead,
                 titleRead, work, budget>>

\* The last `count` of the first n entries satisfy the test of the enumerator.
RunEnds(list, S, count, n) ==
  n >= count /\ \A i \in (n - count + 1)..n : list[i] \in S
\* Mutant: one known entry fewer confirms the overlap.
StopsAtEarly(list, S, count) ==
  {n \in 1..Len(list) : RunEnds(list, S, count - 1, n)}

StopsAt(list, S, count) == {n \in 1..Len(list) : RunEnds(list, S, count, n)}
UpTo(list, S, count) ==
  IF StopsAt(list, S, count) = {} THEN list
  ELSE Prefix(list, Least(StopsAt(list, S, count)))

\* rejects_at_enumeration: a title that fails the conjunct on it.
Rejected(q, list, titles) ==
  IF q.test = "both" THEN Members(list) \ titles ELSE {}

\* What was read becomes the observed ids and the candidates of the run.
Observe(p, read, all, sure, out) ==
  /\ listed' = Put(listed, p, read) /\ observed' = Put(observed, p, all)
  /\ confirmed' = Put(confirmed, p, sure)
  /\ todo' = Put(todo, p, Kept(all, Video \ out))
  /\ feedRead' = Put(feedRead, p, feed) /\ titleRead' = Put(titleRead, p, titled)
  /\ Goto(p, IF todo'[p] = <<>> THEN "entries" ELSE "begin")
  /\ UNCHANGED <<source, store, cache, query, prior, batch, held, need, rows,
                 rtitled, missed, budget>>

\* The known part of the ordering follows the entries read now.
Merged(read, before) == read \o Kept(before, Video \ Members(read))

\* enumerate_until_known_overlap found its run of known ids.
ListOverlap(p) ==
  /\ pc[p] = "list" /\ prior[p] # <<>>
  /\ StopsAt(feed, Members(prior[p]), Confirm) # {}
  /\ LET read == UpTo(feed, Members(prior[p]), Confirm)
     IN Observe(p, read, Merged(read, prior[p]), TRUE,
                Rejected(query[p], read, titled))

\* enumerate_all_flat does not look at the exit status of yt-dlp and returns
\* what was printed; an overlap search does look at it.
Ends(p) == {n \in 0..Len(feed) : n = Len(feed) \/ (Cuts /\ prior[p] = <<>>)}

\* A complete listing, and an overlap search that came to the end of the feed.
ListAll(p) ==
  /\ pc[p] = "list" /\ query[p].mode # "bounded"
  /\ StopsAt(feed, Members(prior[p]), Confirm) = {}
  /\ \E n \in Ends(p) : Observe(p, Prefix(feed, n), Prefix(feed, n), FALSE,
                               Rejected(query[p], Prefix(feed, n), titled))

\* Mutant: the margin is a day short.
ThresholdShort(q) == q.since - Margin + 1

\* Approximate dates may place an entry up to Drift days too early; an undated
\* entry never counts as old.
Threshold(q) == q.since - Margin
MayLookOld(q) == {v \in Members(feed) : Day[v] - Drift < Threshold(q)}

\* enumerate_until_date_boundary, then safely_reject_lightweight: an entry
\* whose plausible dates are all before the bound may be left out.
ListBounded(p) ==
  /\ pc[p] = "list" /\ query[p].mode = "bounded"
  /\ \E old \in SUBSET MayLookOld(query[p]), dated \in BOOLEAN :
       LET read == UpTo(feed, old, Boundary)
           before == {v \in Members(read) : dated /\ Day[v] < query[p].since}
       IN Observe(p, read, read, FALSE, before \cup Rejected(query[p], read, titled))

-----------------------------------------------------------------------------
(* Taking the detailed metadata of the candidates *)

Limited(q) == q.limit <= Last

\* One batch of the candidates, or all of them when no LIMIT may end the
\* acquisition.
Portion(p) ==
  IF Limited(query[p]) /\ Batch < Len(todo[p]) THEN Batch ELSE Len(todo[p])

\* get_many: the records the cache has of the candidates taken now.
BatchBegin(p) ==
  /\ pc[p] = "begin"
  /\ LET n == Portion(p)
         ids == Prefix(todo[p], n)
     IN /\ batch' = Put(batch, p, ids)
        /\ todo' = Put(todo, p, SubSeq(todo[p], n + 1, Len(todo[p])))
        /\ held' = Put(held, p, Members(ids) \cap cached)
        /\ need' = Put(need, p, Members(ids) \ fresh)
        /\ rtitled' = Put(rtitled, p, rtitled[p] \cup (Members(ids) \cap ctitled))
  /\ Goto(p, "fetch")
  /\ UNCHANGED <<source, store, cache, query, listing, rows, missed, budget>>

\* A video of the batch is asked for.  yt-dlp's record is committed as it
\* arrives; a record of YouTube.js or ytmusicapi only serves this run.
Fetch(p) ==
  /\ pc[p] = "fetch" /\ need[p] # {}
  /\ LET v == Head(Kept(batch[p], need[p])) IN
       /\ v \in Members(feed)
       /\ \E stored \in IF Specialised THEN BOOLEAN ELSE {TRUE} :
            IF stored
            THEN /\ cached' = cached \cup {v} /\ fresh' = fresh \cup {v}
                 /\ ctitled' = (ctitled \ {v}) \cup ({v} \cap titled)
            ELSE UNCHANGED cache
       /\ held' = Put(held, p, held[p] \cup {v})
       /\ rtitled' = Put(rtitled, p, (rtitled[p] \ {v}) \cup ({v} \cap titled))
       /\ need' = Put(need, p, need[p] \ {v})
  /\ UNCHANGED <<source, store, pc, query, listing, todo, batch, rows, missed,
                 budget>>

\* The video is gone or its extraction fails; a stale record stays in use.
FetchSkips(p) ==
  /\ pc[p] = "fetch" /\ need[p] # {}
  /\ LET v == Head(Kept(batch[p], need[p])) IN
       /\ IF v \in Members(feed) THEN Faulty ELSE UNCHANGED faults
       /\ need' = Put(need, p, need[p] \ {v})
  /\ UNCHANGED <<source, store, cache, pc, query, listing, todo, batch, held,
                 rows, rtitled, missed, starts, events>>

\* The predicate, on a title t and the detailed record of v.
Satisfies(q, v, t) ==
  /\ Day[v] >= q.since
  /\ CASE q.test = "detail" -> v \in Good
       [] q.test = "either" -> t \/ v \in Good
       [] q.test = "both" -> t /\ v \in Good

\* Mutant: rows are counted, matching or not.
MatchedAny(p, S) == S

\* Matches among the records as they were acquired.
Matched(p, S) == {v \in S : Satisfies(query[p], v, v \in rtitled[p])}

\* The batch joins the records; enough matches end the acquisition.
BatchEnd(p) ==
  /\ pc[p] = "fetch" /\ need[p] = {}
  /\ rows' = Put(rows, p, rows[p] \cup held[p])
  /\ missed' = Put(missed, p, missed[p] \cup (Members(batch[p]) \ held[p]))
  /\ batch' = Put(batch, p, <<>>) /\ held' = Put(held, p, {})
  /\ Goto(p, IF \/ todo[p] = <<>>
                \/ Cardinality(Matched(p, rows'[p])) >= query[p].limit
             THEN "entries" ELSE "begin")
  /\ UNCHANGED <<source, store, cache, query, listing, todo, need, rtitled,
                 budget>>

-----------------------------------------------------------------------------
(* Recording what the run learnt: commits, one after the other.  The count *)
(* that record_source_observation stores between the last two is read by no *)
(* run and left out. *)

Records(p) == query[p].mode # "bounded" /\ observed[p] # <<>>

RecordEntries(p) ==
  /\ pc[p] = "entries"
  /\ IF Records(p) THEN order' = observed[p] /\ orderFrom' = feedRead[p]
                   ELSE UNCHANGED <<order, orderFrom>>
  /\ Goto(p, "frontier")
  /\ UNCHANGED <<source, cache, frontier, coverage, coverFrom,
                 query, listing, work, budget>>

RecordFrontier(p) ==
  /\ pc[p] = "frontier"
  /\ frontier' = IF Records(p)
                 THEN [known |-> Len(observed[p]), head |-> observed[p][1]]
                 ELSE frontier
  /\ Goto(p, "cover")
  /\ UNCHANGED <<source, cache, order, coverage, orderFrom,
                 coverFrom, query, listing, work, budget>>

Seen(p) == IF confirmed[p] THEN Len(observed[p]) ELSE Len(listed[p])

\* Mutant: the entries left without a record are not looked for.
CompleteCoverageListed(p) ==
  /\ query[p].mode # "bounded"
  /\ Rejected(query[p], listed[p], titleRead[p]) = {}

\* Nothing was rejected by the listing, and each observed entry has a row.
CompleteCoverage(p) ==
  /\ query[p].mode # "bounded"
  /\ Rejected(query[p], listed[p], titleRead[p]) = {}
  /\ Cardinality(rows[p]) = Len(observed[p])

RecordCoverage(p) ==
  /\ pc[p] = "cover" /\ Goto(p, "answer")
  /\ coverage' = [complete |-> CompleteCoverage(p), entries |-> Seen(p)]
  /\ coverFrom' = feedRead[p]
  /\ UNCHANGED <<source, cache, order, frontier, orderFrom, query,
                 listing, work, budget>>

-----------------------------------------------------------------------------
(* The answer *)

\* The date-bounded path lays the listing's titles over the records.
Title(p, v) == IF query[p].mode = "bounded" THEN v \in titleRead[p]
               ELSE v \in rtitled[p]

Answer(p) ==
  LET found == Kept(observed[p],
                    {v \in rows[p] : Satisfies(query[p], v, Title(p, v))})
  IN IF Len(found) <= query[p].limit THEN found
     ELSE Prefix(found, query[p].limit)

Forget(p) ==
  /\ Goto(p, "off")
  /\ query' = Put(query, p, CHOOSE q \in Queries : TRUE)
  /\ prior' = Put(prior, p, <<>>) /\ listed' = Put(listed, p, <<>>)
  /\ confirmed' = Put(confirmed, p, FALSE) /\ observed' = Put(observed, p, <<>>)
  /\ feedRead' = Put(feedRead, p, <<>>) /\ titleRead' = Put(titleRead, p, {})
  /\ todo' = Put(todo, p, <<>>) /\ batch' = Put(batch, p, <<>>)
  /\ held' = Put(held, p, {}) /\ need' = Put(need, p, {})
  /\ rows' = Put(rows, p, {}) /\ rtitled' = Put(rtitled, p, {})
  /\ missed' = Put(missed, p, {})

\* The answer is printed.
Finish(p) ==
  /\ pc[p] = "answer" /\ Forget(p) /\ UNCHANGED <<source, store, cache, budget>>

\* yt-dlp cannot be run or prints broken JSON and the run reports it, or the
\* run is killed: what was committed stays.
Fails(p) ==
  /\ pc[p] # "off" /\ Faulty /\ Forget(p)
  /\ UNCHANGED <<source, store, cache, starts, events>>

-----------------------------------------------------------------------------
Step(p) ==
  \/ ReadFrontier(p) \/ ListOverlap(p) \/ ListAll(p) \/ ListBounded(p)
  \/ BatchBegin(p) \/ Fetch(p) \/ FetchSkips(p) \/ BatchEnd(p)
  \/ RecordEntries(p) \/ RecordFrontier(p) \/ RecordCoverage(p) \/ Finish(p)
Next ==
  \/ Publish \/ Withdraw \/ Retitle \/ Age
  \/ \E p \in Proc : Start(p) \/ Step(p) \/ Fails(p)

Spec == Init /\ [][Next]_vars

-----------------------------------------------------------------------------
(* Properties *)

\* The stored ordering of the source (source_entries, "trusted") holds every
\* video of the listing it was taken from, in the listing's order, although an
\* incremental run reads only the top of the feed and joins it to what an
\* earlier run, perhaps another process, had stored.
TrustedOrder == Kept(order, Members(orderFrom)) = orderFrom

\* Coverage recorded as complete is what its reason says: every video of the
\* source at that listing has a detailed record in the cache.
CoverageHonest ==
  coverage # Nothing /\ coverage.complete => Members(coverFrom) \subseteq cached

\* v satisfies the query by what the run knows: its row, or else the listing.
Wanted(p, v) ==
  Satisfies(query[p], v, IF v \in rows[p] THEN Title(p, v) ELSE v \in titleRead[p])

\* A listing cut at a date boundary or at known entries, the lightweight
\* rejections, stale records and the end of the acquisition at enough matches
\* change nothing of the answer: each wanted video of the source is a row of
\* it, could not be extracted, or comes after a full LIMIT of rows.
AnswerComplete ==
  \A p \in Proc : pc[p] = "answer" =>
    LET answer == Answer(p)
        place == [v \in Members(feedRead[p]) |->
                    CHOOSE i \in DOMAIN feedRead[p] : feedRead[p][i] = v]
    IN \A v \in Members(feedRead[p]) : Wanted(p, v) =>
         \/ v \in Members(answer) \cup missed[p]
         \/ /\ Len(answer) = query[p].limit
            /\ \A w \in Members(answer) \cap DOMAIN place : place[w] < place[v]

\* The acquisition passes over a candidate only once it has a full answer.
ShortAnswerSawAll ==
  \A p \in Proc : pc[p] = "answer" =>
    todo[p] = <<>> \/ Len(Answer(p)) = query[p].limit
=============================================================================
