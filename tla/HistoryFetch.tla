----------------------------- MODULE HistoryFetch -----------------------------
(***************************************************************************)
(* Fetching candle history. A job asks a feed for the candles of a range   *)
(* and stores what it is told:                                             *)
(*   "orchestrated"  through the failover, feed by feed, each retried, and *)
(*                   a look at what is still missing (provider_failover.py,*)
(*                   provider_runtime.py, backfill_orchestrator.py);       *)
(*   "chunks"        range by range (backfill_provider_adapter.py);        *)
(*   "gaps"          only what is missing (historical_backfill.py);        *)
(*   "load"          into the canonical repository (historical.py);        *)
(*   "pages"         page by page, without a store (data_provider.py).     *)
(*                                                                         *)
(* Jobs are tasks of an event loop or threads: any other may run while one *)
(* waits for a feed, and between two calls of the store. A candle is its   *)
(* number in a series; what it says is left out, and so are the pauses     *)
(* between attempts. Feeds are external: they come to show more candles.   *)
(***************************************************************************)
EXTENDS Integers, Sequences, FiniteSetsExt

CONSTANTS
  FeedOrder,       \* the feeds, in the order the failover tries them
  HistoryJobs,
  LastBar,         \* the series is 1..LastBar
  FirstShown,      \* the candles each feed shows at first
  HistoryRanges,   \* the ranges that are asked for: <<from, to>>
  Archives,        \* "store": HistoricalMarketStore; "repository": the canonical one
  FeedAttempts,    \* retry_attempts
  FeedThreshold,   \* failure_threshold
  FeedCooldown,    \* cooldown_seconds
  ChunkBars,       \* chunk_seconds in steps, not 0: the default is a day, and no step is
                   \* longer; a smaller value, which nothing sets, is not refused
  PageBars,        \* page_size
  MaxPages,
  MaxFeedTime      \* bound on the time

ASSUME HistoryFetchAssumption ==
  /\ Archives \subseteq {"store", "repository"}
  /\ Len(FeedOrder) \in Nat \ {0} /\ DOMAIN FeedOrder = 1..Len(FeedOrder)
  /\ FirstShown \in [DOMAIN FeedOrder -> SUBSET (1..LastBar)]
  /\ HistoryRanges \subseteq (1..LastBar) \X (1..LastBar)
  /\ {LastBar, FeedAttempts, FeedThreshold, FeedCooldown, ChunkBars, PageBars, MaxPages}
       \subseteq Nat \ {0}
  /\ MaxFeedTime \in Nat

VARIABLES
  archive,   \* the archive of this behaviour
  barsHeld,  \* the candles it has
  shows,     \* of each feed: the candles it would return
  circuits,  \* ProviderState of each feed
  jobs,      \* what each job is doing
  feedNow

fetchVars == <<archive, barsHeld, shows, circuits, jobs, feedNow>>

SeriesBars == 1..LastBar
FeedNumbers == DOMAIN FeedOrder

IdleJob == [kind |-> "none", step |-> "idle", from |-> 1, to |-> 1, cursor |-> 1, at |-> 1,
            feed |-> 1, attempt |-> 0, rows |-> {}, left |-> {}, pages |-> 0, had |-> {},
            complete |-> FALSE]

KindsFor == [store |-> {"orchestrated", "chunks", "gaps"}, repository |-> {"load", "pages"}]

ClosedCircuit == [failures |-> 0, openUntil |-> 0]

FetchInit ==
  /\ archive \in Archives
  /\ barsHeld = {} /\ shows = FirstShown
  /\ circuits = [f \in FeedNumbers |-> ClosedCircuit]
  /\ jobs = [j \in HistoryJobs |-> IdleJob]
  /\ feedNow = 0

-----------------------------------------------------------------------------
(* find_gaps: the intervals that cover what is missing.                     *)

Missing(from, to) == (from..to) \ barsHeld

MissingIntervals(from, to) ==
  {gap \in (from..to) \X (from..to) :
     /\ gap[1]..gap[2] # {} /\ gap[1]..gap[2] \subseteq Missing(from, to)
     /\ {gap[1] - 1, gap[2] + 1} \cap Missing(from, to) = {}}

\* The first interval that is left, as the next thing to ask for.
TakeGap(job, left) ==
  IF left = {} THEN [job EXCEPT !.step = "verify", !.left = {}]
  ELSE LET gap == CHOOSE g \in left : \A other \in left : g[1] <= other[1] IN
       [job EXCEPT !.step = "call", !.cursor = gap[1], !.at = gap[2],
                   !.left = left \ {gap}]

\* The next chunk: chunk_end, or nothing more.
TakeChunk(job, from) ==
  IF from > job.to THEN [job EXCEPT !.step = "done"]
  ELSE [job EXCEPT !.step = "call", !.cursor = from, !.attempt = 0,
                   !.at = Min({job.to, from + ChunkBars - 1})]

-----------------------------------------------------------------------------
Job(j, job) == jobs' = [jobs EXCEPT ![j] = job]

\* What the feed, or each of them, shows as the job begins.
Had(kind, range) ==
  IF kind = "orchestrated" THEN {b \in range : \A f \in FeedNumbers : b \in shows[f]}
  ELSE range \cap shows[1]

BeginJob(j, kind, from, to) ==
  LET job == [IdleJob EXCEPT !.kind = kind, !.from = from, !.to = to, !.cursor = from,
                             !.at = to, !.had = Had(kind, from..to)] IN
  /\ jobs[j] = IdleJob /\ kind \in KindsFor[archive] /\ from <= to
  /\ Job(j, CASE kind = "orchestrated" -> [job EXCEPT !.step = "choose"]
              [] kind = "chunks" -> TakeChunk(job, from)
              [] kind = "gaps" -> TakeGap(job, MissingIntervals(from, to))
              [] kind = "load" -> [job EXCEPT !.step = "call"]
              [] kind = "pages" -> [job EXCEPT !.step = "page"])
  /\ UNCHANGED <<archive, barsHeld, shows, circuits, feedNow>>

Available(f) == feedNow >= circuits[f].openUntil

\* The failover goes to the next feed that is available, or raises.
ChooseFeed(j) ==
  LET job == jobs[j]
      next == {f \in FeedNumbers : f >= job.feed /\ Available(f)} IN
  /\ job.step = "choose"
  /\ Job(j, IF next = {} THEN [job EXCEPT !.step = "failed"]
            ELSE [job EXCEPT !.step = "call", !.feed = Min(next), !.attempt = 0])
  /\ UNCHANGED <<archive, barsHeld, shows, circuits, feedNow>>

\* A feed answers; the failover takes it as healthy, whatever others have met since.
FeedAnswers(j) ==
  LET job == jobs[j] IN
  /\ job.step = "call"
  /\ Job(j, [job EXCEPT !.step = "store", !.rows = (job.cursor..job.at) \cap shows[job.feed]])
  /\ circuits' = IF job.kind = "orchestrated"
                 THEN [circuits EXCEPT ![job.feed] = ClosedCircuit] ELSE circuits
  /\ UNCHANGED <<archive, barsHeld, shows, feedNow>>

MayRetry(job) ==
  job.kind \in {"orchestrated", "chunks"} /\ job.attempt + 1 < FeedAttempts

Failure(circuit) ==
  LET failures == circuit.failures + 1 IN
  [failures |-> failures,
   openUntil |-> IF failures >= FeedThreshold THEN feedNow + FeedCooldown
                 ELSE circuit.openUntil]

\* Mutant: a chunk that cannot be fetched is passed over.
GivesUpChunk(job) ==
  IF job.kind = "chunks" THEN TakeChunk(job, job.at + 1) ELSE [job EXCEPT !.step = "failed"]

GivesUp(job) == [job EXCEPT !.step = "failed"]

\* A call raises, or takes too long: it is tried again; then the failover counts a failure
\* and goes on, and every other job raises.
FeedFails(j) ==
  LET job == jobs[j] IN
  /\ job.step = "call"
  /\ \/ /\ MayRetry(job)
        /\ Job(j, [job EXCEPT !.attempt = @ + 1]) /\ UNCHANGED circuits
     \/ /\ ~MayRetry(job) /\ job.kind = "orchestrated"
        /\ Job(j, [job EXCEPT !.step = "choose", !.feed = @ + 1])
        /\ circuits' = [circuits EXCEPT ![job.feed] = Failure(@)]
     \/ /\ ~MayRetry(job) /\ job.kind # "orchestrated"
        /\ Job(j, GivesUp(job)) /\ UNCHANGED circuits
  /\ UNCHANGED <<archive, barsHeld, shows, feedNow>>

\* upsert: a candle that is there already is overwritten.
Upserted(rows) == barsHeld \cup rows

\* What came is stored; then what is left to ask for.
StoreRows(j) ==
  LET job == jobs[j] IN
  /\ job.step = "store"
  /\ barsHeld' = Upserted(job.rows)
  /\ Job(j, CASE job.kind = "orchestrated" -> [job EXCEPT !.step = "verify"]
              [] job.kind = "chunks" -> TakeChunk(job, job.at + 1)
              [] job.kind = "gaps" -> TakeGap(job, job.left)
              [] job.kind = "load" -> [job EXCEPT !.step = "done"])
  /\ UNCHANGED <<archive, shows, circuits, feedNow>>

Verify(j) ==
  LET job == jobs[j] IN
  /\ job.step = "verify"
  /\ Job(j, [job EXCEPT !.step = "done",
                        !.complete = MissingIntervals(job.from, job.to) = {}])
  /\ UNCHANGED <<archive, barsHeld, shows, circuits, feedNow>>

-----------------------------------------------------------------------------
(* PaginatedProvider                                                        *)

\* fetch_page: the first candles from the cursor on, whose own may come once more, and a
\* cursor if there are others.
PageFrom(job, again) ==
  LET rest == {b \in (job.from..job.to) \cap shows[1] :
                 \/ job.pages = 0 \/ b > job.cursor \/ (again /\ b = job.cursor)} IN
  {b \in rest : Cardinality({c \in rest : c < b}) < PageBars}

\* A page comes; the last one ends the job, and one too many fails it.
PageComes(j) ==
  LET job == jobs[j] IN
  /\ job.step = "page"
  /\ \E again \in BOOLEAN :
       LET page == PageFrom(job, again /\ PageBars > 1)
           more == page # {}
                   /\ \E b \in (job.from..job.to) \cap shows[1] : b > Max(page) IN
       Job(j, [job EXCEPT
         !.rows = @ \cup page, !.pages = @ + 1,
         !.cursor = IF page = {} THEN @ ELSE Max(page),
         !.step = IF ~more THEN "done"
                  ELSE IF job.pages + 1 < MaxPages THEN "page" ELSE "failed"])
  /\ UNCHANGED <<archive, barsHeld, shows, circuits, feedNow>>

PageFails(j) ==
  /\ jobs[j].step = "page" /\ Job(j, [jobs[j] EXCEPT !.step = "failed"])
  /\ UNCHANGED <<archive, barsHeld, shows, circuits, feedNow>>

-----------------------------------------------------------------------------
FeedShows(f, b) ==
  /\ b \notin shows[f] /\ shows' = [shows EXCEPT ![f] = @ \cup {b}]
  /\ UNCHANGED <<archive, barsHeld, circuits, jobs, feedNow>>

FeedTime ==
  /\ feedNow < MaxFeedTime /\ feedNow' = feedNow + 1
  /\ UNCHANGED <<archive, barsHeld, shows, circuits, jobs>>

FetchNext ==
  \/ \E j \in HistoryJobs :
       \/ \E kind \in KindsFor[archive], range \in HistoryRanges :
            BeginJob(j, kind, range[1], range[2])
       \/ ChooseFeed(j) \/ FeedAnswers(j) \/ FeedFails(j) \/ StoreRows(j) \/ Verify(j)
       \/ PageComes(j) \/ PageFails(j)
  \/ \E f \in FeedNumbers, b \in SeriesBars : FeedShows(f, b)
  \/ FeedTime

FetchSpec == FetchInit /\ [][FetchNext]_fetchVars

-----------------------------------------------------------------------------
FetchTypeOK ==
  /\ barsHeld \subseteq SeriesBars /\ \A f \in FeedNumbers : shows[f] \subseteq SeriesBars
  /\ \A j \in HistoryJobs :
       /\ jobs[j].step \in {"idle", "choose", "call", "store", "verify", "page", "done",
                            "failed"}
       /\ jobs[j].pages <= MaxPages

\* A job that ends without raising has fetched every candle its feed already showed when
\* it began, however its range was cut into chunks, gaps or pages and whatever was
\* retried; one that reports its range complete finds nothing missing in it afterwards
\* either; and the failover keeps a feed out exactly after that many failures in a row
\* (OrchestratedBackfill.run, ProviderBackfillAdapter.run, HistoricalBackfillEngine.
\* backfill, load_historical_candles, PaginatedProvider.historical, ProviderFailover).
HistoryIsWhole ==
  /\ \A j \in HistoryJobs :
       LET job == jobs[j] IN
       job.step = "done" =>
         /\ job.had \subseteq IF job.kind = "pages" THEN job.rows ELSE barsHeld
         /\ job.complete => job.from..job.to \subseteq barsHeld
  /\ \A f \in FeedNumbers :
       circuits[f].failures >= FeedThreshold <=> circuits[f].openUntil > 0
=============================================================================
