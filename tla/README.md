# Verification of the bidder

TLA+ models of the concurrent parts of the real-time bidder (`bidder-core`,
`bidder-server`), model-checked with TLC on small instances; their safety
properties are proved with TLAPS for all instances. `PROJECT.json` lists the
components, the runs, the source lines behind every definition, the hazards and
the disagreements between the code and its documentation.

## The system

A bid request runs through nine stages (validation, user enrichment, candidate
retrieval, candidate limit, scoring, frequency cap, budget pacing, ranking,
response) inside one async task. An HTTP timeout may drop that task at any
await. The stages share state with every other request:

| part | shared state | operations | hard behaviour |
|---|---|---|---|
| circuit breaker | state, opened_at, probe flag (RwLock); window of three atomics | `allow_request`, `record_outcome` | lock upgrade, unlocked window, dropped callers, two gates on one breaker |
| budget pacer | one atomic per campaign | `check_and_reserve`, `release`, `reload` | `fetch_sub` and its compensation are two steps; reload under held reservations |
| pipeline | the request's context | stage loop, deadline checks, handler | early exits between reserve and release |
| hedge budget | tokens, effective capacity | `try_consume`, `restore`, `set_load_shed_rate` | multi-step clamps racing each other; dropped calls |
| Kafka publisher | policy, two rate counters, librdkafka's queue | `publish`, `delivery`, monitor tick, `drop` | the sampler feeds the rate that drives it; shutdown joins a foreign thread |
| win notices | Redis dedup keys, recorder queue, Redis counters | `win`, `try_record`, workers' EVAL | retries, a SET applied late, commands sent twice, keys that run out, crash, partial writes |
| in-process frequency caps | moka map per user, write-behind queue | `check`, `warm_cache`, eviction listener, drain | stale counts, replies out of order, bounded queues |
| catalog | ArcSwap snapshot, the pacer's counters | refresh loop, `candidates_for` | queries without a common transaction, swaps under readers, failed refreshes |
| scoring | one pool of sessions per ML scorer, the watcher's channel | `score_all` of every scorer, `build`, the watcher task | reloads between the chunks of a batch, half-written files, failing inference in a cascade |
| segments | moka map, one fetch per user | `get_or_fetch`, `segments_for` | a fetch dropped under those that wait for it, answers overtaken by writes, the empty answer of an open breaker |
| process | readiness, the server task | `main`, `warmup::run`, `self_test`, `shutdown_signal` | SIGTERM at any moment, requests before readiness, draining |

## Modules

| module | models |
|---|---|
| `CircuitBreaker` | `breaker/mod.rs` and its callers (`freq_cap.rs`, `in_process.rs`) |
| `CircuitBreakerProofs` | theorems about it |
| `BudgetAccount` | what the pacer promises: a budget per campaign with atomic reservations, returns and refills |
| `BidPipeline` | `pipeline/`, all nine stages, `pacing/local.rs`, the bid handler, the HTTP timeout; implements `BudgetAccount` |
| `BidPipelineProofs` | theorems about it, with the refinement of `BudgetAccount` |
| `HedgeBudget` | `hedge.rs`, the feedback loop of `hedge_feedback.rs`, the caller's timeout |
| `KafkaPublisher` | `kafka.rs`, `kafka_incident.rs` |
| `FeedbackProofs` | theorems about `HedgeBudget` and `KafkaPublisher`, each with a loop that reads counters once a tick and adjusts a policy |
| `WinLedger` | what the win handler promises: effects at most once for each setting of a win's dedup key |
| `WinNotice` | `win_notice.rs`, the win handler, the recorder and its workers; implements `WinLedger` |
| `WinNoticeProofs` | theorems about it, with the refinement of `WinLedger` |
| `FreqCapCache` | `in_process.rs`, the write-behind drain of `main.rs`, the recorder |
| `FreqCapCacheProofs` | theorems about it |
| `Catalog` | `catalog/loader.rs`, `catalog/campaign_catalog.rs`, the enrichment and retrieval stages' use of the snapshot |
| `CatalogProofs` | theorems about it |
| `ModelReload` | the model behind each `MLScorer` (`scoring/ml.rs`): first load, parity, `PollWatcher`, the watcher task, the session pool |
| `Scoring` | `build_scorer_root` and its helpers (`main.rs`), `stages/scoring.rs` and `score_all` of `ab_test.rs`, `cascade.rs`, `feature_weighted.rs`, `ml.rs`; composed with `ModelReload` |
| `ScoringProofs` | theorems about `ModelReload` and `Scoring`, which implements it |
| `Segments` | `cache/mod.rs`, `segment_repo.rs`, and their clients: requests in the enrichment stage and the warm-up |
| `Server` | `main.rs` from boot to exit, `server/warmup.rs`, `health.rs`, the layers of `server/routes.rs`; composed with `Segments` |
| `ServerProofs` | theorems about `Server` and the `Segments` in it |
| `MC…` | constants for TLC |

### How state and actions correspond to the code

A step is what the code does without giving up the processor to anyone who can
see the difference: one locked section, one access to an atomic, one await, one
message. Local variables that live across such a point are variables of the
model, indexed by the task.

* **CircuitBreaker.** `state`, `expired`, `probe` are `Inner`; `win` is
  `Window`. `AllowRequest` is the read-locked part of `allow_request`,
  `TryEnterHalfOpen` its write path. `record_outcome` is `Respond` (the call
  returns), `Bump` (one `fetch_add` each, in any order: they are relaxed),
  `Load` (the snapshot, one load each), `RecordOutcome` (the write-locked
  match) and `Reset` (one store each, the lock still held). `LookUp` is the
  in-process capper, which asks the same breaker a second time through its
  fallback. `Cancel` drops a caller at an await. Time is the one fact
  `expired`. The caller's state `dropped` is `idle` under another name.
* **BidPipeline.** `at` is the stage a request is in; `cands`, `winners`,
  `outcome`, `response` are `BidContext`. A candidate is an impression and a
  campaign. Stages whose result depends on data out of the model (validation,
  retrieval, caps) choose any result they can return. `counter` are the
  pacer's atomics; `CheckAndReserve` is the `fetch_sub`, `Exhausted` the
  compensating `fetch_add`. `held` and `spent` are history. `Left` maps a counter
  to the account of `BudgetAccount`: it adds back what reservations about to be
  refused have taken off, so a refusal is two stutters of the account.
* **HedgeBudget.** `RestoreAdd`, `RestoreLoad`, `RestoreClamp` are the three
  accesses of `restore`; `SetCap` and `ClampTokens` the two of
  `set_load_shed_rate`. Tokens and capacity are two atomics with relaxed
  accesses: `RestoreLoad` may find any capacity that was stored before (`older`)
  instead of the last one. `missed` is history, and counts the restores since the
  last clamp of the loop for which that mattered.
* **KafkaPublisher.** `Publish` reads the policy, `Send` enqueues, `Delivery`
  is the callback, `Tick` and `Judge` the monitor, `Drop` and `Join` the
  publisher's `Drop`. `Wedge` and `BrokerChanges` are the outside world.
* **WinNotice.** `CheckToken`, `SetNx`, then `Accept`, `Duplicate` or
  `DedupUnavailable` follow the handler; `LateSet` is Redis applying a SET
  nobody waits for any more; `Receive`, `Spawn`, `WriteCounter` are the
  recorder. The pool is built with fred's defaults (`main.rs:92`), which send a
  command again when its connection is lost: `SetNxAgain` and `WriteCounterAgain`
  apply one whose reply never came. While Redis is unreachable (`up`) an EVAL
  waits, since nothing bounds it. `DedupExpires` is the TTL of a key, whoever is
  using it; `lives` counts how often the key of a win was set. An impression bears
  the number of its acceptance. `Crash` restarts the bidder and keeps Redis.
* **FreqCapCache.** One user. `Begin`, `LookUp`, `Mget`, `Patch` are `check`;
  `Evict` and `FlushSend` the eviction listener, which meets the campaigns of
  the map in any order; `Drain` the write-behind task. `WriteCounterAgain` is an
  EVAL that fred sends twice.
  The breaker is reduced to "open only while Redis is unavailable".
  `record_impression` is not modelled: only tests call it.
* **Catalog.** `active`, `rows`, `hour` are Postgres and the clock. `BeginBuild`,
  one `Query` per table in any order, then `Reload` (the pacer) and `Store` (the
  swap) are a turn of `refresh_loop`; `QueryFails` is its error arm. `Build`
  makes the indices, `CandidatesFor` and `Candidates` are `candidates_for` and
  the filter of the retrieval stage. `Offered` is the reference they are checked
  against: it looks at the rows of one campaign at a time and knows no index. It is
  what the rows mean to the seed script, which writes them (`Meant`), less the
  campaigns without a segment or geo row, which the code does not find
  (`Overlooked`).
  `asof` and `torn` are history. Segments, geo keys, devices, formats and hours
  are all drawn from `Values`.
* **ModelReload.** A write gives the file a new stamp; its kind says whether a
  reader finds a good model, one whose inference fails, half a file or none.
  `Load`, `TaskBuild` create one session each, because each session reads the
  file again; the last one publishes the pool in a single store. `Poll` is
  `PollWatcher` comparing modification times; `WriteModel` may leave `dirty` as
  it is, for a write in the second of the last scan. `StartWatcher` takes its
  baseline after the load. `TaskRecv`, `TaskDebounce`, `TaskBuild` and
  `TaskBuildFails` are the loop of the spawned task. `seen` is history.
* **Scoring.** `Tree` is the scorer tree `BuildScorerRoot` makes of the config,
  or the error it returns. A score is its source: the linear formula or the
  stamp of a model. `PickSession` loads the snapshot and picks a session for one
  chunk, `RunChunk` and `ChunkFails` are `score_batch` and the failure arm of
  `score_all`, `Return` is what the caller, cascade or stage, does with the
  scores. A sort is said by its result, the one order in which each goes ahead
  of those after it (`InOrder`, `Ahead`), and `Clones` keeps the batch's order.
  `Drop` is the HTTP timeout at the wait for a session's lock.
* **Segments.** `Hit`, `Lead`, `Join` are what `try_get_with` does with a lookup;
  `Answer` ends a fetch for everyone who waits, `Abandon` ends it without an
  answer. `Gate`, `Get`, `GetFails`, `Decode` follow `segments_for`. The breaker
  is reduced to whether it lets a call through, and turns at any time.
* **Server.** `BootStep` and `BootFails` are the fallible steps of `main`.
  `Serve` spawns the server task; `Listen` is its first poll, which installs the
  signal handlers: before it, SIGTERM kills. `Arrive`, `Admit`, `Respond`,
  `Timeout` are a request; `WarmGet` to `SetReady` follow `warmup::run` line by
  line. `max_concurrency` is chosen at the start, as the config is. `End` is the
  return of `main`, and `Drop` what follows it: the publisher's `drop`, which joins
  the poll thread.

## Runs

Passing runs:

| run | instance | states | shows |
|---|---|---|---|
| `breaker` | 2 callers, one through the cache, both droppable, min_calls 2, window 4 | 127,814 | `SingleProbe`, `OpenDurationHonoured`, `OpensOnFreshEvidence`; the breaker follows the health of Redis unless a probe is orphaned, and an orphaned probe stays so |
| `pipeline` | 2 requests, 2 impressions, 2 campaigns, 1 reload | 428,743 | `BidPipeline` implements `BudgetAccount`; reservations are settled, dips and overshoot are bounded, what is missing from an idle counter is bids and leaks, the handler never meets `Pending` |
| `hedge` | 3 callers, contracting and expanding capacity | 3,222,760 | hedges in flight and tokens stay within the nominal capacity; they exceed the current one by the restores that missed it, no more |
| `kafka` | 2 publishers, dwell 3, one in three sampled | 62,908 | events counted once, flips are sustained, outages end in sampling; drop returns with the poll thread, and never while librdkafka keeps it |
| `win` | 2 wins (one anonymous), one notified twice, 2 handlers, 1 worker, 1 crash, commands sent twice | 537,466 | `WinNotice` implements `WinLedger`; an accepted win raises a counter once for each time its EVAL is sent; duplicates are explained; the queue drains |
| `freqcap` | 1 campaign, 2 concurrent checks, buffers of 1 | 853,244 | counts never go down, stand for wins, evictions and resent EVALs only; a campaign at its cap is refused in the end |
| `catalog` | 2 campaigns of 2 kinds, 1 request, 1 change of status or hour | 1,392,052 | candidates have counters, undisturbed builds offer what the rows mean less what the code overlooks, for whoever still holds them; torn ones are replaced |
| `scoring` | 10 configs (5 of them refused), 1 request with up to 3 candidates in chunks of 2, a pool of 2, 3 contents of the file | 274,178 | batches are scored as a whole, a cascade advances the best, no reported change of the model is lost, the pool converges to it |
| `server` | 1 user, 2 requests under a limit of 1 and of 2, the warm-up, 2 attempts, 2 tests | 150,336 | one fetch per user, readiness is earned, clean exits are drained, requests are answered, SIGTERM ends the process unless Redis or the poll thread holds it, stale entries go away |

Runs that end in a violation, each of a sentence in the repository:

| run | the sentence | what happens |
|---|---|---|
| `breaker_dropped` | the state machine at `breaker/mod.rs:112-118` | a dropped probe leaves the breaker half-open for ever |
| `pipeline_leak` | `ranking.rs:10-12`, counters "reflect actual spend" | a request stopped between pacing and ranking keeps its reservations |
| `kafka_revert` | `kafka_incident.rs:8-9` "it reverts to the base" | sampling counts its own drops, so the rate never falls |

### Bounds

The interesting cases need two of a thing: two callers to race for the probe,
two requests to race for the last cent, two replies to arrive in the wrong
order. Counters saturate (`Ceiling`), or their growth is cut off in a guard
(`CountBound`, `MaxReloads`, `MaxNotices`, `MaxLives`, `MaxCrashes`, `MaxEdits`), above the thresholds
they are compared with. Budgets are chosen so that the last bid overshoots and
one campaign can pay for a single bid. Queues hold one element, so that "full"
is common. A command is sent at most twice (`MaxAttempts`; fred's own limit is a
default of the library) and a dedup key is set at most twice (`MaxLives`), which is
what a second effect of one win takes. The catalog run has one of the two strict dimensions (segment; geo is
the same code) and both open ones; one edit is enough to tear a build, and every
placement of it among the queries is explored. In the scoring run
three contents of the file are enough for a write during a build and one after
it, and a pool of two for a torn pool; `MaxEvents` bounds the watcher's
channel, which is unbounded in the code. Its configs have at most one ML leaf each (two
scorers do not interact: each has its own pool, watcher and channel). The
segments need no bound: keys, breaker and cache change for ever between finitely
many values. Two requests and the warm-up make a fetcher and two that wait.
`Prompt` says that no guarded read outlives `open_duration`: the
callers' timeouts are milliseconds against ten seconds.

### Fairness

Tasks that can run do run (tokio polls what is woken, its RwLock is fair, so a
caller's steps are strongly fair where they wait for the lock); the monitor
ticks, moka's TTL evicts, librdkafka's callbacks arrive, the poller scans. A
request's deadline, once past, stays past, so its timeout is strongly fair
(`tokio::time::timeout` looks at it after every poll); the warm-up has no
timeout, and is only weakly fair, and only where it does not wait for Redis. That
Redis answers the warm-up, and that the poll thread ends so that the publisher's
`drop` returns, is not fair: `SigtermEnds` has the premise that `main` is not held
for ever by one of them (`Held`). Nothing is fair about
failures: Redis or the broker changing, drops, crashes. Liveness properties
that need failures to end say so as a premise (`CancelsEnd`, `<>[](redis =
"up")`, `<>[]up`).

## Proofs

`CircuitBreakerProofs`, for any set of callers, any thresholds and any window:

* `TypeCorrect`: `Spec => []TypeOK`. The last conjunct of `TypeOK` ties the
  write lock to the callers that reset.
* `OneProbeAtATime`: `Prompt => (Spec => []SingleProbe)`. `SingleProbe` is not
  inductive. The invariant `ProbeInv` adds that half-open implies a
  claimed probe slot, and that once `open_duration` has passed nobody
  admitted earlier is still out. The steps are one per action.
* `NobodyPassesEarly`: `Spec => OpenDurationHonoured`, an action property, from
  the types alone and without `Prompt`.
* `OpensOnEvidence`: `Prompt => (Spec => OpensOnFreshEvidence)`. `record_outcome`
  decides on counts it read before it had the lock, so the fact it needs is about
  the past: `EvidenceInv` says that the window, and every snapshot of it still in
  use, holds no more bad outcomes than were recorded since the breaker last
  closed (or that `min_calls` were), or that a reset has yet to clear it.
* `OrphansStay`: `Spec => OrphanedForever /\ [](Orphaned => []Orphaned)`. Nobody
  past the gate, the slot claimed: no caller can claim it again and none is left
  to give it back. This is the other half of what `breaker_dropped` finds.

`BidPipelineProofs`, for any requests, impressions, campaigns, prices and
budgets, zero included, but for a campaign with neither (it never bids):

* `BudgetHolds`: `Spec => []OneBidOvershoot`. The bound alone is not inductive.
  `Ledger` adds that the counter, what is held and what the pending `fetch_add`s
  owe make up the budget, plus at most one overshoot for each reload; a
  reservation succeeds only on a positive counter, which leaves room for it.
* `DipIsBounded`: `Spec => []BoundedDip`, from the same invariant.
* `ReservationsSettle`, `HandlerSafe`: `Spec => []SettledReservations` and
  `[]HandlerSeesOutcome`. `Progress` says what a request holds at each place of
  the pipeline: the candidates already visited, then the winners and those yet to
  be released. The ledger needs it, because a release of something not held
  would create budget.
* `LeaksAreExplained`: `Spec => []LeaksExplained`, an equation. Until a reload the
  ledger is exact (`Exact`): counter, reservations and debts make up the budget to
  the cent. `SpentOnBids` says that `spent` adds up the winners of 200 responses;
  with every request answered, a reservation belongs to one of them or to a
  request that was stopped (`HeldIsBidOrLeaked`). It measures what `pipeline_leak`
  finds.
* `PacerIsAtomic`: `Spec => AtomicBudget`, that is `Account!Spec` with `Left` for
  what is left. A `fetch_sub` on a positive counter is the account's `Reserve`
  (the account, never less than the counter, is then positive too), a release its
  `GiveBack`, a reload its `Seed`, since `reload`'s write lock waits until nobody is
  between the two accesses; everything else stutters. `Progress` gives the guards:
  a slot is reserved once and released only while held.
* `PipelineTypeCorrect`: `Spec => []TypeOK`.

`FeedbackProofs`, for any callers, capacity and shed rates:

* `HedgesStayBounded`, `HedgeTypeCorrect`: `HedgeSpec => []HedgesBounded` and
  `[]HedgeTypeOK`, inductive as they stand.
* `OvershootsAreMissed`: `HedgeSpec => []OvershootIsMissed`. While a restore is
  half done the tokens may exceed the capacity for another reason.
  `ExcessExplained` names them all: a restore that has yet to look at the capacity
  (`Late`), one whose clamp corrects the excess (`Corrects`), the loop about to
  clamp, and the restores that looked and missed the store.

and for any handlers, queue, sampling rate, threshold and dwell:

* `EventsAreCountedOnce`, `KafkaTypeCorrect`: `Spec => []CountedOnce` and
  `[]TypeOK`. Each needs the other: that `owed` never goes below zero is what the
  ledger says of the queue.
* `FlipsTakeADwell`: `Spec => FlipsAreSustained`, an action property.
  `DwellCounted` says that `over_count` and `under_count` are the latest samples
  in a row on their side; it rests on each sample clearing the other counter.

`WinNoticeProofs`, for any wins, handlers, workers, queue, notices and crashes:

* `CountedOncePerEval`, `DuplicatesAreExplained`, `WinTypeCorrect`: `Spec =>
  []NeverOvercounted`, `[]DuplicateExplained`, `[]TypeOK`. `OnePlace` follows an
  accepted win through channel, dispatcher and worker: it is in one of them at
  most, and what it has written so far is less than the number of times its EVAL
  was sent. `Explained` has a reason for each key, each "nil", each late SET: the
  win was processed, or a reply to one of its SETs reached no handler.
* `WinsAreLedgered`: `Spec => AtMostOnce`, that is `Ledger!Spec` with `events` for
  the ledger's effects and `lives` for its claims. A SET that sets the key anew is
  the ledger's `Claim`, `Accept` its `Account`, and every other step leaves both
  alone. `Claims`, that every event and every handler Redis answered "ok" has a
  setting of the key to itself, is what the guard of `Account` needs.

`FreqCapCacheProofs`, for any campaigns, caps, checks, buffers and ceiling:

* `CountsAreExplained`, `FreqCapTypeCorrect`: `Spec => []CountsExplained` and
  `[]TypeOK`. An increment on its way to Redis must be backed too: `Pending`
  counts those of a counter in the listener's hand, both channels and the worker,
  and `Backed` keeps counter and `Pending` together within `credit`, to which a
  win, an eviction and a resent EVAL each add one. It rests on
  the drain forwarding one of the two operations of an eviction.
* `WarmCountsOnlyGrow`: `Spec => WarmCountsGrow`, an action property.

`CatalogProofs`, for any campaigns, rows, requests and dimensions:

* `CandidatesHaveCounters`: `Spec => []CandidatesBudgeted`. The invariant follows
  a campaign from the query's answer to the pacer, to the snapshot, to those who
  hold it; it rests on the pacer being reloaded before the swap.
* `SnapshotsAreExact`: `Spec => []SnapshotIsExact`. `BuildFresh`: until the
  database changes under it, a build has the answers of one state. `SnapshotsExact`
  is about every snapshot that can still be read, the shared one and those of
  requests that took theirs before a swap (`NoNewSnapshot`). `BuildIsExact`
  and `ExactOffers`: the inverted indices of such answers and the intersections of
  `candidates_for` give what `Offered` reads off one campaign at a time.
* `CatalogTypeCorrect`: `Spec => []TypeOK`.

`ScoringProofs`, for any scorers, pool size and number of writes:

* `ReloadTypeCorrect`: `ReloadSpec => []ReloadTypeOK`.
* `ReloadSafe`: `ReloadSpec => []ReloadNeverLost`. The invariant `Pending`
  says where a reported change can be: in the channel, in the debounce, in a
  build whose sessions so far are all of it, or in the whole pool. Draining the
  channel is harmless because it happens before the build, and a build that
  began earlier is harmless because the event is still in the channel.

and for any configs, requests, batches of distinct candidates, chunk size and
scores:

* `ScoringRefinesReload`: `Spec => ReloadSpec`. Every step of `Scoring` is a
  step of `ModelReload` or leaves its variables alone.
* `ScoringReloadSafe`: `Spec => []ReloadNeverLost`, from the two.
* `ScoresAreWhole`, `CascadeAdvances`, `ScoringTypeCorrect`: `Spec =>
  []NoPartialScore`, `[]CascadeAdvancesBest`, `[]TypeOK`. `ScoringInv` says of a
  leaf at work that the model scored what is behind it (`Working`), of stage 2
  that stage 1 scored everyone from one source and the best advanced
  (`Advancing`), of a scored impression that the advanced and the others have one
  source each (`Settled`). One lemma, `ReturnOK`, covers every way a scorer
  returns. `AdvanceBest` is about the sort: any finite set has an order
  (`OrderExists`), and no one left out of its first places goes ahead of one in
  them. `LeafNumbered` ties a leaf of the tree to the pool it picks from.

`ServerProofs`, for any users, requests, segment lists,
concurrency limits, warm lists and self-tests:

* `FetchedOnce`: `Spec => []OneFetchPerUser`. `Owner` ties the fetcher of a user
  to the one client in a fetching phase for that user; `Guarded` says that
  nobody waits for a user without one. Dropping the fetcher keeps both because
  the same step wakes those that wait.
* `ReadinessEarned`, `CleanExit`, `ServerTypeCorrect`: `Spec => []ReadyIsEarned`,
  `[]CleanExitDrained`, `[]TypeOK`. `Phases` keeps boot, server, warm-up and
  self-test in step; `Stopped` rests on the fact that a moving client wakes only
  clients that wait (`Moves`), so nothing stirs a request after the drain.

The assumptions are those named in the modules: `CallersAssumption`,
`ThresholdAssumption`, `BudgetAssumption`, `RequestAssumption`,
`HedgeAssumption`, `KafkaAssumption`, `WinAssumption`, `CapAssumption`,
`RowsAssumption`, `ReloadAssumption`, `ScoringAssumption`, `ScorersAssumption`,
`ClientsAssumption`, `ServerAssumption`. `ScoringAssumption` takes the candidates
of an impression to be distinct, as `candidate_retrieval.rs` makes them ("one
creative per campaign per imp", `cascade.rs:47`); `ThresholdAssumption` takes the
thresholds to be rates, 0 to 100 percent. `Prompt` is a hypothesis of two breaker
theorems only.

The type invariants have a theorem each and are left out of the runs, but for
`HedgeTypeOK`, which says that the unsigned token counter does not wrap.

Every invariant and every action property that a passing run checks has a
theorem, and TLC checked each inductive invariant on the instance of its run as
well.

Only model-checked, because fairness and ENABLED are out of the prover's reach:
the liveness properties `RecoversUnlessOrphaned`, `OpensWhenRedisDown`,
`OutageIsSampled`, `DropWaitsForPoll`, `RecorderDrains`, `CapEventuallyHolds`,
`CatalogConverges`, `ModelConverges`, `EveryRequestAnswered`, `SigtermEnds` and
`SegmentsConverge`.

## Where the code departs from what is said of it

Beyond the violating runs. The property named allows the departure and no more;
those marked * are findings in `PROJECT.json`.

* \* A campaign without segment rows, or without geo rows, is meant to serve
  everyone ("broad reach", "no rows = serve everywhere",
  `docker/seed-postgres.py:469-476`). `candidates_for` never finds it for a request
  that has segments or geo keys (`campaign_catalog.rs:73-91`); device and format do
  have such a fallback. `SnapshotIsExact`, `CatalogConverges`.
* \* The dedup key lasts an hour so that a duplicate "can never bypass dedup and
  double-increment a counter that is itself inside its window"
  (`docs/REDIS-KEYS.md:376`). The day counter outlives the key by 23 hours, and a
  notice sent again meanwhile raises it a second time. `AtMostOnce` counts settings
  of the key.
* \* A SET that Redis applies after the handler stopped waiting, or whose reply is
  lost with the connection, makes every retry a `Duplicate` of a win nobody
  processed, where `win_notice.rs:33` says "Already processed".
  `DuplicateExplained` allows this case alone.
* \* `Drop` joins without a limit (`kafka.rs:151`) although its comment wants no
  hang. `DropWaitsForPoll` says what it does, and `SigtermEnds` takes it into
  account.
* The breaker opens at `error_rate >= threshold` (`breaker/mod.rs:197`), where the
  comment at `:115` says `>`. The model follows the code.
* A hedged call dropped by the capper's timeout or the HTTP timeout never restores
  its token (`hedge.rs:121`), although `hedge.rs:52` says "Restore one token
  after a hedged request completes."; `HedgesBounded` counts it as `leaked`.
* `ml.rs:5-7` says "Existing requests holding the old pool finish on the old
  model". Each chunk loads the snapshot anew (`ml.rs:368`), so a reload between
  two chunks, impressions or stages scores one request with two models.
  `NoPartialScore` therefore tells the model from the fallback, not one model
  from another.
* `docs/DEPLOYMENT.md:136` has readiness turn to 503 at SIGTERM; `set_not_ready` has no
  caller, and `ready` stays set while the server drains.
* A cap of 0 is "block after first impression" in the schema
  (`0002_freq_cap_limits.sql:18-19`); the check is `count >= cap`, which blocks
  before it.

## Seen while modelling, without a run of its own

* The in-process capper and its fallback ask the same breaker
  (`in_process.rs:343`, `freq_cap.rs:79`): in HalfOpen the first takes the
  probe and the second is refused. This is the other way to orphan a probe;
  `breaker` covers it through `Orphaned`.
* Without `Prompt`, a call admitted before the trip is out together with the
  probe and its outcome is taken for the probe's.
* `reload` stores the full daily budget at every refresh (`local.rs:80`);
  `OneBidOvershoot` therefore counts seedings.
* `set_load_shed_rate` takes tokens away and nothing puts them back
  (`hedge.rs:73-75`).
* Every eviction adds one impression per cached campaign to Redis
  (`in_process.rs:186-209`), whether or not one was served; `CountsExplained`
  allows for it.
* A campaign activated between the device query and the campaign query of one
  build is in `device_unrestricted` of that catalog and is offered on every
  device until the next refresh; `SnapshotIsExact` excepts such builds.
* When no active campaign has the current hour in its dayparts the daypart index
  is empty and campaigns outside their hours are offered; when one has, campaigns
  without daypart rows are not offered (`campaign_catalog.rs:135`). `Offered`
  states both.
* Wins are counted in Redis only (`handlers.rs:230`), so a warm entry of the
  in-process cache, "authoritative" by `in_process.rs:15`, passes a campaign
  that is at its cap until the entry is evicted. `CapEventuallyHolds` says that
  this ends.
* A pool built while the file is written can hold two models (`ml.rs:97-107`)
  until the next event, and the parity check runs at start only.
* What is written between the first load and the watcher's first scan, or in the
  second of a scan, is never reported (`ml.rs:164-171`, `ml.rs:217`).
* While the breaker refuses, an empty segment list is cached for a whole TTL
  (`segment_repo.rs:56-60`); `SegmentsConverge` says that it goes away.
* The warm-up's GET and MGETs have no timeout (`warmup.rs:43`, `:71`) and SIGTERM
  does not cut them short; `SigtermEnds` has this as a premise.
* The EVALs of the recorder have no timeout either (`freq_cap.rs:196`): with Redis
  gone the permits stay out and wins are dropped at the full channel.
  `RecorderDrains` speaks of a Redis that stays reachable.
* SIGTERM during the warm-up makes the self-test fail, so the process ends with
  an error instead of cleanly.
* Connections are accepted before readiness.

## Not modelled

* JSON and protobuf codecs, OpenRTB types, exchange adapters, the extraction of
  features: functions of their input, without state. Floating-point scores are
  out of reach of both tools; the models compare abstract scores.
* Configuration: values read once, which are the constants of the modules.
* Telemetry, metrics, socket options, benches and tools: state that nothing in
  the bidder reads back.
* The latency tracker of the feedback loop (`hedge_feedback.rs:107`): its
  estimate is read by nobody. `record_impression` of the in-process capper: only
  tests call it.
* The win path's own concurrency limit (`routes.rs:94`): the same layer as the
  bid path's.
