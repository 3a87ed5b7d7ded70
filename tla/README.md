# Verification of recsys-pipeline

TLA+ models of the recommendation pipeline, their model-checking runs, and proofs. Every definition is translated from
the Go, Kotlin and Python code under `src/`; `PROJECT.json` maps each one to its lines.

## 1. The system and its parts

```
 traffic-simulator ──► event-collector ──► Redpanda user-events ──► Flink job ──┐
                            Redpanda inventory-events ──► Flink job ──┤
 batch-processor (Spark/Milvus), traffic-simulator seed ─────────────┤
                                                                     ▼
 client ──► recommendation-api ◄──────────────────────────────► DragonflyDB
                └──► Triton (behind the circuit breaker)
```

| Component | State | Operations | Talks to | What is hard |
|---|---|---|---|---|
| circuit breaker (`circuitbreaker/breaker.go`) | five atomics, no lock | Allow, RecordSuccess, RecordFailure | called by the ranker from every request goroutine | each method is several atomic operations; outcomes of old calls arrive late |
| protected ranker, Triton client (`triton/`) | none | Rank, ScoreBatch | breaker, Triton | one report per admitted call; timeout of 80 ms |
| tier router (`tier/router.go`) | none shared | Recommend | store, stock checker, reranker, ranker, degradation | five remote calls in sequence while level, lists, stock and connectivity change |
| degradation manager (`degradation/level.go`) | one atomic level | ReportLoad, SetLevel, IsTierAllowed | read up to three times by a request | level changes between two reads |
| experiment router (`experiment/router.go`) | cached list, time of fetch, RWMutex | GetExperiment | store | double-checked lock held over two remote calls, stale-on-error |
| dragonfly store (`store/dragonfly.go`) | none | three reads, Ping | DragonflyDB | SMEMBERS and MGET are two round trips |
| stock checker (`stock/bitmap.go`) | none | IsOutOfStock, FilterOutOfStock | DragonflyDB | two pipelined round trips, per-item errors, fail-open |
| stock bitmap updater, sink (`inventory/`, `sinks/`) | keyed offset cache | processElement, invoke | inventory topic, DragonflyDB | two commands per event, crash between them, restart at the latest offset |
| session processor (`features/SessionProcessor.kt`) | last event time per session | processElement | user-events topic, DragonflyDB through the sink | ZADD and EXPIRE are two commands, a record may end the job |
| click window (`features/ClickWindowFunction.kt`) | sliding windows per user, watermarks | process | the same | events out of order, partitions that run ahead, source subtasks without a partition, restarts |
| session re-ranking (`rerank/`) | none | Extract, Rerank | DragonflyDB | format of the members written by the session processor; order among equals |
| event collector (`event-collector/`) | client buffer, error count | HandleEvent, Publish, Close | Redpanda | answered before it is produced; callbacks run later, or never; full buffer; shutdown with handlers under way |
| batch processor (`batch-processor/`) | none | precompute_recommendations | Milvus, DragonflyDB | a pass breaks off half way, passes over all and over affected users overlap; SET and EXPIRE |
| seeder (`traffic-simulator/internal/generator/seed.go`) | a pipeline | SeedDragonfly | DragonflyDB | last, short batch; a pipeline is no transaction; dies half way |
| load generator (`traffic-simulator/cmd/simulate`) | semaphore, WaitGroup, counts | main | event collector | the client times out, its handler goes on |
| handlers, main, metrics | none | HTTP | all of the above | - |
| ranking-service client, ML, infra, load tests | - | tools around the service | - | - |

What makes each part correct, in one line: the breaker never loses its probe, never lets a call past an open breaker
without a probe slot, and recovers; the router serves only filtered items, sheds what the level blocks, fails only on
outages of its store and loses no firm item; the experiment cache reads the store once per expiry, survives outages and
honours the shares; the bitmap agrees with the last event of each item; an event that was answered with 202 reaches the
topic or its loss is counted, as long as the process lives; a session has an expiry and is not dropped while it is in
use, but for the gaps between two commands; a click count is that of its window; the two orderings are stable and lose
nothing; the writers of lists leave a store that can be read, wherever they break off.

## 2. Modules

| Module | Models | State and actions against the code |
|---|---|---|
| `CircuitBreaker` | `Breaker` driven by `ProtectedRanker.Rank` | `state`, `failCount`, `probing` are the atomics, `trippedAge` is `lastTripped` seen as an age; one action per atomic load, store, add or swap (`Allow`, `LoadTripped`, `CheckTimeout`, `OfferProbe`, `TryProbe`, `CasClosed`, `ResetFails`, `LoadState`, `AddFail`, `StoreOpen`, `ReadClock`, `StoreTripped`), one for the inference, one for the clock, one for Triton's health |
| `BreakerSpec` | the promise of the breaker | mode, trial offers, admitted calls |
| `BreakerRefinement` | that `CircuitBreaker` implements `BreakerSpec` | offers = `probing` plus goroutines that swapped to HalfOpen and have not stored `probing` yet; calls = goroutines between Allow and the end of Record* |
| `BreakerHistory` | `CircuitBreaker` with history variables | for statements of comments and README |
| `Degradation` | `Manager` | `level`, `LevelFor`, `IsTierAllowed` |
| `TierRouter` (extends `Degradation`) | one request through `Recommend` or `HandlePopular`, with its store reads | one action per remote call or level read; the environment (level, cached lists, popular list, stock, connectivity) moves between any two |
| `StockBitmap` | topic, `StockBitmapUpdater`, `DragonflySink`, `BitmapChecker` | `ProcessElement` and `Invoke` per subtask, one remote command per step; `Crash`, `Restart`; `LookUpOffset`, `GetBit` are the two round trips of a reader |
| `ExperimentRouter` | `Router.GetExperiment` with its cache, and `ListActiveExperiments` | one action per lock operation and remote call |
| `SessionStream` | user-events topic, `UserEvent`, `SessionProcessor`, the ZADD and EXPIRE of `DragonflySink`, DragonflyDB's clock | per partition `Deserialize` or `ProcessElement`, per subtask `ZAdd` and `Expire`; `Crash`, `Restart`, `Tick` |
| `ClickWindow` | watermarks, sliding windows, `ClickWindowFunction` | `ProcessElement` per partition, `EmitWatermark` per subtask of the source, of which there are `parallelism` (`Sources`, `SplitsOf`), `Process` per user; the window operator is Flink's, as `StreamProcessorJob.kt` sets it up |
| `Reranking` | `SessionFeatureExtractor.Extract`, `WeightedScorer.Rerank`, `ProtectedRanker.Rank` without its breaker, `sortByScoreDesc` | one action per remote call, and one per turn of the two loops of the insertion sort (`Outer`, `Inner`) |
| `ListWriters` | `SeedDragonfly` and `precompute_recommendations`, which write the same keys | the seeder queues commands and executes them one by one (`SeedMapping`, `SeedUser`, `Exec`, ...); a pass of the batch processor is given its users (`StartPass`), and searches and executes a transaction per batch of them (`Search`, `Execute`); passes may overlap |
| `TrafficSimulator` (extends `EventCollector`) | `cmd/simulate/main.go` against the collector | `Post` is `HandleEvent` of the collector; `Receive`, `PostFails`, `Return` are the rest of a goroutine, `Start` and `Wait` those of `main` |
| `EventCollector` | `Handler.HandleEvent`, `RedpandaProducer`, the life of the process | a handler is `HandleEvent`, `Publish`, `Respond`; the Kafka client is its buffer with `Produced` and `ProduceFails`, and `promises`, the records whose `Callback` is still to run, in a goroutine of the client; `Signal`, `ShutdownReturns`, `Close`, `Exit` are the lines of `main` |
| `Loops` | the loops over a slice that filter it and add it up, for `TierRouter` and `ExperimentRouter` | recursive functions of the turns a loop has made |
| `CircuitBreakerProofs`, `TierRouterProofs`, `ExperimentRouterProofs`, `StockBitmapProofs`, `SessionProofs`, `ClickWindowProofs`, `FeedProofs`, `LoopsProofs` | theorems | section 5 |
| `MC*` | instances for TLC | sets of model values and constant functions |

A definition whose comment begins "A mistake:" is a mutated form of the one below it. Nothing in the specifications uses
it; `PROJECT.json` pairs it with the property that has to fail when it is put in place.

**Abstractions.** Timestamps are ages that stop growing at the timeout they are compared with, and the failure count
stops at the threshold; the code compares them with nothing else, so this is exact. Recommendation lists are sequences
of items without scores; re-ranking and ranking return any order of what they are given. Stock in `TierRouter` is the
set of items the filter reads as sold out, and `StockBitmap` says how that set comes about. FNV-1a is a bucket number,
Java's `hashCode` a constant function. `main.go` wires a reranker, a ranker and a degradation manager, so the `nil`
branches of the router are not modelled. The gRPC client in the repository is a stub that always fails; `tritonUp`
models the interface that `Client.ScoreBatch` is written for, of which the stub is the case that never comes up.

In the three branches of the Flink job a key's subtask writes before it takes the next event, as the sink blocks.
`ClickWindow` measures event time in slides and writes a key at once and for good: what two commands and an expiry mean
is told apart in `SessionStream`. A session's members are event ids; the empty session id, which events without one
share, is a session on both partitions. Every branch has its own module, although a failure of one takes the others
down: for those it is the `Crash` they already have. In `Reranking` scores are integers, in tenths where the penalties
are, and the answers of the model are any scores. `ListWriters` takes every choice of the random generator (categories,
shuffles), and the score of an item is its place on the list. What Milvus finds for a user is left out: a list of a pass
is known by the pass. A pass is given any of the constant `Selections`, sequences of users. In `TrafficSimulator` the
deferred calls of a goroutine are one step, which only other steps of the same goroutine could tell apart, and so is
each section under the mutex of the counts.

Also abstracted: requests that are refused with a 4xx change nothing and are not taken. The wall clock of the breaker
goes forward only: `time.Unix` carries no monotonic reading, so a clock that is set back stretches an open episode,
which no property here is about. Traffic shares are whole buckets.

## 3. Runs

| Run | Bounds | Shows |
|---|---|---|
| `breaker` | 3 goroutines, threshold 2, timeout 2 ticks; 208 602 states, with fairness | `NoLostProbe`, `OfferIsClaimed`, `LegalTransitions`, refinement of `BreakerSpec`; `HalfOpenResolves`, `RecoversWithTriton` |
| `tier_router` | 2 items, lists `<<b>>`, `<<a, b>>`, absent or corrupt, pages of 1 and 2, a load in each band; 1 113 504 states | `OnlyInStock`, `ShedTiersStayShed`, `ErrorsAreOutages`, `FirmItemsAreServed` |
| `stock_bitmap` | 2 items on 2 subtasks, the hash of one is the seeded offset of the other, 2 events each, 1 crash, seeded or empty mapping; 356 979 states, with fairness | `MappedBitWasWritten`, `ExcludedByOwnEvent`, `Converges` |
| `experiment_cache` | 2 goroutines, 2 experiments with unequal shares (2 and 3 of 4 buckets, together too many) in every order, TTL of 2 ticks; 87 160 states, with fairness | `OneFetchPerExpiry`, `SharesAreHonoured`, `StaleBeatsError`, `CallsReturn` |
| `event_collector` | simulator with 3 events and 1 place, 2 handlers, a buffer of 1 record; 163 284 states, with fairness | `NoSilentLoss`, `LossesAreCounted`, `ReportAddsUp`, `HandlersReturn`, `SimulatorEnds` |
| `reranking` | lists of up to 3 items with every combination of 3 scores, sessions of up to 4 members with 2 timestamps, the newest 2 are read, 2 scores of the model; 374 700 states | `RankedStably`, `FreshKeepsLead` |
| `session_stream` | 2 sessions on 2 subtasks and 2 partitions, 3 records, 1 crash, TTL of 2 ticks; 31 027 states, with fairness | `UnlimitedIsExplained`, `DroppedWhenIdle`, `RunsOn` |
| `click_window` | 2 users on 2 partitions, parallelism of 1 to 3, windows of 2 slides, lateness of 1, 4 events, 1 crash; 238 617 states, with fairness | `CountsWindow`, `WindowsGoForward`, `WindowsFire` |
| `list_writers` | 3 users, 0 to 4 items in 3 categories, batches of 2, lists of 2, 2 passes that may overlap, each over all users, two of them or none; 1 043 296 states | `SeedIsComplete`, `PassesRenewInOrder`, `SeededListsFill` |

Three goroutines are the least that let a late failure, a probe and a newcomer meet in the breaker; a threshold of two
is the least with a failure that does not trip. Two items on a list and a page of one are enough for truncation,
filtering and order to get in each other's way. Two events per item let the second overtake or overwrite the first, and
one crash at any point is followed by everything that can follow it. Two callers are enough for one to wait for the
other's fetch. With a buffer of one record two handlers fill it and block; a simulator with one place gives it back by a
timeout while the handler still waits, so three events make a record sent, one buffered and one blocked when the signal
comes. A list of three items is the least on which a key passes an equal and a smaller entry, and the scores differ by
less than, as much as and more than a penalty. Three records and a lifetime of two ticks let an old expiry run out
between the two commands of a new event. Windows of two slides overlap, and four events on two partitions are enough for
one in bounds, one out of bounds, and one to move each watermark; a parallelism of one, two and three lets a subtask
read both partitions, one, or none. Three users and up to four items are a full and a short batch, two full ones, one
and none.

All passing runs but three check for deadlock. `event_collector` does not: its process really exits and the simulator
ends. `click_window` and `list_writers` do not: all events are published and all windows fired, or the seeder and the
passes are over.

Three runs confront the code with what its documentation says of it. TLC finds a counterexample to each:

| Run | Statement | What the code does |
|---|---|---|
| `breaker_one_probe` | breaker.go:47 "only one concurrent probe request is allowed" | `RecordFailure` stores Open before the trip time, so between the two stores the next request measures the timeout from the trip before (or from 1970) and is offered a second slot while a probe is under way; the run needs no clock tick |
| `stock_polarity` | bitmap.go:15 "A set bit (1) ... means out-of-stock" | `StockBitmapUpdater` writes 1 for in stock |
| `user_event_poison` | UserEvent.kt:8 "Mirrors the Go Event struct from shared/go/event/event.go" | the collector writes the timestamp as an RFC 3339 string, `UserEvent` declares a `Long`: Jackson throws, the job ends, and what is published until it is back is skipped |

Further divergences that were met while modelling. They need no run to be seen:

- Breaker: a success in Closed does not reset the count (README.md:1458 "opens after 5 consecutive failures"). The swap
  to Closed and the reset of the count are two steps (breaker.go:79-80), so a failure in between counts on the old
  total. An empty batch returns success before Triton is asked (client.go:121) and closes a half-open breaker.
- Router: the popular list is asked for before the stock filter and cut to the page first, so a sold-out list gives an
  empty page (README.md:566 "the API never returns an empty response"). The reranker's error becomes a 500
  (README.md:246 "Fallback on failure"). The Emergency branch and `/popular` skip the stock filter (README.md:98).
- Degradation: `ReportLoad` has no hysteresis (README.md:301 draws one).
- Experiments: the list is cached for 30 s (README.md:1195 says uncached); the order SMEMBERS returns decides the
  assignment (store/dragonfly.go:82).
- Stock: two items with one hash share a bit for good, and an item on its seeded mapping reads the bit of an item that
  hashes there (StockBitmapUpdater.kt:56).
- Job: no checkpoints, start at the latest offset (README.md:1166 "Flink resumes from checkpoint, replays"; the replay
  that README.md:1320 has inflate counts never happens).
- Click windows: no `withIdleness` (StreamProcessorJob.kt:50), so a partition without events stops the windows of all
  users, and so does a source subtask without a partition. `FLINK_PARALLELISM` is 2 (docker-compose.yml:358) and nothing
  in the repository creates the topic, so with one partition no window ever fires (README.md:485 "continuously
  updated"). `CountsWindow` says that nothing is written then. The first count of a user after a restart may be that of
  an older window than the one it overwrites, and of part of its events; `WindowsGoForward` allows this once per user
  and start.
- Sessions: README.md says session keys have no expiry (1242 "No TTL (accumulates indefinitely)", 1530 "No TTL set",
  1559 "TTL: none", 1609) while the code gives them 1800 s with each event (SessionProcessor.kt:29), and that is what
  `UnlimitedIsExplained` and `DroppedWhenIdle` are about. SessionProcessor.kt:21 "30-minute TTL from the last event"
  does not hold when the old time runs out between ZADD and EXPIRE, nor when the job dies between them. Members are
  written as `eventType:itemId:eventId` while `Extract` parses JSON (session.go:69), so the features of a real session
  are empty. Events without a session share the key `session::events`, which nobody reads. The keyed `lastEventTime` is
  never cleared.
- Keys without a reader: `clicks_1h` and `next_bit_pos`.
- Collector: `Close` calls only `client.Close()`, which fails what is buffered (redpanda.go:68 "Close flushes pending
  records"). It does not wait for the callbacks, and `main` returns next, so even a clean end may lose answered events
  that the error counter has not counted; `LossesAreCounted` bounds them by what was in the client.
- Seeder: categories are added to "fill the remaining slots" (seed.go:113) but whole, and the shuffle before the cut may
  then drop preferred items. The users are `u_` with five digits there and `user_` with six in the simulator, so the
  lists that were seeded are nobody's.
- Simulator: with `CONCURRENCY=0` main waits for the first place for ever.

## 4. Fairness

- `CircuitBreaker!FairSpec`: weak fairness of each goroutine's next step inside `Rank`. The Go scheduler runs every
  goroutine and `ScoreBatch` ends within its 80 ms context; nothing in `Rank` blocks. Arrivals, the clock and Triton get
  none. Recovery needs arrivals and a clock, and `RecoversWithTriton` names them as a hypothesis (`KeepsComing`), not as
  part of the specification.
- `StockBitmap!FairSpec`: Flink goes on processing and writing, and the container is restarted (`restart: on-failure` in
  docker-compose.yml). Publishing, crashing and reading get none.
- `ExperimentRouter!FairSpec`: weak fairness of the steps of the lock holder (the client library bounds its calls),
  strong fairness of taking the lock: `sync.RWMutex` blocks new readers while a writer waits and lets the waiting
  readers in when a writer unlocks, so nobody waits for ever.
- `SessionStream!FairSpec`, `ClickWindow!FairSpec`: as for `StockBitmap`, per partition and subtask, so that none is
  passed over for ever: Flink's source reads all its splits, and the watermark is emitted on a timer. `WindowsFire` has
  as its hypothesis that every source subtask has a partition and every partition an event past the window (`AllPast`):
  without either the code fires nothing. `RunsOn` has that no more than `MaxEvents` records are published.
- `EventCollector!FairSpec`: weak fairness of the handlers and of the client's sending, which franz-go retries without
  limit unless told otherwise, and of each callback while the process lives. Redpanda is fair only as far as
  `HandlersReturn` supposes (it stays up in the end); requests, errors, the signal and the end of the process are not.
  `MaxEvents` bounds the requests, so the run does not say that handlers get room in the buffer in turn when requests
  never stop.
- `TrafficSimulator!SimFairSpec`: the same, and weak fairness of `main` and of each goroutine's end of a request: the
  client's timeout of five seconds ends it when nothing else does. That a request is posted at all is not assumed: a
  connection that is refused is a `PostFails` too.
- `TierRouter`, `Reranking`, `ListWriters`: none, their properties are safety properties.

## 5. Proofs

Every invariant and every action property that a run checks is a theorem of its specification, for all values of the
constants that the named assumptions of the modules admit; `PROJECT.json` pairs property and theorem. Each proof has the
same shape: an inductive invariant, a lemma that the initial states satisfy it, a lemma with a case per action that a
step keeps it, and the property from it. What TLC shows on one instance and the proof for all is the same formula. The
inductive invariants were checked by TLC on the instances of section 3 before they were proved.

**Assumptions.** Those the code gives: thresholds, timeouts, sizes and capacities above zero; routing functions defined
everywhere (a user has a partition, an item a subtask); no item twice on a cached list, no user or item twice in a
catalogue, nor a user twice in the selection a pass is given; cached entries, `nil` and errors are different things;
scores are numbers; goroutines and experiments are finitely many. The bounds (`MaxEvents`, `MaxCrashes`,
`MaxParallelism`, ...) are any natural numbers, so a behaviour of any length is within some bound.

**`CircuitBreakerProofs`** (any finite set of goroutines, any threshold and timeout). `TypeOK` is inductive.
`OfferIsClaimed` and `NoLostProbe` are not: that a half-open breaker keeps a goroutine able to resolve it, when one
takes the slot of another, rests on the taker being at the inference afterwards, and that an offered slot is not
stranded rests on the offering goroutine being at the swap. The invariant is the conjunction of both with `TypeOK`.
`LegalTransitions` follows from the guards of the two swaps and the program counters. `BreakerImplementsSpec` maps each
action to an abstract step or a stutter; its lemmas count offers (`OfferMade`, `OfferStored`, `SlotTaken`).

**`TierRouterProofs`** (any catalogue, lists and page sizes). The properties speak of the answer, the invariant follows
the list on its way there: from the filter on it holds nothing that was not in stock at some time (`InStockSoFar`), from
the read of the cache on it holds what was firm (`FirmSoFar`), and the step a request is at says which way it took
(`PathsOK`). That filter, reranker, ranker and truncation keep this is what the lemmas on lists say.

**`ExperimentRouterProofs`** (any goroutines, experiments, shares). That one goroutine reads the store at a time is the
write lock's doing (`LockOK`); that the list is still expired when it does, because nobody without the lock can fetch.
`SharesAreHonoured` is about `Assign` alone: the users of an experiment are the buckets between two running sums, as
many as its share or as those before it left.

**`StockBitmapProofs`** (any items, hashes, seeds, subtasks). The invariant says what a subtask has still to execute
(`CommandsOK`: both commands of an event or the last), where the offsets in the store and at the reader come from
(`MappingsOK`), and where the latest event of an item is (`LatestIsTraced`: in the topic, in hand, or applied). From the
last follows `DrainedItemsAreApplied`, the safety half of `Converges`.

**`SessionProofs`**. `SessionStream`: the time a session was idle and the time it has left add up to its TTL from the
EXPIRE of its last event on (`TimeAddsUp`), and this is what `DroppedWhenIdle` needs. `Reranking`, for a list of any
length and any scores: at every turn of the two loops a permutation explains the list, in order up to `i` (`OuterOrder`)
but for the hole at `j + 1` where `key` belongs (`InnerOrder`). A list is put in order in one way only
(`SortedIsStableSort`), so the loop and the library's stable sort agree. For `FreshKeepsLead` the sort is shown to put
an entry before all that come after it in the order of scores and places.

**`ClickWindowProofs`** (any users, partitions, parallelism, windows, lateness). A count is compared with the clicks of
its window long after the pane it was taken from is gone; the invariant keeps a set of clicks as large as the count
(`CountStandsFor`), and that a pane holds all that was read of its window until it fires (`PanesAreComplete`). That
nothing fires early rests on the watermark being no further than any partition: each partition has a subtask that reads
it (`PartitionsAreRead`), and the mark of that one lags behind it (`MarksLag`, `OverIsPast`). That counts go forward
needs that, since the job started, the last window to fire is over and none before it holds an event (`FiredInOrder`).

**`FeedProofs`**. `EventCollector`: that an event is given up only once needs to know where it is: with a handler that
has not published it and nowhere else, or in the client, to be sent or with its callback to run (`UnpublishedIsNew`,
`CalledBackOnce`). The simulator with the collector is a behaviour of the collector (`SimulatorDrivesCollector`), so
what is proved of the one holds of both; its own invariant ties places, WaitGroup and tallies to goroutines and to
events nobody waits for. `ListWriters`: `index - Len(pipe)` elements of a phase are written, in order, and the pipeline
holds the next ones (`PipeIsInOrder`, `MappedSoFar`, `ServedSoFar`), with nothing in it where a phase ends
(`PipeIsFlushed`: the condition of the last, short batch); the batches a pass has behind it have been written since it
began, by it or by somebody later, and none ahead of it carries its list (`PassIsInOrder`). `SeededListsFill` is about
`GenerateUserRecs` alone (`GeneratedLists`): supplements end with enough candidates or with all items.

**`LoopsProofs`**. What the two loops compute for every slice. The induction is over the numbers of turns, stated for a
set of numbers (`UpTo`) and derived from the well-foundedness of `<`, because a theorem with an operator for a parameter
cannot be instantiated.

**Only model-checked.** Liveness, which needs ENABLED under fairness: `HalfOpenResolves`, `RecoversWithTriton`,
`Converges`, `CallsReturn`, `HandlersReturn`, `SimulatorEnds`, `RunsOn`, `WindowsFire`. The three statements that the
code violates have no theorem. `SessionProofs` and `FeedProofs` hold the theorems of two specifications each; those
share no variable.

## 6. Plan

Done: every component of section 1 that has a protocol is modelled and checked, and its safety is proved.

What is left, in this order:

1. The safety halves of the liveness properties, as `DrainedItemsAreApplied` is for `Converges`: in `ClickWindow`, that
   a window behind every watermark holds nothing once its users are idle; in `ExperimentRouter`, that a goroutine that
   waits has another to wait for; in `EventCollector`, that a full buffer has a record in it that can still be produced.
2. Abstract specifications with refinement proofs beside the breaker's: the stock bitmap as a register per item that
   takes the values of its events in order; one sort in one step, which `Outer` and `Inner` implement.
3. Two branches of the Flink job in one module, so that a poisoned record of one is seen as a gap in the other.
4. Several requests of the router that share one breaker. Each part is checked against any behaviour of the other:
   `TierRouter` takes any outcome of `Rank`, and `CircuitBreaker` any arrival of calls.

## 7. Not modelled

- `cmd/server/main.go` of the API and `metrics.go`: construction, HTTP servers and counters. What they decide (which
  parts are wired, thresholds and timeouts) is in the constants of the modules. That server has no state of its own.
- The ranking-service client, which no service imports, and the numeric training and export code (`ml/`,
  `ranking-service/`), which has no protocol.
- `embeddings.py`, `features.py`: numeric. The DAG tasks of `batch-processor/dags` that would write recommendations are
  stubs that return a status.
- `bench.go` and the k6 scripts measure; dashboards and deployment descriptions have no behaviour but the restart
  policy, which `StockBitmap`, `SessionStream` and `ClickWindow` use.
- HTTP and JSON layout, requests that are refused with a 4xx, health checks, the in-memory `Counter` of the collector,
  which its `main.go` does not use, and `ProtectedRanker.Score`, which nothing calls.
- Formats of keys and events (`shared/`): the models name the entries directly. Where two formats of one thing differ,
  the divergence is modelled (text timestamps, members that are no JSON).
