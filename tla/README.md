# Verification of the log analytics and anomaly detection server

TLA+ models of the Go server in `src/`: it reads log records from Kafka, indexes
them in Elasticsearch, runs six detection rules over them and stores the
anomalies they raise. TLC checks each model on a small instance; TLAPS proves the
core ones for every value of their constants. `PROJECT.json` lists the components,
runs, mutants, hazards, findings and theorems, and maps every definition to the
lines it translates.

    tlc -workers 2 -config DetectorEngine.cfg DetectorEngine    # one run
    tlapm DetectorEngineProofs.tla                              # one set of proofs

## 1. The system

| Component | State | Operations | Talks to |
|---|---|---|---|
| Kafka consumer (`internal/kafka/consumer.go`) | client's fetch position, marks and commits; channel of 10000 | `New` (initial offset), `Run`: poll, forward, mark; commit on revoke and on a timer; close | broker; workers over the channel |
| Pipeline workers (`cmd/server/wire.go`, `internal/pipeline`) | entry in hand | parse, `IndexLog`, `engine.Evaluate`; four of them | channel, log indexer, engine |
| Detection engine (`internal/detection/engine.go`) | `cooldowns` under a mutex, anomaly channel of 1024, `evictStop` | `Evaluate`, `evictLoop`, `silenceWatcher`, `Stop` | rules; dispatcher over the channel |
| Sliding window (`window.go`) | circular `timestamps`, `head`, `count` | `Add`, `CountWithin`, `Evict` | three of the rules |
| Error rate, latency, repeated failure, auth burst rules | a map of windows, no lock | `Evaluate`, `Reset` | engine, from four workers and `evictLoop` |
| Service silence rule (`service_silence.go`) | `lastSeen`, `seenCount`, under its own mutex | `Evaluate`, `CheckSilence`, `Reset` | engine, from the workers and both tickers |
| Off-hours rule | none | `Evaluate` | engine |
| Elasticsearch indexers (`internal/elasticsearch`) | bulk indexer: queue, flush timer | `IndexLog`, `IndexAnomaly`, `Close`, searches, look-ups | workers, dispatcher, API |
| Alert dispatcher (`internal/alert/dispatcher.go`) | anomaly in hand | `Run`: index, then send | anomaly channel, anomaly indexer, alert channel |
| REST API (`internal/api`) | none of its own | health, readiness, paged searches, look-ups | Elasticsearch |
| Server wiring (`cmd/server`) | errgroup, `gCtx`, eight-second `shutdownCtx` | start, signal, ordered shutdown | all of them |
| End-to-end test tool (`cmd/e2etest`) | workers, sampler, counters, drain loop | health check, baseline, produce or replay, flush, drain, verdict | Kafka producer client, REST API |
| Configuration, metrics, domain types, client set-up | plain data | read at start | - |
| Load test tool, document generators, dashboards | - | - | not part of the server |

What is hard here:

- *Interleavings.* Four workers and two background goroutines share the cooldowns,
  the anomaly channel and the rules. The engine's mutex covers the cooldowns only:
  the send that follows is outside it, and the rules other than service silence
  have no lock at all.
- *Ordering in time.* The heartbeat, the eviction ticker, the silence threshold and
  the cooldown are four periods that meet in any phase; events carry their own time
  stamps and arrive early, late and out of order.
- *Crashes and rebalances.* Offsets are marked when a record enters a channel, long
  before Elasticsearch has it; a group without a commit starts again at the
  configured end of the log.
- *Shutdown.* One cancelled context ends consumer, workers and dispatcher while the
  watcher closes servers and indexers in its own order under one deadline.
- *In-place data structures.* `Evict` compacts the circular array it is reading.
- *Reading what is still being written.* The test tool judges a run from counts the
  API gives while records are in flight, callbacks pending and polls failing.

What makes each component correct: the window counts the recorded events that are
in the window, and no index leaves the array; a rule answers as if it had never
forgotten anything, and holds little; the engine lets through at most one alert per
key and cooldown and none during warm-up, and never blocks on its channel; the
silence rule reports real silences, in time, once; the consumer forwards every
record and commits only what it forwarded; a document that is written twice is
the same document; pages of the API partition what matches; a shutdown ends and
writes what was accepted; the test tool passes only a run whose records arrived.

## 2. Modules

| Module | Models | State and actions |
|---|---|---|
| `RecentEvents` | what a window promises (abstract) | `events`, `now`; `Record`, `Forget`, `Tick` |
| `SlidingWindow` | `window.go` | the struct's fields; `Evict` is `BeginEvict`, one `EvictEntry` per loop iteration, `EndEvict`, because it overwrites slots it reads later |
| `MCSlidingWindow` | the same with the recorded events as history | |
| `AlertDedup` | what the cooldown promises (abstract); implemented by `DetectorEngine`, `ServiceSilence` and `WindowRules` | `last`, `now`; `Alert`, `Tick` |
| `DetectorEngine` | `engine.go` | one step per region under `cooldownMu` and one per channel operation; `Evaluate`, `Detect`, `Send` for workers, `CheckSilence`, `ReportSilence`, `SendSilence` for the heartbeat, `Evict`, `Stop`. Rules are open: any may fire |
| `DetectionConfig` | `config.go` | what the rules and the engine's loops are configured with, as CONSTANTS and their assumptions |
| `WindowRules` | `error_rate.go`, `latency.go`, `repeated_failure.go`, `auth_burst.go`, `off_hours.go`, each with the engine's cooldown and eviction | one rule per behaviour, chosen in `Init`. `Calls[rule]` is every call an entry can lead to (level, fields and their fall-backs included); `Evaluate` records, decides (`Fires`) and passes the cooldown or not (`PassCooldown`), `Evict` runs `Reset` and expires cooldowns. The history `log` keeps every event, a window is a set of positions in it |
| `ServiceSilence` | `service_silence.go` with its two tickers, the cooldown and the send | `lastSeen`, `seenCount` under the rule's mutex, so a method is one step; `Alert` is the rest of the watcher's loop body, whose send is lost when the channel is full |
| `RuleRace` | `error_rate.go` and `repeated_failure.go` without a lock, over `window.go` | one step per load and store of `windows`, `head`, `count`; the kind of rule decides whether `Reset` deletes |
| `KafkaConsumer` | `consumer.go`, the workers' receive loop, `IndexLog`'s index and id | `Start`, `Poll`, `Send`, `Mark`, `Skip`, `Close`, `Rebalance`, `Take`, `Process`; external: `Arrive`, `AutoCommit`, `Flush`, `NextDay`, `Crash` |
| `Shutdown` | `wire.go`, composing consumer, workers, engine output, dispatcher, servers and indexers at the level of their channels | one step per channel operation, per output of the dispatcher and per call of the watcher |
| `SearchApi` | `api/logs.go`, `api/anomalies.go` over the searches and look-ups of both indexers | operators only: from raw parameters and the index to status, data and total, which counts all that matches (`TrackTotalHits`). A search selects positions of the index (`At`) |
| `EndToEnd` | `cmd/e2etest/main.go` against the producer client, the pipeline and `SearchApi` | `main` by phases (`pc`), its workers, its sampler, the callbacks (`Settle`), the pipeline (`Index`) |
| `MCDetectionRules` | the six rules for TLC: a behaviour follows one of those of `WindowRules`, or that of `ServiceSilence` | `followed`, and the variables of both |
| `MCRuleRace`, `MCEndToEnd` | symmetry of the workers; the files to replay | |
| `DetectorEngineProofs`, `SlidingWindowProofs`, `WindowRulesProofs`, `ServiceSilenceProofs`, `RuleRaceProofs`, `KafkaConsumerProofs`, `ShutdownProofs`, `EndToEndProofs` | theorems | |

How they fit together. `Shutdown` composes the components at their channels and
leaves offsets to `KafkaConsumer` and cooldowns to `DetectorEngine`. The rules are
seen from three sides: `DetectorEngine` lets any of them fire, `WindowRules` and
`ServiceSilence`, which share `DetectionConfig`, say what they answer when calls are whole,
`RuleRace` takes the calls apart. The first three each carry the engine's cooldown, and
each is proved to implement the same `AlertDedup`: what passes the cooldown of a key is
spaced by it. Whether what passed is also sent depends on the room in the channel, which
`DetectorEngine` and `ServiceSilence` model. `WindowRules` keeps windows below their capacity,
`SlidingWindow` is about the capacity. `EndToEnd` is the reader at the far end, and calls
`SearchApi` as the tool calls the API.

What the plan has left: the readiness probe, whose answer depends on the broker and on
Elasticsearch only.

## 3. Runs

| Run | Question | Bounds, and why they are enough |
|---|---|---|
| `SlidingWindow` | Do the indices stay in range and do `Add` and `Evict` do only what `RecentEvents` allows? | capacity 3, 7 arrivals between resets of `head`: the array wraps twice, and can be emptied, partly kept and full at any offset |
| `SlidingWindowWrap` | Is the count that of the recorded events? *Violated* | same |
| `DetectorEngine` | Do cooldown and warm-up hold in every interleaving? | two workers race for one key against the heartbeat and the eviction loop; the clock runs to 6, past cooldown (2) plus the eviction age (4); channel of 1, so that it is full |
| `DetectionRules` | Does forgetting change a rule's answer or its cooldowns, and does it hold little? Are silences found in time, once, and truly, and what is never alerted? | Five rules: window 1, eviction every 2, cooldown 3, clock to 5: an event can outlive a window, an eviction and a cooldown, in each phase; threshold 2 and three events that are one early or up to one late, so a window fills, empties and fills again, out of order; breach rate 50, that two of three and one of three straddle; hours that are ordinary, and across midnight, in two zones. Two services, one of each other key: keys do not interact except through a service's cooldown. Silence: threshold 1, two logs to be tracked, check interval 2 (the largest for which `Reset` comes late enough), every initial phase of the tickers, a clock of its own to 12, past the age at which a cooldown must be gone (8): several outages, suppressed and lost ones and the eviction of cooldowns fit in |
| `ServiceSilenceRetrack` | Does a reported service have to log `MinLogCount` times again? *Violated* | as for silence in `DetectionRules` |
| `KafkaConsumer` | Is only what was forwarded committed, is each record stored, as one document, do loops end? | a log of up to two records, there at the start or arriving later, one with a time stamp; batches of one or two through a channel of one, two workers, one midnight, one crash, one rebalance and a cancellation at any point |
| `KafkaConsumerLoss` | Is a committed record stored or still held? *Violated* | same without cancellation |
| `RuleRace` | How far do unlocked workers and `Reset` derange a window, and what does deleting one cost? | two workers, capacity 2, five entries, two resets: the full test, the increment, the deletion and the eviction overlap in all ways, and again after it. After a deletion four answers may be orphaned, so the fifth entry is the one that can break `OrphansBounded` |
| `RuleRaceFault` | Can it stop the process? *Violated* | same with four entries |
| `Shutdown` | Does a shutdown end, write what was accepted, and lose nothing before it begins? | two workers, two messages, channels of one, an alert channel: every goroutine can be caught before, in and after each channel operation |
| `ShutdownInFlight` | Is everything forwarded accepted for indexing? *Violated* | same, as the server wires it, without an alert channel |
| `EndToEnd` | Is the tool's verdict right, does it end, do pages partition what matches? | two workers, a client buffer of one, up to two generated records or files of none, two (equal stamps) and three lines (out of order, one without a stamp), documents of an earlier run; pages up to 3, sizes up to 2 and a result window of 5, so that both clamps and the window bite; the percentages 60, 40 and 30 tell counts up to three apart as 99, 95 and 90 tell large ones |

The partitions of a consumer do not interact except through the channel's order,
hence one (the theorems hold for any number). Times are small integers because the
code only compares differences with thresholds. Symbols in a `.cfg` such as `w1` are
model values; `MCDetectionRules` declares the services symmetric, `MCRuleRace` the workers,
which they are: no action and no property names one. Every property of a passing run has a mutant: an
operator in the module, marked *Mutant*, that changes one step the way a slip in the
code would, under which TLC finds the property violated.

Deadlock checking is off where the system really comes to rest: a consumer
that is closed, a worker with no more entries, a process that has exited, a
clock at its bound in `DetectionRules`, where nothing may be left to evict. `DetectorEngine`
and `SlidingWindow` keep it on; there some step is always possible.

### Fairness

`KafkaConsumer`, `Shutdown` and `EndToEnd` state liveness.

- `KafkaConsumer`: weak fairness of `Run` and of each worker, since goroutines of a
  running process are scheduled, and of `Flush`, since the bulk indexer flushes on a
  timer. `Arrive`, `Crash`, `Cancel`, `Rebalance` and `AutoCommit` have none: they
  may never happen.
- `Shutdown`: weak fairness per goroutine and for flushes. `StopPolling` is weakly
  fair because `PollFetches` returns once its context is done; the dispatcher's step is
  because `IndexAnomaly` and `Send` are given the context that ends them.
  `EndDispatch` is strongly fair: the dispatcher's `select` meets both a waiting
  anomaly and `ctx.Done` again and again, and Go chooses at random among ready
  cases. Nothing makes the deadline expire or a server fail, and none is needed for
  a shutdown to end, since `Flush` is fair; with Elasticsearch down `Close` returns on
  the deadline instead, which `Expire` allows at any moment.
- `EndToEnd`: goroutines are scheduled and timers fire, the drain's deadline
  included. `Settle` is fair because the broker answers: kgo retries a record without
  end, so with the broker down a worker would wait in `Produce` for ever, and that is
  assumed away. `Index` is not fair: the tool must end whatever the pipeline does.

### What the violations show

1. **`SlidingWindowWrap`** - `window.go:49` appends kept entries to `w.timestamps[:0]`,
   the array it reads. Once the buffer has wrapped, the oldest entries are not at its
   start, so slots are overwritten before they are read; `CountWithin` then counts some
   events twice and misses others. `RefinesUnlessWrapped`, proved for any capacity, shows that
   this is the only way in which the buffer breaks its promise. `latency.go:60-72` has the same loop.
2. **`KafkaConsumerLoss`** - the requirement that offsets are committed after downstream
   processing (`REQUIREMENTS.md:13`) does not hold: they are marked on entry to the channel.
3. **`RuleRaceFault`** - `Evaluate` is documented as safe for concurrent use
   (`engine.go:88`), the rules' maps are not locked.
4. **`ShutdownInFlight`** - workers drain the channel as required, but with the cancelled
   context, with which the bulk indexer's `Add` may refuse the entry.
5. **`ServiceSilenceRetrack`** - by the comments at `service_silence.go:61-63` and `:84` a
   reported service is tracked again after `MinLogCount` more logs. `CheckSilence` keeps its
   `seenCount`, so one log suffices.

One more disagreement is shown by a property that holds. `REQUIREMENTS.md:35` asks that window
state of inactive services be cleaned up so that memory stays bounded. `MemoryBounded` shows
that of the events in every window, and of the windows themselves in `repeated_failure.go`
and `auth_burst.go`. `error_rate.go` and `latency.go` keep a window, with its arrays, for
every service they ever counted: `WindowPerService`, checked in `DetectionRules` and proved.

### What else the models say of the code

Engine and rules:

- An anomaly that finds the channel full is dropped after its cooldown was entered, so its
  repeats are suppressed too (`DetectorEngine!SendOrDrop`, `ServiceSilence!Alert`).
- An outage goes without an alert if an anomaly of the service passed less than a cooldown
  before, or if its own met a full channel; these are the only cases
  (`UnalertedOnlyAsRepeatOrLost`). The earlier anomaly may itself have been lost.
- That a silence is reported at all rests on `CheckInterval <= 2 * SilenceAfter` (by default
  30 s against 5 min, `SilenceFoundInTime`): with rarer checks `Reset` may drop a service whose
  silence nobody has reported.
- Reported services have left `lastSeen`, so `Reset` does not find them and their count stays
  in `seenCount` until they log, and are then silent for three thresholds at an eviction.
- Races on a window lose events and invent none (`RacesOnlyLose`). The capacity is no
  such bound: `count` may pass it, because workers that all saw room store what they loaded
  in any order, and a scan may then compute a negative index.
- Answers computed from a window that is no longer in the map are at most one per worker and
  deletion, plus one per pair of workers each time the window is (re)created
  (`OrphansBounded`).
- Bursts of several addresses share their service's cooldown: one hides the other. Business
  hours that end where they start, or cross midnight, are empty: every hour alerts
  (`WindowRules!OffHours`).

Consumer and shutdown:

- With `initial_offset: newest` a group that dies, or is rebalanced, before its first
  commit skips what arrived in between (`passed` in `EveryRecordStored`).
- The callback's return on cancellation skips one record and may mark a later one
  (`skipped` in `MarkedWasSent`).
- A record without a time stamp that is read again on another day becomes two
  documents (`ReprocessingIsIdempotent`: the only case); looked up by id, the first of
  the two is returned.
- The watcher closes indexers that workers may still use, which may end the process
  (`panicked`); the dispatcher leaves anomalies in the channel when it is cancelled.

API and test tool:

- Searches name no sort: pages are consistent only while the index is at rest
  (`PagesPartition` is stated for that). A page beyond `MaxPage` repeats the last one; a page
  within it but beyond the result window is a 500; bounds of a time range lose their
  fraction of a second.
- `VerdictRight` says what a verdict is worth: a PASS counts what the API holds since
  the start, cut to the second, so documents of an earlier run in that second, and
  records whose callback reported an error although they arrived, are included. An
  interrupted drain reports no documents, one whose polls all fail reports -1, and an
  error answer reads as zero. After a flush that timed out the total can be short.
- A replay does not wait for its sampler (`main.go:792` reads what it may still
  write).
- Noticed but not modelled: the report names a rule `latency_threshold` whose id is
  `latency_threshold_breach`, so its breakdown never shows one.

## 4. Proofs

`tlapm` checks every step; the only assumptions are the `ASSUME`s on the
constants, which TLC evaluates in each run, and where a theorem says so a
hypothesis on a constant.

`DetectorEngineProofs`, for any sets of workers and services, any number of
detectors, any cooldown, warm-up and channel capacity:

- `TypeCorrect`, `WarmupHolds`. The inductive invariant is `IInv == TypeOK /\ Ready /\
  PastWarmup`: `TypeOK` alone does not say that a thread at its send has an anomaly to send
  (`Ready`), nor that a thread inside a loop entered it after warm-up
  (`PastWarmup`) and that what it lets through is therefore late enough.
- `CooldownHolds`, `EvictionIsSafe`. `CooldownSpacing` is not inductive: that the *next*
  alert is far enough from the last needs the map to remember the last one, or that one
  to be older than twice the cooldown. So `CInv == CooldownsRemember /\
  CooldownSpacing` is proved over `IInv`: `FireEffect` for the one action that lets alerts
  through, `StepKinds` to reduce all others to "history unchanged" or "map evicted".
- `EngineImplementsAlertDedup`: the whole engine, with evictions, sends, drops and
  `Stop`, implements `AlertDedup` under `last[k]` = the latest entry of `fires[k]`. Every
  step is an abstract `Alert`, a `Tick` or a stutter (`StepRefines`).

`SlidingWindowProofs`, for any capacity and window length: `TypeCorrect` (no
index leaves the array, in `Add` and at each iteration of `Evict`) and `IndicesHold`
(`count` is the smaller of `head` and the capacity, and `Evict` never keeps more than it has
read). The two are inductive only together: `EvictEntry` writes slot `kept`, which
is inside the array because `kept <= i < count <= Cap`. On top of them:

- `CountHolds` (`CountScansContents`): distance `k` from the newest entry is distance
  `count - k` from the oldest (`CountedFromEitherEnd`), also where the remainder wraps, so
  `CountWithin` and `Evict` speak of the same entries.
- `RefinementHolds` (`RefinesUnlessWrapped`): each `Add` and each iteration of `Evict` that
  has not wrapped is a `Record`, a `Forget` or a stutter of `RecentEvents`. `Place` gives the slot of
  the k-th oldest entry, in the middle of an eviction too; an iteration writes slot
  `kept <= i`, which an unwrapped buffer has already read. `UnwrappedImplements`: a run in which
  no `Evict` meets a wrapped buffer implements `RecentEvents` as a whole.

`WindowRulesProofs`, for any services, keys, window, threshold, breach rate,
eviction interval, cooldown, and events early, late and out of order by any amount:
all five properties of the run that are about `WindowRules`. `IInv == TypeOK /\ LogOK /\
Tracking /\ Fresh /\ Remembered /\ WindowPerService`.

- `AnswersHold` rests on `Tracking`: a window may have forgotten old events, but holds
  every event that is still recent, and only events of its own key. So what the rule
  counts is what a rule with the whole log would count (`AnswersAsIfNothingEvicted` compares
  the two), also for the integer percentage of `latency.go:145`.
- `MemoryHolds` rests on `Fresh`: what survived the last eviction was recent then.
- `WindowsAreKept` (`WindowPerService`): of the rules that never delete a window, the keys of
  the map are exactly those of the log; it is inductive as it stands.
- `RulesImplementAlertDedup`: every rule implements `AlertDedup` over the services, under
  `LatestPassed[s]` = when an anomaly of `s` last passed, or none. `Answer` takes the engine's
  map, of which evictions and the clock have dropped entries, for the history; `Remembered`
  says that the two agree, and `Suppressing` that the map holds the latest entry of a
  service as long as it can still suppress one, because `Evict` removes only what is older
  than twice the cooldown.

`ServiceSilenceProofs`, for any services, thresholds and periods: all six
properties of the run that are about `ServiceSilence`. The periods never enter as numbers;
the argument is about the latest check.

- `SilenceIsFoundInTime`: `CheckedInTime` says that no tracked service was silent at the
  latest check, so none is overdue by more than one interval now; `Tracked`, that `lastSeen`
  holds the latest log. `Watched` adds that a service with enough logs since its latest
  report is tracked, which is where the theorem needs its hypothesis
  `CheckInterval <= 2 * SilenceAfter`: then `Reset` finds nothing to remove.
- `UnalertedHolds`: `Pending`, the service of a report that is still to be handled is either
  still silent or has logged at this very instant, because the watcher handles reports
  before the clock moves. `Accounted`, any other silent service was alerted, or an anomaly
  of it had passed when its silence began to count; `SentIsAlert`, what passed later and was
  sent is the alert. `Latest` ties that to the engine's map.
- `CooldownsGo` rests on the second half of `Latest`: nothing that was stale when `evictLoop`
  ticked last is left.
- `NoFalseAlarm` and `OneReport` follow from `Tracked`.
- `SilenceImplementsAlertDedup` is the same refinement as that of `WindowRules`, with
  `Latest` in the place of `Remembered`.

`RuleRaceProofs`, for any number of workers, events and resets and any capacity:
the three invariants and `WindowSettles`. `IInv == Shape /\ Control /\ Budget /\ Fields /\
Potential`; each part counts workers by where they are.

- `TypeCorrect` rests on `Budget`: an entry creates at most one window, is added once and
  answered once, so windows, fields and lost answers never pass the entries read.
- `RacesHold` (`RacesOnlyLose`) rests on `Fields`: `count <= added` alone is not
  inductive, since a worker stores what it loaded long before, plus one. `InWindow` keeps
  room for every worker that has yet to store its increment, `InHand` for what each has
  loaded.
- `OrphansHold` (`OrphansBounded`) rests on `Potential`, which bounds twice the answers lost
  or still to be lost. With `p` workers that have a window of their own still to put
  into the map, each such assignment can orphan only the `N - p` that have none; the
  term `p * (2 * N - p - 1)` falls by twice that with each assignment, and a deletion pays
  for all workers and for the window's next creation (`OneMoreDeletion`).
- `WindowSettlesHolds` needs the control part only: who replaces the window.

`KafkaConsumerProofs`, for any partitions, workers, capacity, and number of crashes,
rebalances and days: all four safety invariants and `CommittedNeverRewinds`.

- `CommitsHold` (`MarkedWasSent`): a mark jumps to the head of the batch, so everything
  before that record in its partition must be known already. `Ahead` says so of every
  record of the batch, `Reached` of the fetch position; a rebalance moves the position
  back to a commit, a crash drops the batch, and both may pass records over when nothing is
  committed.
- `BackPressureHolds` (`NothingSkipped`): `Kept`, without crash and cancellation what was
  sent is in the channel, in a hand or a document.
- `IdempotenceHolds`: `DatedOnDay0` and `Once`, without crash and rebalance a record is
  in one place at a time - in the rest of the batch, once in the channel, in one hand, or
  one document.
- `CommitsGrow`: `Ordered`, the marks are never below the commits.
- `CancelledRunWindsDown` and `ClosedChannelWindsDown` are what liveness needs apart from
  fairness. `RunLeft` is how many steps `Run` is from its closed channel: after
  cancellation each of its steps lowers it, and a rebalance, a commit or a worker
  does not raise it. `DrainLeft` says the same of the channel and the workers' hands once
  the channel is closed, for finitely many workers. `CancelEndsRun` and
  `ClosedChannelDrains` follow from them once the goroutines are scheduled, which is
  the part TLC checks.

`ShutdownProofs`, for any workers, messages, servers and channel capacities: all three
invariants, and what `ShutdownCompletes` rests on.

- `TypeCorrect`: `IInv` adds to the types that a goroutine has something in hand exactly where
  it is about to use it (`Hands`).
- `AcceptedHolds` (`AcceptedIsStored`) rests on `Closing`, the watcher's order as an
  invariant: an indexer is closed from the call of its `Close` on, and refuses from then on;
  and on `Drained`: a `Close` that returned before the deadline left it empty, which it
  therefore stays, whatever workers still running try to add.
- `NothingLostHolds` (`NothingLostWhileRunning`) rests on `Accepted`: until `gCtx` is
  done, `Add` accepts, so a worker past its `IndexLog` and the dispatcher past its
  `IndexAnomaly` hold something an indexer has.
- `NobodyWaitsForever`: once `gCtx` is done, the process has panicked or ended, or one of the
  guards in `CanMove` holds, which are those of the steps `Fairness` makes happen. It
  needs `Gone`: a server the watcher has passed is not left in the group.
- `EveryStepCounts`: with finitely many workers every step, those of faults too, lowers
  the natural number `StepsLeft`: a message may still be sent, taken, indexed,
  flushed, evaluated and become an anomaly, which is taken, indexed, flushed and
  alerted; each goroutine has so many steps to its end. So no behaviour is
  infinite, and with `NobodyWaitsForever` a shutdown can only end, in whatever order the
  goroutines run. What is left to TLC is that `CanMove` implies `ENABLED` of a fair step.

`EndToEndProofs`, for any number of workers, client buffer, percentages and files (any
time stamps, in any order, or none), and any limits of the API:

- `TypeCorrect`, `VerdictHolds` (`VerdictRight`). `IInv == Shape /\ Dated /\ Once /\ Sent /\
  Judged`. That a poll sees every record that has arrived needs `Dated`: a replayed time
  stamp is shifted and scaled, and never comes to lie before the second of the start
  (`RebasedAfterStart`, over `SecondOf` and `FiniteHasBounds`). That it sees no record twice
  needs `Once`. `AckedAreCounted` and `CountedIsKnown` compare the three numbers - records
  acknowledged, documents counted, documents there are - by one-to-one maps between
  them. `Sent` ties `totalSent` to the records: it is exact after a flush that succeeded,
  and too small at worst otherwise. `Judged` carries that to the verdict: what the latest
  polls counted is still there, and a complete poll has ended the drain.
- `PagesJoinUp`: the pages of a search, as many as have room for what matches, read one after
  the other are what matches. `EveryPositionOnOnePage`: every position of a result is on
  exactly one page, found by a reader that asks for one page more than the total fills.
  `ClampedOnce`: what the handler has clamped the indexer leaves alone.
- `PagesHold` (`PagesPartition`): the same of the handlers themselves, for logs and for
  anomalies, any index, any filter and any limits. The lemma `SelectionIsInOrder` says what `At` selects
  whatever the positions: each once and in their order (`NthIs` counts the positions up
  to the k-th). The parameters of a query stay the same from page to page
  (`QueryOfPage`), so all pages are cut from one selection, and each document in it is found
  by its id because it is a document of the index.

Where a proof goes by induction (`FiniteHasBounds`, `PagesJoinUp`) it takes a smallest
counterexample, which is a statement about sets, instead of an induction theorem, whose
parameter is an operator.

Only model-checked: liveness, since the prover does not reason about fairness and
`ENABLED`. Every invariant and action property of the passing runs is a theorem.

## 5. Not modelled

- Of `Parse`: the fields other than the time stamp, and `NormaliseLevel`: data no
  property depends on. That nothing is dropped, and what a line that is no JSON object
  becomes, is in `KafkaConsumer!IndexDay` and `Process`.
- Of the API: `/health`, `/ready` (an oracle in `EndToEnd!healthCheck`), middleware and JSON.
- Of the test tool: the phases, which set mix and rate of the generated records, and
  the printed breakdown. The load test tool has the same workers, deadline and flush,
  and judges nothing.
- The broker beyond one group's offsets, and Elasticsearch beyond "a flush writes
  the buffer" and "a search returns what matches, in the index's order": external,
  described by how the server uses them. Failed flushes are not modelled: the server
  only counts them.
- Sequential set-up in `runPipeline` before the errgroup, configuration, metrics,
  logging, HTTP formatting, templates: no state that outlives a call.
- The order in time of memory operations below single loads and stores: `RuleRace`
  interleaves them in program order, which Go does not promise for racing code;
  what it finds reachable is reachable, the bounds it confirms hold under that order.
- The generators and dashboards.
