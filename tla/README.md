# Crypto Momentum Scout: a verification project

TLA+ modules that model the program under `src/app`, TLC configurations that
check them on small instances, and theorems about them whose proofs TLAPS checks
for every value of the constants.

The program watches the spot pairs of one exchange. Every minute it ingests the
newest candles, computes a snapshot of signals, runs a state machine per symbol
over it, and writes alerts; another service delivers them to a chat, a third
evaluates entries an hour later. All of it is one asyncio process over one
PostgreSQL database.

## 1. The system

| Component | Source | State it keeps | Operations |
|---|---|---|---|
| Alerting state machine | `state_machine.py`, `alerting.py` | tables `signal_state`, `alerts` | one scan: exits, then entries, one commit |
| Scan hook, lifespan | `main.py` | `app.state`, the background tasks | start, shutdown, `_update_latest_signals` |
| Signal engine | `signals.py`, `features.py`, `scoring.py` | none (`app.state.latest_signals` is only shown) | `compute_latest_signals`: load the universe, compute, check order books |
| Candle ingestion service | `jobs/candle_ingestion.py` | its sleep, the running hook and its flag, time of the last prune | backfill, tick, ask for a scan, prune, cancel |
| Candle buffer and table | `candles.py` | `CandleStore`, table `candles_1m` | upsert, latest, upsert of rows, prune |
| Alert delivery service | `jobs/alert_delivery.py` | columns `delivered`, `delivery_attempts`, ... of `alerts`; pause and failure count in memory | batch, attempt, commit, pause |
| Notifier | `notifier/slack.py` | none | `send_text`: up to five posts with waits |
| Evaluation job | `jobs/evaluation.py`, `evaluation.py` | table `alert_evaluation` | batch, compute, insert |
| Universe | `universe.py` | tables `instruments`, `ticker_24h`, `universe_membership` | select, refresh |
| Settings | `config.py`, `config_store.py`, `POST /config` | `app.state.settings`, table `config_kv` | load, change |
| Exchange client | `exchange_client.py` | a semaphore | four requests, each with retries, all sharing the slots |
| Schema, engine, clock, statistics | `models.py`, `db.py`, `time_utils.py`, `stats.py` | declarations | - |

How they interact:

- The ingestion service awaits the startup refresh of the universe, then calls the
  hook after every tick, whether or not the tick succeeded. The hook runs as a task of
  its own; ticks that find it running set a flag and it runs once more.
- A scan reads `app.state.settings` once, when it starts; the universe twice, with
  the snapshot between; the candle store while it computes the snapshot. Between two
  awaits nothing else runs in the process.
- State machine, delivery and evaluation share only the table `alerts`. Each commits in
  transactions of its own, and delivery and evaluation never write what the state
  machine reads.
- A refresh of the universe and a change of the settings may come at any await of a
  scan, an ingest or each other.

What is hard in it: interleavings at awaits (ticks and the hook, refreshes,
concurrent requests, the minute that ends while answers are on their way), one step of several
failing (one fetch, one statement, the commit of a whole batch), crashes between two
steps that belong together, budgets over a window that slides while counters are
carried along, clocks that are set back, and limits (batches, buffers, attempts).
`PROJECT.json` lists these hazards line by line, with the properties against each.

## 2. The modules

| Module | Models | Extended or used by |
|---|---|---|
| `StateMachine` | hook and scan, with clock, settings and universe moving at its awaits | `MCStateMachine`, `StateMachineProofs` |
| `StateMachineProofs` | theorems about it: types; budgets; cooldowns and histories; whole scans; peaks | |
| `Signals` | a snapshot between the candle store and the order books, while minutes pass, candles are missed and the universe changes | `MCSignals`, `SignalsProofs` |
| `SignalsProofs` | theorems about it: what rows are computed from, the age of a snapshot, its promise; ranks, scores and order; order books and their calls; what silences a symbol | |
| `Scoring` | percentile ranks, score and thresholds in whole numbers | `Signals` |
| `ExchangeClient` | calls with retries that share the slots of a semaphore | `Signals`, by `INSTANCE` |
| `SnapshotPromise` | what a snapshot promises the state machine (abstract) | `Signals`, by `INSTANCE` |
| `AlertDelivery` | the delivery service, its batches, delays, pause, crashes and failed commits | `MCAlertDelivery`, `DeliveryProofs` |
| `DeliveryProofs` | theorems about it: attempts, posts, ages, delays, pauses and waits | |
| `SlackNotifier` | every length and outcome of one `send_text` | `MCAlertDelivery`, by `INSTANCE` |
| `IngestionService` | ingestion service, hook, shutdown and restart, memory and database | `MCIngestionService`, `IngestionProofs` |
| `ScanOnRequest` | what ingestion promises the hook (abstract) | `IngestionService`, by `INSTANCE` |
| `IngestionProofs` | theorems about it | |
| `CandleBuffer`, `NewestCandles` | the sorted list; a map of the newest candles (abstract) | `CandleBufferProofs` |
| `CandleBufferProofs` | theorems about it: the binary search, the order of the list, the refinement | |
| `Evaluation` | the job against the arrival of candles | `MCEvaluation`, `EvaluationProofs` |
| `EvaluationProofs` | the theorem about it | |
| `SettingsStore` | concurrent `POST /config`, the table, crash and load | `SettingsProofs` |
| `Universe` | selection and the refresh transaction with its locks | `UniverseProofs` |
| `UniverseProofs` | theorems about it: types and locks, what is selected, what is active | |

Every definition that stands for code is mapped to its lines in `PROJECT.json`. An operator
introduced by a comment "Mutant:" is a faulty variant of the definition after it. It is not
part of the model; each property is broken by one of them, under its own run, which
shows that the property depends on that piece of code.

### State machine

`StartScan` captures the settings (`main.py:83`) and what the snapshot is made of;
`BeginScan` has any snapshot the signal engine could return and reads rows and counters from the
database; `KeepIn`, `ExitWithAlert` and `ExitSilently` are the three ways through the body
of the exit loop, `Enter` the body of the entry loop; `Commit` and `Abort` end the
session. `st` and `alerts` are the tables as committed, `wst` and `walerts` as the
open session sees them. `rows = NoRows` is a snapshot with an error.

Each alert carries the settings it was created under (`cfg`); no code reads it.
`last_state_change_ts` and the texts of alerts are left out: nothing
reads the first, and the second only go to the reader. The environment does not move between
`BeginScan` and `Commit`: the two loops contain no await, since the order books are checked while the
snapshot is computed (`signals.py:180-202`) and what they answer is part of a row (`spreadOk`).
`BeginScan` joins the four queries a session begins with: only scans write alerts and state rows, and the universe
is read by one of the four. `StartScan` reads universe and candles in one step; `BeginScan` reads the
universe again.

The time of snapshots (`t0`) is that of the newest candle of the baseline. It does not go back while the
baseline is one symbol (`OneBaseline`); with another baseline it may.

### Signals

`compute_latest_signals` awaits twice. `LoadUniverse` is the first await, `Compute` (or `Fail`) all
that is done between the two, `FetchBook` one step of one of the concurrent calls of `get_book`, `Finish`
the end of the `gather` with the gates that depend on it, and `HandOver` the caller going on with the
result. `Minute` and `RefreshUniverse` may come at either await: a minute begins and its poll brings
the closed candles of some symbols (the others are missed), or the universe is replaced.

Candles are named by their minute and have no prices. Whether a symbol has the candles its features
need is decided exactly as `features.py` does: the offsets for which symbol and baseline have
a close, the windows of dollar volume and of the breakout, and the complete buckets of the slow trend
(`HasCandles`, `ClosedBuckets`). What the features then are is any value of `Feature`, or none,
which stands for a price or a volume of zero. `Scoring` counts percentiles in half ranks and multiplies
scores out, so that no fraction is left; floating-point rounding is not modelled.

`ExchangeClient` follows each call through the queue of the semaphore, the open request, the wait
and the next try. It stands for every endpoint; `Signals` composes it with the snapshot for the order books.
The length of a wait is left out (a wait ends at any time).

`SnapshotPromise` is what the state machine relies on and what `StateMachine` builds its `Snapshots`
from: one universe, one candle time, rows for members other than the baseline, or a failure.

### Delivery

The service selects a batch (`StartBatch`), tries each alert in turn (`SkipNotDue`,
`BeginSend`, `SendOk`, `SendFail`) and commits once (`CommitBatch`). Time passes only in
sleeps and in `send_text`. `TickFails` and `Restart` lose the batch. The service without a
webhook, which does nothing, and `delivery_error` are left out.

What a call may come to is the set `Calls`: how long it took, whether it returned, and how many messages
were posted or posted without an answer. `SlackNotifier` computes that set from `send_text` itself: five
posts, each answered at once or at its timeout, the backoff that doubles after a 5xx or no
answer and stays after a 429, and a wait after the last failed post as well. A status below
400 counts as delivered, a redirect included. The timeout of the HTTP client applies to each of its phases; a post
that takes its whole timeout in one of them stands for the others.

### Ingestion

A round of fetches is one record: its cutoff, read before the first of them, and the
minute each answer came in. `Remember` updates memory, `Store` or `StoreFails` the
database, and both are followed, in the same step, by asking for a scan and deciding upon
a prune: the code does not await in between. Minutes pass between any two steps. `live`
counts the hook tasks that run. The exchange has a candle for every minute and symbol;
`fetch` may fail for any symbol. An upsert in several statements is one step, as they share
their transaction. `lastPrune` is set with the decision.

### Settings and universe

`SettingsStore` follows one row through write, lock, commit and assignment. `Universe` has the
statements of a refresh: `PersistMarketData` locks the rows of all instruments listed,
`BeginDeactivate` fixes what the UPDATE sees and `Deactivate` changes it, `Upsert` writes the
members. Locks within a statement are taken at once; a statement that would deadlock on them is one
that fails (`Fail`). Two answers of the exchange are assumed to share an instrument (`Anchor`).

## 3. The runs

Each run finishes within two and a half minutes on two cores, most of them within half a minute.

| Run | Module | Shows |
|---|---|---|
| `alerts` | `MCStateMachine` | `TypeOK`, `RollingBudgets`, `CooldownsKept`, `CountsExact`, `NoFlapping`, `MissingIsClosed` |
| `peaks` | `MCStateMachine` | `InMeansUpWasLast`, `PeakBelongsToEntry`, `SlowingClosesUp`, `FailedSnapshotChangesNothing` |
| `signals` | `MCSignals` | `RowsNeedFetches`, `OnlyMissesSilence`, `OldOnlyIfMissed`, `RanksAreMidranks`, `BetterNotBehind`, `BestAreChecked`, `CallsEndInOrder`, `SnapshotsComplete` (liveness), `KeepsPromise` (refinement) |
| `delivery` | `MCAlertDelivery` | `AttemptLimitButLost`, `DuplicateNeedsFault`, `StaleByOneBatch`, `TriedBeforeStale`, `DelaysKeptButForBatch`, `PauseJustified` |
| `ingest` | `MCIngestionService` | `OnlyFinalCandles`, `GapNeedsMisses`, `OneScanAtATime`, `QuietAfterClose`, `ServesEveryTick` (refinement, liveness included) |
| `eval` | `MCEvaluation` | `EvaluatedForGood`, `EveryEntryEvaluated` (liveness) |
| `buffer` | `CandleBuffer` | `StrictlySorted`, `KeepsNewest` (refinement) |
| `config` | `SettingsStore` | `TypeOK`, `AnsweredStays`, `OnlyCommittedInEffect` |
| `universe` | `Universe` | `TypeOK`, `ActiveIsOneSelection`, `SelectionIsTop` |
| `stuck_moving`, `flapping`, `eval_blocked` | | three disagreements, section 6 |

The type invariants of `StateMachine`, `SettingsStore` and `Universe` are checked because proofs start from
them or because they say more than types (a row is locked by one refresh at most).

Bounds, and why they are enough:

- `alerts`: two coins and the baseline, three points in time, a lookback of two of them, so that a
  window both slides and fills; budgets of one or two, so that every one is reached; two sets of
  settings, of which either can be in force when a scan starts and the other when it
  ends; a clock that also goes back. The longest interesting story (enter both, settings
  change, exit one with and one without an alert, enter again) fits.
- `peaks`: four points in time and one coin that leaves the universe, becomes
  the baseline, and returns; a lookback of one, so that an exit without an alert
  happens too.
- `signals`: three coins and the baseline in one universe, two in the other with a baseline of its own, so
  that ties, a universe without its baseline's candles and a snapshot of one row occur; windows of two to four
  candles and buckets of two, so that a bucket is complete or not at either parity; a buffer of four, the shortest that
  holds every window; four minutes from the backfill on and one miss or refresh, which may be a miss of a coin or the
  baseline at any of them (the windows slide past it before the clock stops); three features: one that passes,
  one that is better in one rank and worse in the other, one with a volume beyond the clamp that fails a hard
  gate; two books to check, over one slot with two tries, so that calls queue.
- `delivery`: the constants of the code in units of 30 seconds (a pause of 3, an age
  of 6, delays of 0, 1, 1 and 3 units, four attempts, three failures before a pause) and calls of every
  length up to 7 units, which is what `SlackNotifier` yields for the code's own constants; two alerts,
  one fault. Two alerts are what one of them needs to wait for the other, in a batch
  and in a pause. Times between units are taken both ways (down and up), since a call starts between two
  ticks. One fault is one lost answer, one failed commit or one crash.
- `ingest`: two symbols, so that one may fail and the other not; polls of three candles
  (the default is two: three make a gap of one miss repairable, which is the harder case), a buffer
  shorter than the backfill, one prune and one restart within five minutes.
- `eval`: a window of two minutes with a return at each; two alerts of one symbol or
  of two, one backfill.
- `buffer`: six candle times, each with an old or a new value, in every order and any number of times, of which four are kept.
- `config`: three requests are the fewest of which two overlap and a third comes
  after them; two keys, two values, two faults (a crash and a load that fails).
- `universe`: two refreshes, each repeated without bound; three pairs, one of them BTC, for
  two places, and two volumes, so that ties, a baseline below the top and no
  baseline at all occur.

Fairness, where a run needs it:

- `StateMachine` (`FairSpec`, only `stuck_moving`): the service starts scans for ever, and
  a scan that may be aborted at any of its steps gets through if it is tried
  again and again (strong fairness, since an abort takes a scan back to its start).
- `Signals`: `WF` of a step of some call, or of `Finish`. Every request has a timeout, every wait is a sleep
  of bounded length, and the event loop runs what is ready. Which call moves is left open.
- `IngestionService`: the running scan ends (`WF(HookEnds)`), as every call it awaits has a
  timeout. Nothing is assumed of the service itself.
- `Evaluation`: the job runs on, and `<>[][Abort => Commit]_vars`: its database is
  not down for ever. Nothing is assumed of ingestion: only alerts whose candles are there
  are owed an evaluation.

`CHECK_DEADLOCK FALSE` is set where a bound stops the clock while everything sleeps, where every
alert or request has been used, or where the process may stay closed. `alerts`, `peaks`, `universe`,
`buffer` are checked for deadlock.

## 4. What is proved

`tlapm` checks these for all values of the constants that satisfy the `ASSUME`s of
the modules: any number of symbols, settings, universes and requests, windows, buffers and limits of any size, any clock.

| Theorem | Says | Invariant that carries it |
|---|---|---|
| `StateMachineProofs!TypeCorrect` | `[]TypeOK` | `TypeOK`, inductive by itself |
| `StateMachineProofs!BudgetsRespected`, `CountersExact` | `[]RollingBudgets`, `[]CountsExact` | `BudgetInv` |
| `StateMachineProofs!CooldownsRespected`, `SlowingAnswersUp`, `InAfterUp` | `[]CooldownsKept`, `[]SlowingClosesUp`, `[]InMeansUpWasLast` | `HistoryInv` |
| `StateMachineProofs!FailureWritesNothing`, `MissingClosed` | `FailedSnapshotChangesNothing`, `MissingIsClosed` | `ScanInv` |
| `StateMachineProofs!ApartNeverFlaps` | `NoFlapping`, if all settings are apart (`Hysteresis`) | `ScanInv` |
| `StateMachineProofs!PeaksBelong` | `[]PeakBelongsToEntry` | `PeakInv` |
| `SignalsProofs!RowsFetched` | `[]RowsNeedFetches` | `SignalInv` |
| `SignalsProofs!OldIfMissed` | `[]OldOnlyIfMissed`, if `PollCount >= 2` | `SignalInv` |
| `SignalsProofs!PromiseKept` | `KeepsPromise`, that is `Spec => SnapshotPromise` | `SignalInv` |
| `SignalsProofs!RanksRight`, `BetterFirst`, `BestChecked` | `[]RanksAreMidranks`, `[]BetterNotBehind`, `[]BestAreChecked` | `BookInv`, with `SignalInv` |
| `SignalsProofs!CallsEnd` | `[]CallsEndInOrder` | `CallInv`, a part of `BookInv` |
| `SignalsProofs!SilenceIsMissing` | `[]OnlyMissesSilence`, if `History <= BufferSize` | `SilenceInv`, with `SignalInv` |
| `IngestionProofs!NoOverlap`, `PromiseKept` | `[]OneScanAtATime`, `Spec => ScanOnRequest` (safety) | `FlagTells` |
| `IngestionProofs!FinalCandlesOnly`, `NothingAfterClose` | `[]OnlyFinalCandles`, `[]QuietAfterClose` | `FinalInv`, `QuietInv` |
| `IngestionProofs!GapsNeedMisses` | `[]GapNeedsMisses` | `CoverInv`, with `FinalInv` |
| `DeliveryProofs!AttemptsLimited`, `PostedOnceButLost`, `PausesJustified` | `[]AttemptLimitButLost`, `[]DuplicateNeedsFault`, `PauseJustified` | `CountInv` |
| `DeliveryProofs!OldByOneBatch`, `DelaysKept` | `[]StaleByOneBatch`, `DelaysKeptButForBatch` | `TimeInv`, with `CountInv` |
| `DeliveryProofs!TriedInTime` | `[]TriedBeforeStale`, while at most `K` alerts are pending, if `K <= BatchSize` and `2K - 1 + LongestSleep <= MaxAge` | `WaitInv(K)`, with `TimeInv` and `CountInv` |
| `DeliveryProofs!FewTriedInTime` | the same for `K` alerts in all | `TriedInTime` |
| `EvaluationProofs!EvaluatedOnFinalCandles` | `[]EvaluatedForGood` | `FinalInv` |
| `CandleBufferProofs!AlwaysAscending`, `NewestAreKept` | `[]StrictlySorted`, `KeepsNewest`, that is `Spec => NewestCandles` | `BufferInv` |
| `SettingsProofs!SettingsTypes`, `AnswersKept`, `EffectIsCommitted` | `[]TypeOK`, `[]AnsweredStays`, `[]OnlyCommittedInEffect` | `AnswerInv`, `CommittedInv` |
| `UniverseProofs!OneUniverse` | `[]ActiveIsOneSelection` | `UniverseInv` |
| `UniverseProofs!UniverseTypes`, `TopIsSelected` | `[]TypeOK`, `[]SelectionIsTop` | `TypeInv`; `SelectedTop` |

- `BudgetInv`: `RollingBudgets` speaks of the committed alerts and of windows that start at one of
  them. A step appends to the uncommitted ones, by looking at counters. So the
  invariant says that the counters are what a query would count (`CountsExact`) and that every window
  of either sequence is within budget (`Budgets`). `BudgetAppend` is the heart: if the
  alerts since `ts - lookback` leave room for one more, no window that holds the new alert is overdrawn,
  because all of it is at or after `ts - lookback` and so in the range of that query, which has no upper
  end (a clock that was set back leaves alerts later than `ts`).
- `HistoryInv`: rows and alerts tell the same story in both views (`RowTells`: the times in a
  row are no older than the alerts of its symbol), and, as long as a scan may still make an entry, every
  earlier entry is the global cooldown away (`ScanTells`). The three properties follow from it as
  conjuncts.
- `ScanInv`: the three action properties compare the tables before and after a commit, so the invariant says how the
  open session differs from the tables: not at all after a failed snapshot; OUT for every
  missing symbol the exit loop is done with; closed only for a row by which an exit is possible, and entered only
  if OUT in the tables. With thresholds apart, no row is both an exit and an entry. The
  assumption `Hysteresis` is needed: the run `flapping` shows what happens without it.
- `PeakInv`: a peak is stamped with the candle of its scan. The property compares stamps with the candle times of entries and with
  the newest candle; the invariant puts the captured candle time between them, for the rows and alerts
  of both views, and needs that a row that is OUT has no peaks, or a new entry would begin with an old one.
- `SignalInv`: the properties compare a finished snapshot with the fetches up to the time it was computed, but the store moves on
  while books are fetched. So the invariant says that the store never holds a candle that was not fetched (`StoreInv`) and, if it holds
  any of a symbol, one as new as its last poll could bring (`NewestIsPolled`: the trim keeps the newest); and that what was
  true of the rows when they were computed stays true of the fetches up to that time (`Computed`), since a later poll is of a later minute.
  `PollCount >= 2` is a hypothesis of `OldIfMissed`: a poll asks for the open candle, too, so one of a single candle brings nothing.
  The refinement needs that `None` is not a universe and not a time.
- `BookInv`: when the books are there, the code ranks the rows it ranked before it asked for them. The invariant says that the rows shown are
  those of the features, in the order of a ranking of them, with the gates of exactly the books asked for (`RankInv`), whatever became of the
  calls; and of the calls that a caller is in the queue once if its call is queued, that the requests under way and the free slots are
  all the slots, and that a call that goes on has a try left (`CallInv`). The three properties about ranks and books then follow from lemmas about
  `Scoring` alone: `RanksAre` (a percentile is the midrank, for whatever order the sort leaves ties in), `MidrankMonotone` and
  `ScoreMonotone` (better in everything is not worse in rank and score), `CandidatesAre` (the candidates are the first `TopN` of those that pass).
- `SilenceInv`: a symbol whose last `History` candles were fetched has all that features need, however its newest candle lies in its bucket
  (`HistoryIsEnough`: the complete buckets are counted by an injection from the last `SlowBuckets` of them). That a fetched candle is still held is an
  invariant of its own: every candle fetched within the last `BufferSize` minutes is in the buffer (`RecentHeld`), because only newer ones push it out
  and there is one per minute. `History <= BufferSize` is a hypothesis of `SilenceIsMissing`: with the offsets, windows and 5-minute buckets of
  `features.py`, `History` is 109 (the 21 buckets of the slow average), and `candle_buffer_size` is 300 (`config.py:33`). With a
  shorter buffer every symbol is silent for ever.
- `FlagTells`: at most one hook lives; the flag is set exactly if it lives and a tick came after it
  began; if none lives, every tick has been answered.
- `FinalInv`: what the exchange calls final depends on the minute of the answer, what the service keeps on the
  minute of the cutoff; the invariant carries through a round that no answer is older than the cutoff. `QuietInv`: the service
  is done only when its hook is gone, and nothing it could start a hook from is left.
- `CoverInv`: once a tick answered in its minute is committed, each candle it brought is there or everything up to it is gone: a prune
  and the trim of the buffer only take from the old end, and a later round that reaches back before a candle has that candle, too. Memory is
  written before the database, so the invariant also speaks of the round between the two.
- `CountInv`: the service counts attempts in the rows of its open batch, the table has those of the last commit, the history
  what really happened. A row of the batch is that of the table or that and one attempt more; calls made are the attempts the
  service has at the moment and those lost with a batch; a run of failures is no shorter than the service counts it.
- `TimeInv`: in a batch that has made n calls, the clock is at most n times the longest call ahead of its start, and a
  batch never makes more than `BatchSize` calls. So an alert is called no later than `BatchSize - 1` calls after its age was
  compared and after the time it is stamped with, which is the slack in both properties. The assumptions: finitely many alerts, and a longest call.
- `WaitInv(K)`: as long as nothing has failed and no call took more than a unit of time, an alert not yet tried is in a batch that started no later than
  `K + LongestSleep` after the alert was created, or waits for a sleep or a pause that ends in that time (`WaitFits`); the alert waits out the rest of a batch of at
  most `K` calls, then a sleep or pause, then the other calls of its own batch, `2K - 1 + LongestSleep` in all. That a batch takes everything pending
  needs `K <= BatchSize`. With the constants of the code (an age of 180 s, a pause of 90 s) and calls of up to 30 s, `K` is 2, as in the run; if
  every call is answered within 2 s, 23 alerts may be pending.
- `FinalInv` of `Evaluation`: the properties speak of metrics written long ago and of the candles there are now. Without a backfill an ingest brings all of the last
  `PollCount` minutes, so what is missing below a candle that is there is out of reach of every later ingest (`NoGapToFill`). The code computes metrics only when the candle at the end of
  the window is there, so the window they range over can no longer change (`AllFinal`, for what the open batch has computed, too).
- `BufferInv` is small; the work is in what one `Upsert` does. `BisectFinds` says what the binary search returns in an ascending list of any length. `Placed` then is the
  old list with the candle in it, ascending again (`AppendFits`, `ReplaceFits`, `InsertFits`), and `TrimmedIsNewest` that the tail is what `NewestCandles` keeps.
- `AnswerInv`: the draft of a request in flight keeps every promise made, for as long as it is in flight
  (`DraftsKeepPromises`): a promise is only made by a request that was alone, so no draft can be
  older than it.

- `UniverseInv`: at most one refresh is past `PersistMarketData`, since it holds the row of `Anchor`; so the table does not
  change under it, its UPDATE has seen every row there is, and what it has written is, row by row, what the table has to become.
  That a selection names no instrument twice, which makes the places of the INSERT unambiguous, is a lemma about `Members`.
  The assumptions: the exchange lists finitely many instruments, and any two answers share one.
  `SelectionIsTop` is about `Members`: the pairs by volume, cut at `MaxSize`, with the baseline as one more if it is below the cut. `SelectsTop` says that whoever is left out
  has `MaxSize` members with at least its volume before it, and that the one member more is the baseline with the least; `SelectedTop` carries it until the refresh is done with its selection.

Recursive functions: the binary search of `CandleBuffer` and the ranks of `Scoring` are functions, not RECURSIVE operators, so TLAPS can reason about
them. Both are proved in the same two steps. A function that satisfies the defining equation is written down without recursion (the place of a time, moved into the bounds of the
search; the midranks of the items from a place on), so the one the definition chooses satisfies it, too; and wherever a function satisfies it, it has those values, since
there is no smallest interval, or last place, at which it does not. The second step takes the least element of a set of numbers (`LeastNumber`, from the
library's `WFMin`) in the place of an induction theorem.

TLC checks each inductive invariant on the bounds of its run, too (a quantifier over all numbers replaced by one over those up to a bound).

Every safety property and action property of the passing runs is a theorem. What is only model-checked is liveness: `EveryEntryEvaluated`, `SnapshotsComplete` and
the fair part of `ServesEveryTick`, which need ENABLED and fairness and are out of the prover's reach. Not proved either is that the set `Calls`, which is a parameter of `AlertDelivery`, is
what `SlackNotifier` yields: its recursive operators are evaluated for the constants of the code.

## 5. What the properties leave open on purpose

- Budgets hold while the settings stay: `RollingBudgets` ranges over windows whose alerts
  were created under one configuration. After a change the code counts old alerts against the new budgets.
- `MissingIsClosed` speaks of symbols in the universe the scan finds; see `stuck_moving`.
- `NoFlapping` holds where thresholds are apart: `exitThreshold < entryThreshold` and `stallDvzMax <= dvzMin`.
- `PeakBelongsToEntry` is stated for histories with one baseline. With another one the time of snapshots may go back,
  and a peak may be stamped before its entry.
- `OnlyMissesSilence` leaves out one more reason: a baseline so late that the buffers of other symbols have dropped
  the candles of its time.
- `TriedBeforeStale`, `PauseJustified` and `DelaysKeptButForBatch` are stated without the effect of faults:
  a lost batch takes its attempts with it.
- `EvaluatedForGood` is stated for runs without a backfill, which reaches further back than a poll and may
  fill a window after its evaluation.
- `AnsweredStays` leaves out requests that overlapped. Two concurrent `POST /config` of different
  keys lose one of the changes: both merge into the overrides as they were.

## 6. Where code and documents disagree

Each with a run that TLC ends with a counterexample:

1. `stuck_moving`: a symbol that is IN when a refresh drops it from the universe is never visited
   again, against the comment at `state_machine.py:162`.
2. `flapping`: with an exit threshold not below the entry threshold, which `POST /config` accepts, one scan
   closes a symbol and enters it again, against the hysteresis of `docs/PRD.md:47`.
3. `eval_blocked`: alerts that can never be evaluated stay at the head of the oldest-first batch
   and keep all later ones from it, against `jobs/evaluation.py:43`.

Others are visible as the slack of a property: attempts beyond "initial attempt + 3 retries"
after a lost batch (`AttemptLimitButLost`), a delay measured from the start of a batch instead of the attempt
(`DelaysKeptButForBatch`), an alert sent when older than the age of `jobs/alert_delivery.py:21` because it waited behind
a slow call of its batch (`StaleByOneBatch`), and an evaluation over a window with holes (`Metrics` ranges over the candles there
are, while `tests/unit/test_evaluation.py:56` is named for the full window). `docs/DEPLOYMENT.md:3` lists the
universe refresh among the jobs "on a 1-minute cadence"; the code refreshes it at startup only (`main.py:106`).

## 7. Plan

Done, in this order: the state machine and its proofs; delivery; ingestion, its promise and proofs;
evaluation; the buffer; settings and proofs; the universe; the notifier's own calls; signals, scoring and the exchange
client, with the promise to the state machine; the proofs about whole scans, peaks, final candles, shutdown and the one active universe, and those about delivery, gaps and snapshots; then those about waits, evaluations, the
candle buffer, the selection of the universe, ranks, order books and silence.

Left, in this order:

1. Compose `Signals` and `StateMachine`: today the promise between them is proved on one side and used on the other. A theorem that
   the snapshots `StateMachine` starts from are those `SnapshotPromise` allows would close the gap.
2. The same for the universes `Signals` and `StateMachine` take as given, which `Universe` produces, and for the candles `Evaluation` reads, which
   `IngestionService` writes.

## 8. Not modelled, and why

The read-only endpoints, `/notify/test` and logging change nothing that is read. `stats.py` and the `/eval`
summary only serve a page. The migrations and `models.py` are declarations; the tables appear as
variables. The arithmetic of features and returns is abstracted to what decisions tell apart:
a row has a score, gates that hold or not, a price and a high. Parsing of the exchange's fields (`exchange_client.py`,
`universe.py`, `candles.py`) is left out: a field that cannot be parsed makes an answer a failed one, or an instrument one
that is not listed.
