-------------------------- MODULE IngestionService --------------------------
(***************************************************************************)
(* The candle ingestion service (app/jobs/candle_ingestion.py) and its     *)
(* life in the process (app/main.py, lifespan): wait for the universe,     *)
(* backfill, then every minute fetch the newest candles of every symbol,   *)
(* put the closed ones into memory and into the database, start the hook   *)
(* (a scan) or ask the running one for another run, and prune.             *)
(*                                                                         *)
(* Time is counted in minutes and passes at any await, that is, between    *)
(* any two steps.  A candle is named by the minute it covers; the exchange *)
(* serves the one of the current minute too, unfinished.  Any fetch, read  *)
(* or commit may fail.  The process may be stopped and may be restarted.   *)
(***************************************************************************)
EXTENDS Integers, FiniteSets

CONSTANTS
    Symbol, None, Failed,
    PollCount, BackfillCount,   \* candles asked for by a tick and at startup
    BufferSize,                 \* candles kept in memory
    Retention, PruneInterval,   \* minutes
    MaxMinute,                  \* bound: the clock stops here
    MaxRestarts                 \* bound

ASSUME CountAssumption ==
    {PollCount, BackfillCount, BufferSize, PruneInterval} \subseteq Nat \ {0}
ASSUME BoundAssumption == {Retention, MaxMinute, MaxRestarts} \subseteq Nat
ASSUME NoneAssumption == None \notin Nat /\ Failed \notin Nat /\ Failed # None

VARIABLES
    minute,     \* the current minute
    universe,   \* active symbols in universe_membership
    db,         \* table candles_1m
    mem,        \* the candle store
    pc,         \* where the service is
    wake,       \* when its sleep ends
    fetch,      \* the open round of fetches: count asked for, cutoff, answers
    lastPrune,
    live,       \* after_tasks that are not done
    pending,    \* pending_after
    closed,     \* exchange client and engine are closed
    ticks,      \* history: ingests so far
    seen,       \* history: how many of them the newest scan was begun after
    good,       \* history: ticks whose answer came in their minute and was committed
    restarts

hook == <<live, pending, ticks, seen>>
outside == <<minute, universe, restarts, closed>>
vars == <<outside, db, mem, pc, wake, fetch, lastPrune, hook, good>>

-----------------------------------------------------------------------------
(* Candles *)

Times(S) == {c.t : c \in S}

\* What the exchange answers at minute m, and what is left of it.
Served(m, count) == {[t |-> t, final |-> t < m] : t \in {u \in (m - count + 1)..m : u >= 0}}

Count(f) == IF f.job = "backfill" THEN BackfillCount ELSE PollCount

\* Mutant: candles are compared with the minute in which the answers are read.
ClosedCandlesNow(f, s) == {c \in Served(f.answers[s], Count(f)) : c.t < minute}
ClosedCandles(f, s) == {c \in Served(f.answers[s], Count(f)) : c.t < f.cutoff}

Upserted(S, new) == {c \in S : c.t \notin Times(new)} \cup new
KeepNewest(S) == {c \in S : Cardinality({d \in S : d.t > c.t}) < BufferSize}

Answering(f) == {s \in DOMAIN f.answers : f.answers[s] \in Nat}
\* Mutant: one failed fetch fails the whole round.
RowsOrNothing(f) ==
    [s \in Symbol |-> IF s \in Answering(f) /\ Answering(f) = DOMAIN f.answers
                      THEN ClosedCandles(f, s) ELSE {}]
Rows(f) == [s \in Symbol |-> IF s \in Answering(f) THEN ClosedCandles(f, s) ELSE {}]

NoFetch == [job |-> "none", cutoff |-> 0, answers |-> [s \in {} |-> None]]
NoCandles == [s \in Symbol |-> {}]

-----------------------------------------------------------------------------
(* The service *)

Init ==
    /\ minute = 1 /\ universe \in SUBSET Symbol
    /\ db = NoCandles /\ mem = NoCandles
    /\ pc = "starting" /\ wake = 0 /\ fetch = NoFetch /\ lastPrune = None
    /\ live = 0 /\ pending = FALSE /\ closed = FALSE
    /\ ticks = 0 /\ seen = 0 /\ good = [s \in Symbol |-> {}] /\ restarts = 0

Sleep == pc' = "sleeping" /\ wake' = minute + 1

BeginFetch(job) ==
    /\ pc' = "fetching"
    /\ fetch' = [job |-> job, cutoff |-> minute, answers |-> [s \in universe |-> None]]
    /\ UNCHANGED <<outside, db, mem, wake, lastPrune, hook, good>>

\* The startup universe task is done, and maybe has failed.
Backfill == pc = "starting" /\ universe # {} /\ BeginFetch("backfill")

\* No universe, or it could not be read.
SkipBackfill ==
    /\ pc = "starting" /\ Sleep
    /\ UNCHANGED <<outside, db, mem, fetch, lastPrune, hook, good>>

Ingest == pc = "sleeping" /\ minute >= wake /\ universe # {} /\ BeginFetch("tick")

Answer(s) ==
    /\ pc = "fetching" /\ fetch.answers[s] = None
    /\ \E a \in {minute, Failed} : fetch' = [fetch EXCEPT !.answers[s] = a]
    /\ UNCHANGED <<outside, db, mem, pc, wake, lastPrune, hook, good>>

\* The last answer is in: memory is updated before the database.
Remember ==
    /\ pc = "fetching" /\ \A s \in DOMAIN fetch.answers : fetch.answers[s] # None
    /\ mem' = [s \in Symbol |-> KeepNewest(Upserted(mem[s], Rows(fetch)[s]))]
    /\ pc' = "storing"
    /\ UNCHANGED <<outside, db, wake, fetch, lastPrune, hook, good>>

PruneDue == lastPrune = None \/ minute - lastPrune >= PruneInterval

\* Mutant: a scan is started whether or not one runs.
AskForScanAnyway ==
    /\ ticks' = ticks + 1
    /\ pending' = FALSE /\ live' = live + 1 /\ seen' = ticks'
\* Mutant: a tick that finds the hook running is dropped.
AskForScanOrDrop ==
    /\ ticks' = ticks + 1
    /\ IF live = 0 THEN live' = 1 /\ seen' = ticks' ELSE UNCHANGED <<live, seen>>
    /\ UNCHANGED pending
AskForScan ==
    /\ ticks' = ticks + 1
    /\ IF live = 0
       THEN pending' = FALSE /\ live' = 1 /\ seen' = ticks'
       ELSE pending' = TRUE /\ UNCHANGED <<live, seen>>

\* What follows an ingest, successful or not.
AfterIngest ==
    /\ AskForScan
    /\ fetch' = NoFetch
    /\ IF PruneDue
       THEN pc' = "pruning" /\ lastPrune' = minute /\ UNCHANGED wake
       ELSE Sleep /\ UNCHANGED lastPrune
    /\ UNCHANGED <<outside, mem>>

\* The universe is empty, or could not be read.
SkipIngest == pc = "sleeping" /\ minute >= wake /\ AfterIngest /\ UNCHANGED <<db, good>>

AfterBackfill ==
    /\ fetch' = NoFetch /\ Sleep
    /\ UNCHANGED <<outside, mem, lastPrune, hook, good>>

InTime == {s \in Answering(fetch) : fetch.answers[s] = fetch.cutoff}

Store ==
    /\ pc = "storing"
    /\ db' = [s \in Symbol |-> Upserted(db[s], Rows(fetch)[s])]
    /\ \/ fetch.job = "backfill" /\ AfterBackfill
       \/ /\ fetch.job = "tick" /\ AfterIngest
          /\ good' = [s \in Symbol |-> good[s] \cup {t \in {fetch.cutoff} : s \in InTime}]

StoreFails ==
    /\ pc = "storing" /\ UNCHANGED db
    /\ \/ fetch.job = "backfill" /\ AfterBackfill
       \/ fetch.job = "tick" /\ AfterIngest /\ UNCHANGED good

Prune ==
    /\ pc = "pruning" /\ Sleep
    /\ \/ db' = [s \in Symbol |-> {c \in db[s] : c.t >= lastPrune - Retention}]
       \/ UNCHANGED db
    /\ UNCHANGED <<outside, mem, fetch, lastPrune, hook, good>>

-----------------------------------------------------------------------------
(* The hook, stopping and restarting *)

\* The scan returned or raised.
HookEnds ==
    /\ live > 0
    /\ IF pending THEN pending' = FALSE /\ seen' = ticks /\ UNCHANGED live
       ELSE live' = live - 1 /\ UNCHANGED <<seen, pending>>
    /\ UNCHANGED <<outside, db, mem, pc, wake, fetch, lastPrune, ticks, good>>

\* Mutant: the service leaves its hook behind.
StopAtOnce ==
    /\ pc \notin {"cancelling", "done"}
    /\ pc' = "done" /\ fetch' = NoFetch
    /\ UNCHANGED <<outside, db, mem, wake, lastPrune, hook, good>>
\* The process stops: the service is cancelled where it awaits.  (A rollback
\* that fails after a failed prune ends the service in the same way.)
Stop ==
    /\ pc \notin {"cancelling", "done"}
    /\ pc' = IF live > 0 THEN "cancelling" ELSE "done"
    /\ fetch' = NoFetch
    /\ UNCHANGED <<outside, db, mem, wake, lastPrune, hook, good>>

HookCancelled ==
    /\ pc = "cancelling" /\ live > 0
    /\ live' = live - 1 /\ seen' = ticks /\ pending' = FALSE
    /\ UNCHANGED <<outside, db, mem, pc, wake, fetch, lastPrune, ticks, good>>

HookGone ==
    /\ pc = "cancelling" /\ live = 0
    /\ pc' = "done"
    /\ UNCHANGED <<outside, db, mem, wake, fetch, lastPrune, hook, good>>

Close ==
    /\ pc = "done" /\ ~closed
    /\ closed' = TRUE
    /\ UNCHANGED <<minute, universe, restarts, db, mem, pc, wake, fetch, lastPrune, hook, good>>

\* After a stop or out of a crash.
Restart ==
    /\ restarts < MaxRestarts /\ restarts' = restarts + 1
    /\ mem' = NoCandles
    /\ pc' = "starting" /\ wake' = 0 /\ fetch' = NoFetch /\ lastPrune' = None
    /\ live' = 0 /\ pending' = FALSE /\ closed' = FALSE /\ seen' = ticks
    /\ UNCHANGED <<minute, universe, db, ticks, good>>

Tick ==
    /\ minute < MaxMinute /\ minute' = minute + 1
    /\ UNCHANGED <<universe, restarts, closed, db, mem, pc, wake, fetch, lastPrune, hook, good>>

RefreshUniverse ==
    /\ ~closed /\ universe' \in SUBSET Symbol \ {{}}
    /\ UNCHANGED <<minute, restarts, closed, db, mem, pc, wake, fetch, lastPrune, hook, good>>

Service ==
    \/ Backfill \/ SkipBackfill \/ Ingest \/ SkipIngest
    \/ \E s \in DOMAIN fetch.answers : Answer(s)
    \/ Remember \/ Store \/ StoreFails \/ Prune

Next ==
    \/ Service
    \/ HookEnds \/ Stop \/ HookCancelled \/ HookGone \/ Close \/ Restart
    \/ Tick \/ RefreshUniverse

Spec == Init /\ [][Next]_vars
\* A scan comes to its end: every call it awaits has a timeout.
FairSpec == Spec /\ WF_vars(HookEnds)

-----------------------------------------------------------------------------
(* What must hold *)

\* Scans never overlap (they would count the same budget twice).
OneScanAtATime == live <= 1

\* No tick is forgotten and no scan is run for nothing, however ticks and
\* scans interleave.
Promise == INSTANCE ScanOnRequest
    WITH asked <- ticks, answered <- seen, running <- live > 0
ServesEveryTick == Promise!FairSpec

\* Only fully closed candles are used (SPEC 5), even if the minute ends while
\* the answers are on their way: no kept candle changes any more.
OnlyFinalCandles ==
    \A s \in Symbol : \A c \in mem[s] \cup db[s] : c.final

\* t is missing from S, with candles before and after it.
Gap(S, t) == t \notin Times(S) /\ (\E c \in S : c.t < t) /\ (\E c \in S : c.t > t)

\* A candle is missing from the midst of a series, in memory or in the
\* database, only if every tick that could have brought it was missed, came
\* late, failed or was lost: PollCount - 1 ticks in a row.
GapNeedsMisses ==
    \A s \in Symbol, t \in 0..MaxMinute :
        Gap(mem[s], t) \/ Gap(db[s], t) => good[s] \cap (t + 1)..(t + PollCount - 1) = {}

\* No scan runs on a closed client or engine.
QuietAfterClose == closed => live = 0
=============================================================================
