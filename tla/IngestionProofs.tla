-------------------------- MODULE IngestionProofs --------------------------
(***************************************************************************)
(* The ingestion service, for every number of symbols, ticks and restarts, *)
(* every buffer and poll size: the flag pending_after carries exactly what *)
(* ScanOnRequest promises, a candle that is kept is closed, a gap needs    *)
(* missed ticks, and nothing runs on a closed client.                      *)
(***************************************************************************)
EXTENDS IngestionService, FiniteSetTheorems, TLAPS

\* The flag says whether a tick came after the running scan began.
Behind == seen < ticks
CountsOK ==
    /\ ticks \in Nat /\ seen \in Nat /\ seen <= ticks
    /\ live \in {0, 1}
    /\ live = 0 => ~Behind
FlagTells ==
    /\ CountsOK
    /\ live = 1 => (pending <=> Behind)

\* No scan runs in the initial state.
LEMMA FlagInit == Init => FlagTells
  <1> SUFFICES ASSUME Init PROVE FlagTells
    OBVIOUS
  <1>1. ticks = 0 /\ seen = 0 /\ live = 0 BY Zenon DEF Init
  <1> QED BY <1>1 DEF FlagTells, CountsOK, Behind

\* Only four things happen to the hook; every other step leaves it alone.
LEMMA HookSteps ==
  ASSUME [Next]_vars
  PROVE  AskForScan \/ HookEnds \/ HookCancelled \/ Restart \/ UNCHANGED hook
  <1>1. CASE UNCHANGED vars BY <1>1 DEF vars
  <1>2. CASE Service
    <2>1. CASE Backfill BY <2>1 DEF Backfill, BeginFetch
    <2>2. CASE SkipBackfill BY <2>2 DEF SkipBackfill
    <2>3. CASE Ingest BY <2>3 DEF Ingest, BeginFetch
    <2>4. CASE SkipIngest BY <2>4 DEF SkipIngest, AfterIngest
    <2>5. CASE \E s \in DOMAIN fetch.answers : Answer(s) BY <2>5 DEF Answer
    <2>6. CASE Remember BY <2>6 DEF Remember
    <2>7. CASE Store BY <2>7 DEF Store, AfterIngest, AfterBackfill
    <2>8. CASE StoreFails BY <2>8 DEF StoreFails, AfterIngest, AfterBackfill
    <2>9. CASE Prune BY <2>9 DEF Prune
    <2> QED BY <1>2, <2>1, <2>2, <2>3, <2>4, <2>5, <2>6, <2>7, <2>8, <2>9 DEF Service
  <1>3. CASE Stop \/ HookGone \/ Close \/ Tick \/ RefreshUniverse
    BY <1>3 DEF Stop, HookGone, Close, Tick, RefreshUniverse
  <1> QED BY <1>1, <1>2, <1>3 DEF Next

LEMMA FlagStep ==
  ASSUME FlagTells, [Next]_vars
  PROVE  FlagTells'
  <1>1. CASE AskForScan
    <2>1. CASE live = 0
      <3>1. live' = 1 /\ ticks' = ticks + 1 /\ seen' = ticks' BY <1>1, <2>1, Zenon DEF AskForScan
      <3>2. ~pending' BY <1>1, <2>1, Zenon DEF AskForScan
      <3>3. CountsOK' /\ ~Behind' BY <3>1 DEF FlagTells, CountsOK, Behind
      <3> QED BY <3>2, <3>3, Zenon DEF FlagTells
    <2>2. CASE live # 0
      <3>1. live' = live /\ ticks' = ticks + 1 /\ seen' = seen BY <1>1, <2>2, Zenon DEF AskForScan
      <3>2. pending' BY <1>1, <2>2, Zenon DEF AskForScan
      <3>3. CountsOK' /\ Behind' BY <2>2, <3>1 DEF FlagTells, CountsOK, Behind
      <3> QED BY <3>2, <3>3, Zenon DEF FlagTells
    <2> QED BY <2>1, <2>2
  <1>2. CASE HookEnds
    <2>1. CASE pending
      <3>1. live' = live /\ ticks' = ticks /\ seen' = ticks BY <1>2, <2>1, Zenon DEF HookEnds
      <3>2. ~pending' BY <1>2, <2>1, Zenon DEF HookEnds
      <3>3. CountsOK' /\ ~Behind' BY <3>1 DEF FlagTells, CountsOK, Behind
      <3> QED BY <3>2, <3>3, Zenon DEF FlagTells
    <2>2. CASE ~pending
      <3>1. live > 0 /\ live' = live - 1 /\ ticks' = ticks /\ seen' = seen
        BY <1>2, <2>2, Zenon DEF HookEnds
      <3>2. live = 1 BY <3>1 DEF FlagTells, CountsOK
      <3>3. ~Behind BY <2>2, <3>2, Zenon DEF FlagTells
      <3>4. CountsOK' /\ live' = 0 BY <3>1, <3>2, <3>3 DEF FlagTells, CountsOK, Behind
      <3> QED BY <3>4 DEF FlagTells
    <2> QED BY <2>1, <2>2
  <1>3. CASE HookCancelled
    <2>1. live > 0 /\ live' = live - 1 /\ ticks' = ticks /\ seen' = ticks
      BY <1>3, Zenon DEF HookCancelled
    <2>2. CountsOK' /\ live' = 0 BY <2>1 DEF FlagTells, CountsOK, Behind
    <2> QED BY <2>2 DEF FlagTells
  <1>4. CASE Restart
    <2>1. live' = 0 /\ ticks' = ticks /\ seen' = ticks BY <1>4, Zenon DEF Restart
    <2> QED BY <2>1 DEF FlagTells, CountsOK, Behind
  <1>5. CASE UNCHANGED hook
    <2>1. live' = live /\ ticks' = ticks /\ seen' = seen /\ pending' = pending
      BY <1>5, Zenon DEF hook
    <2>2. CountsOK' /\ (Behind' <=> Behind) BY <2>1 DEF FlagTells, CountsOK, Behind
    <2> QED BY <2>1, <2>2, Zenon DEF FlagTells
  <1> QED BY <1>1, <1>2, <1>3, <1>4, <1>5, HookSteps

\* The flag is right in every reachable state.
THEOREM FlagCorrect == Spec => []FlagTells
  <1>1. FlagTells /\ [Next]_vars => FlagTells' BY FlagStep
  <1> QED BY FlagInit, <1>1, PTL DEF Spec

\* Scans never overlap.
THEOREM NoOverlap == Spec => []OneScanAtATime
  <1>1. FlagTells => OneScanAtATime BY DEF FlagTells, CountsOK, OneScanAtATime
  <1> QED BY FlagCorrect, <1>1, PTL

\* Every step of the service is a step of what it promises, or none of it: no
\* tick is forgotten, no scan runs for nothing.
THEOREM PromiseKept == Spec => Promise!Spec
  <1>1. Init => Promise!Init
    BY DEF Init, Promise!Init
  <1>2. ASSUME FlagTells, [Next]_vars
        PROVE  [Promise!Next]_(Promise!vars)
    <2>1. CASE AskForScan
      <3>1. ticks' = ticks + 1 /\ live' > 0 /\ seen' = IF live > 0 THEN seen ELSE ticks'
        <4>1. CASE live = 0
          <5>1. live' = 1 /\ ticks' = ticks + 1 /\ seen' = ticks'
            BY <2>1, <4>1, Zenon DEF AskForScan
          <5> QED BY <4>1, <5>1
        <4>2. CASE live # 0
          <5>1. live' = live /\ ticks' = ticks + 1 /\ seen' = seen
            BY <2>1, <4>2, Zenon DEF AskForScan
          <5> QED BY <1>2, <4>2, <5>1 DEF FlagTells, CountsOK
        <4> QED BY <4>1, <4>2
      <3>2. Promise!Request BY <3>1 DEF Promise!Request
      <3> QED BY <3>2 DEF Promise!Next
    <2>2. CASE HookEnds
      <3>1. live > 0 /\ ticks' = ticks BY <2>2, Zenon DEF HookEnds
      <3>2. live = 1 BY <1>2, <3>1 DEF FlagTells, CountsOK
      <3>3. CASE pending
        <4>1. live' = live /\ seen' = ticks BY <2>2, <3>3, Zenon DEF HookEnds
        <4>2. Behind BY <1>2, <3>2, <3>3, Zenon DEF FlagTells
        <4> QED BY <3>1, <3>2, <4>1, <4>2 DEF Behind, Promise!Finish, Promise!Next
      <3>4. CASE ~pending
        <4>1. live' = live - 1 /\ seen' = seen BY <2>2, <3>4, Zenon DEF HookEnds
        <4>2. ~Behind BY <1>2, <3>2, <3>4, Zenon DEF FlagTells
        <4>3. seen = ticks BY <1>2, <4>2 DEF FlagTells, CountsOK, Behind
        <4> QED BY <3>1, <3>2, <4>1, <4>3, <1>2
          DEF FlagTells, CountsOK, Promise!Finish, Promise!Next
      <3> QED BY <3>3, <3>4
    <2>3. CASE HookCancelled
      <3>1. live > 0 /\ live' = live - 1 /\ ticks' = ticks /\ seen' = ticks
        BY <2>3, Zenon DEF HookCancelled
      <3> QED BY <1>2, <3>1 DEF FlagTells, CountsOK, Promise!Abandon, Promise!Next
    <2>4. CASE Restart
      <3>1. live' = 0 /\ ticks' = ticks /\ seen' = ticks BY <2>4, Zenon DEF Restart
      <3> QED BY <3>1 DEF Promise!Abandon, Promise!Next
    <2>5. CASE UNCHANGED hook
      BY <2>5 DEF hook, Promise!vars
    <2> QED BY <1>2, <2>1, <2>2, <2>3, <2>4, <2>5, HookSteps
  <1> QED BY FlagCorrect, <1>1, <1>2, PTL DEF Spec, Promise!Spec

-----------------------------------------------------------------------------
(* Only final candles.  The exchange decides whether a candle is final when  *)
(* it answers, the service when it began to ask; so what has to be carried   *)
(* through a round of fetches is that no answer is older than its cutoff.    *)

AllFinal(table) == \A s \in Symbol : \A c \in table[s] : c.final

AnswersAfterCutoff ==
    /\ fetch.cutoff \in Nat /\ fetch.cutoff <= minute
    /\ \A s \in DOMAIN fetch.answers : fetch.answers[s] \in Nat => fetch.answers[s] >= fetch.cutoff

FinalInv ==
    /\ minute \in Nat
    /\ AnswersAfterCutoff
    /\ AllFinal(mem) /\ AllFinal(db)

\* What is closed at a cutoff was final in every answer given after it.
LEMMA ClosedIsFinal ==
    ASSUME AnswersAfterCutoff, NEW s \in DOMAIN fetch.answers, s \in Answering(fetch),
           NEW c \in ClosedCandles(fetch, s)
    PROVE  c.final
<1>1. PICK t \in Int : c = [t |-> t, final |-> t < fetch.answers[s]]
  BY DEF ClosedCandles, Served
<1>2. t < fetch.cutoff
  <2>1. c.t = t
    BY <1>1
  <2>. QED
    BY <2>1 DEF ClosedCandles
<1>3. fetch.answers[s] \in Nat /\ fetch.answers[s] >= fetch.cutoff /\ fetch.cutoff \in Nat
  BY DEF AnswersAfterCutoff, Answering
<1>4. t < fetch.answers[s]
  BY <1>2, <1>3
<1>5. c.final = (t < fetch.answers[s])
  BY <1>1
<1>. QED
  BY <1>4, <1>5, Zenon

\* So the rows of a round are.
LEMMA RowsAreFinal ==
    ASSUME AnswersAfterCutoff, NEW s \in Symbol, NEW c \in Rows(fetch)[s]
    PROVE  c.final
<1>1. s \in Answering(fetch) /\ c \in ClosedCandles(fetch, s)
  BY DEF Rows
<1>2. s \in DOMAIN fetch.answers
  BY <1>1 DEF Answering
<1>. QED
  BY <1>1, <1>2, ClosedIsFinal

\* Writing rows keeps a table final, and keeping only the newest does, too.
LEMMA WriteKeepsFinal ==
    ASSUME AnswersAfterCutoff, NEW table, AllFinal(table)
    PROVE  /\ AllFinal([s \in Symbol |-> Upserted(table[s], Rows(fetch)[s])])
           /\ AllFinal([s \in Symbol |-> KeepNewest(Upserted(table[s], Rows(fetch)[s]))])
<1>1. ASSUME NEW s \in Symbol, NEW c \in Upserted(table[s], Rows(fetch)[s])
      PROVE  c.final
  BY <1>1, RowsAreFinal DEF Upserted, AllFinal
<1>2. \A s \in Symbol :
          KeepNewest(Upserted(table[s], Rows(fetch)[s])) \subseteq Upserted(table[s], Rows(fetch)[s])
  BY DEF KeepNewest
<1>. QED
  BY <1>1, <1>2 DEF AllFinal

LEMMA FinalInit == Init => FinalInv
BY DEF Init, FinalInv, AnswersAfterCutoff, AllFinal, NoFetch, NoCandles

LEMMA FinalStep ==
    ASSUME FinalInv, [Next]_vars
    PROVE  FinalInv'
<1>. USE DEF outside
<1>1. AnswersAfterCutoff /\ AllFinal(mem) /\ AllFinal(db) /\ minute \in Nat
  BY DEF FinalInv
\* A round that is over or has not begun.
<1>2. ASSUME UNCHANGED <<minute, mem, db>>, fetch' \in {fetch, NoFetch} PROVE FinalInv'
  <2>1. AnswersAfterCutoff'
    <3>1. CASE fetch' = fetch
      BY <1>1, <1>2, <3>1 DEF AnswersAfterCutoff
    <3>2. CASE fetch' = NoFetch
      BY <1>1, <1>2, <3>2 DEF AnswersAfterCutoff, NoFetch
    <3>. QED
      BY <1>2, <3>1, <3>2
  <2>. QED
    BY <1>1, <1>2, <2>1 DEF FinalInv, AllFinal
<1>3. ASSUME NEW job, BeginFetch(job) PROVE FinalInv'
  <2>1. UNCHANGED <<minute, mem, db>> /\ fetch'.cutoff = minute
        /\ \A s \in DOMAIN fetch'.answers : fetch'.answers[s] = None
    BY <1>3 DEF BeginFetch
  <2>2. AnswersAfterCutoff'
    BY <1>1, <2>1, NoneAssumption DEF AnswersAfterCutoff
  <2>. QED
    BY <1>1, <2>1, <2>2 DEF FinalInv, AllFinal
<1>4. ASSUME NEW s \in DOMAIN fetch.answers, Answer(s) PROVE FinalInv'
  <2>1. PICK a \in {minute, Failed} : fetch' = [fetch EXCEPT !.answers[s] = a]
    BY <1>4 DEF Answer
  <2>2. UNCHANGED <<minute, mem, db>>
    BY <1>4 DEF Answer
  <2>3. /\ fetch'.cutoff = fetch.cutoff
        /\ \A o \in DOMAIN fetch'.answers :
               o \in DOMAIN fetch.answers /\ fetch'.answers[o] \in {fetch.answers[o], a}
    BY <2>1 DEF AnswersAfterCutoff
  <2>4. AnswersAfterCutoff'
    BY <1>1, <2>1, <2>2, <2>3, NoneAssumption DEF AnswersAfterCutoff
  <2>. QED
    BY <1>1, <2>2, <2>4 DEF FinalInv, AllFinal
<1>5. CASE Remember
  <2>1. UNCHANGED <<minute, db, fetch>> /\ AllFinal(mem')
    BY <1>1, <1>5, WriteKeepsFinal DEF Remember
  <2>. QED
    BY <1>1, <2>1 DEF FinalInv, AllFinal, AnswersAfterCutoff
<1>6. CASE Store
  <2>1. UNCHANGED <<minute, mem>> /\ fetch' = NoFetch /\ AllFinal(db')
    BY <1>1, <1>6, WriteKeepsFinal DEF Store, AfterIngest, AfterBackfill
  <2>. QED
    BY <1>1, <2>1 DEF FinalInv, AllFinal, AnswersAfterCutoff, NoFetch
<1>7. CASE Prune
  <2>1. UNCHANGED <<minute, mem, fetch>> /\ AllFinal(db')
    BY <1>1, <1>7 DEF Prune, AllFinal
  <2>. QED
    BY <1>1, <2>1 DEF FinalInv, AllFinal, AnswersAfterCutoff
<1>8. CASE Restart
  <2>1. UNCHANGED <<minute, db>> /\ fetch' = NoFetch /\ mem' = NoCandles
    BY <1>8 DEF Restart
  <2>. QED
    BY <1>1, <2>1 DEF FinalInv, AllFinal, AnswersAfterCutoff, NoFetch, NoCandles
<1>9. CASE Tick
  <2>1. UNCHANGED <<mem, db, fetch>> /\ minute' = minute + 1
    BY <1>9 DEF Tick
  <2>. QED
    BY <1>1, <2>1 DEF FinalInv, AllFinal, AnswersAfterCutoff
<1>10. CASE Backfill \/ Ingest
  BY <1>3, <1>10 DEF Backfill, Ingest
<1>11. CASE SkipBackfill \/ SkipIngest \/ StoreFails
  BY <1>2, <1>11 DEF SkipBackfill, SkipIngest, StoreFails, AfterIngest, AfterBackfill
<1>12. CASE HookEnds \/ Stop \/ HookCancelled \/ HookGone \/ Close \/ RefreshUniverse
  BY <1>2, <1>12 DEF HookEnds, Stop, HookCancelled, HookGone, Close, RefreshUniverse
<1>13. CASE UNCHANGED vars
  BY <1>2, <1>13 DEF vars
<1>. QED
  BY <1>4, <1>5, <1>6, <1>7, <1>8, <1>9, <1>10, <1>11, <1>12, <1>13 DEF Next, Service

\* Every candle in memory and in the database is one the exchange had closed
\* when it answered, however long the answers took.
THEOREM FinalCandlesOnly == Spec => []OnlyFinalCandles
<1>1. FinalInv /\ [Next]_vars => FinalInv'
  BY FinalStep
<1>2. FinalInv => OnlyFinalCandles
  BY DEF FinalInv, AllFinal, OnlyFinalCandles
<1>. QED
  BY FinalInit, <1>1, <1>2, PTL DEF Spec

-----------------------------------------------------------------------------
(* Quiet after close.  The client is closed only by a service that is done,  *)
(* and the service is done only when its hook, if one ran, is gone.          *)

QuietInv ==
    /\ FlagTells
    /\ closed => pc = "done"
    /\ pc = "done" => live = 0

LEMMA QuietInit == Init => QuietInv
BY FlagInit DEF Init, QuietInv

LEMMA QuietStep ==
    ASSUME QuietInv, [Next]_vars
    PROVE  QuietInv'
<1>1. FlagTells'
  BY FlagStep DEF QuietInv
<1>2. live \in {0, 1}
  BY DEF QuietInv, FlagTells, CountsOK
<1>3. ASSUME Service PROVE ~closed' /\ pc' # "done"
  <2>1. pc \notin {"done", "cancelling"}
    BY <1>3 DEF Service, Backfill, SkipBackfill, Ingest, SkipIngest, Answer, Remember,
       Store, StoreFails, Prune
  <2>2. closed' = closed
    BY <1>3 DEF Service, Backfill, SkipBackfill, Ingest, SkipIngest, Answer, Remember, Store,
       StoreFails, Prune, BeginFetch, AfterIngest, AfterBackfill, outside
  <2>3. pc' # "done"
    BY <1>3, <2>1 DEF Service, Backfill, SkipBackfill, Ingest, SkipIngest, Answer, Remember,
       Store, StoreFails, Prune, BeginFetch, AfterIngest, AfterBackfill, Sleep
  <2>. QED
    BY <2>1, <2>2, <2>3 DEF QuietInv
<1>4. CASE HookEnds
  <2>1. live > 0 /\ UNCHANGED <<pc, closed>>
    BY <1>4, Zenon DEF HookEnds, outside
  <2>. QED
    BY <1>1, <1>2, <2>1 DEF QuietInv
<1>5. CASE Stop
  <2>1. pc # "done" /\ UNCHANGED <<live, closed>>
        /\ pc' = IF live > 0 THEN "cancelling" ELSE "done"
    BY <1>5, Zenon DEF Stop, hook, outside
  <2>. QED
    BY <1>1, <1>2, <2>1 DEF QuietInv
<1>6. CASE HookCancelled
  <2>1. pc = "cancelling" /\ UNCHANGED <<pc, closed>>
    BY <1>6, Zenon DEF HookCancelled, outside
  <2>. QED
    BY <1>1, <2>1 DEF QuietInv
<1>7. CASE HookGone
  BY <1>1, <1>7 DEF HookGone, QuietInv, outside, hook
<1>8. CASE Close
  BY <1>1, <1>8 DEF Close, QuietInv, hook
<1>9. CASE Restart
  <2>1. pc' = "starting" /\ ~closed'
    BY <1>9, Zenon DEF Restart
  <2>. QED
    BY <1>1, <2>1 DEF QuietInv
<1>10. CASE Tick \/ RefreshUniverse \/ UNCHANGED vars
  <2>1. UNCHANGED <<pc, live, closed>>
    BY <1>10 DEF Tick, RefreshUniverse, vars, hook, outside
  <2>. QED
    BY <1>1, <2>1 DEF QuietInv
<1>11. CASE Service
  BY <1>1, <1>3, <1>11 DEF QuietInv
<1>. QED
  BY <1>4, <1>5, <1>6, <1>7, <1>8, <1>9, <1>10, <1>11 DEF Next

\* No scan uses the exchange client or the engine once they are closed,
\* whenever the process is stopped.
THEOREM NothingAfterClose == Spec => []QuietAfterClose
<1>1. QuietInv /\ [Next]_vars => QuietInv'
  BY QuietStep
<1>2. QuietInv => QuietAfterClose
  BY DEF QuietInv, QuietAfterClose
<1>. QED
  BY QuietInit, <1>1, <1>2, PTL DEF Spec

-----------------------------------------------------------------------------
(* No gap that a tick in time has not caused.  A tick answered in its minute *)
(* and committed brings the PollCount - 1 candles before it; from then on    *)
(* each of them stays, or everything up to it is gone.                       *)

Covered(S, t) == t \in Times(S) \/ \A c \in S : c.t > t
Brought(m) == {t \in (m - PollCount + 1)..(m - 1) : t >= 0}

SeriesTyped ==
    \A s \in Symbol : IsFiniteSet(mem[s]) /\ \A c \in mem[s] \cup db[s] : c.t \in Int

\* A round in progress was begun after every tick that is done.
GoodIsOver ==
    \A s \in Symbol : \A m \in good[s] :
        m \in Nat /\ m <= minute /\ (pc \in {"fetching", "storing"} => m <= fetch.cutoff)

GoodIsCovered ==
    \A s \in Symbol : \A m \in good[s] : \A t \in Brought(m) :
        Covered(mem[s], t) /\ Covered(db[s], t)

\* What memory has and the database is yet to get.
StoringIsCovered ==
    pc = "storing" /\ fetch.job = "tick" =>
        \A s \in Symbol \cap InTime : \A t \in Brought(fetch.cutoff) : Covered(mem[s], t)

CoverInv ==
    /\ FinalInv
    /\ SeriesTyped /\ GoodIsOver /\ GoodIsCovered /\ StoringIsCovered
    /\ pc = "pruning" => lastPrune \in Nat

LEMMA ServedFinite ==
    ASSUME NEW m \in Nat, NEW count \in Nat
    PROVE  IsFiniteSet(Served(m, count)) /\ \A c \in Served(m, count) : c.t \in Int
<1>. DEFINE U == {u \in (m - count + 1)..m : u >= 0}
            f == [t \in U |-> [t |-> t, final |-> t < m]]
<1>1. Served(m, count) = {[t |-> t, final |-> t < m] : t \in U}
  BY DEF Served
<1>2. IsFiniteSet(U)
  <2>1. IsFiniteSet((m - count + 1)..m)
    BY FS_Interval
  <2>. QED
    BY <2>1, FS_Subset
<1>3. f \in Surjection(U, Served(m, count))
  BY <1>1 DEF Surjection
<1>4. \A c \in Served(m, count) : c.t \in U
  BY <1>1
<1>. QED
  BY <1>2, <1>3, <1>4, FS_Surjection

LEMMA RowsTyped ==
    ASSUME NEW s \in Symbol
    PROVE  IsFiniteSet(Rows(fetch)[s]) /\ \A c \in Rows(fetch)[s] : c.t \in Int
<1>1. CASE s \in Answering(fetch)
  <2>. DEFINE a == fetch.answers[s]
              all == Served(a, Count(fetch))
  <2>1. a \in Nat /\ Count(fetch) \in Nat
    BY <1>1, CountAssumption DEF Answering, Count
  <2>2. IsFiniteSet(all) /\ \A c \in all : c.t \in Int
    BY <2>1, ServedFinite
  <2>3. Rows(fetch)[s] = {c \in all : c.t < fetch.cutoff}
    BY <1>1 DEF Rows, ClosedCandles
  <2>. HIDE DEF all
  <2>. QED
    BY <2>2, <2>3, FS_Subset
<1>2. CASE s \notin Answering(fetch)
  <2>1. Rows(fetch)[s] = {}
    BY <1>2 DEF Rows
  <2>. QED
    BY <2>1, FS_EmptySet
<1>. QED
  BY <1>1, <1>2

\* The rows of a round have no hole: with a candle before t they have t.
LEMMA RowsCover ==
    ASSUME AnswersAfterCutoff, NEW s \in Symbol, NEW t \in Nat, t < fetch.cutoff
    PROVE  Covered(Rows(fetch)[s], t)
<1>1. CASE s \in Answering(fetch)
  <2>1. PICK a \in Nat : a = fetch.answers[s] /\ t < a /\ fetch.cutoff \in Nat
    BY <1>1 DEF Answering, AnswersAfterCutoff
  <2>2. PICK low \in Int : low = a - Count(fetch) + 1
    BY <2>1, CountAssumption DEF Count
  <2>3. Rows(fetch)[s] =
            {c \in {[t |-> u, final |-> u < a] : u \in {v \in low..a : v >= 0}} : c.t < fetch.cutoff}
    BY <1>1, <2>1, <2>2 DEF Rows, ClosedCandles, Served
  <2>4. CASE low <= t
    <3>1. [t |-> t, final |-> t < a] \in Rows(fetch)[s]
      BY <2>1, <2>2, <2>3, <2>4
    <3>. QED
      BY <3>1 DEF Covered, Times
  <2>5. CASE low > t
    BY <2>1, <2>2, <2>3, <2>5 DEF Covered
  <2>. QED
    BY <2>2, <2>4, <2>5
<1>2. CASE s \notin Answering(fetch)
  BY <1>2 DEF Rows, Covered
<1>. QED
  BY <1>1, <1>2

\* A tick answered in its minute brings what Brought names.
LEMMA InTimeBrings ==
    ASSUME fetch.job = "tick", fetch.cutoff \in Nat, NEW s \in Symbol \cap InTime,
           NEW t \in Brought(fetch.cutoff)
    PROVE  t \in Times(Rows(fetch)[s])
<1>1. PICK a \in Nat : a = fetch.answers[s] /\ a = fetch.cutoff /\ s \in Answering(fetch)
  BY DEF InTime, Answering
<1>2. t \in Nat /\ t < a /\ t >= a - PollCount + 1
  BY <1>1, CountAssumption DEF Brought
<1>3. [t |-> t, final |-> t < a] \in Served(a, PollCount)
  BY <1>2, CountAssumption DEF Served
<1>4. [t |-> t, final |-> t < a] \in Rows(fetch)[s]
  BY <1>1, <1>2, <1>3 DEF Rows, ClosedCandles, Count
<1>. QED
  BY <1>4 DEF Times

LEMMA UpsertCovers ==
    ASSUME NEW S, NEW new, NEW t, Covered(S, t), Covered(new, t)
    PROVE  Covered(Upserted(S, new), t)
<1>1. CASE t \in Times(new)
  BY <1>1 DEF Covered, Upserted, Times
<1>2. CASE t \notin Times(new) /\ t \in Times(S)
  BY <1>2 DEF Covered, Upserted, Times
<1>3. CASE t \notin Times(new) /\ t \notin Times(S)
  BY <1>3 DEF Covered, Upserted
<1>. QED
  BY <1>1, <1>2, <1>3

\* What the buffer drops is older than all it keeps.
LEMMA NewestCovers ==
    ASSUME NEW S, IsFiniteSet(S), \A c \in S : c.t \in Int, NEW t, Covered(S, t)
    PROVE  Covered(KeepNewest(S), t)
<1>. DEFINE After(c) == {d \in S : d.t > c.t}
<1>1. KeepNewest(S) = {c \in S : Cardinality(After(c)) < BufferSize}
  BY DEF KeepNewest
<1>2. \A c \in S : IsFiniteSet(After(c)) /\ Cardinality(After(c)) \in Nat
  BY FS_Subset, FS_CardinalityType
<1>3. CASE \A c \in S : c.t > t
  BY <1>1, <1>3 DEF Covered
<1>4. ASSUME NEW k \in S, k.t = t
      PROVE  Covered(KeepNewest(S), t)
  <2>1. CASE k \in KeepNewest(S)
    BY <1>4, <2>1 DEF Covered, Times
  <2>2. CASE k \notin KeepNewest(S)
    <3>. SUFFICES ASSUME NEW c \in KeepNewest(S) PROVE c.t > t
      BY DEF Covered
    <3>1. CASE c.t <= t
      <4>1. c \in S /\ After(k) \subseteq After(c)
        BY <1>1, <1>4, <3>1
      <4>2. Cardinality(After(k)) <= Cardinality(After(c))
        BY <1>2, <4>1, FS_Subset
      <4>. HIDE DEF After
      <4>3. Cardinality(After(c)) < BufferSize /\ ~(Cardinality(After(k)) < BufferSize)
        BY <1>1, <2>2
      <4>4. BufferSize \in Nat
        BY CountAssumption
      <4>. QED
        BY <1>2, <4>1, <4>2, <4>3, <4>4
    <3>2. c.t \in Int /\ t \in Int
      BY <1>1, <1>4
    <3>. QED
      BY <3>1, <3>2
  <2>. QED
    BY <2>1, <2>2
<1>. QED
  BY <1>3, <1>4 DEF Covered, Times

LEMMA UpsertTyped ==
    ASSUME NEW S, NEW new, \A c \in S \cup new : c.t \in Int, IsFiniteSet(new)
    PROVE  /\ \A c \in Upserted(S, new) : c.t \in Int
           /\ IsFiniteSet(S) => IsFiniteSet(Upserted(S, new))
<1>1. Upserted(S, new) \subseteq S \cup new
  BY DEF Upserted
<1>2. IsFiniteSet(S) => IsFiniteSet(S \cup new)
  BY FS_Union
<1>. QED
  BY <1>1, <1>2, FS_Subset

LEMMA CoverInit == Init => CoverInv
<1>. SUFFICES ASSUME Init PROVE CoverInv
  OBVIOUS
<1>1. \A s \in Symbol : mem[s] = {} /\ db[s] = {} /\ good[s] = {}
  BY DEF Init, NoCandles
<1>2. pc = "starting"
  BY DEF Init
<1>. QED
  BY <1>1, <1>2, FinalInit, FS_EmptySet
  DEF CoverInv, SeriesTyped, GoodIsOver, GoodIsCovered, StoringIsCovered

\* Steps that write no candle and end no tick.
LEMMA CoverKept ==
    ASSUME CoverInv, FinalInv', UNCHANGED <<mem, db, good>>, minute' >= minute,
           \/ UNCHANGED <<pc, fetch, lastPrune>>
           \/ pc' \in {"sleeping", "cancelling", "done"}
           \/ pc' = "pruning" /\ lastPrune' \in Nat
           \/ pc' = "fetching" /\ fetch'.cutoff \in {minute, fetch.cutoff}
                  /\ (pc = "fetching" \/ fetch'.cutoff = minute)
    PROVE  CoverInv'
<1>1. minute \in Nat /\ minute' \in Nat
  BY DEF CoverInv, FinalInv
<1>2. SeriesTyped' /\ GoodIsCovered'
  BY DEF CoverInv, SeriesTyped, GoodIsCovered
<1>3. GoodIsOver'
  BY <1>1 DEF CoverInv, GoodIsOver
<1>4. StoringIsCovered'
  BY DEF CoverInv, StoringIsCovered, InTime
<1>5. pc' = "pruning" => lastPrune' \in Nat
  BY DEF CoverInv
<1>. QED
  BY <1>2, <1>3, <1>4, <1>5 DEF CoverInv

LEMMA RememberCovers ==
    ASSUME CoverInv, FinalInv', Remember
    PROVE  CoverInv'
<1>1. /\ pc = "fetching" /\ pc' = "storing"
      /\ mem' = [s \in Symbol |-> KeepNewest(Upserted(mem[s], Rows(fetch)[s]))]
      /\ UNCHANGED <<minute, db, fetch, good>>
  BY DEF Remember, outside
<1>2. AnswersAfterCutoff /\ fetch.cutoff \in Nat
  BY DEF CoverInv, FinalInv, AnswersAfterCutoff
<1>3. ASSUME NEW s \in Symbol
      PROVE  /\ IsFiniteSet(mem'[s]) /\ \A c \in mem'[s] : c.t \in Int
             /\ \A t : Covered(Upserted(mem[s], Rows(fetch)[s]), t) => Covered(mem'[s], t)
  <2>. DEFINE S == Upserted(mem[s], Rows(fetch)[s])
  <2>1. IsFiniteSet(S) /\ \A c \in S : c.t \in Int
    BY RowsTyped, UpsertTyped DEF CoverInv, SeriesTyped
  <2>2. mem'[s] = KeepNewest(S)
    BY <1>1
  <2>. HIDE DEF S
  <2>3. KeepNewest(S) \subseteq S
    BY DEF KeepNewest
  <2>4. \A t : Covered(S, t) => Covered(KeepNewest(S), t)
    BY <2>1, NewestCovers
  <2>5. IsFiniteSet(mem'[s]) /\ \A c \in mem'[s] : c.t \in Int
    BY <2>1, <2>2, <2>3, FS_Subset
  <2>. QED
    BY <2>2, <2>4, <2>5 DEF S
<1>4. SeriesTyped'
  BY <1>1, <1>3 DEF CoverInv, SeriesTyped
<1>5. GoodIsOver'
  BY <1>1 DEF CoverInv, GoodIsOver
<1>6. GoodIsCovered'
  <2>. SUFFICES ASSUME NEW s \in Symbol, NEW m \in good[s], NEW t \in Brought(m)
                PROVE  Covered(mem'[s], t) /\ Covered(db'[s], t)
    BY <1>1 DEF GoodIsCovered
  <2>1. m \in Nat /\ m <= fetch.cutoff
    BY <1>1 DEF CoverInv, GoodIsOver
  <2>2. t \in Nat /\ t < fetch.cutoff
    BY <1>2, <2>1, CountAssumption DEF Brought
  <2>3. Covered(mem[s], t) /\ Covered(db[s], t)
    BY DEF CoverInv, GoodIsCovered
  <2>4. Covered(Upserted(mem[s], Rows(fetch)[s]), t)
    BY <1>2, <2>2, <2>3, RowsCover, UpsertCovers
  <2>. QED
    BY <1>1, <1>3, <2>3, <2>4
<1>7. StoringIsCovered'
  <2>. SUFFICES ASSUME fetch.job = "tick", NEW s \in Symbol \cap InTime,
                       NEW t \in Brought(fetch.cutoff)
                PROVE  Covered(mem'[s], t)
    BY <1>1 DEF StoringIsCovered, InTime
  <2>1. t \in Times(Rows(fetch)[s])
    BY <1>2, InTimeBrings
  <2>2. Covered(Upserted(mem[s], Rows(fetch)[s]), t)
    BY <2>1 DEF Covered, Upserted, Times
  <2>. QED
    BY <1>3, <2>2
<1>. QED
  BY <1>1, <1>4, <1>5, <1>6, <1>7 DEF CoverInv

LEMMA StoreCovers ==
    ASSUME CoverInv, FinalInv', Store
    PROVE  CoverInv'
<1>1. /\ pc = "storing" /\ pc' \in {"sleeping", "pruning"}
      /\ pc' = "pruning" => lastPrune' = minute
      /\ db' = [s \in Symbol |-> Upserted(db[s], Rows(fetch)[s])]
      /\ UNCHANGED <<minute, mem>>
  BY DEF Store, AfterBackfill, AfterIngest, Sleep, outside
<1>2. \/ good' = good
      \/ /\ fetch.job = "tick"
         /\ good' = [s \in Symbol |-> good[s] \cup {t \in {fetch.cutoff} : s \in InTime}]
  BY DEF Store, AfterBackfill
<1>3. AnswersAfterCutoff /\ fetch.cutoff \in Nat /\ fetch.cutoff <= minute /\ minute \in Nat
  BY DEF CoverInv, FinalInv, AnswersAfterCutoff
<1>4. SeriesTyped'
  <2>1. \A s \in Symbol : \A c \in db'[s] : c.t \in Int
    BY <1>1, RowsTyped, UpsertTyped DEF CoverInv, SeriesTyped
  <2>. QED
    BY <1>1, <2>1 DEF CoverInv, SeriesTyped
<1>5. \A s \in Symbol : \A m \in good'[s] :
          m \in good[s] \/ (m = fetch.cutoff /\ s \in InTime /\ fetch.job = "tick")
  BY <1>2
<1>6. GoodIsOver'
  BY <1>1, <1>3, <1>5 DEF CoverInv, GoodIsOver
<1>7. GoodIsCovered'
  <2>. SUFFICES ASSUME NEW s \in Symbol, NEW m \in good'[s], NEW t \in Brought(m)
                PROVE  Covered(mem[s], t) /\ Covered(db'[s], t)
    BY <1>1 DEF GoodIsCovered
  <2>1. CASE m \in good[s]
    <3>1. m \in Nat /\ m <= fetch.cutoff
      BY <1>1, <2>1 DEF CoverInv, GoodIsOver
    <3>2. t \in Nat /\ t < fetch.cutoff
      BY <1>3, <3>1, CountAssumption DEF Brought
    <3>3. Covered(mem[s], t) /\ Covered(db[s], t)
      BY <2>1 DEF CoverInv, GoodIsCovered
    <3>. QED
      BY <1>1, <1>3, <3>2, <3>3, RowsCover, UpsertCovers
  <2>2. CASE m = fetch.cutoff /\ s \in InTime /\ fetch.job = "tick"
    <3>1. Covered(mem[s], t)
      BY <1>1, <2>2 DEF CoverInv, StoringIsCovered
    <3>2. t \in Times(Rows(fetch)[s])
      BY <1>3, <2>2, InTimeBrings
    <3>3. Covered(db'[s], t)
      BY <1>1, <3>2 DEF Covered, Upserted, Times
    <3>. QED
      BY <3>1, <3>3
  <2>. QED
    BY <1>5, <2>1, <2>2
<1>. QED
  BY <1>1, <1>3, <1>4, <1>6, <1>7 DEF CoverInv, StoringIsCovered

\* A prune takes everything before a minute, or nothing.
LEMMA PruneCovers ==
    ASSUME CoverInv, FinalInv', Prune
    PROVE  CoverInv'
<1>1. /\ pc = "pruning" /\ pc' = "sleeping" /\ UNCHANGED <<minute, mem, good>>
      /\ \/ db' = [s \in Symbol |-> {c \in db[s] : c.t >= lastPrune - Retention}]
         \/ db' = db
  BY DEF Prune, Sleep, outside
<1>2. PICK from \in Int : from = lastPrune - Retention
  BY <1>1, BoundAssumption DEF CoverInv
<1>3. ASSUME NEW s \in Symbol
      PROVE  /\ \A c \in db'[s] : c.t \in Int
             /\ \A m \in good[s] : \A t \in Brought(m) : Covered(db[s], t) => Covered(db'[s], t)
  <2>1. db'[s] = db[s] \/ db'[s] = {c \in db[s] : c.t >= from}
    BY <1>1, <1>2
  <2>2. \A c \in db[s] : c.t \in Int
    BY DEF CoverInv, SeriesTyped
  <2>3. \A m \in good[s] : \A t \in Brought(m) : t \in Int
    BY CountAssumption DEF Brought, CoverInv, GoodIsOver
  <2>. QED
    BY <1>2, <2>1, <2>2, <2>3 DEF Covered, Times
<1>4. SeriesTyped' /\ GoodIsOver' /\ GoodIsCovered' /\ StoringIsCovered'
  BY <1>1, <1>3 DEF CoverInv, SeriesTyped, GoodIsOver, GoodIsCovered, StoringIsCovered
<1>. QED
  BY <1>1, <1>4 DEF CoverInv

LEMMA RestartCovers ==
    ASSUME CoverInv, FinalInv', Restart
    PROVE  CoverInv'
<1>1. mem' = NoCandles /\ pc' = "starting" /\ UNCHANGED <<minute, db, good>>
  BY DEF Restart
<1>2. \A s \in Symbol : mem'[s] = {}
  BY <1>1 DEF NoCandles
<1>. QED
  BY <1>1, <1>2, FS_EmptySet
  DEF CoverInv, SeriesTyped, GoodIsOver, GoodIsCovered, StoringIsCovered, Covered

LEMMA CoverStep ==
    ASSUME CoverInv, [Next]_vars
    PROVE  CoverInv'
<1>. USE DEF outside
<1>1. FinalInv' /\ minute \in Nat
  BY FinalStep DEF CoverInv, FinalInv
<1>2. CASE Backfill \/ Ingest
  <2>1. PICK job : BeginFetch(job)
    BY <1>2 DEF Backfill, Ingest
  <2>2. pc' = "fetching" /\ fetch'.cutoff = minute /\ UNCHANGED <<minute, mem, db, good>>
    BY <2>1 DEF BeginFetch
  <2>. QED
    BY <1>1, <2>2, CoverKept
<1>3. ASSUME NEW s \in DOMAIN fetch.answers, Answer(s) PROVE CoverInv'
  <2>1. pc = "fetching" /\ UNCHANGED <<minute, pc, mem, db, good>>
    BY <1>3 DEF Answer
  <2>2. fetch'.cutoff = fetch.cutoff
    BY <1>3 DEF Answer
  <2>. QED
    BY <1>1, <2>1, <2>2, CoverKept
<1>4. CASE SkipBackfill \/ SkipIngest \/ StoreFails
  <2>1. /\ UNCHANGED <<minute, mem, db, good>>
        /\ pc' = "sleeping" \/ (pc' = "pruning" /\ lastPrune' = minute)
    BY <1>4 DEF SkipBackfill, SkipIngest, StoreFails, AfterIngest, AfterBackfill, Sleep
  <2>. QED
    BY <1>1, <2>1, CoverKept
<1>5. CASE Stop
  BY <1>1, <1>5, CoverKept DEF Stop
<1>6. CASE HookGone
  BY <1>1, <1>6, CoverKept DEF HookGone
<1>7. CASE HookEnds \/ HookCancelled \/ Close \/ RefreshUniverse \/ UNCHANGED vars
  <2>1. UNCHANGED <<minute, mem, db, good, pc, fetch, lastPrune>>
    BY <1>7 DEF HookEnds, HookCancelled, Close, RefreshUniverse, vars
  <2>. QED
    BY <1>1, <2>1, CoverKept
<1>8. CASE Tick
  <2>1. UNCHANGED <<mem, db, good, pc, fetch, lastPrune>> /\ minute' = minute + 1
    BY <1>8 DEF Tick
  <2>. QED
    BY <1>1, <2>1, CoverKept
<1>. QED
  BY <1>1, <1>2, <1>3, <1>4, <1>5, <1>6, <1>7, <1>8,
     RememberCovers, StoreCovers, PruneCovers, RestartCovers DEF Next, Service

\* A candle is missing from the midst of a series only if every tick that polls
\* back to it was missed, late, failed or lost (candle_poll_count).
THEOREM GapsNeedMisses == Spec => []GapNeedsMisses
<1>1. CoverInv /\ [Next]_vars => CoverInv'
  BY CoverStep
<1>2. ASSUME CoverInv PROVE GapNeedsMisses
  <2>. SUFFICES ASSUME NEW s \in Symbol, NEW t \in 0..MaxMinute,
                       NEW m \in good[s] \cap (t + 1)..(t + PollCount - 1)
                PROVE  ~Gap(mem[s], t) /\ ~Gap(db[s], t)
    BY DEF GapNeedsMisses
  <2>1. t \in Brought(m)
    BY CountAssumption, BoundAssumption DEF Brought
  <2>2. Covered(mem[s], t) /\ Covered(db[s], t)
    BY <1>2, <2>1 DEF CoverInv, GoodIsCovered
  <2>3. \A c \in mem[s] \cup db[s] : c.t \in Int
    BY <1>2 DEF CoverInv, SeriesTyped
  <2>. QED
    BY <2>2, <2>3 DEF Gap, Covered
<1>. QED
  BY CoverInit, <1>1, <1>2, PTL DEF Spec

=============================================================================
