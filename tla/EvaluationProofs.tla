-------------------------- MODULE EvaluationProofs --------------------------
(***************************************************************************)
(* What an evaluation was computed from is final, for any horizon, poll    *)
(* count, batch size and clock: no later ingest changes it.                *)
(***************************************************************************)
EXTENDS Evaluation, TLAPS

Born(a) == alerts[a].ts # None

Types ==
    /\ minute \in Nat /\ backfills \in Nat
    /\ alerts \in [Alert -> [ts : Nat, symbol : Symbol, t0 : Nat] \cup {Unborn}]
    /\ evals \in [Alert -> {None} \cup [returns : SUBSET Nat, range : SUBSET Nat]]
    /\ candles \in [Symbol -> SUBSET Nat]
    /\ job = [now |-> job.now, todo |-> job.todo, computed |-> job.computed]
    /\ job.todo \subseteq {a \in Alert : Born(a)}
    /\ DOMAIN job.computed \subseteq Alert
    /\ \A a \in DOMAIN job.computed :
           job.computed[a] \in [returns : SUBSET Nat, range : SUBSET Nat]

\* An ingest brings all of the last PollCount minutes: below a candle there
\* is every older one that a further ingest could bring.
NoGapToFill ==
    \A s \in Symbol : \A t \in candles[s] :
        \A u \in Nat : minute - PollCount < u /\ u <= t => u \in candles[s]

\* The metrics m of an entry alert are what its window holds, up to its end.
Final(a, m) == Born(a) /\ Computable(a) /\ m = Metrics(a)

AllFinal ==
    /\ \A a \in Alert : evals[a] # None => Final(a, evals[a])
    /\ \A a \in DOMAIN job.computed : Final(a, job.computed[a])

FinalInv == Types /\ (backfills = 0 => NoGapToFill /\ AllFinal)

-----------------------------------------------------------------------------
(* Alerts and windows *)

LEMMA Births ==
    ASSUME Types, NEW a \in Alert
    PROVE  /\ Born(a) => alerts[a] \in [ts : Nat, symbol : Symbol, t0 : Nat]
           /\ ~Born(a) => alerts[a] = Unborn
BY NoneAssumption DEF Types, Born, Unborn

LEMMA MetricsTypes ==
    ASSUME Types, NEW a \in Alert, Born(a)
    PROVE  Metrics(a) \in [returns : SUBSET Nat, range : SUBSET Nat]
<1>1. alerts[a].t0 \in Nat /\ alerts[a].symbol \in Symbol
  BY Births
<1>2. Window(a) \subseteq Nat
  BY <1>1 DEF Window, Types
<1>3. Offsets \subseteq Nat
  BY HorizonAssumption
<1>. QED
  BY <1>2, <1>3 DEF Metrics

\* More candles, outside the window: nothing in it changes.
LEMMA SameWindow ==
    ASSUME NEW a \in Alert, alerts'[a] = alerts[a],
           candles'[alerts[a].symbol] \cap alerts[a].t0..(alerts[a].t0 + Horizon) = Window(a)
    PROVE  /\ Window(a)' = Window(a) /\ Born(a)' = Born(a)
           /\ Computable(a)' = Computable(a) /\ Metrics(a)' = Metrics(a)
<1>1. Window(a)' = Window(a) /\ Born(a)' = Born(a)
  BY DEF Window, Born
<1>. QED
  BY <1>1 DEF Computable, Metrics

\* Where nothing touches an alert and the candles of its symbol, all is as it was.
LEMMA Untouched ==
    ASSUME NEW a \in Alert, alerts'[a] = alerts[a],
           candles'[alerts[a].symbol] = candles[alerts[a].symbol]
    PROVE  \A m : Final(a, m) => Final(a, m)'
BY SameWindow DEF Window, Final

\* An ingest finds the window of an alert that is computable complete.
LEMMA IngestKeepsWindow ==
    ASSUME Types, NoGapToFill, Ingest, NEW a \in Alert, Born(a), Computable(a)
    PROVE  candles'[alerts[a].symbol] \cap alerts[a].t0..(alerts[a].t0 + Horizon) = Window(a)
<1>. DEFINE s == alerts[a].symbol
            end == alerts[a].t0 + Horizon
            new == {t \in (minute - PollCount + 1)..(minute - 1) : t >= 0}
<1>1. /\ s \in Symbol /\ alerts[a].t0 \in Nat /\ Horizon \in Nat /\ end \in Nat
      /\ minute \in Nat /\ PollCount \in Nat
  BY Births, HorizonAssumption, LimitAssumption DEF Types
<1>2. end \in candles[s]
  BY DEF Computable, Window
<1>3. \A u \in new : u <= end => u \in candles[s]
  <2>. SUFFICES ASSUME NEW u \in new, u <= end PROVE u \in candles[s]
    OBVIOUS
  <2>1. u \in Nat /\ minute - PollCount < u
    BY <1>1
  <2>. QED
    BY <1>1, <1>2, <2>1 DEF NoGapToFill
<1>4. candles'[s] = candles[s] \/ candles'[s] = candles[s] \cup new
  BY <1>1 DEF Ingest
<1>5. \A u \in alerts[a].t0..end : u <= end
  BY <1>1
<1>. HIDE DEF end, new
<1>6. candles'[s] \cap alerts[a].t0..end = candles[s] \cap alerts[a].t0..end
  BY <1>3, <1>4, <1>5
<1>. QED
  BY <1>6 DEF Window, end

-----------------------------------------------------------------------------
(* Every step keeps what was computed final *)

LEMMA FinalInit == Init => FinalInv
<1>. SUFFICES ASSUME Init PROVE FinalInv
  OBVIOUS
<1>1. Types
  BY NoneAssumption DEF Init, Types, NoJob
<1>2. NoGapToFill /\ AllFinal
  BY DEF Init, NoGapToFill, AllFinal, NoJob
<1>. QED
  BY <1>1, <1>2 DEF FinalInv

LEMMA TypesStep ==
    ASSUME Types, [Next]_vars
    PROVE  Types'
<1>. USE DEF db, Born
<1>1. CASE UNCHANGED vars
  BY <1>1 DEF vars, Types
<1>2. CASE StartBatch
  <2>1. PICK B \in Batches : job' = [NoJob EXCEPT !.now = minute, !.todo = B]
    BY <1>2 DEF StartBatch
  <2>2. B \subseteq {a \in Alert : Born(a)}
    BY DEF Batches, Unevaluated
  <2>3. job' = [now |-> minute, todo |-> B, computed |-> [a \in {} |-> {}]]
    BY <2>1 DEF NoJob
  <2>. QED
    BY <1>2, <2>2, <2>3 DEF StartBatch, Types
<1>3. ASSUME NEW a \in Alert, Skip(a) PROVE Types'
  BY <1>3 DEF Skip, Types
<1>4. ASSUME NEW a \in Alert, Compute(a) PROVE Types'
  <2>1. Metrics(a) \in [returns : SUBSET Nat, range : SUBSET Nat]
    BY <1>4, MetricsTypes DEF Compute, NextAlert, Types
  <2>. QED
    BY <1>4, <2>1 DEF Compute, Types
<1>5. CASE Commit
  BY <1>5 DEF Commit, Types, NoJob
<1>6. CASE Abort
  BY <1>6 DEF Abort, Types, NoJob
<1>7. CASE Tick
  BY <1>7 DEF Tick, Types
<1>8. CASE Ingest
  <2>1. \A t \in (minute - PollCount + 1)..(minute - 1) : t >= 0 => t \in Nat
    BY LimitAssumption DEF Types
  <2>. QED
    BY <1>8, <2>1 DEF Ingest, Types
<1>9. CASE Backfill
  <2>1. 0..(minute - 1) \subseteq Nat
    BY DEF Types
  <2>. QED
    BY <1>9, <2>1 DEF Backfill, Types
<1>10. ASSUME NEW a \in Alert, NEW s \in Symbol, CreateAlert(a, s) PROVE Types'
  <2>1. PICK t \in {minute - 1, minute - 2} :
            t >= 0 /\ alerts' = [alerts EXCEPT ![a] = [ts |-> minute, symbol |-> s, t0 |-> t]]
    BY <1>10 DEF CreateAlert
  <2>2. t \in Nat /\ minute \in Nat /\ minute # None
    BY <2>1, NoneAssumption DEF Types
  <2>3. /\ alerts' \in [Alert -> [ts : Nat, symbol : Symbol, t0 : Nat] \cup {Unborn}]
        /\ \A b \in Alert : alerts[b].ts # None => alerts'[b].ts # None
    BY <2>1, <2>2 DEF Types
  <2>. QED
    BY <1>10, <2>3 DEF CreateAlert, Types
<1>. QED
  BY <1>1, <1>2, <1>3, <1>4, <1>5, <1>6, <1>7, <1>8, <1>9, <1>10 DEF Next

\* Steps that only touch the job and the evaluations keep the windows.
LEMMA SameTables ==
    ASSUME alerts' = alerts, candles' = candles, minute \in Nat, minute' \in Nat,
           minute' >= minute, NoGapToFill
    PROVE  /\ NoGapToFill'
           /\ \A a \in Alert : \A m : Final(a, m) => Final(a, m)'
<1>1. NoGapToFill'
  BY LimitAssumption DEF NoGapToFill
<1>2. ASSUME NEW a \in Alert, NEW m, Final(a, m) PROVE Final(a, m)'
  BY <1>2, Untouched
<1>. QED
  BY <1>1, <1>2

LEMMA FinalStep ==
    ASSUME FinalInv, [Next]_vars, backfills' = 0
    PROVE  NoGapToFill' /\ AllFinal'
<1>1. Types /\ Types' /\ NoGapToFill /\ AllFinal
  <2>1. Types /\ Types'
    BY TypesStep DEF FinalInv
  <2>2. backfills = 0
    <3>1. backfills' = backfills \/ backfills' = backfills + 1
      BY DEF Next, vars, db, StartBatch, Skip, Compute, Commit, Abort,
         Tick, Ingest, Backfill, CreateAlert
    <3>. QED
      BY <2>1, <3>1 DEF Types
  <2>. QED
    BY <2>1, <2>2 DEF FinalInv
<1>2. /\ minute \in Nat /\ minute' \in Nat
      /\ UNCHANGED db => NoGapToFill' /\ \A a \in Alert : \A m : Final(a, m) => Final(a, m)'
  BY <1>1, SameTables DEF Types, db
<1>3. CASE UNCHANGED vars
  <2>1. UNCHANGED db /\ evals' = evals /\ job' = job
    BY <1>3 DEF vars
  <2>. QED
    BY <1>1, <1>2, <2>1 DEF AllFinal, Types
<1>4. CASE StartBatch
  <2>1. DOMAIN job'.computed = {}
    BY <1>4 DEF StartBatch, NoJob
  <2>. QED
    BY <1>1, <1>2, <1>4, <2>1 DEF StartBatch, AllFinal
<1>5. ASSUME NEW a \in Alert, Skip(a) PROVE NoGapToFill' /\ AllFinal'
  <2>1. job'.computed = job.computed
    BY <1>1, <1>5 DEF Skip, Types
  <2>. QED
    BY <1>1, <1>2, <1>5, <2>1 DEF Skip, AllFinal, Types
<1>6. ASSUME NEW a \in Alert, Compute(a) PROVE NoGapToFill' /\ AllFinal'
  <2>1. Final(a, Metrics(a))
    BY <1>1, <1>6 DEF Compute, NextAlert, Types, Final
  <2>2. \A b \in DOMAIN job'.computed :
            \/ b = a /\ job'.computed[b] = Metrics(a)
            \/ b \in DOMAIN job.computed /\ job'.computed[b] = job.computed[b]
    <3>1. job'.computed = [b \in DOMAIN job.computed \cup {a} |->
                              IF b = a THEN Metrics(a) ELSE job.computed[b]]
      BY <1>1, <1>6 DEF Compute, Types
    <3>. QED
      BY <3>1
  <2>3. \A b \in DOMAIN job'.computed : Final(b, job'.computed[b])
    BY <1>1, <2>1, <2>2 DEF AllFinal
  <2>. QED
    BY <1>1, <1>2, <1>6, <2>3 DEF Compute, AllFinal, Types
<1>7. CASE Commit
  <2>1. \A a \in Alert : evals'[a] # None => Final(a, evals'[a])
    BY <1>1, <1>7 DEF Commit, AllFinal
  <2>2. DOMAIN job'.computed = {}
    BY <1>7 DEF Commit, NoJob
  <2>. QED
    BY <1>2, <1>7, <2>1, <2>2 DEF Commit, AllFinal
<1>8. CASE Abort
  <2>1. DOMAIN job'.computed = {}
    BY <1>8 DEF Abort, NoJob
  <2>. QED
    BY <1>1, <1>2, <1>8, <2>1 DEF Abort, AllFinal
<1>9. CASE Tick
  <2>1. minute' >= minute /\ alerts' = alerts /\ candles' = candles
    BY <1>2, <1>9 DEF Tick
  <2>2. NoGapToFill' /\ \A a \in Alert : \A m : Final(a, m) => Final(a, m)'
    BY <1>1, <1>2, <2>1, SameTables
  <2>. QED
    BY <1>1, <1>9, <2>2 DEF Tick, AllFinal, Types
<1>10. CASE Ingest
  <2>1. NoGapToFill'
    <3>. SUFFICES ASSUME NEW s \in Symbol, NEW t \in candles'[s],
                         NEW u \in Nat, minute' - PollCount < u, u <= t
                  PROVE  u \in candles'[s]
      BY DEF NoGapToFill
    <3>1. PICK T \in SUBSET Symbol :
              candles' = [r \in Symbol |->
                  IF r \in T
                  THEN candles[r] \cup {v \in (minute - PollCount + 1)..(minute - 1) : v >= 0}
                  ELSE candles[r]]
      BY <1>10 DEF Ingest
    <3>2. minute' = minute /\ minute \in Nat /\ PollCount \in Nat
      BY <1>1, <1>10, LimitAssumption DEF Ingest, Types
    <3>3. CASE t \in candles[s]
      <4>1. u \in candles[s]
        BY <1>1, <3>2, <3>3 DEF NoGapToFill
      <4>. QED
        BY <3>1, <4>1
    <3>4. CASE t \notin candles[s]
      <4>1. s \in T /\ t \in (minute - PollCount + 1)..(minute - 1)
        BY <3>1, <3>4
      <4>2. u \in (minute - PollCount + 1)..(minute - 1) /\ u >= 0
        BY <3>2, <4>1
      <4>. QED
        BY <3>1, <4>1, <4>2
    <3>. QED
      BY <3>3, <3>4
  <2>2. ASSUME NEW a \in Alert, NEW m, Final(a, m) PROVE Final(a, m)'
    <3>1. candles'[alerts[a].symbol] \cap alerts[a].t0..(alerts[a].t0 + Horizon) = Window(a)
      BY <1>1, <1>10, <2>2, IngestKeepsWindow DEF Final
    <3>2. alerts'[a] = alerts[a]
      BY <1>10 DEF Ingest
    <3>. QED
      BY <2>2, <3>1, <3>2, SameWindow DEF Final
  <2>. QED
    BY <1>1, <1>10, <2>1, <2>2 DEF Ingest, AllFinal, Types
<1>11. CASE Backfill
  BY <1>1, <1>11 DEF Backfill, Types
<1>12. ASSUME NEW a \in Alert, NEW s \in Symbol, CreateAlert(a, s)
       PROVE  NoGapToFill' /\ AllFinal'
  <2>1. NoGapToFill'
    BY <1>1, <1>12 DEF CreateAlert, NoGapToFill
  <2>2. ASSUME NEW b \in Alert, NEW m, Final(b, m) PROVE Final(b, m)'
    <3>1. b # a
      BY <1>12, <2>2 DEF CreateAlert, Final, Born, Unborn
    <3>2. alerts'[b] = alerts[b] /\ candles' = candles
      BY <1>1, <1>12, <3>1 DEF CreateAlert, Types
    <3>. QED
      BY <2>2, <3>2, Untouched
  <2>. QED
    BY <1>1, <1>12, <2>1, <2>2 DEF CreateAlert, AllFinal, Types
<1>. QED
  BY <1>3, <1>4, <1>5, <1>6, <1>7, <1>8, <1>9, <1>10, <1>11, <1>12 DEF Next

\* What is stored for an entry alert is what its window holds now, whatever
\* was ingested since it was computed, as long as nothing was backfilled.
THEOREM EvaluatedOnFinalCandles == Spec => []EvaluatedForGood
<1>1. FinalInv /\ [Next]_vars => FinalInv'
  <2>. SUFFICES ASSUME FinalInv, [Next]_vars PROVE FinalInv'
    OBVIOUS
  <2>1. Types'
    BY TypesStep DEF FinalInv
  <2>2. backfills' = 0 => NoGapToFill' /\ AllFinal'
    BY FinalStep
  <2>. QED
    BY <2>1, <2>2 DEF FinalInv
<1>2. FinalInv => EvaluatedForGood
  BY DEF FinalInv, AllFinal, Final, EvaluatedForGood
<1>. QED
  BY FinalInit, <1>1, <1>2, PTL DEF Spec
=============================================================================
