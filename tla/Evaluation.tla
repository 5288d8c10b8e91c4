----------------------------- MODULE Evaluation -----------------------------
(***************************************************************************)
(* The evaluation job (app/jobs/evaluation.py, app/evaluation.py): every   *)
(* minute it takes the oldest entry alerts without an evaluation, reads    *)
(* the candles of each of them one after the other, and stores what it     *)
(* computed in one commit.                                                 *)
(*                                                                         *)
(* Beside it alerts are created, and candles reach the database: a tick of *)
(* the ingestion brings the newest ones, a backfill at a restart any older *)
(* ones.  Either may pass a candle by, which then is missing.  A metric is *)
(* represented by the candles it is computed from.                         *)
(***************************************************************************)
EXTENDS Integers, FiniteSets

CONSTANTS
    Alert,          \* entry alerts the state machine may create
    Symbol, None,
    Horizon,        \* 60 minutes in the code
    Offsets,        \* 5, 15 and 60 minutes in the code
    BatchSize,
    PollCount,
    MaxBackfills,   \* bound
    MaxMinute       \* bound: the clock stops here

ASSUME HorizonAssumption == Horizon \in Nat \ {0} /\ Horizon \in Offsets /\ Offsets \subseteq 1..Horizon
ASSUME LimitAssumption == {BatchSize, PollCount} \subseteq Nat \ {0}
ASSUME BoundAssumption == {MaxBackfills, MaxMinute} \subseteq Nat
ASSUME NoneAssumption == None \notin Nat

VARIABLES
    minute,
    alerts,     \* table alerts, the entry alerts of it
    evals,      \* table alert_evaluation
    candles,    \* table candles_1m: the minutes each symbol has a candle for
    pc, job,    \* the open batch
    backfills

db == <<alerts, candles, minute, backfills>>
vars == <<db, evals, pc, job>>

-----------------------------------------------------------------------------

Unborn == [ts |-> None, symbol |-> None, t0 |-> None]
NoJob == [now |-> None, todo |-> {}, computed |-> [a \in {} |-> {}]]

Init ==
    /\ minute = 1
    /\ alerts = [a \in Alert |-> Unborn]
    /\ evals = [a \in Alert |-> None]
    /\ candles = [s \in Symbol |-> {}]
    /\ pc = "idle" /\ job = NoJob /\ backfills = 0

\* Mutant: only recent alerts are looked at.
UnevaluatedRecent ==
    {a \in Alert : /\ alerts[a].ts # None /\ evals[a] = None
                   /\ alerts[a].ts >= minute - Horizon}
Unevaluated == {a \in Alert : alerts[a].ts # None /\ evals[a] = None}

\* The oldest entry alerts without an evaluation, as many as a batch takes.
Batches ==
    {B \in SUBSET Unevaluated :
        /\ Cardinality(B) <= BatchSize
        /\ B = Unevaluated \/ Cardinality(B) = BatchSize
        /\ \A a \in B, o \in Unevaluated \ B : alerts[a].ts <= alerts[o].ts}

Window(a) == candles[alerts[a].symbol] \cap alerts[a].t0..(alerts[a].t0 + Horizon)

\* Mutant: the last candle of the window is not waited for.
ComputableWithoutEnd(a) == alerts[a].t0 \in Window(a)
Computable(a) == {alerts[a].t0, alerts[a].t0 + Horizon} \subseteq Window(a)

\* The forward returns there are, and the candles MAE and MFE range over.
Metrics(a) ==
    [returns |-> {k \in Offsets : alerts[a].t0 + k \in Window(a)},
     range |-> Window(a) \ {alerts[a].t0}]

-----------------------------------------------------------------------------
(* The job *)

StartBatch ==
    /\ pc = "idle"
    /\ pc' = "batch"
    /\ \E B \in Batches : job' = [NoJob EXCEPT !.now = minute, !.todo = B]
    /\ UNCHANGED <<db, evals>>

NextAlert(a) == a \in job.todo /\ \A o \in job.todo : alerts[a].ts <= alerts[o].ts

TooEarly(a) == job.now < alerts[a].t0 + Horizon + 1

Skip(a) ==
    /\ pc = "batch" /\ NextAlert(a) /\ (TooEarly(a) \/ ~Computable(a))
    /\ job' = [job EXCEPT !.todo = @ \ {a}]
    /\ UNCHANGED <<db, evals, pc>>

Compute(a) ==
    /\ pc = "batch" /\ NextAlert(a) /\ ~TooEarly(a) /\ Computable(a)
    /\ job' = [job EXCEPT !.todo = @ \ {a},
                          !.computed = [b \in DOMAIN @ \cup {a} |->
                                            IF b = a THEN Metrics(a) ELSE @[b]]]
    /\ UNCHANGED <<db, evals, pc>>

Commit ==
    /\ pc = "batch" /\ job.todo = {}
    /\ evals' = [a \in Alert |->
                    IF a \in DOMAIN job.computed /\ evals[a] = None
                    THEN job.computed[a] ELSE evals[a]]
    /\ pc' = "idle" /\ job' = NoJob
    /\ UNCHANGED db

\* "evaluation tick failed", or a crash.
Abort ==
    /\ pc = "batch"
    /\ pc' = "idle" /\ job' = NoJob
    /\ UNCHANGED <<db, evals>>

-----------------------------------------------------------------------------
(* Its environment *)

Tick ==
    /\ minute < MaxMinute /\ minute' = minute + 1
    /\ UNCHANGED <<alerts, candles, backfills, evals, pc, job>>

\* An ingest brings the newest closed candles of some symbols.
Ingest ==
    /\ \E T \in SUBSET Symbol :
           candles' = [s \in Symbol |->
               IF s \in T
               THEN candles[s] \cup {t \in (minute - PollCount + 1)..(minute - 1) : t >= 0}
               ELSE candles[s]]
    /\ UNCHANGED <<alerts, minute, backfills, evals, pc, job>>

Backfill ==
    /\ backfills < MaxBackfills /\ backfills' = backfills + 1
    /\ candles' = [s \in Symbol |-> 0..(minute - 1)]
    /\ UNCHANGED <<alerts, minute, evals, pc, job>>

\* The candle an alert was created from was in memory: it may be missing in
\* the database.  It is the newest one, or an older one if ingests failed.
CreateAlert(a, s) ==
    /\ alerts[a] = Unborn
    /\ \E t \in {minute - 1, minute - 2} :
           t >= 0 /\ alerts' = [alerts EXCEPT ![a] = [ts |-> minute, symbol |-> s, t0 |-> t]]
    /\ UNCHANGED <<candles, minute, backfills, evals, pc, job>>

Next ==
    \/ StartBatch \/ Commit \/ Abort
    \/ \E a \in Alert : Skip(a) \/ Compute(a)
    \/ Tick \/ Ingest \/ Backfill
    \/ \E a \in Alert, s \in Symbol : CreateAlert(a, s)

Spec == Init /\ [][Next]_vars

\* The job runs every minute, and its database is not down for ever: from some
\* time on a batch is committed (with nothing computed, both look alike).
Fairness ==
    /\ WF_vars(StartBatch) /\ WF_vars(Commit)
    /\ WF_vars(\E a \in Alert : Skip(a) \/ Compute(a))
    /\ <>[][Abort => Commit]_vars
FairSpec == Spec /\ Fairness

-----------------------------------------------------------------------------
(* What must hold *)

\* An evaluation is stored once and for ever, so it must not be computed while
\* candles of its window may still arrive: no ingest after it would have
\* changed it.  (A backfill may have: it reaches further back.)
EvaluatedForGood ==
    backfills = 0 => \A a \in Alert : evals[a] # None => evals[a] = Metrics(a)

\* "compute metrics once enough future candles exist": an entry alert whose
\* candles are there is evaluated.
EveryEntryEvaluated ==
    \A a \in Alert :
        (alerts[a].ts # None /\ minute > alerts[a].t0 + Horizon /\ Computable(a)) ~> evals[a] # None
=============================================================================
