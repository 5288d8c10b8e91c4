---------------------------- MODULE AlertDelivery ----------------------------
(***************************************************************************)
(* The alert delivery service (app/jobs/alert_delivery.py): a loop that    *)
(* wakes up, selects the recent undelivered alerts, calls the notifier for *)
(* each of them in turn, commits what came of it and sleeps.               *)
(*                                                                         *)
(* Time passes only where the service awaits something slow: in its sleeps *)
(* and in send_text(), which retries inside (module SlackNotifier).  The   *)
(* state machine creates alerts at any time.  The process may crash and    *)
(* restart, and a commit may fail.                                         *)
(***************************************************************************)
EXTENDS Integers, FiniteSets

CONSTANTS
    Alert,                \* the alerts the state machine may create
    None,
    MaxAttempts, MaxAge, BatchSize, Delay,
    FailuresBeforePause, Pause, Interval,
    Calls,                \* what may come of a call of send_text()
    MaxFaults,            \* bound: crashes, failed commits and lost answers
    LastCreation,         \* bound: no alert is created after this time
    MaxTime               \* bound: the clock stops here

ASSUME AttemptsAssumption ==
    MaxAttempts \in Nat \ {0} /\ Delay \in [0..MaxAttempts -> Nat] /\ Delay[0] = 0
ASSUME TimesAssumption ==
    {MaxAge, Pause, Interval, MaxFaults, LastCreation, MaxTime} \subseteq Nat
ASSUME CallsAssumption ==
    /\ \E longest \in Calls : \A c \in Calls : c.time <= longest.time
    /\ \A c \in Calls :
           /\ c.ok \in BOOLEAN /\ {c.time, c.lost} \subseteq Nat
           /\ c.posts = c.lost + IF c.ok THEN 1 ELSE 0
ASSUME LimitsAssumption ==
    BatchSize \in Nat \ {0} /\ FailuresBeforePause \in Nat \ {0} /\ Interval > 0
ASSUME AlertAssumption == IsFiniteSet(Alert)
ASSUME NoneAssumption == None \notin Int

VARIABLES
    clock,
    table,        \* table alerts
    pc,           \* "sleeping", "batch" or "sending"
    batch,        \* the open batch: its time, session and counters
    sending,      \* the alert send_text() is working on, and since when
    wakeAt,       \* when the sleep is over
    pauseUntil, consecutive,   \* locals of the service
    calls,        \* history: calls of send_text() and messages posted
    failRun,      \* history: failed calls since the last successful one
    faults,       \* history: faults so far
    slow          \* history: a call took more than one unit of time

service == <<pc, batch, sending, wakeAt, pauseUntil, consecutive>>
history == <<calls, failRun, faults, slow>>
vars == <<clock, table, service, history>>

-----------------------------------------------------------------------------

Unborn == [ts |-> None, delivered |-> FALSE, attempts |-> 0, last |-> None]
NoCalls == [made |-> 0, last |-> None, posts |-> 0, lostAnswers |-> 0, lostCalls |-> 0]
NoBatch == [now |-> None, todo |-> {}, rows |-> [a \in {} |-> Unborn],
            failed |-> 0, delivered |-> 0]
NoSend == [alert |-> None, since |-> None]

Init ==
    /\ clock = 0
    /\ table = [a \in Alert |-> Unborn]
    /\ pc = "sleeping" /\ batch = NoBatch /\ sending = NoSend /\ wakeAt = 0
    /\ pauseUntil = None /\ consecutive = 0
    /\ calls = [a \in Alert |-> NoCalls] /\ failRun = 0 /\ faults = 0 /\ slow = FALSE

\* Mutant: delivered alerts are selected too.
PendingOrDelivered ==
    {a \in Alert : /\ table[a].ts # None /\ table[a].ts >= clock - MaxAge
                   /\ table[a].attempts < MaxAttempts}
\* Mutant: stale alerts are selected too.
PendingAnyAge ==
    {a \in Alert : /\ table[a].ts # None /\ ~table[a].delivered
                   /\ table[a].attempts < MaxAttempts}
Pending ==
    {a \in Alert : /\ table[a].ts # None
                   /\ ~table[a].delivered
                   /\ table[a].ts >= clock - MaxAge
                   /\ table[a].attempts < MaxAttempts}

\* The oldest pending alerts, as many as a batch takes.
OldestPending ==
    {B \in SUBSET Pending :
        /\ Cardinality(B) <= BatchSize
        /\ B = Pending \/ Cardinality(B) = BatchSize
        /\ \A a \in B, o \in Pending \ B : table[a].ts <= table[o].ts}

SendTime == CHOOSE t \in {c.time : c \in Calls} : \A c \in Calls : c.time <= t

Paused == pauseUntil # None /\ clock < pauseUntil

\* Mutant: the delay is looked up for the attempt already made.
DueTooEarly(row, now) ==
    row.last # None => now - row.last >= Delay[row.attempts - 1]
Due(row, now) == row.last # None => now - row.last >= Delay[row.attempts]

NextAlert(a) ==
    a \in batch.todo /\ \A o \in batch.todo : batch.rows[a].ts <= batch.rows[o].ts

-----------------------------------------------------------------------------
(* The service *)

StayPaused ==
    /\ pc = "sleeping" /\ clock >= wakeAt /\ Paused
    /\ wakeAt' = pauseUntil
    /\ UNCHANGED <<clock, table, pc, batch, sending, pauseUntil, consecutive, history>>

StartBatch ==
    /\ pc = "sleeping" /\ clock >= wakeAt /\ ~Paused
    /\ pc' = "batch"
    /\ \E B \in OldestPending :
           batch' = [now |-> clock, todo |-> B, rows |-> [a \in B |-> table[a]],
                     failed |-> 0, delivered |-> 0]
    /\ UNCHANGED <<clock, table, sending, wakeAt, pauseUntil, consecutive, history>>

SkipNotDue(a) ==
    /\ pc = "batch" /\ NextAlert(a) /\ ~Due(batch.rows[a], batch.now)
    /\ batch' = [batch EXCEPT !.todo = @ \ {a}]
    /\ UNCHANGED <<clock, table, pc, sending, wakeAt, pauseUntil, consecutive, history>>

\* Mutant: the attempt is stamped but not counted.
BeginSendUncounted(a) ==
    /\ pc = "batch" /\ NextAlert(a) /\ Due(batch.rows[a], batch.now)
    /\ pc' = "sending"
    /\ sending' = [alert |-> a, since |-> clock]
    /\ batch' = [batch EXCEPT !.todo = @ \ {a}, !.rows[a].last = batch.now]
    /\ calls' = [calls EXCEPT ![a].made = @ + 1, ![a].last = clock]
    /\ UNCHANGED <<clock, table, wakeAt, pauseUntil, consecutive, failRun, faults, slow>>

BeginSend(a) ==
    /\ pc = "batch" /\ NextAlert(a) /\ Due(batch.rows[a], batch.now)
    /\ pc' = "sending"
    /\ sending' = [alert |-> a, since |-> clock]
    /\ batch' = [batch EXCEPT !.todo = @ \ {a},
                              !.rows[a].attempts = @ + 1, !.rows[a].last = batch.now]
    /\ calls' = [calls EXCEPT ![a].made = @ + 1, ![a].last = clock]
    /\ UNCHANGED <<clock, table, wakeAt, pauseUntil, consecutive, failRun, faults, slow>>

\* The call comes to its end as c says; an answer that was lost inside it is a
\* fault.
EndCall(c) ==
    /\ pc = "sending" /\ clock = sending.since + c.time
    /\ faults' = faults + c.lost /\ faults' <= MaxFaults
    /\ pc' = "batch" /\ sending' = NoSend
    /\ calls' = [calls EXCEPT ![sending.alert].posts = @ + c.posts,
                              ![sending.alert].lostAnswers = @ + c.lost]
    /\ UNCHANGED <<clock, table, wakeAt, pauseUntil, consecutive, slow>>

SendOk(c) ==
    /\ c.ok /\ EndCall(c)
    /\ batch' = [batch EXCEPT !.delivered = @ + 1, !.rows[sending.alert].delivered = TRUE]
    /\ failRun' = 0

SendFail(c) ==
    /\ ~c.ok /\ EndCall(c)
    /\ batch' = [batch EXCEPT !.failed = @ + 1]
    /\ failRun' = failRun + 1

\* Mutant: a success does not end a run of failures.
FailuresNeverReset(b) == consecutive + b.failed
Failures(b) ==
    IF b.delivered > 0 THEN 0 ELSE consecutive + b.failed

\* Mutant: the pause is twice as long.
CommitBatchLongPause ==
    /\ pc = "batch" /\ batch.todo = {}
    /\ table' = [a \in Alert |-> IF a \in DOMAIN batch.rows THEN batch.rows[a] ELSE table[a]]
    /\ IF Failures(batch) >= FailuresBeforePause
       THEN pauseUntil' = clock + 2 * Pause /\ consecutive' = 0
       ELSE consecutive' = Failures(batch) /\ UNCHANGED pauseUntil
    /\ pc' = "sleeping" /\ batch' = NoBatch /\ wakeAt' = clock + Interval
    /\ UNCHANGED <<clock, sending, history>>

CommitBatch ==
    /\ pc = "batch" /\ batch.todo = {}
    /\ table' = [a \in Alert |-> IF a \in DOMAIN batch.rows THEN batch.rows[a] ELSE table[a]]
    /\ IF Failures(batch) >= FailuresBeforePause
       THEN pauseUntil' = clock + Pause /\ consecutive' = 0
       ELSE consecutive' = Failures(batch) /\ UNCHANGED pauseUntil
    /\ pc' = "sleeping" /\ batch' = NoBatch /\ wakeAt' = clock + Interval
    /\ UNCHANGED <<clock, sending, history>>

\* The calls of the open batch are forgotten with it.
LoseBatch ==
    /\ faults < MaxFaults /\ faults' = faults + 1
    /\ calls' = [a \in Alert |->
                    IF a \in DOMAIN batch.rows
                    THEN [calls[a] EXCEPT !.lostCalls =
                             @ + batch.rows[a].attempts - table[a].attempts]
                    ELSE calls[a]]
    /\ pc' = "sleeping" /\ batch' = NoBatch /\ sending' = NoSend
    /\ UNCHANGED <<clock, table, failRun, slow>>

\* "alert delivery tick failed": the query or the commit did, and the loop goes
\* on as if nothing had been tried.
TickFails ==
    /\ pc = "batch"
    /\ batch.todo = DOMAIN batch.rows \/ batch.todo = {}
    /\ LoseBatch
    /\ wakeAt' = clock + Interval
    /\ UNCHANGED <<pauseUntil, consecutive>>

\* A crash or a shutdown, and the service of the next process, started at once.
Restart ==
    /\ LoseBatch
    /\ wakeAt' = clock /\ pauseUntil' = None /\ consecutive' = 0

-----------------------------------------------------------------------------
(* Its environment *)

CreateAlert(a) ==
    /\ table[a] = Unborn /\ clock <= LastCreation
    /\ table' = [table EXCEPT ![a].ts = clock]
    /\ UNCHANGED <<clock, service, history>>

Tick ==
    /\ clock < MaxTime
    /\ \/ pc = "sleeping" /\ clock < wakeAt
       \/ pc = "sending" /\ clock < sending.since + SendTime
    /\ clock' = clock + 1
    /\ slow' = (slow \/ (pc = "sending" /\ clock > sending.since))
    /\ UNCHANGED <<table, service, calls, failRun, faults>>

Next ==
    \/ StayPaused \/ StartBatch
    \/ \E a \in Alert : SkipNotDue(a) \/ BeginSend(a)
    \/ \E c \in Calls : SendOk(c) \/ SendFail(c)
    \/ CommitBatch \/ TickFails \/ Restart
    \/ \E a \in Alert : CreateAlert(a)
    \/ Tick

Spec == Init /\ [][Next]_vars

-----------------------------------------------------------------------------
(* What must hold *)

\* "initial attempt + 3 retries": send_text() is called for an alert at most
\* MaxAttempts times.  That holds for calls that were committed; the calls of a
\* batch that was lost (a crash, a failed commit) come on top.
AttemptLimitButLost ==
    \A a \in Alert : calls[a].made <= MaxAttempts + calls[a].lostCalls

\* One alert is posted twice only if an answer of the chat service or a batch
\* was lost.
DuplicateNeedsFault ==
    \A a \in Alert : calls[a].posts <= 1 + calls[a].lostAnswers + calls[a].lostCalls

\* How long an alert may wait behind the other calls of its batch.
BatchTime == (BatchSize - 1) * IF slow THEN SendTime ELSE 1

\* "don't deliver if older than this": the age is checked when the batch is
\* selected, so an alert is older by what the calls before it in its batch take
\* (minutes, if they retry), and by no more.
StaleByOneBatch ==
    \A a \in Alert : calls[a].made > 0 => calls[a].last - table[a].ts <= MaxAge + BatchTime

\* "Delay since last attempt for the next attempt": an attempt is stamped with
\* the start of its batch and not with its own time, so the next one comes too
\* early, but by the length of a batch at most (a lost batch starts over).
DelaysKeptButForBatch ==
    [][\A a \in Alert :
           /\ calls'[a].made > calls[a].made /\ calls[a].made > 0
           /\ calls[a].lostCalls = 0
           => calls'[a].last - calls[a].last >= Delay[calls[a].made] - BatchTime]_vars

\* The service pauses only after FailuresBeforePause calls in a row failed:
\* failures are not added up across a success (a success whose batch was lost it
\* does not know of).
PauseJustified ==
    [][pauseUntil' # pauseUntil /\ pauseUntil' # None =>
           failRun >= FailuresBeforePause \/ faults > 0]_vars

\* Without faults, and while no call has to retry for long, no alert grows too
\* old untried: neither a pause nor the calls of one batch keep the service away
\* from it for MaxAge (given the two together fit into it).
TriedBeforeStale ==
    faults = 0 /\ ~slow =>
        \A a \in Alert :
            table[a].ts # None /\ clock - table[a].ts > MaxAge => calls[a].made > 0
=============================================================================
