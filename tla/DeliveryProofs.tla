--------------------------- MODULE DeliveryProofs ---------------------------
(***************************************************************************)
(* The delivery service, for any number of alerts, any delays, limits and  *)
(* calls, and any crashes: how often send_text() is called for an alert,   *)
(* how often it is posted, how old it is then, how far its attempts are    *)
(* apart, what a pause needs, and that no alert waits too long.            *)
(*                                                                         *)
(* The service counts attempts in the rows of its open batch, the table    *)
(* has those of the last commit, and the history has what really happened. *)
(* The first invariant relates the three; the second one puts the clock    *)
(* between the start of the batch and the calls it has made since; the     *)
(* third one says how long an untried alert waits.                         *)
(***************************************************************************)
EXTENDS AlertDelivery, FiniteSetTheorems, TLAPS

Row == [ts : Nat \cup {None}, delivered : BOOLEAN, attempts : Nat, last : Nat \cup {None}]
History == [made : Nat, last : Nat \cup {None}, posts : Nat, lostAnswers : Nat, lostCalls : Nat]
BatchRows == DOMAIN batch.rows

Types ==
    /\ clock \in Nat /\ faults \in Nat /\ failRun \in Nat /\ consecutive \in Nat
    /\ slow \in BOOLEAN /\ pc \in {"sleeping", "batch", "sending"}
    /\ table \in [Alert -> Row] /\ calls \in [Alert -> History]
    /\ batch = [now |-> batch.now, todo |-> batch.todo, rows |-> batch.rows,
                failed |-> batch.failed, delivered |-> batch.delivered]
    /\ BatchRows \subseteq Alert /\ batch.todo \subseteq BatchRows
    /\ batch.rows \in [BatchRows -> Row]
    /\ batch.failed \in Nat /\ batch.delivered \in Nat

\* The row the open batch has tried a with.
Tried(a) ==
    /\ batch.rows[a].attempts = table[a].attempts + 1
    /\ batch.rows[a].last = batch.now
    /\ batch.rows[a].ts = table[a].ts

BatchFits ==
    /\ pc = "sleeping" => BatchRows = {} /\ batch.failed = 0 /\ batch.delivered = 0
    /\ pc # "sleeping" => batch.now \in Nat
    /\ \A a \in BatchRows :
           /\ ~table[a].delivered /\ table[a].attempts < MaxAttempts
           /\ table[a].ts \in Nat /\ batch.now - table[a].ts <= MaxAge
           /\ batch.rows[a] = table[a] \/ Tried(a)
           /\ a \in batch.todo => batch.rows[a] = table[a]
    /\ pc = "sending" =>
           /\ sending.alert \in BatchRows \ batch.todo
           /\ Tried(sending.alert) /\ ~batch.rows[sending.alert].delivered

\* The row of a, as the service has it at the moment.
Current(a) == IF a \in BatchRows THEN batch.rows[a] ELSE table[a]

CallsFit ==
    \A a \in Alert :
        /\ Current(a).attempts <= MaxAttempts
        /\ calls[a].made = Current(a).attempts + calls[a].lostCalls
        /\ calls[a].posts <= calls[a].lostAnswers + calls[a].lostCalls
                             + IF Current(a).delivered THEN 1 ELSE 0

\* What the service counts has happened, and one after the other.
FailuresFit == faults = 0 /\ batch.delivered = 0 => failRun >= consecutive + batch.failed

CountInv == Types /\ BatchFits /\ CallsFit /\ FailuresFit

-----------------------------------------------------------------------------

LEMMA CallTypes ==
    ASSUME NEW c \in Calls
    PROVE  /\ c.ok \in BOOLEAN /\ c.time \in Nat /\ c.lost \in Nat /\ c.posts \in Nat
           /\ c.ok => c.posts = c.lost + 1
           /\ ~c.ok => c.posts = c.lost
BY CallsAssumption

LEMMA CountInit == Init => CountInv
<1>. SUFFICES ASSUME Init PROVE CountInv
  OBVIOUS
<1>1. Unborn \in Row /\ NoCalls \in History
  BY DEF Unborn, NoCalls, Row, History
<1>2. BatchRows = {} /\ batch.todo = {}
  BY DEF Init, NoBatch, BatchRows
<1>3. Types
  BY <1>1, <1>2 DEF Init, Types, NoBatch
<1>4. BatchFits
  BY <1>2 DEF Init, BatchFits, NoBatch
<1>5. \A a \in Alert : Current(a) = Unborn /\ calls[a] = NoCalls
  BY <1>2 DEF Init, Current
<1>6. CallsFit
  BY <1>5, AttemptsAssumption DEF CallsFit, Unborn, NoCalls
<1>7. FailuresFit
  BY DEF Init, FailuresFit, NoBatch
<1>. QED
  BY <1>3, <1>4, <1>6, <1>7 DEF CountInv

LEMMA StayPausedCounts ==
    ASSUME CountInv, StayPaused
    PROVE  CountInv'
BY DEF StayPaused, CountInv, Types, BatchFits, CallsFit, FailuresFit, Current, Tried, BatchRows, history

LEMMA StartCounts ==
    ASSUME CountInv, StartBatch
    PROVE  CountInv'
<1>1. PICK B \in OldestPending :
          batch' = [now |-> clock, todo |-> B, rows |-> [a \in B |-> table[a]],
                    failed |-> 0, delivered |-> 0]
  BY DEF StartBatch
<1>2. /\ pc = "sleeping" /\ pc' = "batch"
      /\ UNCHANGED <<clock, table, sending, wakeAt, pauseUntil, consecutive, history>>
  BY DEF StartBatch
<1>3. B \subseteq Alert /\ BatchRows' = B
  BY <1>1 DEF OldestPending, Pending, BatchRows
<1>4. \A a \in B : batch'.rows[a] = table[a]
  BY <1>1
<1>5. BatchRows = {} /\ batch.failed = 0 /\ batch.delivered = 0
  BY <1>2 DEF CountInv, BatchFits
<1>6. Types'
  BY <1>1, <1>2, <1>3 DEF CountInv, Types, history
<1>7. BatchFits'
  <2>1. \A a \in B : /\ ~table[a].delivered /\ table[a].attempts < MaxAttempts
                     /\ table[a].ts \in Nat /\ clock - table[a].ts <= MaxAge
    BY <1>3, TimesAssumption DEF OldestPending, Pending, CountInv, Types, Row
  <2>. QED
    BY <1>1, <1>2, <1>3, <1>4, <2>1 DEF BatchFits, CountInv, Types
<1>8. \A a \in Alert : Current(a)' = Current(a)
  BY <1>2, <1>3, <1>4, <1>5 DEF Current
<1>9. CallsFit'
  BY <1>2, <1>8 DEF CountInv, CallsFit, history
<1>10. FailuresFit'
  BY <1>1, <1>2, <1>5 DEF CountInv, FailuresFit, history
<1>. QED
  BY <1>6, <1>7, <1>9, <1>10 DEF CountInv

LEMMA SkipCounts ==
    ASSUME CountInv, NEW a \in Alert, SkipNotDue(a)
    PROVE  CountInv'
<1>1. /\ batch' = [batch EXCEPT !.todo = @ \ {a}] /\ pc = "batch"
      /\ UNCHANGED <<clock, table, pc, sending, consecutive, history>>
  BY DEF SkipNotDue
<1>2. /\ batch'.rows = batch.rows /\ batch'.todo = batch.todo \ {a} /\ batch'.now = batch.now
      /\ batch'.failed = batch.failed /\ batch'.delivered = batch.delivered
  BY <1>1 DEF CountInv, Types
<1>3. BatchRows' = BatchRows /\ \A s : Current(s)' = Current(s)
  BY <1>1, <1>2 DEF BatchRows, Current
<1>4. Types'
  BY <1>1, <1>2, <1>3 DEF CountInv, Types, history
<1>5. BatchFits'
  BY <1>1, <1>2, <1>3 DEF CountInv, BatchFits, Tried
<1>6. CallsFit' /\ FailuresFit'
  BY <1>1, <1>2, <1>3 DEF CountInv, CallsFit, FailuresFit, history
<1>. QED
  BY <1>4, <1>5, <1>6 DEF CountInv

\* A call is counted in its row, and in the history.
LEMMA BeginCounts ==
    ASSUME CountInv, NEW a \in Alert, BeginSend(a)
    PROVE  CountInv'
<1>. DEFINE row == [batch.rows[a] EXCEPT !.attempts = @ + 1, !.last = batch.now]
<1>1. /\ pc = "batch" /\ a \in batch.todo /\ pc' = "sending"
      /\ sending' = [alert |-> a, since |-> clock]
      /\ batch' = [batch EXCEPT !.todo = @ \ {a},
                                !.rows[a].attempts = @ + 1, !.rows[a].last = batch.now]
      /\ calls' = [calls EXCEPT ![a].made = @ + 1, ![a].last = clock]
      /\ UNCHANGED <<clock, table, wakeAt, pauseUntil, consecutive, failRun, faults, slow>>
  BY DEF BeginSend, NextAlert
<1>2. a \in BatchRows /\ batch.rows[a] \in Row /\ batch.now \in Nat
  BY <1>1 DEF CountInv, Types, BatchFits
<1>3. /\ batch'.rows = [batch.rows EXCEPT ![a] = row] /\ batch'.todo = batch.todo \ {a}
      /\ batch'.now = batch.now /\ batch'.failed = batch.failed /\ batch'.delivered = batch.delivered
      /\ batch' = [now |-> batch'.now, todo |-> batch'.todo, rows |-> batch'.rows,
                   failed |-> batch'.failed, delivered |-> batch'.delivered]
  BY <1>1, <1>2 DEF CountInv, Types
<1>4. BatchRows' = BatchRows
  BY <1>3 DEF BatchRows
<1>5. row \in Row /\ row.attempts = batch.rows[a].attempts + 1 /\ row.last = batch.now
      /\ row.ts = batch.rows[a].ts /\ row.delivered = batch.rows[a].delivered
  <2>1. batch.rows[a].attempts \in Nat /\ batch.rows[a].attempts + 1 \in Nat
    BY <1>2 DEF Row
  <2>. QED
    BY <1>2, <2>1 DEF Row
<1>. HIDE DEF row
<1>6. Types'
  <2>1. batch'.rows \in [BatchRows' -> Row]
    BY <1>3, <1>4, <1>5 DEF CountInv, Types
  <2>2. calls' \in [Alert -> History]
    <3>1. calls[a] \in History /\ calls[a].made + 1 \in Nat /\ clock \in Nat
      BY DEF CountInv, Types, History
    <3>2. [calls[a] EXCEPT !.made = @ + 1, !.last = clock] \in History
      BY <3>1 DEF History
    <3>3. calls' = [calls EXCEPT ![a] = [calls[a] EXCEPT !.made = @ + 1, !.last = clock]]
      BY <1>1 DEF CountInv, Types
    <3>. QED
      BY <3>2, <3>3 DEF CountInv, Types
  <2>. QED
    BY <1>1, <1>3, <1>4, <2>1, <2>2 DEF CountInv, Types
<1>7. batch'.rows[a] = row /\ \A s \in BatchRows \ {a} : batch'.rows[s] = batch.rows[s]
  BY <1>2, <1>3 DEF CountInv, Types
<1>8. batch.rows[a] = table[a]
  BY <1>1, <1>2 DEF CountInv, BatchFits
<1>9. BatchFits'
  <2>1. Tried(a)' /\ ~batch'.rows[a].delivered
    BY <1>1, <1>2, <1>3, <1>5, <1>7, <1>8 DEF Tried, CountInv, BatchFits
  <2>2. \A s \in BatchRows \ {a} : Tried(s)' <=> Tried(s)
    BY <1>1, <1>3, <1>7 DEF Tried
  <2>. QED
    BY <1>1, <1>2, <1>3, <1>4, <1>7, <2>1, <2>2 DEF CountInv, BatchFits
<1>10. Current(a)' = row /\ Current(a) = table[a] /\ \A s \in Alert \ {a} : Current(s)' = Current(s)
  BY <1>1, <1>2, <1>4, <1>7, <1>8 DEF Current
<1>11. CallsFit'
  <2>1. table[a].attempts < MaxAttempts /\ table[a].attempts \in Nat
    BY <1>2, <1>8 DEF CountInv, BatchFits, Row
  <2>2. /\ calls'[a].made = calls[a].made + 1 /\ calls'[a].lostCalls = calls[a].lostCalls
        /\ calls'[a].posts = calls[a].posts /\ calls'[a].lostAnswers = calls[a].lostAnswers
        /\ calls[a].made \in Nat /\ calls[a].lostCalls \in Nat
    BY <1>1 DEF CountInv, Types, History
  <2>3. \A s \in Alert \ {a} : calls'[s] = calls[s]
    BY <1>1 DEF CountInv, Types
  <2>4. /\ Current(a)'.attempts = table[a].attempts + 1
        /\ Current(a)'.delivered = table[a].delivered
    BY <1>5, <1>8, <1>10
  <2>5. /\ Current(a)'.attempts <= MaxAttempts
        /\ calls'[a].made = Current(a)'.attempts + calls'[a].lostCalls
        /\ calls'[a].posts <= calls'[a].lostAnswers + calls'[a].lostCalls
                              + IF Current(a)'.delivered THEN 1 ELSE 0
    <3>1. /\ calls[a].made = table[a].attempts + calls[a].lostCalls
          /\ calls[a].posts <= calls[a].lostAnswers + calls[a].lostCalls
                               + IF table[a].delivered THEN 1 ELSE 0
      BY <1>10 DEF CountInv, CallsFit
    <3>2. MaxAttempts \in Nat
      BY AttemptsAssumption
    <3>. QED
      BY <2>1, <2>2, <2>4, <3>1, <3>2
  <2>. QED
    BY <1>10, <2>3, <2>5 DEF CountInv, CallsFit
<1>12. FailuresFit'
  BY <1>1, <1>3 DEF CountInv, FailuresFit
<1>. QED
  BY <1>6, <1>9, <1>11, <1>12 DEF CountInv

\* The end of a call changes what it posted, and nothing of the other alerts.
CallEnded(a, c) ==
    /\ a \in BatchRows /\ a \in Alert
    /\ pc' = "batch" /\ faults' >= faults /\ faults' \in Nat
    /\ \A s \in Alert \ {a} : calls'[s] = calls[s]
    /\ calls' \in [Alert -> History]
    /\ calls'[a].made = calls[a].made /\ calls'[a].lostCalls = calls[a].lostCalls
    /\ calls'[a].last = calls[a].last
    /\ calls'[a].posts = calls[a].posts + c.posts
    /\ calls'[a].lostAnswers = calls[a].lostAnswers + c.lost
    /\ clock' = clock /\ table' = table /\ consecutive' = consecutive /\ slow' = slow

LEMMA EndCounts ==
    ASSUME CountInv, NEW c \in Calls, EndCall(c)
    PROVE  CallEnded(sending.alert, c)
<1>. DEFINE a == sending.alert
            history1 == [calls[a] EXCEPT !.posts = @ + c.posts, !.lostAnswers = @ + c.lost]
<1>1. /\ pc' = "batch" /\ faults' = faults + c.lost /\ pc = "sending"
      /\ calls' = [calls EXCEPT ![sending.alert].posts = @ + c.posts,
                                ![sending.alert].lostAnswers = @ + c.lost]
      /\ UNCHANGED <<clock, table, wakeAt, pauseUntil, consecutive, slow>>
  BY DEF EndCall
<1>2. a \in BatchRows /\ a \in Alert
  BY <1>1 DEF CountInv, BatchFits, Types
<1>3. faults' >= faults /\ faults' \in Nat
  BY <1>1, CallTypes DEF CountInv, Types
<1>4. /\ calls[a] \in History /\ calls[a].posts + c.posts \in Nat
      /\ calls[a].lostAnswers + c.lost \in Nat
  BY <1>2, CallTypes DEF CountInv, Types, History
<1>5. /\ history1 \in History /\ history1.made = calls[a].made
      /\ history1.lostCalls = calls[a].lostCalls /\ history1.last = calls[a].last
      /\ history1.posts = calls[a].posts + c.posts
      /\ history1.lostAnswers = calls[a].lostAnswers + c.lost
  BY <1>4 DEF History
<1>6. calls' = [calls EXCEPT ![a] = history1]
  BY <1>1, <1>2 DEF CountInv, Types
<1>. HIDE DEF history1
<1>7. calls'[a] = history1 /\ calls' \in [Alert -> History]
      /\ \A s \in Alert \ {a} : calls'[s] = calls[s]
  BY <1>2, <1>5, <1>6 DEF CountInv, Types
<1>. QED
  BY <1>1, <1>2, <1>3, <1>5, <1>7 DEF CallEnded

LEMMA OkCounts ==
    ASSUME CountInv, NEW c \in Calls, SendOk(c)
    PROVE  CountInv'
<1>1. /\ c.ok /\ EndCall(c) /\ pc = "sending" /\ failRun' = 0
      /\ batch' = [batch EXCEPT !.delivered = @ + 1, !.rows[sending.alert].delivered = TRUE]
  BY DEF SendOk, EndCall
<1>A. PICK a : a = sending.alert
  OBVIOUS
<1>. DEFINE row == [batch.rows[a] EXCEPT !.delivered = TRUE]
<1>0. CallEnded(a, c)
  BY <1>1, <1>A, EndCounts
<1>2. /\ a \in BatchRows \ batch.todo /\ Tried(a) /\ batch.rows[a] \in Row
      /\ ~batch.rows[a].delivered
  BY <1>1, <1>A DEF CountInv, BatchFits, Types
<1>3. /\ batch'.rows = [batch.rows EXCEPT ![a] = row] /\ batch'.todo = batch.todo
      /\ batch'.now = batch.now /\ batch'.failed = batch.failed
      /\ batch'.delivered = batch.delivered + 1
      /\ batch' = [now |-> batch'.now, todo |-> batch'.todo, rows |-> batch'.rows,
                   failed |-> batch'.failed, delivered |-> batch'.delivered]
  BY <1>1, <1>2, <1>A DEF CountInv, Types
<1>4. BatchRows' = BatchRows
  BY <1>3 DEF BatchRows
<1>5. row \in Row /\ row.attempts = batch.rows[a].attempts /\ row.last = batch.rows[a].last
      /\ row.ts = batch.rows[a].ts /\ row.delivered
  BY <1>2 DEF Row
<1>. HIDE DEF row
<1>6. Types'
  <2>1. batch'.rows \in [BatchRows' -> Row]
    BY <1>3, <1>4, <1>5 DEF CountInv, Types
  <2>. QED
    BY <1>0, <1>1, <1>3, <1>4, <2>1 DEF CountInv, Types, CallEnded
<1>7. batch'.rows[a] = row /\ \A s \in BatchRows \ {a} : batch'.rows[s] = batch.rows[s]
  BY <1>2, <1>3 DEF CountInv, Types
<1>8. BatchFits'
  <2>1. Tried(a)'
    BY <1>0, <1>2, <1>3, <1>5, <1>7 DEF Tried, CallEnded
  <2>2. \A s \in BatchRows \ {a} : Tried(s)' <=> Tried(s)
    BY <1>0, <1>3, <1>7 DEF Tried, CallEnded
  <2>. QED
    BY <1>0, <1>2, <1>3, <1>4, <1>7, <2>1, <2>2 DEF CountInv, BatchFits, CallEnded
<1>9. /\ Current(a)' = row /\ Current(a) = batch.rows[a]
      /\ \A s \in Alert \ {a} : Current(s)' = Current(s)
  BY <1>0, <1>2, <1>4, <1>7 DEF Current, CallEnded
<1>10. CallsFit'
  <2>1. /\ Current(a)'.attempts = Current(a).attempts /\ Current(a)'.delivered
        /\ ~Current(a).delivered
    BY <1>2, <1>5, <1>9
  <2>2. calls[a] \in History /\ a \in Alert
    BY <1>2 DEF CountInv, Types
  <2>3. /\ Current(a)'.attempts <= MaxAttempts
        /\ calls'[a].made = Current(a)'.attempts + calls'[a].lostCalls
        /\ calls'[a].posts <= calls'[a].lostAnswers + calls'[a].lostCalls
                              + IF Current(a)'.delivered THEN 1 ELSE 0
    <3>1. /\ Current(a).attempts <= MaxAttempts
          /\ calls[a].made = Current(a).attempts + calls[a].lostCalls
          /\ calls[a].posts <= calls[a].lostAnswers + calls[a].lostCalls
      BY <2>1, <2>2 DEF CountInv, CallsFit, History
    <3>2. c.posts = c.lost + 1 /\ c.lost \in Nat
      BY <1>1, CallTypes
    <3>3. {calls[a].posts, calls[a].lostAnswers, calls[a].lostCalls} \subseteq Nat
      BY <2>2 DEF History
    <3>. QED
      BY <1>0, <2>1, <3>1, <3>2, <3>3 DEF CallEnded
  <2>. QED
    BY <1>0, <1>9, <2>3 DEF CountInv, CallsFit, CallEnded
<1>11. FailuresFit'
  BY <1>3 DEF FailuresFit, CountInv, Types
<1>. QED
  BY <1>6, <1>8, <1>10, <1>11 DEF CountInv

LEMMA FailCounts ==
    ASSUME CountInv, NEW c \in Calls, SendFail(c)
    PROVE  CountInv'
<1>. DEFINE a == sending.alert
<1>1. /\ ~c.ok /\ EndCall(c) /\ pc = "sending" /\ failRun' = failRun + 1
      /\ batch' = [batch EXCEPT !.failed = @ + 1]
  BY DEF SendFail, EndCall
<1>0. CallEnded(a, c)
  BY <1>1, EndCounts
<1>2. /\ batch'.rows = batch.rows /\ batch'.todo = batch.todo /\ batch'.now = batch.now
      /\ batch'.failed = batch.failed + 1 /\ batch'.delivered = batch.delivered
      /\ batch' = [now |-> batch'.now, todo |-> batch'.todo, rows |-> batch'.rows,
                   failed |-> batch'.failed, delivered |-> batch'.delivered]
  BY <1>1 DEF CountInv, Types
<1>3. BatchRows' = BatchRows /\ \A s \in Alert : Current(s)' = Current(s)
  BY <1>0, <1>2 DEF BatchRows, Current, CallEnded
<1>4. Types'
  BY <1>0, <1>1, <1>2, <1>3 DEF CountInv, Types, CallEnded
<1>5. BatchFits'
  BY <1>0, <1>2, <1>3 DEF CountInv, BatchFits, Tried, CallEnded
<1>6. CallsFit'
  <2>1. calls[a] \in History /\ a \in Alert
    BY <1>0 DEF CountInv, Types, CallEnded
  <2>2. c.posts = c.lost /\ c.lost \in Nat
    BY <1>1, CallTypes
  <2>. QED
    BY <1>0, <1>3, <2>1, <2>2 DEF CountInv, CallsFit, History, CallEnded
<1>7. FailuresFit'
  BY <1>0, <1>1, <1>2 DEF CountInv, FailuresFit, Types, CallEnded
<1>. QED
  BY <1>4, <1>5, <1>6, <1>7 DEF CountInv

\* A commit makes the rows of the batch those of the table.
LEMMA CommitCounts ==
    ASSUME CountInv, CommitBatch
    PROVE  CountInv'
<1>1. /\ pc = "batch" /\ pc' = "sleeping" /\ batch' = NoBatch
      /\ table' = [a \in Alert |-> IF a \in DOMAIN batch.rows THEN batch.rows[a] ELSE table[a]]
      /\ consecutive' \in {0, Failures(batch)}
      /\ UNCHANGED <<clock, calls, failRun, faults, slow>>
  BY DEF CommitBatch, history
<1>2. BatchRows' = {} /\ batch'.todo = {} /\ batch'.failed = 0 /\ batch'.delivered = 0
  BY <1>1 DEF NoBatch, BatchRows
<1>3. \A a \in Alert : table'[a] = Current(a) /\ Current(a)' = Current(a) /\ Current(a) \in Row
  BY <1>1, <1>2 DEF Current, BatchRows, CountInv, Types
<1>4. Failures(batch) \in Nat
  BY DEF Failures, CountInv, Types
<1>5. Types'
  BY <1>1, <1>2, <1>3, <1>4 DEF CountInv, Types, NoBatch
<1>6. BatchFits'
  BY <1>1, <1>2 DEF BatchFits
<1>7. CallsFit'
  BY <1>1, <1>3 DEF CountInv, CallsFit
<1>8. FailuresFit'
  BY <1>1, <1>2, <1>4 DEF CountInv, Types, FailuresFit, Failures
<1>. QED
  BY <1>5, <1>6, <1>7, <1>8 DEF CountInv

\* A lost batch leaves the calls it made to the history.
LEMMA LostCallsFit ==
    ASSUME CountInv, LoseBatch
    PROVE  /\ calls' \in [Alert -> History]
           /\ \A a \in Alert :
                  /\ Current(a)' = table[a]
                  /\ calls'[a].made = table[a].attempts + calls'[a].lostCalls
                  /\ table[a].attempts <= MaxAttempts
                  /\ calls'[a].posts <= calls'[a].lostAnswers + calls'[a].lostCalls
                                        + IF table[a].delivered THEN 1 ELSE 0
                  /\ calls'[a].made = calls[a].made /\ calls'[a].last = calls[a].last
                  /\ calls'[a].lostCalls = 0 => calls[a].lostCalls = 0 /\ Current(a) = table[a]
<1>1. /\ calls' = [a \in Alert |->
                      IF a \in DOMAIN batch.rows
                      THEN [calls[a] EXCEPT !.lostCalls =
                               @ + batch.rows[a].attempts - table[a].attempts]
                      ELSE calls[a]]
      /\ batch' = NoBatch /\ UNCHANGED table
  BY DEF LoseBatch
<1>2. ASSUME NEW a \in Alert
      PROVE  /\ Current(a)' = table[a] /\ calls'[a] \in History
             /\ calls'[a].made = table[a].attempts + calls'[a].lostCalls
             /\ table[a].attempts <= MaxAttempts
             /\ calls'[a].posts <= calls'[a].lostAnswers + calls'[a].lostCalls
                                   + IF table[a].delivered THEN 1 ELSE 0
             /\ calls'[a].made = calls[a].made /\ calls'[a].last = calls[a].last
             /\ calls'[a].lostCalls = 0 => calls[a].lostCalls = 0 /\ Current(a) = table[a]
  <2>. DEFINE d == Current(a).attempts - table[a].attempts
  <2>1. Current(a)' = table[a]
    BY <1>1 DEF Current, BatchRows, NoBatch
  <2>2. calls[a] \in History /\ table[a] \in Row /\ MaxAttempts \in Nat
    BY AttemptsAssumption DEF CountInv, Types
  <2>3. \/ Current(a) = table[a] /\ d = 0
        \/ a \in BatchRows /\ Tried(a) /\ d = 1 /\ table[a].attempts < MaxAttempts
    BY <2>2 DEF Current, CountInv, BatchFits, Tried, Row
  <2>4. calls'[a] = [calls[a] EXCEPT !.lostCalls = @ + d]
    <3>1. CASE a \in BatchRows
      <4>1. calls[a].lostCalls + batch.rows[a].attempts - table[a].attempts
                = calls[a].lostCalls + (batch.rows[a].attempts - table[a].attempts)
        <5>1. batch.rows[a] \in Row
          BY <3>1 DEF CountInv, Types
        <5>. QED
          BY <2>2, <5>1 DEF Row, History
      <4>. QED
        BY <1>1, <3>1, <4>1 DEF BatchRows, Current
    <3>2. CASE a \notin BatchRows
      BY <1>1, <2>2, <2>3, <3>2 DEF BatchRows, Current, History
    <3>. QED
      BY <3>1, <3>2
  <2>5. /\ Current(a).attempts <= MaxAttempts
        /\ calls[a].made = Current(a).attempts + calls[a].lostCalls
        /\ calls[a].posts <= calls[a].lostAnswers + calls[a].lostCalls
                             + IF Current(a).delivered THEN 1 ELSE 0
    BY DEF CountInv, CallsFit
  <2>6. Current(a).attempts = table[a].attempts + d /\ d \in {0, 1}
    <3>1. Current(a) \in Row
      BY DEF Current, CountInv, Types
    <3>. QED
      BY <2>2, <2>3, <3>1 DEF Row
  <2>. HIDE DEF d
  <2>7. /\ calls'[a] \in History /\ calls'[a].lostCalls = calls[a].lostCalls + d
        /\ calls'[a].made = calls[a].made /\ calls'[a].posts = calls[a].posts
        /\ calls'[a].lostAnswers = calls[a].lostAnswers /\ calls'[a].last = calls[a].last
    BY <2>2, <2>4, <2>6 DEF History
  <2>8. {calls[a].made, calls[a].lostCalls, calls[a].posts, calls[a].lostAnswers,
         table[a].attempts} \subseteq Nat
    BY <2>2 DEF History, Row
  <2>9. calls'[a].made = table[a].attempts + calls'[a].lostCalls
    BY <2>5, <2>6, <2>7, <2>8
  <2>10. table[a].attempts <= MaxAttempts
    BY <2>2, <2>5, <2>6, <2>8
  <2>11. calls'[a].posts <= calls'[a].lostAnswers + calls'[a].lostCalls
                            + IF table[a].delivered THEN 1 ELSE 0
    <3>1. CASE d = 0
      BY <2>3, <2>5, <2>7, <2>8, <3>1
    <3>2. CASE d = 1
      BY <2>5, <2>7, <2>8, <3>2
    <3>. QED
      BY <2>6, <3>1, <3>2
  <2>12. calls'[a].lostCalls = 0 => calls[a].lostCalls = 0 /\ Current(a) = table[a]
    BY <2>3, <2>6, <2>7, <2>8
  <2>. QED
    BY <2>1, <2>7, <2>9, <2>10, <2>11, <2>12
<1>3. calls' \in [Alert -> History]
  <2>1. \A a \in Alert : calls'[a] \in History
    BY <1>2
  <2>. QED
    BY <1>1, <2>1
<1>. QED
  BY <1>2, <1>3

LEMMA LoseCounts ==
    ASSUME CountInv, TickFails \/ Restart
    PROVE  CountInv'
<1>1. LoseBatch /\ consecutive' \in {0, consecutive}
  BY DEF TickFails, Restart
<1>2. /\ faults' = faults + 1 /\ pc' = "sleeping" /\ batch' = NoBatch
      /\ UNCHANGED <<clock, table, failRun, slow>>
  BY <1>1 DEF LoseBatch
<1>3. BatchRows' = {} /\ batch'.todo = {} /\ batch'.failed = 0 /\ batch'.delivered = 0
  BY <1>2 DEF NoBatch, BatchRows
<1>4. Types'
  BY <1>1, <1>2, <1>3, LostCallsFit DEF CountInv, Types, NoBatch
<1>5. BatchFits' /\ FailuresFit'
  BY <1>2, <1>3 DEF BatchFits, FailuresFit, CountInv, Types
<1>6. CallsFit'
  BY <1>1, LostCallsFit DEF CallsFit
<1>. QED
  BY <1>4, <1>5, <1>6 DEF CountInv

LEMMA CreateCounts ==
    ASSUME CountInv, NEW a \in Alert, CreateAlert(a)
    PROVE  CountInv' /\ a \notin BatchRows
<1>1. /\ table[a] = Unborn /\ table' = [table EXCEPT ![a].ts = clock]
      /\ UNCHANGED <<clock, pc, batch, sending, wakeAt, pauseUntil, consecutive, calls, failRun,
                     faults, slow>>
  BY DEF CreateAlert, service, history
<1>2. a \notin BatchRows
  BY <1>1, NoneAssumption DEF CountInv, BatchFits, Unborn
<1>3. /\ table'[a] \in Row /\ table'[a].attempts = table[a].attempts
      /\ table'[a].delivered = table[a].delivered
      /\ \A s \in Alert \ {a} : table'[s] = table[s]
  BY <1>1 DEF CountInv, Types, Row
<1>4. /\ BatchRows' = BatchRows
      /\ \A s \in Alert : /\ Current(s)'.attempts = Current(s).attempts
                          /\ Current(s)'.delivered = Current(s).delivered
  BY <1>1, <1>2, <1>3 DEF Current, BatchRows
<1>5. Types'
  BY <1>1, <1>3, <1>4 DEF CountInv, Types
<1>6. BatchFits'
  <2>1. \A s \in BatchRows : table'[s] = table[s]
    BY <1>2, <1>3 DEF CountInv, Types
  <2>2. UNCHANGED <<pc, batch, sending>>
    BY <1>1
  <2>3. \A s \in BatchRows : Tried(s)' <=> Tried(s)
    BY <2>1, <2>2 DEF Tried
  <2>4. pc = "sending" => sending.alert \in BatchRows
    BY DEF CountInv, BatchFits
  <2>5. BatchFits
    BY DEF CountInv
  <2>. QED
    BY <1>4, <2>1, <2>2, <2>3, <2>4, <2>5 DEF BatchFits
<1>7. CallsFit' /\ FailuresFit'
  BY <1>1, <1>4 DEF CountInv, CallsFit, FailuresFit
<1>. QED
  BY <1>2, <1>5, <1>6, <1>7 DEF CountInv

LEMMA TickCounts ==
    ASSUME CountInv, Tick
    PROVE  CountInv'
<1>1. clock' = clock + 1 /\ slow' \in BOOLEAN
      /\ UNCHANGED <<table, pc, batch, sending, wakeAt, pauseUntil, consecutive, calls, failRun, faults>>
  BY DEF Tick, service, CountInv, Types
<1>2. BatchRows' = BatchRows /\ \A s \in Alert : Current(s)' = Current(s)
  BY <1>1 DEF BatchRows, Current
<1>. QED
  BY <1>1, <1>2 DEF CountInv, Types, BatchFits, Tried, CallsFit, FailuresFit

LEMMA CountStep == CountInv /\ [Next]_vars => CountInv'
<1>. SUFFICES ASSUME CountInv, [Next]_vars PROVE CountInv'
  OBVIOUS
<1>1. CASE UNCHANGED vars
  <2>1. BatchRows' = BatchRows /\ \A s \in Alert : Current(s)' = Current(s)
    BY <1>1 DEF BatchRows, Current, vars, service
  <2>. QED
    BY <1>1, <2>1 DEF vars, service, history, CountInv, Types, BatchFits, Tried, CallsFit, FailuresFit
<1>2. CASE Next
  BY <1>2, StayPausedCounts, StartCounts, SkipCounts, BeginCounts, OkCounts, FailCounts,
     CommitCounts, LoseCounts, CreateCounts, TickCounts DEF Next
<1>. QED
  BY <1>1, <1>2

THEOREM CountsCorrect == Spec => []CountInv
BY CountInit, CountStep, PTL DEF Spec

\* "initial attempt + 3 retries", and a call more for each that a lost batch
\* has forgotten (_MAX_DELIVERY_ATTEMPTS, and the commit after the batch).
THEOREM AttemptsLimited == Spec => []AttemptLimitButLost
<1>1. CountInv => AttemptLimitButLost
  <2>. SUFFICES ASSUME CountInv, NEW a \in Alert
                PROVE  calls[a].made <= MaxAttempts + calls[a].lostCalls
    BY DEF AttemptLimitButLost
  <2>1. Current(a).attempts \in Nat /\ calls[a].lostCalls \in Nat /\ MaxAttempts \in Nat
    BY AttemptsAssumption DEF CountInv, Types, Current, Row, History
  <2>. QED
    BY <2>1 DEF CountInv, CallsFit
<1>. QED
  BY CountsCorrect, <1>1, PTL

\* An alert is posted once, and once more for each answer of the chat service
\* or call of a batch that was lost.
THEOREM PostedOnceButLost == Spec => []DuplicateNeedsFault
<1>1. CountInv => DuplicateNeedsFault
  <2>. SUFFICES ASSUME CountInv, NEW a \in Alert
                PROVE  calls[a].posts <= 1 + calls[a].lostAnswers + calls[a].lostCalls
    BY DEF DuplicateNeedsFault
  <2>1. {calls[a].posts, calls[a].lostAnswers, calls[a].lostCalls} \subseteq Nat
    BY DEF CountInv, Types, History
  <2>. QED
    BY <2>1 DEF CountInv, CallsFit
<1>. QED
  BY CountsCorrect, <1>1, PTL

\* The service pauses only after so many calls in a row have failed, or after a
\* fault (consecutive_failures and pause_until_ms of the service loop).
THEOREM PausesJustified == Spec => PauseJustified
<1>1. ASSUME CountInv, [Next]_vars
      PROVE  pauseUntil' # pauseUntil /\ pauseUntil' # None =>
                 failRun >= FailuresBeforePause \/ faults > 0
  <2>. SUFFICES ASSUME pauseUntil' # pauseUntil, pauseUntil' # None, faults = 0
                PROVE  failRun >= FailuresBeforePause
    BY <1>1 DEF CountInv, Types
  <2>1. CommitBatch
    BY <1>1 DEF Next, vars, service, history, StayPaused, StartBatch, SkipNotDue, BeginSend, SendOk, SendFail,
                EndCall, TickFails, Restart, CreateAlert, Tick
  <2>2. Failures(batch) >= FailuresBeforePause
    BY <2>1 DEF CommitBatch
  <2>. QED
    BY <1>1, <2>2, LimitsAssumption DEF CountInv, Types, FailuresFit, Failures
<1>. QED
  BY CountsCorrect, <1>1, PTL DEF Spec, PauseJustified

-----------------------------------------------------------------------------
(* How long things take.  The calls of a batch are made one after the other, *)
(* so the clock is ahead of the start of the batch by at most the time of    *)
(* the calls made in it.                                                     *)

CallTime == IF slow THEN SendTime ELSE 1
Used == Cardinality(BatchRows \ batch.todo)

ClockFits ==
    /\ slow => SendTime >= 2
    /\ pc # "sleeping" => Cardinality(BatchRows) <= BatchSize /\ batch.now <= clock
    /\ pc = "batch" => clock <= batch.now + Used * CallTime
    /\ pc = "sending" =>
           /\ sending.since \in Nat
           /\ sending.since <= batch.now + (Used - 1) * CallTime
           /\ sending.since <= clock /\ clock <= sending.since + CallTime

\* The last call for a was made soon after the time it is stamped with.
LastFits(a) ==
    calls[a].made > 0 =>
        /\ calls[a].last \in Nat /\ table[a].ts \in Nat
        /\ calls[a].last - table[a].ts <= MaxAge + BatchTime
        /\ calls[a].lostCalls = 0 =>
               Current(a).last \in Nat /\ calls[a].last <= Current(a).last + BatchTime

TimeInv == ClockFits /\ \A a \in Alert : LastFits(a)

-----------------------------------------------------------------------------

LEMMA OneCallMore ==
    ASSUME NEW n \in Nat, NEW u \in Nat
    PROVE  (n - 1) * u + u = n * u
OBVIOUS

LEMMA MoreTimePerCall ==
    ASSUME NEW n \in Nat, NEW u \in Nat, NEW v \in Nat, u <= v
    PROVE  n * u <= n * v
OBVIOUS

LEMMA MoreCalls ==
    ASSUME NEW n \in Nat, NEW m \in Nat, NEW u \in Nat, n <= m
    PROVE  n * u <= m * u
OBVIOUS

\* The bound of a call is that of the longest one.
LEMMA SendTimes == SendTime \in Nat /\ \A c \in Calls : c.time \in Nat /\ c.time <= SendTime
<1>1. PICK longest \in Calls : \A c \in Calls : c.time <= longest.time
  BY CallsAssumption
<1>. DEFINE P(t) == t \in {c.time : c \in Calls} /\ \A c \in Calls : c.time <= t
<1>2. P(longest.time)
  BY <1>1
<1>. HIDE DEF P
<1>3. P(CHOOSE t : P(t))
  BY <1>2, Zenon
<1>4. SendTime = CHOOSE t : P(t)
  BY DEF SendTime, P
<1>. QED
  BY <1>3, <1>4, CallTypes DEF P

LEMMA CallTimes ==
    ASSUME Types, ClockFits
    PROVE  CallTime \in Nat /\ BatchTime = (BatchSize - 1) * CallTime /\ BatchTime \in Nat
<1>1. CallTime \in Nat /\ BatchTime = (BatchSize - 1) * CallTime
  BY SendTimes DEF CallTime, BatchTime
<1>. QED
  BY <1>1, LimitsAssumption

\* While time passes inside calls, their bound and that of the batch only grow.
LEMMA BoundsGrow ==
    ASSUME Types, Types', ClockFits, ClockFits', slow => slow'
    PROVE  CallTime <= CallTime' /\ BatchTime <= BatchTime'
           /\ {CallTime, CallTime', BatchTime, BatchTime'} \subseteq Nat
<1>1. {CallTime, CallTime'} \subseteq Nat /\ CallTime <= CallTime'
  BY SendTimes DEF CallTime, ClockFits
<1>2. /\ BatchTime = (BatchSize - 1) * CallTime
      /\ BatchTime' = (BatchSize - 1) * CallTime'
      /\ BatchSize - 1 \in Nat
  BY LimitsAssumption DEF BatchTime, CallTime
<1>3. (BatchSize - 1) * CallTime <= (BatchSize - 1) * CallTime'
  BY <1>1, <1>2, MoreTimePerCall
<1>. QED
  BY <1>1, <1>2, <1>3

LEMMA RowsFinite ==
    ASSUME Types, NEW S \in SUBSET BatchRows
    PROVE  IsFiniteSet(S) /\ Cardinality(S) \in Nat
<1>1. S \subseteq Alert
  BY DEF Types
<1>. QED
  BY <1>1, AlertAssumption, FS_Subset, FS_CardinalityType

\* The steps that call nobody: the last call of each alert stays where it was.
LEMMA LastKept ==
    ASSUME CountInv, CountInv', TimeInv, ClockFits', slow => slow',
           \A a \in Alert :
               /\ calls'[a].made = calls[a].made /\ calls'[a].last = calls[a].last
               /\ table[a].ts # None => table'[a].ts = table[a].ts
               /\ calls'[a].lostCalls = 0 =>
                      calls[a].lostCalls = 0 /\ Current(a)'.last = Current(a).last
    PROVE  TimeInv'
<1>. SUFFICES ASSUME NEW a \in Alert, calls'[a].made > 0
              PROVE  /\ calls'[a].last \in Nat /\ table'[a].ts \in Nat
                     /\ calls'[a].last - table'[a].ts <= MaxAge + BatchTime'
                     /\ calls'[a].lostCalls = 0 =>
                            /\ Current(a)'.last \in Nat
                            /\ calls'[a].last <= Current(a)'.last + BatchTime'
  BY DEF TimeInv, LastFits
<1>1. LastFits(a) /\ calls[a].made > 0
  BY DEF TimeInv
<1>2. BatchTime <= BatchTime' /\ {BatchTime, BatchTime'} \subseteq Nat /\ MaxAge \in Nat
  BY BoundsGrow, TimesAssumption DEF CountInv, TimeInv
<1>3. table'[a].ts = table[a].ts
  BY <1>1, NoneAssumption DEF LastFits
<1>. QED
  BY <1>1, <1>2, <1>3 DEF LastFits

LEMMA TimeInit == Init => TimeInv
<1>. SUFFICES ASSUME Init PROVE TimeInv
  OBVIOUS
<1>1. ClockFits
  BY DEF Init, ClockFits
<1>2. \A a \in Alert : calls[a].made = 0
  BY DEF Init, NoCalls
<1>. QED
  BY <1>1, <1>2 DEF TimeInv, LastFits

LEMMA StartTimes ==
    ASSUME CountInv, CountInv', TimeInv, StartBatch
    PROVE  TimeInv'
<1>1. PICK B \in OldestPending :
          batch' = [now |-> clock, todo |-> B, rows |-> [a \in B |-> table[a]],
                    failed |-> 0, delivered |-> 0]
  BY DEF StartBatch
<1>2. /\ pc = "sleeping" /\ pc' = "batch"
      /\ UNCHANGED <<clock, table, calls, faults, slow>>
  BY DEF StartBatch, history
<1>3. /\ BatchRows' = B /\ batch'.todo = B /\ batch'.now = clock /\ BatchRows = {}
      /\ \A a \in B : batch'.rows[a] = table[a]
  BY <1>1, <1>2 DEF BatchRows, CountInv, BatchFits
<1>4. ClockFits'
  <2>1. Used' = 0
    BY <1>3, FS_EmptySet DEF Used
  <2>2. CallTime' \in Nat /\ clock \in Nat /\ (slow' => SendTime >= 2)
    BY <1>2, SendTimes DEF CallTime, TimeInv, ClockFits, CountInv, Types
  <2>3. Used' * CallTime' = 0
    <3>1. \A t \in Nat : 0 * t = 0
      OBVIOUS
    <3>. QED
      BY <2>1, <2>2, <3>1
  <2>4. Cardinality(B) <= BatchSize
    BY DEF OldestPending
  <2>. QED
    BY <1>2, <1>3, <2>2, <2>3, <2>4 DEF ClockFits
<1>5. \A a \in Alert : Current(a)' = Current(a)
  BY <1>2, <1>3 DEF Current
<1>. QED
  BY <1>2, <1>4, <1>5, LastKept

LEMMA SkipTimes ==
    ASSUME CountInv, CountInv', TimeInv, NEW a \in Alert, SkipNotDue(a)
    PROVE  TimeInv'
<1>1. /\ batch' = [batch EXCEPT !.todo = @ \ {a}] /\ pc = "batch"
      /\ UNCHANGED <<clock, table, pc, sending, calls, faults, slow>>
  BY DEF SkipNotDue, history
<1>2. batch'.rows = batch.rows /\ batch'.todo = batch.todo \ {a} /\ batch'.now = batch.now
  BY <1>1 DEF CountInv, Types
<1>3. BatchRows' = BatchRows /\ CallTime' = CallTime /\ \A s : Current(s)' = Current(s)
  BY <1>1, <1>2 DEF BatchRows, Current, CallTime
<1>4. Used <= Used' /\ Used \in Nat /\ Used' \in Nat
  <2>1. BatchRows \ batch.todo \subseteq BatchRows' \ batch'.todo
    BY <1>2, <1>3
  <2>2. BatchRows' \ batch'.todo \in SUBSET BatchRows
    BY <1>3
  <2>. QED
    BY <2>1, <2>2, RowsFinite, FS_Subset DEF Used, CountInv
<1>5. ClockFits'
  <2>1. CallTime \in Nat /\ Used * CallTime <= Used' * CallTime
    BY <1>4, CallTimes, MoreCalls DEF CountInv, TimeInv
  <2>2. {Used * CallTime, Used' * CallTime, clock, batch.now} \subseteq Nat
    BY <1>1, <1>4, <2>1 DEF CountInv, Types, BatchFits
  <2>. QED
    BY <1>1, <1>2, <1>3, <2>1, <2>2 DEF ClockFits, TimeInv
<1>. QED
  BY <1>1, <1>3, <1>5, LastKept

\* The alert now tried waited for the calls before it in its batch.
LEMMA BeginTimes ==
    ASSUME CountInv, CountInv', TimeInv, NEW a \in Alert, BeginSend(a)
    PROVE  TimeInv'
<1>1. /\ pc = "batch" /\ a \in batch.todo /\ pc' = "sending"
      /\ sending' = [alert |-> a, since |-> clock]
      /\ batch' = [batch EXCEPT !.todo = @ \ {a},
                                !.rows[a].attempts = @ + 1, !.rows[a].last = batch.now]
      /\ calls' = [calls EXCEPT ![a].made = @ + 1, ![a].last = clock]
      /\ UNCHANGED <<clock, table, faults, slow>>
  BY DEF BeginSend, NextAlert
<1>2. a \in BatchRows /\ batch.rows[a] \in Row /\ batch.now \in Nat /\ clock \in Nat
  BY <1>1 DEF CountInv, Types, BatchFits
<1>3. /\ batch'.todo = batch.todo \ {a} /\ batch'.now = batch.now /\ BatchRows' = BatchRows
      /\ batch'.rows[a].last = batch.now
      /\ \A s \in BatchRows \ {a} : batch'.rows[s] = batch.rows[s]
  BY <1>1, <1>2 DEF CountInv, Types, BatchRows, Row
<1>4. CallTime' = CallTime /\ BatchTime' = BatchTime
  BY <1>1 DEF CallTime, BatchTime
<1>5. Used' = Used + 1 /\ Used \in Nat /\ Used <= BatchSize - 1
  <2>1. IsFiniteSet(BatchRows) /\ Cardinality(BatchRows) \in Nat
    BY RowsFinite DEF CountInv
  <2>2. IsFiniteSet(BatchRows \ batch.todo) /\ Used \in Nat
    BY RowsFinite DEF CountInv, Used
  <2>3. BatchRows' \ batch'.todo = (BatchRows \ batch.todo) \cup {a}
    BY <1>1, <1>2, <1>3
  <2>4. Used' = Used + 1
    BY <1>1, <2>2, <2>3, FS_AddElement DEF Used
  <2>5. Used' <= Cardinality(BatchRows)
    <3>1. BatchRows' \ batch'.todo \subseteq BatchRows
      BY <1>3
    <3>. QED
      BY <2>1, <3>1, FS_Subset DEF Used
  <2>6. Cardinality(BatchRows) <= BatchSize
    BY <1>1 DEF TimeInv, ClockFits
  <2>. QED
    BY <2>1, <2>2, <2>4, <2>5, <2>6, LimitsAssumption
<1>6. clock <= batch.now + Used * CallTime /\ batch.now <= clock
  BY <1>1 DEF TimeInv, ClockFits
<1>7. CallTime \in Nat /\ BatchTime \in Nat /\ Used * CallTime <= BatchTime
  <2>1. BatchSize - 1 \in Nat
    BY LimitsAssumption
  <2>. QED
    BY <1>5, <2>1, CallTimes, MoreCalls DEF CountInv, TimeInv
<1>8. clock <= batch.now + BatchTime
  <2>1. Used * CallTime \in Nat
    BY <1>5, <1>7
  <2>. QED
    BY <1>2, <1>6, <1>7, <2>1
<1>9. ClockFits'
  <2>1. /\ sending'.since = clock /\ (slow' => SendTime >= 2)
        /\ Cardinality(BatchRows') <= BatchSize /\ batch'.now <= clock'
    BY <1>1, <1>3, <1>6 DEF TimeInv, ClockFits
  <2>2. Used' - 1 = Used
    BY <1>5
  <2>3. clock <= clock + CallTime
    BY <1>2, <1>7
  <2>4. sending'.since <= batch'.now + (Used' - 1) * CallTime'
    BY <1>3, <1>4, <1>6, <2>1, <2>2
  <2>. QED
    BY <1>1, <1>2, <1>4, <2>1, <2>3, <2>4 DEF ClockFits
<1>10. LastFits(a)'
  <2>1. calls'[a].last = clock /\ Current(a)'.last = batch.now
    BY <1>1, <1>2, <1>3 DEF Current, CountInv, Types, History
  <2>2. table'[a].ts \in Nat /\ batch.now - table'[a].ts <= MaxAge /\ MaxAge \in Nat
    BY <1>1, <1>2, TimesAssumption DEF CountInv, BatchFits
  <2>. QED
    BY <1>2, <1>4, <1>7, <1>8, <2>1, <2>2 DEF LastFits
<1>11. ASSUME NEW s \in Alert, s # a
       PROVE  LastFits(s)'
  <2>1. calls'[s] = calls[s] /\ table'[s] = table[s] /\ Current(s)' = Current(s)
    BY <1>1, <1>3, <1>11 DEF Current, CountInv, Types
  <2>. QED
    BY <1>4, <1>11, <2>1 DEF TimeInv, LastFits
<1>. QED
  BY <1>9, <1>10, <1>11 DEF TimeInv

\* The end of a call, however it ended.
LEMMA EndTimes ==
    ASSUME CountInv, CountInv', TimeInv, NEW c \in Calls, SendOk(c) \/ SendFail(c)
    PROVE  TimeInv'
<1>1. /\ EndCall(c) /\ pc = "sending" /\ pc' = "batch" /\ clock = sending.since + c.time
      /\ UNCHANGED <<clock, table, slow>>
      /\ \/ batch' = [batch EXCEPT !.delivered = @ + 1, !.rows[sending.alert].delivered = TRUE]
         \/ batch' = [batch EXCEPT !.failed = @ + 1]
  BY DEF SendOk, SendFail, EndCall
<1>A. PICK a : a = sending.alert
  OBVIOUS
<1>2. CallEnded(a, c)
  BY <1>1, <1>A, EndCounts
<1>3. a \in BatchRows \ batch.todo /\ batch.rows[a] \in Row
  BY <1>1, <1>A DEF CountInv, BatchFits, Types
<1>4. /\ batch'.todo = batch.todo /\ batch'.now = batch.now /\ BatchRows' = BatchRows
      /\ batch'.rows[a].last = batch.rows[a].last
      /\ \A s \in BatchRows \ {a} : batch'.rows[s] = batch.rows[s]
  <2>1. /\ batch'.todo = batch.todo /\ batch'.now = batch.now
        /\ \/ batch'.rows = batch.rows
           \/ batch'.rows = [batch.rows EXCEPT ![a] = [batch.rows[a] EXCEPT !.delivered = TRUE]]
    BY <1>1, <1>3, <1>A DEF CountInv, Types
  <2>2. [batch.rows[a] EXCEPT !.delivered = TRUE].last = batch.rows[a].last
    BY <1>3 DEF Row
  <2>. QED
    BY <1>3, <2>1, <2>2 DEF CountInv, Types, BatchRows
<1>5. Used' = Used /\ CallTime' = CallTime
  BY <1>1, <1>4 DEF Used, CallTime
<1>6. \A s \in Alert : Current(s)'.last = Current(s).last
  BY <1>1, <1>3, <1>4 DEF Current
<1>7. ClockFits'
  <2>1. CallTime \in Nat /\ Used \in Nat /\ batch.now \in Nat /\ clock \in Nat
    <3>1. CallTime \in Nat
      BY CallTimes DEF CountInv, TimeInv
    <3>2. Used \in Nat
      BY RowsFinite DEF CountInv, Used
    <3>. QED
      BY <1>1, <3>1, <3>2 DEF CountInv, BatchFits, Types
  <2>2. /\ sending.since \in Nat /\ clock <= sending.since + CallTime
        /\ sending.since <= batch.now + (Used - 1) * CallTime
    BY <1>1 DEF TimeInv, ClockFits
  <2>3. (Used - 1) * CallTime + CallTime = Used * CallTime
    BY <2>1, OneCallMore
  <2>4. (Used - 1) * CallTime \in Int /\ Used * CallTime \in Int
    BY <2>1
  <2>5. clock <= batch.now + Used * CallTime
    BY <2>1, <2>2, <2>3, <2>4
  <2>. QED
    BY <1>1, <1>4, <1>5, <2>5 DEF ClockFits, TimeInv
<1>8. \A s \in Alert : calls'[s].made = calls[s].made /\ calls'[s].last = calls[s].last
                       /\ calls'[s].lostCalls = calls[s].lostCalls
  BY <1>2 DEF CallEnded
<1>. QED
  BY <1>1, <1>6, <1>7, <1>8, LastKept

LEMMA CommitTimes ==
    ASSUME CountInv, CountInv', TimeInv, CommitBatch
    PROVE  TimeInv'
<1>1. /\ pc = "batch" /\ pc' = "sleeping" /\ batch' = NoBatch
      /\ table' = [a \in Alert |-> IF a \in DOMAIN batch.rows THEN batch.rows[a] ELSE table[a]]
      /\ UNCHANGED <<clock, calls, slow>>
  BY DEF CommitBatch, history
<1>2. BatchRows' = {}
  BY <1>1 DEF NoBatch, BatchRows
<1>3. ClockFits'
  BY <1>1 DEF ClockFits, TimeInv
<1>4. ASSUME NEW a \in Alert
      PROVE  Current(a)' = Current(a) /\ table'[a].ts = table[a].ts
  <2>1. table'[a] = Current(a)
    BY <1>1 DEF Current, BatchRows
  <2>2. Current(a)' = table'[a]
    BY <1>2 DEF Current
  <2>3. Current(a).ts = table[a].ts
    BY DEF Current, CountInv, BatchFits, Tried
  <2>. QED
    BY <2>1, <2>2, <2>3
<1>. QED
  BY <1>1, <1>3, <1>4, LastKept

LEMMA LoseTimes ==
    ASSUME CountInv, CountInv', TimeInv, TickFails \/ Restart
    PROVE  TimeInv'
<1>1. LoseBatch /\ pc' = "sleeping" /\ UNCHANGED <<clock, table, slow>>
  BY DEF TickFails, Restart, LoseBatch
<1>2. ClockFits'
  BY <1>1 DEF ClockFits, TimeInv
<1>3. \A a \in Alert :
          /\ calls'[a].made = calls[a].made /\ calls'[a].last = calls[a].last
          /\ calls'[a].lostCalls = 0 =>
                 calls[a].lostCalls = 0 /\ Current(a)'.last = Current(a).last
  BY <1>1, LostCallsFit
<1>. QED
  BY <1>1, <1>2, <1>3, LastKept

LEMMA CreateTimes ==
    ASSUME CountInv, CountInv', TimeInv, NEW a \in Alert, CreateAlert(a)
    PROVE  TimeInv'
<1>1. /\ table[a] = Unborn /\ table' = [table EXCEPT ![a].ts = clock]
      /\ UNCHANGED <<clock, pc, batch, sending, calls, slow>>
  BY DEF CreateAlert, service, history
<1>2. BatchRows' = BatchRows /\ Used' = Used /\ CallTime' = CallTime
  BY <1>1 DEF BatchRows, Used, CallTime
<1>3. ClockFits'
  BY <1>1, <1>2 DEF ClockFits, TimeInv
<1>4. /\ \A s \in Alert \ {a} : table'[s] = table[s]
      /\ table'[a].last = table[a].last /\ table[a].ts = None
  BY <1>1 DEF CountInv, Types, Row, Unborn
<1>5. \A s \in Alert : Current(s)'.last = Current(s).last
  BY <1>1, <1>2, <1>4 DEF Current
<1>. QED
  BY <1>1, <1>3, <1>4, <1>5, LastKept

\* Time passes while the service sleeps, or inside a call; the second tick of a
\* call makes it a slow one.
LEMMA TickTimes ==
    ASSUME CountInv, CountInv', TimeInv, Tick
    PROVE  TimeInv'
<1>1. /\ clock' = clock + 1 /\ clock \in Nat
      /\ slow' <=> (slow \/ (pc = "sending" /\ clock > sending.since))
      /\ pc # "sleeping" => pc = "sending" /\ clock < sending.since + SendTime
      /\ UNCHANGED <<table, pc, batch, sending, calls>>
  BY DEF Tick, service, CountInv, Types
<1>2. BatchRows' = BatchRows /\ Used' = Used /\ \A s \in Alert : Current(s)' = Current(s)
  BY <1>1 DEF BatchRows, Used, Current
<1>3. slow \in BOOLEAN /\ slow' \in BOOLEAN /\ (slow => slow')
  BY <1>1 DEF CountInv, Types
<1>4. ClockFits'
  <2>1. CASE pc = "sleeping"
    BY <1>1, <2>1 DEF ClockFits, TimeInv
  <2>2. CASE pc = "sending"
    <3>1. /\ sending.since \in Nat /\ sending.since <= clock
          /\ sending.since <= batch.now + (Used - 1) * CallTime
          /\ Cardinality(BatchRows) <= BatchSize /\ batch.now <= clock /\ batch.now \in Nat
      BY <2>2 DEF ClockFits, TimeInv, CountInv, BatchFits
    <3>2. slow' => SendTime >= 2
      <4>1. slow => SendTime >= 2
        BY DEF ClockFits, TimeInv
      <4>2. clock > sending.since => SendTime >= 2
        BY <1>1, <2>2, <3>1, SendTimes
      <4>. QED
        BY <1>1, <4>1, <4>2
    <3>3. {CallTime, CallTime'} \subseteq Nat /\ CallTime <= CallTime'
      BY <1>3, <3>2, SendTimes DEF CallTime
    <3>4. clock' <= sending.since + CallTime'
      <4>1. CASE slow'
        BY <1>1, <2>2, <3>1, <4>1, SendTimes DEF CallTime
      <4>2. CASE ~slow'
        <5>1. clock = sending.since /\ CallTime' = 1
          BY <1>1, <2>2, <3>1, <4>2 DEF CallTime
        <5>. QED
          BY <1>1, <5>1
      <4>. QED
        BY <4>1, <4>2
    <3>5. Used - 1 \in Nat
      <4>1. sending.alert \in BatchRows \ batch.todo
        BY <2>2 DEF CountInv, BatchFits
      <4>2. IsFiniteSet(BatchRows \ batch.todo) /\ Used \in Nat
        BY RowsFinite DEF CountInv, Used
      <4>3. Used # 0
        BY <4>1, <4>2, FS_EmptySet DEF Used
      <4>. QED
        BY <4>2, <4>3
    <3>6. /\ (Used - 1) * CallTime <= (Used - 1) * CallTime'
          /\ {(Used - 1) * CallTime, (Used - 1) * CallTime'} \subseteq Nat
      BY <3>3, <3>5, MoreTimePerCall
    <3>7. sending.since <= batch.now + (Used - 1) * CallTime'
      BY <3>1, <3>6
    <3>. QED
      BY <1>1, <1>2, <2>2, <3>1, <3>2, <3>4, <3>7 DEF ClockFits
  <2>. QED
    BY <1>1, <2>1, <2>2
<1>. QED
  BY <1>1, <1>2, <1>3, <1>4, LastKept

LEMMA TimeStep == CountInv /\ CountInv' /\ TimeInv /\ [Next]_vars => TimeInv'
<1>. SUFFICES ASSUME CountInv, CountInv', TimeInv, [Next]_vars PROVE TimeInv'
  OBVIOUS
<1>1. CASE StayPaused \/ UNCHANGED vars
  <2>1. UNCHANGED <<clock, table, pc, batch, sending, calls, slow>>
    BY <1>1 DEF StayPaused, vars, service, history
  <2>2. /\ BatchRows' = BatchRows /\ Used' = Used /\ CallTime' = CallTime
        /\ \A s \in Alert : Current(s)' = Current(s)
    BY <2>1 DEF BatchRows, Used, CallTime, Current
  <2>3. ClockFits'
    BY <2>1, <2>2 DEF ClockFits, TimeInv
  <2>. QED
    BY <2>1, <2>2, <2>3, LastKept
<1>2. CASE Next
  BY <1>1, <1>2, StartTimes, SkipTimes, BeginTimes, EndTimes, CommitTimes, LoseTimes,
     CreateTimes, TickTimes DEF Next
<1>. QED
  BY <1>1, <1>2

THEOREM TimesCorrect == Spec => []TimeInv
BY TimeInit, TimeStep, CountsCorrect, PTL DEF Spec

\* send_text() is called for no alert that is older than MaxAge and the time of
\* a batch (the age is compared when the batch is selected).
THEOREM OldByOneBatch == Spec => []StaleByOneBatch
<1>1. TimeInv => StaleByOneBatch
  BY DEF TimeInv, LastFits, StaleByOneBatch
<1>. QED
  BY TimesCorrect, <1>1, PTL

\* Between two attempts lies the delay of the second one, less the time of a
\* batch, unless a batch was lost (_DELIVERY_DELAYS, last_delivery_attempt_ts).
THEOREM DelaysKept == Spec => DelaysKeptButForBatch
<1>1. ASSUME CountInv, TimeInv, [Next]_vars, NEW a \in Alert,
             calls'[a].made > calls[a].made, calls[a].made > 0, calls[a].lostCalls = 0
      PROVE  calls'[a].last - calls[a].last >= Delay[calls[a].made] - BatchTime
  <2>. DEFINE row == batch.rows[a]
  <2>1. BeginSend(a)
    <3>1. \A c \in Calls : EndCall(c) => calls'[a].made = calls[a].made
      <4>. SUFFICES ASSUME NEW c \in Calls, EndCall(c) PROVE calls'[a].made = calls[a].made
        OBVIOUS
      <4>. QED
        BY <1>1, EndCounts DEF CallEnded
    <3>2. LoseBatch => calls'[a].made = calls[a].made
      BY <1>1, LostCallsFit
    <3>3. \A s \in Alert : BeginSend(s) /\ s # a => calls'[a].made = calls[a].made
      BY <1>1 DEF BeginSend, CountInv, Types
    <3>4. UNCHANGED calls => calls'[a].made = calls[a].made
      OBVIOUS
    <3>5. calls[a].made \in Nat
      BY <1>1 DEF CountInv, Types, History
    <3>6. ~(calls'[a].made = calls[a].made)
      BY <1>1, <3>5
    <3>. QED
      BY <1>1, <3>1, <3>2, <3>3, <3>4, <3>6 DEF Next, vars, history, StayPaused, StartBatch,
         SkipNotDue, SendOk, SendFail, CommitBatch, TickFails, Restart, CreateAlert, Tick
  <2>2. /\ pc = "batch" /\ a \in BatchRows /\ Due(row, batch.now) /\ batch.now \in Nat
        /\ calls'[a].last = clock /\ clock \in Nat
    BY <1>1, <2>1 DEF BeginSend, NextAlert, CountInv, Types, BatchFits, History
  <2>3. batch.now <= clock
    BY <1>1, <2>2 DEF TimeInv, ClockFits
  <2>4. Current(a) = row /\ row.attempts = calls[a].made
    <3>1. Current(a) = row /\ row.attempts \in Nat
      BY <1>1, <2>2 DEF Current, CountInv, Types, Row
    <3>2. calls[a].made = row.attempts + calls[a].lostCalls
      BY <1>1, <3>1 DEF CountInv, CallsFit
    <3>. QED
      BY <1>1, <3>1, <3>2
  <2>5. row.last \in Nat /\ calls[a].last \in Nat /\ calls[a].last <= row.last + BatchTime
    BY <1>1, <2>4 DEF TimeInv, LastFits
  <2>6. batch.now - row.last >= Delay[calls[a].made]
    BY <2>2, <2>4, <2>5, NoneAssumption DEF Due
  <2>7. Delay[calls[a].made] \in Int
    <3>1. calls[a].made \in 0..MaxAttempts
      BY <1>1, <2>4, AttemptsAssumption DEF CountInv, CallsFit, Types, History
    <3>. QED
      BY <3>1, AttemptsAssumption
  <2>8. BatchTime \in Nat
    BY <1>1, CallTimes DEF CountInv, TimeInv
  <2>. HIDE DEF row
  <2>. QED
    BY <2>2, <2>3, <2>5, <2>6, <2>7, <2>8
<1>2. CountInv /\ TimeInv /\ [Next]_vars =>
          [\A a \in Alert :
               /\ calls'[a].made > calls[a].made /\ calls[a].made > 0
               /\ calls[a].lostCalls = 0
               => calls'[a].last - calls[a].last >= Delay[calls[a].made] - BatchTime]_vars
  BY <1>1
<1>. QED
  BY CountsCorrect, TimesCorrect, <1>2, PTL DEF Spec, DelaysKeptButForBatch

-----------------------------------------------------------------------------
(* How long an alert waits for its first call, without faults and slow       *)
(* calls, while no more than K alerts are pending: until the end of the      *)
(* batch that runs, a sleep or a pause, and the other calls of its own.      *)

Untried(a) == table[a].ts # None /\ calls[a].made = 0
LongestSleep == IF Interval > Pause THEN Interval ELSE Pause

\* A row that was not tried is as it was created.
Fresh(row) == row.attempts = 0 => row.last = None /\ ~row.delivered

RowsFresh ==
    /\ \A a \in Alert : Fresh(table[a])
    /\ \A a \in BatchRows : Fresh(batch.rows[a])
    /\ \A a \in BatchRows \ batch.todo : batch.rows[a].attempts > 0

\* A sleep is over in time, and so is a pause.
SleepFits ==
    /\ wakeAt \in Nat /\ pauseUntil \in Nat \cup {None}
    /\ pc = "sleeping" => clock <= wakeAt /\ wakeAt <= clock + LongestSleep
    /\ pauseUntil # None => pauseUntil <= clock + Pause

\* The batch an untried alert is in started early enough; one it is not in
\* started before it was created; a sleep or a pause ends early enough.
WaitFits(K) ==
    faults = 0 /\ ~slow =>
        /\ pc # "sleeping" => /\ Cardinality(BatchRows) <= K
                              /\ pauseUntil # None => pauseUntil <= batch.now
        /\ \A a \in Alert : Untried(a) =>
               /\ pc = "sleeping" =>
                      /\ wakeAt <= table[a].ts + K + LongestSleep
                      /\ pauseUntil # None => pauseUntil <= table[a].ts + K + LongestSleep
               /\ pc # "sleeping" =>
                      IF a \in BatchRows
                      THEN batch.now <= table[a].ts + K + LongestSleep
                      ELSE batch.now <= table[a].ts

WaitInv(K) == RowsFresh /\ SleepFits /\ WaitFits(K)

-----------------------------------------------------------------------------

LEMMA SleepTimes ==
    /\ LongestSleep \in Nat /\ Interval \in Nat /\ Pause \in Nat
    /\ Interval <= LongestSleep /\ Pause <= LongestSleep
BY TimesAssumption DEF LongestSleep

\* What an untried alert's row looks like.
LEMMA UntriedRow ==
    ASSUME CountInv, RowsFresh, NEW a \in Alert, Untried(a)
    PROVE  /\ table[a].ts \in Nat /\ Current(a).attempts = 0 /\ Current(a).last = None
           /\ ~Current(a).delivered
           /\ a \in BatchRows => a \in batch.todo
<1>1. calls[a].made = Current(a).attempts + calls[a].lostCalls /\ calls[a].made = 0
  BY DEF CountInv, CallsFit, Untried
<1>2. calls[a].lostCalls \in Nat /\ Current(a) \in Row /\ table[a] \in Row
  BY DEF CountInv, Types, History, Current
<1>3. Current(a).attempts \in Nat /\ table[a].ts \in Nat
  BY <1>2 DEF Row, Untried
<1>4. Current(a).attempts = 0
  BY <1>1, <1>2, <1>3
<1>5. Fresh(Current(a))
  BY DEF RowsFresh, Current
<1>. QED
  BY <1>3, <1>4, <1>5 DEF Fresh, RowsFresh, Current

LEMMA WaitInit ==
    ASSUME Init, NEW K \in Nat
    PROVE  WaitInv(K)
<1>1. RowsFresh
  BY DEF Init, RowsFresh, Fresh, Unborn, NoBatch, BatchRows
<1>2. SleepFits
  BY SleepTimes DEF Init, SleepFits
<1>3. WaitFits(K)
  BY DEF Init, WaitFits, Untried, Unborn
<1>. QED
  BY <1>1, <1>2, <1>3 DEF WaitInv

LEMMA FreshStep ==
    ASSUME CountInv, CountInv', RowsFresh, [Next]_vars
    PROVE  RowsFresh'
<1>1. CASE StayPaused \/ Tick \/ UNCHANGED vars
  <2>1. UNCHANGED <<table, batch>>
    BY <1>1 DEF StayPaused, Tick, vars, service
  <2>. QED
    BY <2>1 DEF RowsFresh, BatchRows
<1>2. CASE StartBatch
  <2>1. PICK B \in OldestPending :
            batch' = [now |-> clock, todo |-> B, rows |-> [a \in B |-> table[a]],
                      failed |-> 0, delivered |-> 0]
    BY <1>2 DEF StartBatch
  <2>2. B \subseteq Alert /\ table' = table
    BY <1>2 DEF OldestPending, Pending, StartBatch
  <2>. QED
    BY <2>1, <2>2 DEF RowsFresh, BatchRows
<1>3. ASSUME NEW a \in Alert, SkipNotDue(a) PROVE RowsFresh'
  <2>1. /\ batch'.rows = batch.rows /\ batch'.todo = batch.todo \ {a} /\ table' = table
        /\ a \in BatchRows /\ batch.rows[a] \in Row
    BY <1>3 DEF SkipNotDue, NextAlert, CountInv, Types
  <2>2. batch.rows[a].attempts > 0
    <3>1. batch.rows[a].last # None
      BY <1>3 DEF SkipNotDue, Due
    <3>. QED
      BY <2>1, <3>1 DEF RowsFresh, Fresh, Row
  <2>. QED
    BY <2>1, <2>2 DEF RowsFresh, BatchRows
<1>4. ASSUME NEW a \in Alert, BeginSend(a) PROVE RowsFresh'
  <2>1. /\ a \in batch.todo /\ a \in BatchRows /\ batch.rows[a] \in Row
        /\ table' = table
        /\ batch' = [batch EXCEPT !.todo = @ \ {a},
                                  !.rows[a].attempts = @ + 1, !.rows[a].last = batch.now]
    BY <1>4 DEF BeginSend, NextAlert, CountInv, Types
  <2>2. /\ batch'.todo = batch.todo \ {a} /\ BatchRows' = BatchRows
        /\ batch'.rows[a].attempts = batch.rows[a].attempts + 1
        /\ \A s \in BatchRows \ {a} : batch'.rows[s] = batch.rows[s]
    BY <2>1 DEF CountInv, Types, BatchRows, Row
  <2>3. batch'.rows[a].attempts > 0
    BY <2>1, <2>2 DEF Row
  <2>. QED
    BY <2>1, <2>2, <2>3 DEF RowsFresh, Fresh
<1>5. ASSUME NEW c \in Calls, SendOk(c) \/ SendFail(c) PROVE RowsFresh'
  <2>1. PICK a : a = sending.alert
    OBVIOUS
  <2>2. pc = "sending" /\ table' = table
    BY <1>5 DEF SendOk, SendFail, EndCall
  <2>3. a \in BatchRows \ batch.todo /\ batch.rows[a] \in Row /\ batch.rows[a].attempts > 0
    BY <2>1, <2>2 DEF CountInv, BatchFits, Types, RowsFresh
  <2>4. /\ batch'.todo = batch.todo /\ BatchRows' = BatchRows
        /\ batch'.rows[a].attempts = batch.rows[a].attempts
        /\ \A s \in BatchRows \ {a} : batch'.rows[s] = batch.rows[s]
    <3>1. CASE SendOk(c)
      <4>1. /\ batch'.todo = batch.todo
            /\ batch'.rows = [batch.rows EXCEPT ![a] = [batch.rows[a] EXCEPT !.delivered = TRUE]]
        BY <2>1, <2>3, <3>1 DEF SendOk, CountInv, Types
      <4>2. [batch.rows[a] EXCEPT !.delivered = TRUE].attempts = batch.rows[a].attempts
        BY <2>3 DEF Row
      <4>. QED
        BY <2>3, <4>1, <4>2 DEF CountInv, Types, BatchRows
    <3>2. CASE SendFail(c)
      BY <3>2 DEF SendFail, CountInv, Types, BatchRows
    <3>. QED
      BY <1>5, <3>1, <3>2
  <2>. QED
    BY <2>2, <2>3, <2>4 DEF RowsFresh, Fresh
<1>6. CASE CommitBatch
  <2>1. /\ table' = [a \in Alert |-> IF a \in DOMAIN batch.rows THEN batch.rows[a] ELSE table[a]]
        /\ BatchRows' = {}
    BY <1>6 DEF CommitBatch, NoBatch, BatchRows
  <2>. QED
    BY <2>1 DEF RowsFresh, BatchRows
<1>7. CASE TickFails \/ Restart
  <2>1. table' = table /\ BatchRows' = {}
    BY <1>7 DEF TickFails, Restart, LoseBatch, NoBatch, BatchRows
  <2>. QED
    BY <2>1 DEF RowsFresh
<1>8. ASSUME NEW a \in Alert, CreateAlert(a) PROVE RowsFresh'
  <2>1. /\ batch' = batch /\ \A s \in Alert \ {a} : table'[s] = table[s]
        /\ table'[a].last = table[a].last /\ table'[a].attempts = table[a].attempts
        /\ table'[a].delivered = table[a].delivered
    BY <1>8 DEF CreateAlert, service, CountInv, Types, Row
  <2>2. Fresh(table'[a])
    BY <2>1 DEF RowsFresh, Fresh
  <2>. QED
    BY <2>1, <2>2 DEF RowsFresh, BatchRows
<1>. QED
  BY <1>1, <1>2, <1>3, <1>4, <1>5, <1>6, <1>7, <1>8 DEF Next

LEMMA SleepStep ==
    ASSUME CountInv, SleepFits, [Next]_vars
    PROVE  SleepFits'
<1>1. clock \in Nat
  BY DEF CountInv, Types
<1>2. CASE StayPaused
  <2>1. /\ pauseUntil \in Nat /\ clock < pauseUntil /\ pauseUntil <= clock + Pause
        /\ wakeAt' = pauseUntil /\ UNCHANGED <<clock, pc, pauseUntil>>
    BY <1>2 DEF StayPaused, Paused, SleepFits
  <2>2. clock <= wakeAt' /\ wakeAt' <= clock + LongestSleep /\ wakeAt' \in Nat
    BY <1>1, <2>1, SleepTimes
  <2>. QED
    BY <2>1, <2>2 DEF SleepFits
<1>3. CASE CommitBatch
  <2>1. /\ pauseUntil' = clock + Pause \/ pauseUntil' = pauseUntil
        /\ wakeAt' = clock + Interval /\ clock' = clock
    BY <1>3 DEF CommitBatch
  <2>2. /\ {clock + Pause, clock + Interval} \subseteq Nat
        /\ clock <= clock + Interval /\ clock + Interval <= clock + LongestSleep
    BY <1>1, SleepTimes
  <2>3. /\ pauseUntil' \in Nat \cup {None}
        /\ pauseUntil' # None => pauseUntil' <= clock + Pause
    BY <2>1, <2>2 DEF SleepFits
  <2>. QED
    BY <2>1, <2>2, <2>3 DEF SleepFits
<1>4. CASE TickFails
  <2>1. wakeAt' = clock + Interval /\ UNCHANGED <<clock, pauseUntil>>
    BY <1>4 DEF TickFails, LoseBatch
  <2>. QED
    BY <1>1, <2>1, SleepTimes DEF SleepFits
<1>5. CASE Restart
  <2>1. wakeAt' = clock /\ pauseUntil' = None /\ clock' = clock
    BY <1>5 DEF Restart, LoseBatch
  <2>. QED
    BY <1>1, <2>1, SleepTimes DEF SleepFits
<1>6. CASE Tick
  <2>1. /\ clock' = clock + 1 /\ (pc = "sleeping" => clock < wakeAt)
        /\ UNCHANGED <<pc, wakeAt, pauseUntil>>
    BY <1>6 DEF Tick, service
  <2>. QED
    BY <1>1, <2>1, SleepTimes DEF SleepFits
<1>7. CASE StartBatch
  BY <1>7 DEF StartBatch, SleepFits
<1>8. CASE (UNCHANGED vars) \/ \E a \in Alert : CreateAlert(a)
  <2>1. UNCHANGED <<clock, pc, wakeAt, pauseUntil>>
    BY <1>8 DEF vars, service, CreateAlert
  <2>. QED
    BY <2>1 DEF SleepFits
<1>9. ASSUME NEW a \in Alert, SkipNotDue(a) \/ BeginSend(a) PROVE SleepFits'
  BY <1>9 DEF SkipNotDue, BeginSend, SleepFits
<1>10. ASSUME NEW c \in Calls, SendOk(c) \/ SendFail(c) PROVE SleepFits'
  BY <1>10 DEF SendOk, SendFail, EndCall, SleepFits
<1>. QED
  BY <1>2, <1>3, <1>4, <1>5, <1>6, <1>7, <1>8, <1>9, <1>10 DEF Next

-----------------------------------------------------------------------------
\* A batch is never larger than what was pending, and holds all of it if that
\* fits into one.
LEMMA AllPendingSelected ==
    ASSUME CountInv, NEW K \in Nat, K <= BatchSize, Cardinality(Pending) <= K,
           NEW B \in OldestPending
    PROVE  B = Pending
<1>1. B \subseteq Pending /\ (B = Pending \/ Cardinality(B) = BatchSize)
  BY DEF OldestPending
<1>2. IsFiniteSet(Pending) /\ Cardinality(Pending) \in Nat /\ BatchSize \in Nat
  <2>1. Pending \subseteq Alert
    BY DEF Pending
  <2>. QED
    BY <2>1, AlertAssumption, FS_Subset, FS_CardinalityType, LimitsAssumption
<1>3. CASE Cardinality(B) = BatchSize
  <2>1. Cardinality(B) = Cardinality(Pending)
    <3>1. Cardinality(B) <= Cardinality(Pending)
      BY <1>1, <1>2, FS_Subset
    <3>. QED
      BY <1>2, <1>3, <3>1
  <2>. QED
    BY <1>1, <1>2, <2>1, FS_Subset
<1>. QED
  BY <1>1, <1>3

\* By how much the clock is ahead of the start of the batch, without slow calls.
LEMMA BatchClock ==
    ASSUME CountInv, TimeInv, ~slow, pc # "sleeping", NEW K \in Nat,
           Cardinality(BatchRows) <= K
    PROVE  /\ clock \in Nat /\ batch.now \in Nat /\ batch.now <= clock /\ clock <= batch.now + K
           /\ batch.todo # {} => clock <= batch.now + K - 1
<1>1. /\ CallTime = 1 /\ clock \in Nat /\ batch.now \in Nat /\ batch.now <= clock
      /\ pc \in {"batch", "sending"} /\ batch.todo \subseteq BatchRows
  BY DEF CallTime, CountInv, Types, BatchFits, TimeInv, ClockFits
<1>2. Used \in Nat /\ Cardinality(BatchRows) \in Nat /\ Used <= Cardinality(BatchRows)
      /\ IsFiniteSet(BatchRows)
  <2>1. BatchRows \ batch.todo \in SUBSET BatchRows /\ BatchRows \in SUBSET BatchRows
    OBVIOUS
  <2>. QED
    BY <2>1, RowsFinite, FS_Subset DEF Used, CountInv
<1>3. clock <= batch.now + Used
  <2>1. CASE pc = "batch"
    <3>1. clock <= batch.now + Used * 1
      BY <1>1, <2>1 DEF TimeInv, ClockFits
    <3>. QED
      BY <1>2, <3>1
  <2>2. CASE pc = "sending"
    <3>1. /\ sending.since \in Nat /\ sending.since <= batch.now + (Used - 1) * 1
          /\ clock <= sending.since + 1
      BY <1>1, <2>2 DEF TimeInv, ClockFits
    <3>. QED
      BY <1>1, <1>2, <3>1
  <2>. QED
    BY <1>1, <2>1, <2>2
<1>4. ASSUME NEW a \in batch.todo PROVE Used <= K - 1
  <2>1. a \in BatchRows /\ BatchRows \ batch.todo \subseteq BatchRows \ {a}
    BY <1>1
  <2>2. /\ IsFiniteSet(BatchRows \ {a})
        /\ Cardinality(BatchRows \ {a}) = Cardinality(BatchRows) - 1
    BY <1>2, <2>1, FS_RemoveElement
  <2>3. Used <= Cardinality(BatchRows \ {a})
    BY <2>1, <2>2, FS_Subset DEF Used
  <2>. QED
    BY <1>2, <2>2, <2>3
<1>. QED
  BY <1>1, <1>2, <1>3, <1>4

\* The faults and slow calls of the past stay.
LEMMA TroubleStays ==
    ASSUME CountInv, [Next]_vars, faults' = 0, ~slow'
    PROVE  faults = 0 /\ ~slow /\ ~TickFails /\ ~Restart
<1>1. faults \in Nat
  BY DEF CountInv, Types
<1>2. ASSUME NEW c \in Calls, EndCall(c) PROVE faults = 0 /\ ~slow
  BY <1>1, <1>2, CallTypes DEF EndCall
<1>3. LoseBatch => FALSE
  BY <1>1 DEF LoseBatch
<1>4. Tick => faults = 0 /\ ~slow
  BY DEF Tick
<1>5. ~TickFails /\ ~Restart
  BY <1>3 DEF TickFails, Restart
<1>6. CASE \E c \in Calls : SendOk(c) \/ SendFail(c)
  BY <1>2, <1>5, <1>6 DEF SendOk, SendFail
<1>7. CASE UNCHANGED <<faults, slow>>
  BY <1>5, <1>7
<1>. QED
  BY <1>4, <1>5, <1>6, <1>7 DEF Next, vars, history, StayPaused, StartBatch, SkipNotDue, BeginSend,
     CommitBatch, CreateAlert

\* Steps that leave the batch, the sleep and the alerts alone, or only go on
\* with the batch.
LEMMA WaitKept ==
    ASSUME NEW K \in Nat, WaitFits(K), faults = 0, ~slow,
           UNCHANGED <<wakeAt, pauseUntil>>,
           BatchRows' = BatchRows, batch'.now = batch.now,
           (pc' = "sleeping") = (pc = "sleeping"),
           \A a \in Alert : Untried(a)' => Untried(a) /\ table'[a].ts = table[a].ts
    PROVE  WaitFits(K)'
BY DEF WaitFits

LEMMA WaitStep ==
    ASSUME CountInv, CountInv', TimeInv, NEW K \in Nat, K <= BatchSize,
           K + LongestSleep <= MaxAge, Cardinality(Pending) <= K, WaitInv(K), [Next]_vars
    PROVE  WaitFits(K)'
<1>. SUFFICES ASSUME faults' = 0, ~slow' PROVE WaitFits(K)'
  BY DEF WaitFits
<1>0. /\ faults = 0 /\ ~slow /\ ~TickFails /\ ~Restart
      /\ RowsFresh /\ SleepFits /\ WaitFits(K)
  BY TroubleStays DEF WaitInv
<1>1. clock \in Nat /\ MaxAge \in Nat
  BY TimesAssumption DEF CountInv, Types
<1>2. CASE StayPaused
  <2>1. /\ pc = "sleeping" /\ pc' = "sleeping" /\ wakeAt' = pauseUntil /\ pauseUntil # None
        /\ UNCHANGED <<table, pauseUntil, calls>>
    BY <1>2 DEF StayPaused, Paused, history
  <2>. QED
    BY <1>0, <2>1 DEF WaitFits, Untried
<1>3. CASE StartBatch
  <2>1. PICK B \in OldestPending :
            batch' = [now |-> clock, todo |-> B, rows |-> [a \in B |-> table[a]],
                      failed |-> 0, delivered |-> 0]
    BY <1>3 DEF StartBatch
  <2>2. /\ pc = "sleeping" /\ pc' = "batch" /\ clock >= wakeAt /\ ~Paused
        /\ UNCHANGED <<table, pauseUntil, calls>>
    BY <1>3 DEF StartBatch, history
  <2>3. B = Pending
    BY AllPendingSelected
  <2>4. BatchRows' = B /\ batch'.now = clock /\ BatchRows = {}
    BY <2>1, <2>2 DEF BatchRows, CountInv, BatchFits
  <2>5. pauseUntil # None => pauseUntil <= clock
    BY <1>0, <1>1, <2>2 DEF Paused, SleepFits
  <2>6. ASSUME NEW a \in Alert, Untried(a)
        PROVE  a \in B /\ clock <= table[a].ts + K + LongestSleep
    <3>1. /\ table[a].ts \in Nat /\ table[a].attempts = 0 /\ ~table[a].delivered
      BY <1>0, <2>4, <2>6, UntriedRow DEF Current
    <3>2. clock <= table[a].ts + K + LongestSleep
      <4>1. wakeAt <= table[a].ts + K + LongestSleep /\ clock <= wakeAt /\ wakeAt \in Nat
        BY <1>0, <2>2, <2>6 DEF WaitFits, SleepFits
      <4>. QED
        BY <1>1, <3>1, <4>1, SleepTimes
    <3>3. table[a].ts >= clock - MaxAge
      BY <1>1, <3>1, <3>2, SleepTimes
    <3>. QED
      BY <2>3, <2>6, <3>1, <3>2, <3>3, AttemptsAssumption DEF Pending, Untried
  <2>. QED
    BY <2>2, <2>3, <2>4, <2>5, <2>6 DEF WaitFits, Untried
<1>4. ASSUME NEW a \in Alert, SkipNotDue(a) PROVE WaitFits(K)'
  <2>1. /\ batch'.rows = batch.rows /\ batch'.now = batch.now /\ pc' = pc
        /\ UNCHANGED <<table, wakeAt, pauseUntil, calls>>
    BY <1>4 DEF SkipNotDue, history, CountInv, Types
  <2>. QED
    BY <1>0, <2>1, WaitKept DEF BatchRows, Untried
<1>5. ASSUME NEW a \in Alert, BeginSend(a) PROVE WaitFits(K)'
  <2>1. /\ pc = "batch" /\ pc' = "sending" /\ a \in BatchRows
        /\ batch' = [batch EXCEPT !.todo = @ \ {a},
                                  !.rows[a].attempts = @ + 1, !.rows[a].last = batch.now]
        /\ calls' = [calls EXCEPT ![a].made = @ + 1, ![a].last = clock]
        /\ UNCHANGED <<table, wakeAt, pauseUntil>>
    BY <1>5 DEF BeginSend, NextAlert, CountInv, Types
  <2>2. BatchRows' = BatchRows /\ batch'.now = batch.now
    BY <2>1 DEF CountInv, Types, BatchRows
  <2>3. ASSUME NEW s \in Alert, Untried(s)' PROVE Untried(s)
    <3>1. calls[a] \in History
      BY <1>5 DEF CountInv, Types
    <3>2. calls'[a].made = calls[a].made + 1
      BY <1>5, <2>1, <3>1 DEF CountInv, Types, History
    <3>3. calls'[a].made # 0
      BY <3>1, <3>2 DEF History
    <3>4. s # a => calls'[s] = calls[s]
      BY <2>1 DEF CountInv, Types
    <3>. QED
      BY <2>1, <2>3, <3>3, <3>4 DEF Untried
  <2>. QED
    BY <1>0, <2>1, <2>2, <2>3, WaitKept
<1>6. ASSUME NEW c \in Calls, SendOk(c) \/ SendFail(c) PROVE WaitFits(K)'
  <2>1. /\ EndCall(c) /\ pc = "sending" /\ pc' = "batch" /\ UNCHANGED <<table, wakeAt, pauseUntil>>
    BY <1>6 DEF SendOk, SendFail, EndCall
  <2>2. BatchRows' = BatchRows /\ batch'.now = batch.now
    <3>1. PICK a : a = sending.alert
      OBVIOUS
    <3>2. CASE SendOk(c)
      BY <3>1, <3>2 DEF SendOk, CountInv, Types, BatchRows
    <3>3. CASE SendFail(c)
      BY <3>3 DEF SendFail, CountInv, Types, BatchRows
    <3>. QED
      BY <1>6, <3>2, <3>3
  <2>3. \A s \in Alert : calls'[s].made = calls[s].made
    BY <2>1, EndCounts DEF CallEnded
  <2>. QED
    BY <1>0, <2>1, <2>2, <2>3, WaitKept DEF Untried
<1>7. CASE CommitBatch
  <2>1. /\ pc = "batch" /\ pc' = "sleeping" /\ batch.todo = {} /\ wakeAt' = clock + Interval
        /\ pauseUntil' = clock + Pause \/ pauseUntil' = pauseUntil
        /\ table' = [a \in Alert |-> IF a \in DOMAIN batch.rows THEN batch.rows[a] ELSE table[a]]
        /\ UNCHANGED calls
    BY <1>7 DEF CommitBatch, history
  <2>2. ASSUME NEW a \in Alert, Untried(a)'
        PROVE  /\ wakeAt' <= table'[a].ts + K + LongestSleep
               /\ pauseUntil' # None => pauseUntil' <= table'[a].ts + K + LongestSleep
    <3>1. table'[a].ts = table[a].ts
      BY <2>1 DEF BatchRows, CountInv, BatchFits, Tried
    <3>2. Untried(a)
      BY <2>1, <2>2, <3>1 DEF Untried
    <3>3. a \notin BatchRows /\ table[a].ts \in Nat
      BY <1>0, <2>1, <3>2, UntriedRow
    <3>4. /\ Cardinality(BatchRows) <= K /\ batch.now <= table[a].ts
          /\ pauseUntil # None => pauseUntil <= batch.now
      BY <1>0, <2>1, <3>2, <3>3 DEF WaitFits
    <3>5. clock <= batch.now + K /\ batch.now \in Nat
      BY <1>0, <2>1, <3>4, BatchClock
    <3>6. clock <= table[a].ts + K
      BY <1>1, <3>3, <3>4, <3>5
    <3>7. wakeAt' <= table'[a].ts + K + LongestSleep
      BY <1>1, <2>1, <3>1, <3>3, <3>6, SleepTimes
    <3>8. CASE pauseUntil' = clock + Pause
      BY <1>1, <3>1, <3>3, <3>6, <3>7, <3>8, SleepTimes
    <3>9. CASE pauseUntil' = pauseUntil
      <4>1. pauseUntil # None => pauseUntil \in Nat
        BY <1>0 DEF SleepFits
      <4>2. pauseUntil # None => pauseUntil <= table[a].ts + K + LongestSleep
        BY <3>3, <3>4, <3>5, <4>1, SleepTimes
      <4>. QED
        BY <3>1, <3>7, <3>9, <4>2
    <3>. QED
      BY <2>1, <3>7, <3>8, <3>9
  <2>. QED
    BY <2>1, <2>2 DEF WaitFits
<1>8. ASSUME NEW a \in Alert, CreateAlert(a) PROVE WaitFits(K)'
  <2>1. /\ table[a] = Unborn /\ table' = [table EXCEPT ![a].ts = clock]
        /\ UNCHANGED <<clock, pc, batch, wakeAt, pauseUntil, calls>>
    BY <1>8 DEF CreateAlert, service, history
  <2>2. BatchRows' = BatchRows /\ a \notin BatchRows
    BY <1>8, <2>1, CreateCounts DEF BatchRows
  <2>3. table'[a].ts = clock /\ \A s \in Alert \ {a} : table'[s] = table[s]
    BY <2>1 DEF CountInv, Types, Row
  <2>4. pc = "sleeping" =>
            /\ wakeAt <= clock + K + LongestSleep
            /\ pauseUntil # None => pauseUntil <= clock + K + LongestSleep
    BY <1>0, <1>1, SleepTimes DEF SleepFits
  <2>5. pc # "sleeping" => batch.now <= clock
    BY DEF TimeInv, ClockFits
  <2>6. \A s \in Alert \ {a} : Untried(s)' => Untried(s)
    BY <2>1, <2>3 DEF Untried
  <2>. QED
    BY <1>0, <2>1, <2>2, <2>3, <2>4, <2>5, <2>6 DEF WaitFits
<1>9. CASE Tick \/ UNCHANGED vars
  <2>1. UNCHANGED <<table, pc, batch, wakeAt, pauseUntil, calls>>
    BY <1>9 DEF Tick, vars, service, history
  <2>. QED
    BY <1>0, <2>1, WaitKept DEF BatchRows, Untried
<1>. QED
  BY <1>0, <1>2, <1>3, <1>4, <1>5, <1>6, <1>7, <1>8, <1>9 DEF Next

LEMMA WaitInvStep ==
    ASSUME NEW K \in Nat \ {0}, K <= BatchSize, 2 * K - 1 + LongestSleep <= MaxAge,
           CountInv, CountInv', TimeInv, Cardinality(Pending) <= K, WaitInv(K), [Next]_vars
    PROVE  WaitInv(K)'
<1>1. K \in Nat /\ K + LongestSleep <= MaxAge
  BY SleepTimes, TimesAssumption
<1>2. RowsFresh' /\ SleepFits'
  BY FreshStep, SleepStep DEF WaitInv
<1>. QED
  BY <1>1, <1>2, WaitStep DEF WaitInv

\* Whoever waits is not too old yet.
LEMMA NotTooOld ==
    ASSUME CountInv, TimeInv, NEW K \in Nat \ {0}, WaitInv(K),
           2 * K - 1 + LongestSleep <= MaxAge
    PROVE  TriedBeforeStale
<1>. SUFFICES ASSUME faults = 0, ~slow, NEW a \in Alert, Untried(a)
              PROVE  clock - table[a].ts <= MaxAge
  <2>1. \A a \in Alert : calls[a].made \in Nat
    BY DEF CountInv, Types, History
  <2>2. \A a \in Alert : table[a].ts # None => clock - table[a].ts \in Int
    BY DEF CountInv, Types, Row
  <2>. QED
    BY <2>1, <2>2, TimesAssumption DEF TriedBeforeStale, Untried
<1>1. /\ clock \in Nat /\ MaxAge \in Nat /\ table[a].ts \in Nat
      /\ a \in BatchRows => a \in batch.todo
  BY UntriedRow, TimesAssumption DEF CountInv, Types, WaitInv
<1>2. CASE pc = "sleeping"
  <2>1. clock <= wakeAt /\ wakeAt \in Nat /\ wakeAt <= table[a].ts + K + LongestSleep
    BY <1>2 DEF WaitInv, SleepFits, WaitFits
  <2>. QED
    BY <1>1, <2>1, SleepTimes
<1>3. CASE pc # "sleeping"
  <2>1. Cardinality(BatchRows) <= K
    BY <1>3 DEF WaitInv, WaitFits
  <2>2. /\ batch.now \in Nat /\ clock <= batch.now + K
        /\ batch.todo # {} => clock <= batch.now + K - 1
    BY <1>3, <2>1, BatchClock
  <2>3. CASE a \in BatchRows
    <3>1. batch.now <= table[a].ts + K + LongestSleep /\ clock <= batch.now + K - 1
      BY <1>1, <1>3, <2>2, <2>3 DEF WaitInv, WaitFits
    <3>. QED
      BY <1>1, <2>2, <3>1, SleepTimes
  <2>4. CASE a \notin BatchRows
    <3>1. batch.now <= table[a].ts
      BY <1>3, <2>4 DEF WaitInv, WaitFits
    <3>. QED
      BY <1>1, <2>2, <3>1, SleepTimes
  <2>. QED
    BY <2>3, <2>4
<1>. QED
  BY <1>2, <1>3

\* Without faults and slow calls no alert grows too old untried, as long as no
\* more than K alerts are pending at a time, K fit into one batch, and a sleep
\* or pause and two batches of K calls fit into the greatest age.
THEOREM TriedInTime ==
    ASSUME NEW K \in Nat \ {0}, K <= BatchSize, 2 * K - 1 + LongestSleep <= MaxAge
    PROVE  Spec /\ [](Cardinality(Pending) <= K) => []TriedBeforeStale
<1>1. Init => WaitInv(K)
  BY WaitInit
<1>2. CountInv /\ CountInv' /\ TimeInv /\ Cardinality(Pending) <= K /\ WaitInv(K) /\ [Next]_vars
          => WaitInv(K)'
  BY WaitInvStep
<1>3. CountInv /\ TimeInv /\ WaitInv(K) => TriedBeforeStale
  BY NotTooOld
<1>. QED
  BY CountsCorrect, TimesCorrect, <1>1, <1>2, <1>3, PTL DEF Spec

\* The same if there are no more alerts than that.
THEOREM FewTriedInTime ==
    ASSUME Cardinality(Alert) <= BatchSize, 2 * Cardinality(Alert) - 1 + LongestSleep <= MaxAge
    PROVE  Spec => []TriedBeforeStale
<1>1. CASE Alert = {}
  <2>1. TriedBeforeStale
    BY <1>1 DEF TriedBeforeStale
  <2>. QED
    BY <2>1, PTL
<1>2. CASE Alert # {}
  <2>1. Cardinality(Alert) \in Nat \ {0}
    BY <1>2, AlertAssumption, FS_CardinalityType, FS_EmptySet
  <2>2. Cardinality(Pending) <= Cardinality(Alert)
    BY AlertAssumption, FS_Subset DEF Pending
  <2>3. PICK K \in Nat \ {0} : K = Cardinality(Alert)
    BY <2>1
  <2>4. Init => WaitInv(K)
    BY WaitInit
  <2>5. CountInv /\ CountInv' /\ TimeInv /\ WaitInv(K) /\ [Next]_vars => WaitInv(K)'
    BY <2>2, <2>3, WaitInvStep
  <2>6. CountInv /\ TimeInv /\ WaitInv(K) => TriedBeforeStale
    BY <2>3, NotTooOld
  <2>. QED
    BY CountsCorrect, TimesCorrect, <2>4, <2>5, <2>6, PTL DEF Spec
<1>. QED
  BY <1>1, <1>2
=============================================================================
