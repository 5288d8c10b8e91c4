--------------------------- MODULE ExchangeClient ---------------------------
(***************************************************************************)
(* The exchange client (app/exchange_client.py): every call makes up to    *)
(* MaxTries requests, with a wait before each but the first, and at most   *)
(* Slots requests of all calls are open at once.  A call holds a slot only *)
(* while its request is open, not while it waits to try again.             *)
(*                                                                         *)
(* An answer is good, says that the call is wrong (another status below    *)
(* 500, a code that is not zero, a payload of the wrong shape), or says    *)
(* nothing (no connection, a timeout, 429, 5xx, no JSON, no result).  Only *)
(* the last is tried again.  Each request has a timeout, so an answer of   *)
(* one kind comes.                                                         *)
(***************************************************************************)
EXTENDS Integers, Sequences, SequencesExt

CONSTANTS
    Caller,     \* who may have a call open, one each
    Slots,      \* max_concurrent_requests, at least one
    MaxTries    \* at least one

VARIABLES
    call,       \* where each call is, its requests so far, the last answer
    free,       \* the value of the semaphore
    waiters     \* who waits at the semaphore, in order of arrival

vars == <<call, free, waiters>>

NoCall == [at |-> "none", tries |-> 0, last |-> "none"]

Init ==
    /\ call = [c \in Caller |-> NoCall]
    /\ free = Slots
    /\ waiters = <<>>

\* The callers of cs begin their calls, in this order, in one go.
Begin(cs) ==
    /\ \A c \in ToSet(cs) : call[c] = NoCall
    /\ call' = [c \in Caller |-> IF c \in ToSet(cs) THEN [NoCall EXCEPT !.at = "queued"]
                                                    ELSE call[c]]
    /\ waiters' = waiters \o cs
    /\ UNCHANGED free

\* The first in the queue takes a slot and sends its request.
Send(c) ==
    /\ free > 0 /\ waiters # <<>> /\ c = Head(waiters)
    /\ free' = free - 1 /\ waiters' = Tail(waiters)
    /\ call' = [call EXCEPT ![c].at = "open", ![c].tries = @ + 1]

\* The request is over, whatever came of it, and its slot with it.
Over(c, at, last) ==
    /\ call[c].at = "open"
    /\ call' = [call EXCEPT ![c].at = at, ![c].last = last]
    /\ free' = free + 1
    /\ UNCHANGED waiters

Succeed(c) == Over(c, "done", "good")

\* Mutant: a call that raises keeps its slot.
RefuseInSlot(c) ==
    /\ call[c].at = "open"
    /\ call' = [call EXCEPT ![c].at = "failed", ![c].last = "wrong"]
    /\ UNCHANGED <<free, waiters>>
Refuse(c) == Over(c, "failed", "wrong")

\* Mutant: one try less than allowed.
MissTooFew(c) == Over(c, IF call[c].tries + 1 < MaxTries THEN "waiting" ELSE "failed", "nothing")
Miss(c) == Over(c, IF call[c].tries < MaxTries THEN "waiting" ELSE "failed", "nothing")

\* The wait is over; the call queues for a slot again.
TryAgain(c) ==
    /\ call[c].at = "waiting"
    /\ call' = [call EXCEPT ![c].at = "queued"]
    /\ waiters' = Append(waiters, c)
    /\ UNCHANGED free

\* The callers have taken what became of their calls.
Collect ==
    /\ \A c \in Caller : call[c].at \in {"none", "done", "failed"}
    /\ call' = [c \in Caller |-> NoCall]
    /\ UNCHANGED <<free, waiters>>

-----------------------------------------------------------------------------

\* A call is given up only when an answer said it is wrong or MaxTries
\* requests brought nothing; no slot is lost or given twice on the way.
CallsEndInOrder ==
    /\ \A c \in Caller :
           call[c].at = "failed" => call[c].last = "wrong" \/ call[c].tries = MaxTries
    /\ free \in 0..Slots /\ free + Cardinality({c \in Caller : call[c].at = "open"}) = Slots
    /\ ToSet(waiters) = {c \in Caller : call[c].at = "queued"}
=============================================================================
