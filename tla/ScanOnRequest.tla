---------------------------- MODULE ScanOnRequest ----------------------------
(***************************************************************************)
(* What the ingestion service promises the hook it drives                  *)
(* (app/jobs/candle_ingestion.py, "avoid overlapping scans/alerts, but     *)
(* don't silently fall behind"): one scan at a time; a request made while  *)
(* none runs starts one; requests made while one runs are answered by one  *)
(* more, begun after the last of them; no scan runs unrequested.           *)
(***************************************************************************)
EXTENDS Naturals

VARIABLES
    asked,      \* requests so far
    answered,   \* how many of them the newest scan was begun after
    running     \* a scan runs

vars == <<asked, answered, running>>

Init == asked = 0 /\ answered = 0 /\ running = FALSE

Request ==
    /\ asked' = asked + 1
    /\ answered' = IF running THEN answered ELSE asked'
    /\ running' = TRUE

\* A scan ends; if it was begun before the last request, the next one begins.
Finish ==
    /\ running
    /\ answered' = asked
    /\ running' = (answered < asked)
    /\ UNCHANGED asked

\* The process stops: nothing is owed any more.
Abandon ==
    /\ answered' = asked /\ running' = FALSE
    /\ UNCHANGED asked

Next == Request \/ Finish \/ Abandon

Spec == Init /\ [][Next]_vars
FairSpec == Spec /\ WF_vars(Finish)
=============================================================================
