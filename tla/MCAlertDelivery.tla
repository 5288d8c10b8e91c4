--------------------------- MODULE MCAlertDelivery ---------------------------
(***************************************************************************)
(* AlertDelivery with the calls of SlackNotifier for TLC.  One unit of     *)
(* time is 30 seconds: the greatest age of 180 s is 6 units, the pause of  *)
(* 90 s is 3, a call takes up to 7.  What is shorter than a unit, the 2 s  *)
(* between two batches and the delays 5 and 15 s, counts as a whole one;   *)
(* the delay of 45 s counts as three, so that it stays the longer one when *)
(* a batch takes one unit of it.                                           *)
(***************************************************************************)
EXTENDS AlertDelivery, TLC

CodeDelay == (0 :> 0) @@ (1 :> 1) @@ (2 :> 1) @@ (3 :> 3) @@ (4 :> 3)

\* A post is answered at once or runs into its timeout of 10 s; Retry-After says
\* nothing useful, nothing or more than the notifier is ready to wait.
Slack == INSTANCE SlackNotifier WITH PostTime <- {0, 20}, RetryAfter <- {-1, 120}

\* In units: between two ticks, or across one more.
SlackCalls ==
    UNION {{[o EXCEPT !.time = t] : t \in {o.time \div 60, (o.time + 59) \div 60}} :
              o \in Slack!Outcomes}

Symmetry == Permutations(Alert)
=============================================================================
