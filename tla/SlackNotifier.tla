---------------------------- MODULE SlackNotifier ----------------------------
(***************************************************************************)
(* One call of send_text() (app/notifier/slack.py): what may come of it.   *)
(* The call posts the message up to MaxRetries times, with a wait after    *)
(* every post that failed, the last one included.  Time is counted in half *)
(* seconds.                                                                *)
(***************************************************************************)
EXTENDS Integers

CONSTANTS
    PostTime,       \* how long a post may take until it is answered or given up
    RetryAfter      \* what a Retry-After header may ask for, any integers

MaxRetries == 5
MaxRetryAfter == 60
DefaultRetryAfter == 2
InitialBackoff == 1
MaxBackoff == 16

Cap(x, most) == IF x > most THEN most ELSE x
RetryAfterWaits ==
    {DefaultRetryAfter} \cup {IF r < 0 THEN 0 ELSE Cap(r, MaxRetryAfter) : r \in RetryAfter}

\* The outcomes o, after a post that took t and was followed by a wait of w, and
\* that was given up although the message had arrived (lost = 1) or not (0).
Later(o, t, w, lost) ==
    [o EXCEPT !.time = @ + t + w, !.posts = @ + lost, !.lost = @ + lost]

\* time: what the call took; ok: it returned and did not raise; posts: how often
\* the message arrived; lost: how often it did so without an answer.
SendText[try \in 1..MaxRetries + 1, backoff \in 1..MaxBackoff] ==
    LET outcome(t, ok) == [time |-> t, ok |-> ok, posts |-> IF ok THEN 1 ELSE 0, lost |-> 0]
        next == SendText[try + 1, backoff]
        slower == SendText[try + 1, Cap(2 * backoff, MaxBackoff)]
    IN  IF try > MaxRetries THEN {outcome(0, FALSE)}
        ELSE \* a status below 400, or another one that is not tried again
             {outcome(t, ok) : t \in PostTime, ok \in BOOLEAN}
             \cup \* 429: the backoff stays as it is
             {Later(o, t, w, 0) : o \in next, t \in PostTime, w \in RetryAfterWaits}
             \cup \* 5xx, or no answer
             {Later(o, t, backoff, lost) : o \in slower, t \in PostTime, lost \in 0..1}

Outcomes == SendText[1, InitialBackoff]
=============================================================================
