--------------------------- MODULE SnapshotPromise ---------------------------
(***************************************************************************)
(* What the signal engine promises the state machine (app/signals.py, as   *)
(* app/state_machine.py uses it): a snapshot is of one universe, read when *)
(* it was begun, and of one candle time, the newest of its baseline; it    *)
(* failed, or it has rows, for symbols of that universe and not for the    *)
(* baseline.  The candle time of a symbol never goes back.                 *)
(***************************************************************************)
EXTENDS Naturals

CONSTANTS Symbol, Universe, Members(_), None

VARIABLES
    universe,   \* the persisted universe
    newest,     \* the time of the newest candle of each symbol, or None
    of,         \* the universe the snapshot is of, or None
    t0,         \* its candle time, or None
    complete,
    rowsOf      \* the symbols it has rows for; none: it failed

vars == <<universe, newest, of, t0, complete, rowsOf>>

Init ==
    /\ universe \in Universe
    /\ newest \in [Symbol -> Nat \cup {None}]
    /\ of = None /\ t0 = None /\ complete = FALSE /\ rowsOf = {}

Begin ==
    /\ of = None /\ of' = universe
    /\ UNCHANGED <<universe, newest, t0, complete, rowsOf>>

Fail ==
    /\ of # None /\ t0 = None
    /\ complete' = TRUE
    /\ UNCHANGED <<universe, newest, of, t0, rowsOf>>

FixTime ==
    /\ of # None /\ t0 = None /\ ~complete
    /\ of.baseline # None /\ newest[of.baseline] # None
    /\ t0' = newest[of.baseline]
    /\ UNCHANGED <<universe, newest, of, complete, rowsOf>>

Complete ==
    /\ t0 # None /\ ~complete
    /\ complete' = TRUE
    /\ rowsOf' \in SUBSET (Members(of) \ {of.baseline}) \ {{}}
    /\ UNCHANGED <<universe, newest, of, t0>>

\* The scan has the snapshot.
HandOver ==
    /\ complete
    /\ of' = None /\ t0' = None /\ complete' = FALSE /\ rowsOf' = {}
    /\ UNCHANGED <<universe, newest>>

Environment ==
    /\ universe' \in Universe
    /\ newest' \in [Symbol -> Nat \cup {None}]
    /\ \A s \in Symbol : newest[s] # None => newest'[s] # None /\ newest'[s] >= newest[s]
    /\ UNCHANGED <<of, t0, complete, rowsOf>>

Next == Begin \/ Fail \/ FixTime \/ Complete \/ HandOver \/ Environment

Spec == Init /\ [][Next]_vars
=============================================================================
