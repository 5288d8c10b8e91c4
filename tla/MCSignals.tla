------------------------------ MODULE MCSignals ------------------------------
(* Signals for TLC. *)
EXTENDS Signals

CONSTANTS a, b, c, btc

Sym == {a, b, c, btc}

WithBtc == [order |-> <<btc, a, b, c>>, baseline |-> btc]
WithoutBtc == [order |-> <<a, b>>, baseline |-> a]
Universes == {WithBtc, WithoutBtc}

Strong == [rel |-> 2, accel |-> 1, dvz |-> 2, breakout |-> 1,
           trendOk |-> TRUE, extensionOk |-> TRUE, liquid |-> TRUE]
Thin == [Strong EXCEPT !.accel = 2, !.dvz = 7, !.liquid = FALSE]
Fast == [Strong EXCEPT !.rel = 1, !.accel = 2, !.breakout = 0]
Features == {Strong, Fast, Thin}

FewOffsets == {0, 1}
=============================================================================
