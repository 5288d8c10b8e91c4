---------------------------- MODULE NewestCandles ----------------------------
(***************************************************************************)
(* What a candle buffer promises (app/candles.py, CandleBuffer): of every  *)
(* minute it was given it knows the candle given last, and it keeps the    *)
(* newest maxlen minutes of those it had and was given.                    *)
(***************************************************************************)
EXTENDS Naturals, FiniteSets

CONSTANTS Candle, MaxLen

VARIABLE kept

Init == kept = {}

Newest(S) == {c \in S : Cardinality({d \in S : d.t > c.t}) < MaxLen}

Upsert(c) == kept' = Newest({d \in kept : d.t # c.t} \cup {c})

Next == \E c \in Candle : Upsert(c)

Spec == Init /\ [][Next]_kept
=============================================================================
