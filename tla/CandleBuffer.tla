---------------------------- MODULE CandleBuffer ----------------------------
(***************************************************************************)
(* One in-memory candle series (app/candles.py, CandleBuffer): a sorted    *)
(* list, appended to as a rule, and searched when a candle is late.        *)
(***************************************************************************)
EXTENDS Integers, Sequences, SequencesExt

CONSTANTS
    Times,      \* minutes candles may be given for
    Values,     \* what a candle may say
    MaxLen

ASSUME MaxLenAssumption == MaxLen \in Nat \ {0}
ASSUME TimesAssumption == Times \subseteq Nat

VARIABLE candles    \* the list

Candle == [t : Times, v : Values]

Init == candles = <<>>

\* Mutant: the search goes past an equal time.
BisectRight(s, t) ==
    LET search[p \in (0..Len(s)) \X (0..Len(s))] ==
            LET lo == p[1]  hi == p[2]  mid == (lo + hi) \div 2
            IN  IF lo >= hi THEN lo
                ELSE IF s[mid + 1].t <= t THEN search[<<mid + 1, hi>>] ELSE search[<<lo, mid>>]
    IN  search[<<0, Len(s)>>]

\* How many candles are before t: the binary search in the list.
Bisect(s, t) ==
    LET search[p \in (0..Len(s)) \X (0..Len(s))] ==
            LET lo == p[1]  hi == p[2]  mid == (lo + hi) \div 2
            IN  IF lo >= hi THEN lo
                ELSE IF s[mid + 1].t < t THEN search[<<mid + 1, hi>>] ELSE search[<<lo, mid>>]
    IN  search[<<0, Len(s)>>]

\* A candle of a new last minute is appended, one of a known minute replaces
\* the old one, and a late one is inserted where it belongs.
Placed(s, c) ==
    LET idx == Bisect(s, c.t)
    IN  CASE s = <<>> \/ c.t > Last(s).t -> Append(s, c)
          [] s # <<>> /\ c.t = Last(s).t -> [s EXCEPT ![Len(s)] = c]
          [] s # <<>> /\ c.t < Last(s).t ->
                 IF idx < Len(s) /\ s[idx + 1].t = c.t
                 THEN [s EXCEPT ![idx + 1] = c]
                 ELSE InsertAt(s, idx + 1, c)

\* Mutant: what was kept first is kept.
TrimmedAtEnd(s) == IF Len(s) > MaxLen THEN SubSeq(s, 1, MaxLen) ELSE s
Trimmed(s) ==
    IF Len(s) > MaxLen THEN SubSeq(s, Len(s) - MaxLen + 1, Len(s)) ELSE s

Upsert(c) == candles' = Trimmed(Placed(candles, c))

Next == \E c \in Candle : Upsert(c)

Spec == Init /\ [][Next]_candles

-----------------------------------------------------------------------------

\* The list is strictly ascending, so that its last element is the newest
\* candle and the next binary search finds its place.
StrictlySorted == \A i, j \in DOMAIN candles : i < j => candles[i].t < candles[j].t

\* In whatever order candles come, twice or late, the list holds what
\* NewestCandles says.
Promise == INSTANCE NewestCandles WITH kept <- ToSet(candles)
KeepsNewest == Promise!Spec
=============================================================================
