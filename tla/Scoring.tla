------------------------------- MODULE Scoring -------------------------------
(***************************************************************************)
(* Ranks and score (app/scoring.py) in whole numbers.  A percentile is a   *)
(* number of half ranks out of 2 * Span; a score is the score of the code  *)
(* times 1200 * Span, so that scores of one snapshot compare as they do in *)
(* the code (rounding of floats apart).                                    *)
(***************************************************************************)
EXTENDS Integers, FiniteSets, SequencesExt

Span(n) == Max({n - 1, 1})

\* The elements of S in an order: who stands before whom may do so.
Sorted(S, mayPrecede(_, _)) ==
    CHOOSE items \in SetToSeqs(S) :
        \A i, j \in DOMAIN items : i < j => mayPrecede(items[i], items[j])

\* The symbols of v, lowest value first.
ByValue(v) == Sorted(DOMAIN v, LAMBDA s, o : v[s] <= v[o])

\* Mutant: a group of equal values ends one too late.
RanksLateEnd(v) ==
    LET items == ByValue(v)
        n == Len(items)
        ranks[i \in 0..n] ==
            IF i >= n THEN <<>>
            ELSE LET j == Max({k \in (i + 1)..n : v[items[k]] = v[items[i + 1]]})
                     group == {items[k] : k \in (i + 1)..j}
                 IN  [s \in group \cup DOMAIN ranks[j] |-> IF s \in group THEN i + j ELSE ranks[j][s]]
    IN  IF n = 1 THEN [s \in DOMAIN v |-> 2] ELSE ranks[0]

\* percentile_ranks(): equal values, the items i..j-1 counted from 0, share
\* their average rank; one item alone is ranked 1.0.
PercentileRanks(v) ==
    LET items == ByValue(v)
        n == Len(items)
        ranks[i \in 0..n] ==
            IF i >= n THEN <<>>
            ELSE LET j == Max({k \in (i + 1)..n : v[items[k]] = v[items[i + 1]]})
                     group == {items[k] : k \in (i + 1)..j}
                 IN  [s \in group \cup DOMAIN ranks[j] |-> IF s \in group THEN i + j - 1 ELSE ranks[j][s]]
    IN  IF n = 1 THEN [s \in DOMAIN v |-> 2] ELSE ranks[0]

Clamp(x, lo, hi) == Max({lo, Min({hi, x})})

\* dv_term_from_dvz() times 6.
DvTerm(dvz) == Clamp(dvz, -3, 6)

\* 0.45 rank + 0.35 rank + 0.20 dv_term + 0.10 breakout, for n symbols.
ComputeScore(rankRel, rankAccel, dvz, breakout, n) ==
    6 * (45 * rankRel + 35 * rankAccel) + 2 * Span(n) * (20 * DvTerm(dvz) + 60 * breakout)

\* A threshold given in percent, on that scale.
Threshold(percent, n) == 12 * Span(n) * percent
=============================================================================
