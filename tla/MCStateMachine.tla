--------------------------- MODULE MCStateMachine ---------------------------
(* Instances of StateMachine for TLC: see the README for what each is for. *)
EXTENDS StateMachine, TLC

CONSTANTS a, b, btc   \* two alt coins and the baseline

Sym == {a, b, btc}

Row(score, trendOk, dvz, price) ==
    [score |-> score, trendOk |-> trendOk, dvz |-> dvz, price |-> price,
     high |-> price + 1, liquid |-> TRUE, spreadOk |-> TRUE]

\* Scores: 8 enters, 5 is between the thresholds, 2 exits.
Strong == Row(8, TRUE, 2, 1)
Higher == Row(8, TRUE, 2, 2)
Holding == Row(5, TRUE, 2, 1)
Weak == Row(2, TRUE, 2, 1)
Broken == Row(8, FALSE, 2, 1)
Quiet == Row(8, TRUE, 0, 1)
Wide == [Strong EXCEPT !.spreadOk = FALSE]

Base ==
    [lookback |-> 2, maxEntry |-> 2, maxExit |-> 2, maxTotal |-> 3,
     globalCooldown |-> 0, entryCooldown |-> 0, exitCooldown |-> 0,
     maxPerScan |-> 2, entryThreshold |-> 8, exitThreshold |-> 3,
     stallTime |-> 2, stallDvzMax |-> 1, dvzMin |-> 1, bookCheckTopN |-> 1]

Coins(r) == [rank |-> r, baseline |-> btc]
Both == Coins(a :> 1 @@ b :> 2 @@ btc :> 0)
OnlyB == Coins(b :> 1 @@ btc :> 0)
AIsBaseline == [rank |-> (a :> 0 @@ b :> 1 @@ btc :> 2), baseline |-> a]
OnlyA == Coins(a :> 1 @@ btc :> 0)
NoCoins == [rank |-> <<>>, baseline |-> None]

\* Alerts: two coins in and out, under settings of which one set has tight
\* budgets and low thresholds and the other cooldowns; the clock moves on and
\* is set back.
TightBudgets ==
    [Base EXCEPT !.maxExit = 1, !.maxTotal = 2, !.entryThreshold = 2, !.exitThreshold = 1]
Cooldowns ==
    [Base EXCEPT !.maxExit = 1, !.globalCooldown = 1, !.entryCooldown = 2, !.exitCooldown = 2]
AlertSignals == {Strong, Weak}
AlertSettings == {TightBudgets, Cooldowns}
FixedUniverse == {Both}
Minutes == {1}
SetBack == {1, -1}

\* Peaks: prices rise and fall, momentum dries up, the trend breaks; a coin
\* leaves the universe, to another coin or to none, and returns.
PeakSignals == {Strong, Higher, Holding, Quiet, Broken, Wide}
PeakSettings == {[Base EXCEPT !.lookback = 1]}
PeakUniverses == {OnlyB, OnlyA, NoCoins}

\* Universes that a coin which is IN may leave for ever.
MovingUniverses == {Both, OnlyB, AIsBaseline, NoCoins}
MovingSettings == {[Base EXCEPT !.maxExit = 1, !.maxTotal = 2]}

\* Thresholds that POST /config accepts although they cross.
CrossedSettings == {[Base EXCEPT !.exitThreshold = 8]}
=============================================================================
