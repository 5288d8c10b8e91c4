------------------------- MODULE StateMachineProofs -------------------------
(***************************************************************************)
(* Theorems about StateMachine, for all symbols, settings, signal rows,    *)
(* universes and clocks, in three parts: types, budgets and latches, from  *)
(* TypeOK; the history the alerts and the rows tell, from HistoryInv; what *)
(* a whole scan does, from ScanInv and PeakInv.                            *)
(***************************************************************************)
EXTENDS StateMachine, FiniteSetTheorems, TLAPS

-----------------------------------------------------------------------------
(* The rows a snapshot may hold *)

\* What the assumptions say of one element of a constant.
LEMMA ConstantTypes ==
    /\ \A r \in Signal : /\ r.score \in Int /\ r.trendOk \in BOOLEAN /\ r.dvz \in Int
                         /\ r.price \in Int /\ r.high \in Int
                         /\ r.liquid \in BOOLEAN /\ r.spreadOk \in BOOLEAN
    /\ \A c \in Settings : /\ c.lookback \in Nat /\ c.maxEntry \in Nat /\ c.maxExit \in Nat
                           /\ c.maxTotal \in Nat /\ c.globalCooldown \in Nat
                           /\ c.entryCooldown \in Nat /\ c.exitCooldown \in Nat
                           /\ c.maxPerScan \in Nat
    /\ None \notin Int
BY SignalAssumption, SettingsAssumption, NoneAssumption DEF SignalType, SettingsType

\* A snapshot has signal rows for symbols of its universe.
LEMMA SnapshotRows ==
    ASSUME NEW u \in Universe, NEW r \in Snapshots(u)
    PROVE  /\ DOMAIN r \subseteq Candidates(u)
           /\ DOMAIN r \subseteq Symbol
           /\ \A s \in DOMAIN r : r[s] \in Signal
<1>1. Candidates(u) \subseteq Symbol
  BY UniverseAssumption DEF Candidates, IsUniverse
<1>2. CASE r = <<>>
  <2>1. DOMAIN r = {}
    BY <1>2
  <2>. QED
    BY <2>1
<1>3. CASE \E c \in SUBSET Candidates(u) : r \in [c -> Signal]
  BY <1>1, <1>3
<1>. QED
  BY <1>2, <1>3 DEF Snapshots, NoRows

-----------------------------------------------------------------------------
(* Alerts appended to a table *)

\* What an appended sequence of alerts holds.
LEMMA AppendedAlert ==
    ASSUME NEW a \in Seq(AlertType), NEW x \in AlertType
    PROVE  /\ Append(a, x) \in Seq(AlertType)
           /\ Len(a) \in Nat
           /\ DOMAIN a = 1..Len(a)
           /\ DOMAIN Append(a, x) = DOMAIN a \cup {Len(a) + 1}
           /\ Len(a) + 1 \notin DOMAIN a
           /\ \A i \in DOMAIN a : Append(a, x)[i] = a[i] /\ a[i] \in AlertType
           /\ Append(a, x)[Len(a) + 1] = x
OBVIOUS

\* The index sets the counts and the windows are made of are finite.
LEMMA FiniteIndices ==
    ASSUME NEW a \in Seq(AlertType), NEW I \in SUBSET DOMAIN a
    PROVE  IsFiniteSet(I) /\ Cardinality(I) \in Nat
<1>1. IsFiniteSet(1..Len(a))
  BY FS_Interval
<1>2. DOMAIN a = 1..Len(a)
  OBVIOUS
<1>3. IsFiniteSet(I)
  BY <1>1, <1>2, FS_Subset
<1>. QED
  BY <1>3, FS_CardinalityType

\* One more alert counts once if it is of the type and recent enough.
LEMMA AlertCountsAppend ==
    ASSUME NEW a \in Seq(AlertType), NEW x \in AlertType, NEW type, NEW since \in Int
    PROVE  AlertCounts(Append(a, x), type, since) =
               AlertCounts(a, type, since)
                   + (IF x.type = type /\ x.ts >= since THEN 1 ELSE 0)
<1>. DEFINE old == OfType(a, type) \cap Since(a, since)
            new == OfType(Append(a, x), type) \cap Since(Append(a, x), since)
            n == Len(a) + 1
<1>1. new = IF x.type = type /\ x.ts >= since THEN old \cup {n} ELSE old
  BY AppendedAlert DEF OfType, Since
<1>2. old \subseteq DOMAIN a /\ n \notin old
  BY AppendedAlert DEF OfType
<1>3. IsFiniteSet(old) /\ Cardinality(old) \in Nat
  BY <1>2, FiniteIndices
<1>4. Cardinality(old \cup {n}) = Cardinality(old) + 1
  BY <1>2, <1>3, FS_AddElement
<1>5. CASE x.type = type /\ x.ts >= since
  BY <1>1, <1>4, <1>5 DEF AlertCounts
<1>6. CASE ~(x.type = type /\ x.ts >= since)
  <2>1. new = old
    BY <1>1, <1>6
  <2>2. (IF x.type = type /\ x.ts >= since THEN 1 ELSE 0) = 0
    BY <1>6
  <2>3. AlertCounts(Append(a, x), type, since) = AlertCounts(a, type, since)
    BY <2>1 DEF AlertCounts
  <2>4. AlertCounts(a, type, since) \in Nat
    BY <1>3 DEF AlertCounts
  <2>. QED
    BY <2>2, <2>3, <2>4
<1>. QED
  BY <1>5, <1>6

\* One more alert counts once in the total if it is recent enough.
LEMMA TotalCountAppend ==
    ASSUME NEW a \in Seq(AlertType), NEW x \in AlertType, NEW since \in Int
    PROVE  TotalCount(Append(a, x), since) =
               TotalCount(a, since) + (IF x.ts >= since THEN 1 ELSE 0)
<1>. DEFINE old == Since(a, since)
            n == Len(a) + 1
<1>1. Since(Append(a, x), since) = IF x.ts >= since THEN old \cup {n} ELSE old
  BY AppendedAlert DEF Since
<1>2. old \subseteq DOMAIN a /\ n \notin old
  BY AppendedAlert DEF Since
<1>3. IsFiniteSet(old) /\ Cardinality(old) \in Nat
  BY <1>2, FiniteIndices
<1>4. Cardinality(old \cup {n}) = Cardinality(old) + 1
  BY <1>2, <1>3, FS_AddElement
<1>. QED
  BY <1>1, <1>3, <1>4 DEF TotalCount

-----------------------------------------------------------------------------
(* Types *)

\* What the loops write to a state row is a state row.
LEMMA StateRows ==
    ASSUME NEW row \in StateType, NEW r \in Signal, NEW ts \in Int, NEW candle \in Int
    PROVE  /\ Tracked(row, r, candle) \in StateType
           /\ Closed(row) \in StateType
           /\ [Closed(row) EXCEPT !.lastExit = ts] \in StateType
           /\ Opened(row, r, ts, candle) \in StateType
<1>1. r.price \in Int /\ r.high \in Int
  BY ConstantTypes
<1>2. Raise(row.peak, r.price, candle) \in PeakType /\ Raise(row.high, r.high, candle) \in PeakType
  BY <1>1 DEF Raise, PeakType, StateType, Optional
<1>3. Tracked(row, r, candle) \in StateType
  BY <1>2 DEF Tracked, StateType
<1>4. Closed(row) \in StateType /\ [Closed(row) EXCEPT !.lastExit = ts] \in StateType
  BY DEF Closed, StateType, NoPeak, PeakType, Optional
<1>5. Opened(row, r, ts, candle) \in StateType
  BY <1>1 DEF Opened, StateType, PeakType, Optional
<1>. QED
  BY <1>3, <1>4, <1>5

\* A closed row is OUT and has no peaks, with or without the time of an alert.
LEMMA ClosedRow ==
    ASSUME NEW row \in StateType
    PROVE  /\ Closed(row) \in StateType /\ Closed(row).state = "OUT"
           /\ Closed(row).peak = NoPeak /\ Closed(row).high = NoPeak
           /\ \A ts \in Int :
                  LET c == [Closed(row) EXCEPT !.lastExit = ts]
                  IN  /\ c \in StateType /\ c.state = "OUT"
                      /\ c.peak = NoPeak /\ c.high = NoPeak
<1>1. /\ Closed(row) \in StateType /\ Closed(row).state = "OUT"
      /\ Closed(row).peak = NoPeak /\ Closed(row).high = NoPeak
  BY DEF Closed, StateType, NoPeak, PeakType, Optional
<1>2. ASSUME NEW c \in StateType, NEW ts \in Int
      PROVE  /\ [c EXCEPT !.lastExit = ts] \in StateType
             /\ [c EXCEPT !.lastExit = ts].state = c.state
             /\ [c EXCEPT !.lastExit = ts].peak = c.peak
             /\ [c EXCEPT !.lastExit = ts].high = c.high
  BY DEF StateType, Optional
<1>. QED
  BY <1>1, <1>2

\* The snapshot and the database read at the start of a scan.
LEMMA BeginScanTypes ==
    ASSUME TypeOK, NEW r \in Snapshots(view.universe), pc = "snapshot", BeginScan(r)
    PROVE  scan' \in ScanType
<1>. DEFINE since == now - cfg.lookback
            scope == LoadUniverseSymbols(universe, view.universe.baseline)
<1>1. cfg \in Settings /\ universe \in Universe /\ now \in Int /\ alerts \in Seq(AlertType)
  BY DEF TypeOK
<1>2. since \in Int
  BY <1>1, ConstantTypes
<1>3. /\ AlertCounts(alerts, UP, since) \in Nat
      /\ AlertCounts(alerts, SLOWING, since) \in Nat
      /\ TotalCount(alerts, since) \in Nat
  BY <1>1, <1>2, FiniteIndices DEF AlertCounts, TotalCount, OfType, Since
<1>4. scope \in SUBSET Symbol
  BY <1>1, UniverseAssumption DEF LoadUniverseSymbols, IsUniverse
<1>5. GlobalEntryOk(alerts, now, cfg) \in BOOLEAN
  BY DEF GlobalEntryOk
<1>. QED
  BY <1>1, <1>3, <1>4, <1>5 DEF BeginScan, ScanType

\* The rows at hand in the loops of a scan.
LEMMA RowTypes ==
    ASSUME TypeOK, pc \in {"exits", "entries"}
    PROVE  /\ \A s \in DOMAIN rows : rows[s] \in Signal /\ s \in Symbol
           /\ \A s \in Symbol : Updated(s) \in StateType
           /\ cfg \in Settings /\ scan \in ScanType /\ view.t0 \in Int
<1>1. /\ view \in [t0 : Int, universe : Universe] /\ rows \in Snapshots(view.universe)
      /\ wst \in [Symbol -> StateType] /\ cfg \in Settings /\ scan \in ScanType
  BY DEF TypeOK
<1>2. \A s \in DOMAIN rows : rows[s] \in Signal /\ s \in Symbol
  BY <1>1, SnapshotRows
<1>3. \A s \in Symbol : Updated(s) \in StateType
  BY <1>1, <1>2, StateRows DEF Updated
<1>. QED
  BY <1>1, <1>2, <1>3

\* What a step of a loop does to the locals of the scan.
LEMMA ScanProgress ==
    ASSUME NEW sc \in ScanType, NEW s
    PROVE  /\ [sc EXCEPT !.todo = @ \ {s}] \in ScanType
           /\ [sc EXCEPT !.todo = @ \ {s}, !.exitCount = @ + 1, !.totalCount = @ + 1] \in ScanType
           /\ [sc EXCEPT !.fired = @ + 1, !.entryCount = @ + 1, !.totalCount = @ + 1] \in ScanType
<1>. DEFINE todo == sc.todo \ {s}
<1>1. /\ todo \in SUBSET Symbol /\ sc.exitCount + 1 \in Nat /\ sc.totalCount + 1 \in Nat
      /\ sc.fired + 1 \in Nat /\ sc.entryCount + 1 \in Nat
  BY DEF ScanType
<1>. HIDE DEF todo
<1>2. [sc EXCEPT !.todo = todo] \in ScanType
  BY <1>1 DEF ScanType
<1>3. [sc EXCEPT !.todo = todo, !.exitCount = @ + 1, !.totalCount = @ + 1] \in ScanType
  BY <1>1 DEF ScanType
<1>4. [sc EXCEPT !.fired = @ + 1, !.entryCount = @ + 1, !.totalCount = @ + 1] \in ScanType
  BY <1>1 DEF ScanType
<1>. QED
  BY <1>2, <1>3, <1>4 DEF todo

\* The initial state is well typed.
LEMMA TypeInit == Init => TypeOK
BY DEF Init, TypeOK, FreshState, NoPeak, StateType, PeakType, Optional, AlertType

\* Every step keeps the types.
LEMMA TypeStep == TypeOK /\ [Next]_vars => TypeOK'
<1>. SUFFICES ASSUME TypeOK, [Next]_vars PROVE TypeOK'
  OBVIOUS
<1>. USE DEF env, db
<1>1. CASE StartScan
  BY <1>1 DEF TypeOK, StartScan
<1>2. ASSUME pc = "snapshot", NEW r \in Snapshots(view.universe), BeginScan(r)
      PROVE  TypeOK'
  <2>1. scan' \in ScanType
    BY <1>2, BeginScanTypes
  <2>. QED
    BY <1>2, <2>1 DEF TypeOK, BeginScan
<1>3. ASSUME NEW s \in Symbol, KeepIn(s) PROVE TypeOK'
  <2>1. pc = "exits" /\ s \in scan.todo
    BY <1>3 DEF KeepIn, NextExit
  <2>2. wst' \in [Symbol -> StateType]
    BY <1>3, <2>1, RowTypes DEF KeepIn, TypeOK
  <2>3. scan' \in ScanType
    <3>1. scan \in ScanType
      BY <2>1, RowTypes
    <3>. QED
      BY <1>3, <3>1, ScanProgress DEF KeepIn
  <2>. QED
    BY <1>3, <2>1, <2>2, <2>3 DEF KeepIn, TypeOK
<1>4. ASSUME NEW s \in Symbol, ExitWithAlert(s) PROVE TypeOK'
  <2>1. pc = "exits" /\ s \in scan.todo
    BY <1>4 DEF ExitWithAlert, NextExit
  <2>2. scan.ts \in Int /\ cfg \in Settings /\ scan \in ScanType
    BY <2>1, RowTypes DEF ScanType
  <2>3. [Closed(wst[s]) EXCEPT !.lastExit = scan.ts] \in StateType
    BY <2>2 DEF TypeOK, Closed, StateType, NoPeak, PeakType, Optional
  <2>4. wst' \in [Symbol -> StateType]
    BY <1>4, <2>3 DEF ExitWithAlert, TypeOK
  <2>5. scan' \in ScanType
    BY <1>4, <2>2, ScanProgress DEF ExitWithAlert
  <2>6. AlertRow(scan.ts, s, SLOWING, None, cfg) \in AlertType
    BY <2>2 DEF AlertRow, AlertType, Optional
  <2>7. walerts' \in Seq(AlertType)
    BY <1>4, <2>6, AppendedAlert DEF ExitWithAlert, TypeOK
  <2>. QED
    BY <1>4, <2>1, <2>4, <2>5, <2>7 DEF ExitWithAlert, TypeOK
<1>5. ASSUME NEW s \in Symbol, ExitSilently(s) PROVE TypeOK'
  <2>1. pc = "exits" /\ s \in scan.todo
    BY <1>5 DEF ExitSilently, NextExit
  <2>2. Closed(wst[s]) \in StateType
    BY ClosedRow DEF TypeOK
  <2>3. scan' \in ScanType
    <3>1. scan \in ScanType
      BY <2>1, RowTypes
    <3>. QED
      BY <1>5, <3>1, ScanProgress DEF ExitSilently
  <2>4. wst' \in [Symbol -> StateType]
    BY <1>5, <2>2 DEF ExitSilently, TypeOK
  <2>. QED
    BY <1>5, <2>1, <2>3, <2>4 DEF ExitSilently, TypeOK
<1>6. CASE ExitsDone
  BY <1>6 DEF ExitsDone, TypeOK
<1>7. ASSUME NEW s \in Symbol, Enter(s) PROVE TypeOK'
  <2>1. pc = "entries" /\ s \in DOMAIN rows
    BY <1>7 DEF Enter, Eligible
  <2>2. /\ scan.ts \in Int /\ cfg \in Settings /\ scan \in ScanType /\ view.t0 \in Int
        /\ rows[s] \in Signal
    BY <2>1, RowTypes DEF ScanType
  <2>3. Opened(wst[s], rows[s], scan.ts, view.t0) \in StateType
    BY <2>2, StateRows DEF TypeOK
  <2>4. wst' \in [Symbol -> StateType]
    BY <1>7, <2>3 DEF Enter, TypeOK
  <2>5. scan' \in ScanType
    BY <1>7, <2>2, ScanProgress DEF Enter
  <2>6. AlertRow(scan.ts, s, UP, view.t0, cfg) \in AlertType
    BY <2>2 DEF AlertRow, AlertType, Optional
  <2>7. walerts' \in Seq(AlertType)
    BY <1>7, <2>6, AppendedAlert DEF Enter, TypeOK
  <2>. QED
    BY <1>7, <2>1, <2>4, <2>5, <2>7 DEF Enter, TypeOK
<1>8. CASE Commit
  BY <1>8 DEF Commit, CloseSession, TypeOK
<1>9. CASE Abort
  BY <1>9 DEF Abort, CloseSession, TypeOK
<1>10. CASE Tick
  <2>1. now' \in Int /\ t0' \in Int
    BY <1>10 DEF Tick, TypeOK
  <2>. QED
    BY <1>10, <2>1 DEF Tick, TypeOK
<1>11. CASE UpdateConfig
  BY <1>11 DEF UpdateConfig, TypeOK
<1>12. CASE RefreshUniverse
  <2>1. t0' \in Int
    BY <1>12 DEF RefreshUniverse, NewestOfBaseline, TypeOK
  <2> QED
    BY <1>12, <2>1 DEF RefreshUniverse, TypeOK
<1>13. CASE UNCHANGED vars
  BY <1>13 DEF vars, TypeOK, Snapshots, Candidates
<1>. QED
  BY <1>1, <1>2, <1>3, <1>4, <1>5, <1>6, <1>7, <1>8, <1>9, <1>10, <1>11, <1>12, <1>13
  DEF Next, ExitStep

\* Every variable keeps its type: a scan's locals are set exactly while it
\* runs, its rows are rows of the universe it looked at, its counters count.
THEOREM TypeCorrect == Spec => []TypeOK
<1>. QED
  BY TypeInit, TypeStep, PTL DEF Spec

-----------------------------------------------------------------------------
(* Budgets.  RollingBudgets is stronger than it looks: it bounds every      *)
(* window, while a scan only counts the one that ends now.  What makes it    *)
(* inductive is that a window a new alert falls into lies, apart from what  *)
(* it holds of the future, within the one its scan counted; and that the    *)
(* counts of a scan stay exact while it goes on.                            *)

Budgets(a) == \A c \in Settings, from \in Int : WithinBudget(a, c, from)

BudgetInv == TypeOK /\ CountsExact /\ Budgets(alerts) /\ Budgets(walerts)

\* There was room for x in the window that ends with it.
Room(a, x) ==
    LET since == x.ts - x.cfg.lookback
    IN  /\ x.type = UP => AlertCounts(a, UP, since) < x.cfg.maxEntry
        /\ x.type = SLOWING => AlertCounts(a, SLOWING, since) < x.cfg.maxExit
        /\ TotalCount(a, since) < x.cfg.maxTotal

\* A set of indices with one new index counts at most one more than a set it
\* was part of.
LEMMA OneMore ==
    ASSUME NEW a \in Seq(AlertType), NEW I \in SUBSET DOMAIN a, NEW J \in SUBSET I
    PROVE  /\ Cardinality(J) <= Cardinality(I)
           /\ Cardinality(J \cup {Len(a) + 1}) <= Cardinality(I) + 1
           /\ Cardinality(I) \in Nat
           /\ Cardinality(J \cup {Len(a) + 1}) \in Nat
<1>1. IsFiniteSet(I) /\ Cardinality(I) \in Nat /\ IsFiniteSet(J) /\ Cardinality(J) \in Nat
  BY FiniteIndices
<1>2. Cardinality(J) <= Cardinality(I)
  BY <1>1, FS_Subset
<1>3. Len(a) + 1 \notin J
  OBVIOUS
<1>4. Cardinality(J \cup {Len(a) + 1}) = Cardinality(J) + 1
  BY <1>1, <1>3, FS_AddElement
<1>. QED
  BY <1>1, <1>2, <1>4

\* One more alert keeps a window within its budgets if the counters left room.
LEMMA BudgetAppend ==
    ASSUME NEW a \in Seq(AlertType), NEW x \in AlertType, Budgets(a), Room(a, x)
    PROVE  Budgets(Append(a, x))
<1>. DEFINE b == Append(a, x)
            n == Len(a) + 1
<1>. SUFFICES ASSUME NEW c \in Settings, NEW from \in Int,
                     \A i \in Window(b, from, c.lookback) : b[i].cfg = c
              PROVE  LET W == Window(b, from, c.lookback)
                     IN  /\ Cardinality(W \cap OfType(b, UP)) <= c.maxEntry
                         /\ Cardinality(W \cap OfType(b, SLOWING)) <= c.maxExit
                         /\ Cardinality(W) <= c.maxTotal
  BY DEF Budgets, WithinBudget
<1>. DEFINE V == Window(a, from, c.lookback)
            W == Window(b, from, c.lookback)
            U(type) == V \cap OfType(a, type)
<1>1. /\ V = W \ {n} /\ V \subseteq DOMAIN a /\ n \notin V
      /\ \A type : (W \cap OfType(b, type)) \ {n} = U(type)
      /\ n \in OfType(b, UP) <=> x.type = UP
      /\ n \in OfType(b, SLOWING) <=> x.type = SLOWING
      /\ n \in W <=> from <= x.ts /\ x.ts <= from + c.lookback
  BY AppendedAlert DEF Window, OfType
<1>2. /\ Cardinality(U(UP)) <= c.maxEntry
      /\ Cardinality(U(SLOWING)) <= c.maxExit
      /\ Cardinality(V) <= c.maxTotal
  <2>1. \A i \in V : a[i].cfg = c
    BY <1>1, AppendedAlert
  <2>. QED
    BY <2>1 DEF Budgets, WithinBudget
<1>3. CASE n \notin W
  <2>1. W = V /\ W \cap OfType(b, UP) = U(UP) /\ W \cap OfType(b, SLOWING) = U(SLOWING)
    BY <1>1, <1>3
  <2>. QED
    BY <1>2, <2>1
<1>4. CASE n \in W
  <2>. DEFINE since == x.ts - c.lookback
  <2>1. x.cfg = c
    BY <1>4, AppendedAlert
  <2>2. since <= from /\ since \in Int /\ x.type \in {UP, SLOWING}
    BY <1>1, <1>4, ConstantTypes DEF AlertType
  <2>3. V \subseteq Since(a, since)
    <3>1. \A i \in V : i \in DOMAIN a /\ a[i].ts \in Int /\ from <= a[i].ts
      BY <1>1, AppendedAlert DEF Window, AlertType
    <3>. QED
      BY <2>2, <3>1 DEF Since
  <2>4. Since(a, since) \subseteq DOMAIN a
    BY DEF Since
  <2>5. Cardinality(W) <= c.maxTotal
    <3>1. W = V \cup {n}
      BY <1>1, <1>4
    <3>2. Cardinality(Since(a, since)) < c.maxTotal
      BY <2>1 DEF Room, TotalCount
    <3>3. /\ Cardinality(V \cup {n}) <= Cardinality(Since(a, since)) + 1
          /\ Cardinality(Since(a, since)) \in Nat /\ Cardinality(V \cup {n}) \in Nat
      BY <2>3, <2>4, OneMore
    <3>4. c.maxTotal \in Nat
      BY ConstantTypes
    <3>. QED
      BY <3>1, <3>2, <3>3, <3>4
  <2>6. Cardinality(W \cap OfType(b, UP)) <= c.maxEntry
    <3>1. CASE x.type = UP
      <4>1. W \cap OfType(b, UP) = U(UP) \cup {n}
        BY <1>1, <1>4, <3>1
      <4>2. Cardinality(OfType(a, UP) \cap Since(a, since)) < c.maxEntry
        BY <2>1, <3>1 DEF Room, AlertCounts
      <4>3. U(UP) \subseteq OfType(a, UP) \cap Since(a, since)
        BY <2>3
      <4>4. /\ Cardinality(U(UP) \cup {n}) <= Cardinality(OfType(a, UP) \cap Since(a, since)) + 1
            /\ Cardinality(OfType(a, UP) \cap Since(a, since)) \in Nat
            /\ Cardinality(U(UP) \cup {n}) \in Nat
        BY <2>4, <4>3, OneMore
      <4>5. c.maxEntry \in Nat
        BY ConstantTypes
      <4>6. Cardinality(W \cap OfType(b, UP)) = Cardinality(U(UP) \cup {n})
        BY <4>1, Zenon
      <4>. HIDE DEF W, U, b, n
      <4>. QED
        BY <4>2, <4>4, <4>5, <4>6
    <3>2. CASE x.type # UP
      <4>1. W \cap OfType(b, UP) = U(UP)
        BY <1>1, <3>2
      <4>. QED
        BY <1>2, <4>1
    <3>. QED
      BY <3>1, <3>2
  <2>7. Cardinality(W \cap OfType(b, SLOWING)) <= c.maxExit
    <3>1. CASE x.type = SLOWING
      <4>1. W \cap OfType(b, SLOWING) = U(SLOWING) \cup {n}
        BY <1>1, <1>4, <3>1
      <4>2. Cardinality(OfType(a, SLOWING) \cap Since(a, since)) < c.maxExit
        BY <2>1, <3>1 DEF Room, AlertCounts
      <4>3. U(SLOWING) \subseteq OfType(a, SLOWING) \cap Since(a, since)
        BY <2>3
      <4>4. /\ Cardinality(U(SLOWING) \cup {n}) <= Cardinality(OfType(a, SLOWING) \cap Since(a, since)) + 1
            /\ Cardinality(OfType(a, SLOWING) \cap Since(a, since)) \in Nat
            /\ Cardinality(U(SLOWING) \cup {n}) \in Nat
        BY <2>4, <4>3, OneMore
      <4>5. c.maxExit \in Nat
        BY ConstantTypes
      <4>6. Cardinality(W \cap OfType(b, SLOWING)) = Cardinality(U(SLOWING) \cup {n})
        BY <4>1, Zenon
      <4>. HIDE DEF W, U, b, n
      <4>. QED
        BY <4>2, <4>4, <4>5, <4>6
    <3>2. CASE x.type # SLOWING
      <4>1. W \cap OfType(b, SLOWING) = U(SLOWING)
        BY <1>1, <3>2
      <4>. QED
        BY <1>2, <4>1
    <3>. QED
      BY <3>1, <3>2
  <2>. QED
    BY <2>5, <2>6, <2>7
<1>. QED
  BY <1>3, <1>4

\* Without alerts no budget is overdrawn.
LEMMA BudgetInit == Init => BudgetInv
<1>. SUFFICES ASSUME Init PROVE BudgetInv
  OBVIOUS
<1>1. TypeOK
  BY TypeInit
<1>2. CountsExact
  BY DEF Init, CountsExact
<1>3. Budgets(<<>>)
  <2>. SUFFICES ASSUME NEW c \in Settings, NEW from \in Int
                PROVE  WithinBudget(<<>>, c, from)
    BY DEF Budgets
  <2>1. /\ Window(<<>>, from, c.lookback) = {}
        /\ \A type : Window(<<>>, from, c.lookback) \cap OfType(<<>>, type) = {}
    BY DEF Window
  <2>2. Cardinality({}) = 0
    BY FS_EmptySet
  <2>3. c.maxEntry \in Nat /\ c.maxExit \in Nat /\ c.maxTotal \in Nat
    BY ConstantTypes
  <2>. DEFINE W == Window(<<>>, from, c.lookback)
  <2>4. /\ Cardinality(W) = 0 /\ Cardinality(W \cap OfType(<<>>, UP)) = 0
        /\ Cardinality(W \cap OfType(<<>>, SLOWING)) = 0
    BY <2>1, <2>2, Zenon
  <2>. QED
    BY <2>3, <2>4 DEF WithinBudget
<1>. QED
  BY <1>1, <1>2, <1>3 DEF Init, BudgetInv

\* A step of a loop that appends an alert keeps the counts exact, provided it
\* raises the counters of its type and of the total.
LEMMA CountedAppend ==
    ASSUME BudgetInv, pc \in {"exits", "entries"}, NEW x \in AlertType,
           x.ts = scan.ts, x.cfg = cfg,
           walerts' = Append(walerts, x), cfg' = cfg, scan'.ts = scan.ts,
           scan'.entryCount = scan.entryCount + (IF x.type = UP THEN 1 ELSE 0),
           scan'.exitCount = scan.exitCount + (IF x.type = SLOWING THEN 1 ELSE 0),
           scan'.totalCount = scan.totalCount + 1
    PROVE  CountsExact'
<1>. DEFINE since == scan.ts - cfg.lookback
<1>1. walerts \in Seq(AlertType) /\ scan.ts \in Int /\ cfg \in Settings
  BY RowTypes DEF BudgetInv, TypeOK, ScanType
<1>2. since \in Int /\ x.ts >= since
  BY <1>1, ConstantTypes
<1>3. /\ AlertCounts(walerts', UP, since) = scan'.entryCount
      /\ AlertCounts(walerts', SLOWING, since) = scan'.exitCount
  BY <1>1, <1>2, AlertCountsAppend DEF BudgetInv, CountsExact
<1>4. TotalCount(walerts', since) = scan'.totalCount
  BY <1>1, <1>2, TotalCountAppend DEF BudgetInv, CountsExact
<1>. QED
  BY <1>3, <1>4 DEF CountsExact, AlertCounts, TotalCount, OfType, Since

\* Every step keeps the budgets and the counters exact.
LEMMA BudgetStep == BudgetInv /\ [Next]_vars => BudgetInv'
<1>. SUFFICES ASSUME BudgetInv, [Next]_vars PROVE BudgetInv'
  OBVIOUS
<1>. USE DEF env, db
<1>0. TypeOK /\ TypeOK'
  BY TypeStep DEF BudgetInv
\* Steps that touch neither the tables nor the counters.
<1>1. ASSUME alerts' = alerts, walerts' = walerts, cfg' = cfg,
             pc' \in {"exits", "entries"} => pc \in {"exits", "entries"},
             scan'.ts = scan.ts, scan'.entryCount = scan.entryCount,
             scan'.exitCount = scan.exitCount, scan'.totalCount = scan.totalCount
      PROVE  BudgetInv'
  <2>1. CountsExact'
    BY <1>1 DEF BudgetInv, CountsExact, AlertCounts, TotalCount, OfType, Since
  <2>2. Budgets(alerts)' /\ Budgets(walerts)'
    BY <1>1 DEF BudgetInv, Budgets, WithinBudget, Window, OfType
  <2>. QED
    BY <1>0, <2>1, <2>2 DEF BudgetInv
\* Steps that end a scan, one way or the other.
<1>2. ASSUME CloseSession, alerts' \in {alerts, walerts} PROVE BudgetInv'
  <2>1. CountsExact'
    BY <1>2 DEF CloseSession, CountsExact
  <2>2. Budgets(alerts)' /\ Budgets(walerts)'
    <3>1. walerts' = alerts'
      BY <1>2 DEF CloseSession
    <3>2. Budgets(alerts')
      BY <1>2, Zenon DEF BudgetInv
    <3>3. Budgets(walerts')
      BY <3>1, <3>2, Zenon
    <3>. QED
      BY <3>2, <3>3 DEF Budgets
  <2>. QED
    BY <1>0, <2>1, <2>2 DEF BudgetInv
\* Steps that append an alert there was room for.
<1>3. ASSUME pc \in {"exits", "entries"}, NEW x \in AlertType,
             walerts' = Append(walerts, x), alerts' = alerts, Room(walerts, x), CountsExact'
      PROVE  BudgetInv'
  <2>1. walerts \in Seq(AlertType)
    BY <1>0 DEF TypeOK
  <2>2. Budgets(Append(walerts, x))
    BY <1>3, <2>1, BudgetAppend DEF BudgetInv
  <2>3. Budgets(alerts)' /\ Budgets(walerts)'
    BY <1>3, <2>2 DEF BudgetInv, Budgets, WithinBudget, Window, OfType
  <2>. QED
    BY <1>0, <1>3, <2>3 DEF BudgetInv
<1>4. CASE StartScan
  <2>1. CountsExact'
    BY <1>4 DEF StartScan, CountsExact
  <2>2. Budgets(alerts)' /\ Budgets(walerts)'
    BY <1>4 DEF StartScan, BudgetInv, Budgets, WithinBudget, Window, OfType
  <2>. QED
    BY <1>0, <2>1, <2>2 DEF BudgetInv
<1>5. ASSUME pc = "snapshot", NEW r \in Snapshots(view.universe), BeginScan(r)
      PROVE  BudgetInv'
  <2>1. CountsExact'
    BY <1>5 DEF BeginScan, CountsExact, AlertCounts, TotalCount, OfType, Since
  <2>2. Budgets(alerts)' /\ Budgets(walerts)'
    BY <1>5 DEF BeginScan, BudgetInv, Budgets, WithinBudget, Window, OfType
  <2>. QED
    BY <1>0, <2>1, <2>2 DEF BudgetInv
<1>6. ASSUME NEW s \in Symbol, KeepIn(s) \/ ExitSilently(s) PROVE BudgetInv'
  BY <1>1, <1>6, RowTypes, <1>0 DEF KeepIn, ExitSilently, NextExit, ScanType
<1>7. ASSUME NEW s \in Symbol, ExitWithAlert(s) PROVE BudgetInv'
  <2>. DEFINE x == AlertRow(scan.ts, s, SLOWING, None, cfg)
  <2>1. /\ pc = "exits" /\ walerts' = Append(walerts, x) /\ alerts' = alerts /\ cfg' = cfg
        /\ scan.exitCount < cfg.maxExit /\ scan.totalCount < cfg.maxTotal
    BY <1>7 DEF ExitWithAlert, NextExit, ShouldAlertExit
  <2>2. scan \in ScanType /\ cfg \in Settings
    BY <1>0, <2>1, RowTypes
  <2>3. /\ scan'.ts = scan.ts /\ scan'.entryCount = scan.entryCount
        /\ scan'.exitCount = scan.exitCount + 1 /\ scan'.totalCount = scan.totalCount + 1
    BY <1>7, <2>2 DEF ExitWithAlert, ScanType
  <2>4. x \in AlertType /\ x.ts = scan.ts /\ x.cfg = cfg /\ x.type = SLOWING /\ x.type # UP
    BY <2>2 DEF AlertRow, AlertType, ScanType, Optional, SLOWING, UP
  <2>5. Room(walerts, x)
    BY <2>1, <2>4 DEF Room, BudgetInv, CountsExact
  <2>6. scan.entryCount + 0 = scan.entryCount
    BY <2>2 DEF ScanType
  <2>. HIDE DEF x
  <2>7. CountsExact'
    BY <2>1, <2>3, <2>4, <2>6, CountedAppend
  <2>. QED
    BY <1>3, <2>1, <2>4, <2>5, <2>7
<1>8. CASE ExitsDone
  BY <1>1, <1>8 DEF ExitsDone
<1>9. ASSUME NEW s \in Symbol, Enter(s) PROVE BudgetInv'
  <2>. DEFINE x == AlertRow(scan.ts, s, UP, view.t0, cfg)
  <2>1. /\ pc = "entries" /\ walerts' = Append(walerts, x) /\ alerts' = alerts /\ cfg' = cfg
        /\ scan.entryCount < cfg.maxEntry /\ scan.totalCount < cfg.maxTotal
    BY <1>9 DEF Enter, EntryBudgetLeft
  <2>2. scan \in ScanType /\ cfg \in Settings /\ view.t0 \in Int
    BY <1>0, <2>1, RowTypes
  <2>3. /\ scan'.ts = scan.ts /\ scan'.entryCount = scan.entryCount + 1
        /\ scan'.exitCount = scan.exitCount /\ scan'.totalCount = scan.totalCount + 1
    BY <1>9, <2>2 DEF Enter, ScanType
  <2>4. x \in AlertType /\ x.ts = scan.ts /\ x.cfg = cfg /\ x.type = UP /\ x.type # SLOWING
    BY <2>2 DEF AlertRow, AlertType, ScanType, Optional, SLOWING, UP
  <2>5. Room(walerts, x)
    BY <2>1, <2>4 DEF Room, BudgetInv, CountsExact
  <2>6. scan.exitCount + 0 = scan.exitCount
    BY <2>2 DEF ScanType
  <2>. HIDE DEF x
  <2>7. CountsExact'
    BY <2>1, <2>3, <2>4, <2>6, CountedAppend
  <2>. QED
    BY <1>3, <2>1, <2>4, <2>5, <2>7
<1>10. CASE Commit
  BY <1>2, <1>10 DEF Commit
<1>11. CASE Abort
  BY <1>2, <1>11 DEF Abort
<1>12. CASE Tick
  BY <1>1, <1>12 DEF Tick
<1>13. CASE UpdateConfig
  BY <1>1, <1>13 DEF UpdateConfig
<1>14. CASE RefreshUniverse
  BY <1>1, <1>14 DEF RefreshUniverse
<1>15. CASE UNCHANGED vars
  BY <1>1, <1>15 DEF vars
<1>. QED
  BY <1>4, <1>5, <1>6, <1>7, <1>8, <1>9, <1>10, <1>11, <1>12, <1>13, <1>14, <1>15
  DEF Next, ExitStep

\* The inductive invariant says what the run checks.
LEMMA BudgetsImplyRolling == BudgetInv => RollingBudgets
<1>. SUFFICES ASSUME BudgetInv, NEW c \in Settings, NEW k \in DOMAIN alerts
              PROVE  WithinBudget(alerts, c, alerts[k].ts)
  BY DEF RollingBudgets
<1>1. alerts[k] \in AlertType
  BY DEF BudgetInv, TypeOK
<1>2. alerts[k].ts \in Int
  BY <1>1 DEF AlertType
<1>. QED
  BY <1>2 DEF BudgetInv, Budgets

\* The rolling budgets hold for every number of symbols, every settings and
\* every clock: one that is set back included.
THEOREM BudgetsRespected == Spec => []RollingBudgets
<1>. QED
  BY BudgetInit, BudgetStep, BudgetsImplyRolling, PTL DEF Spec

\* The counters of a scan are exact at every step, for every settings and
\* clock: this is what lets it compare them with the budgets.
THEOREM CountersExact == Spec => []CountsExact
<1>1. BudgetInv => CountsExact
  BY DEF BudgetInv
<1>. QED
  BY <1>1, BudgetInit, BudgetStep, PTL DEF Spec

-----------------------------------------------------------------------------
(***************************************************************************)
(* The alerts and the state rows tell one story: cooldowns are kept, exits *)
(* answer entries, and a symbol is IN only after an entry.  Each of these  *)
(* needs the others, so one inductive invariant carries them all.          *)
(***************************************************************************)

\* What the row of s remembers is not older than what was said of s, and if
\* it is IN the last thing said was that it entered.
RowTells(row, a, s) ==
    /\ \A i \in OfSymbol(a, s) :
        /\ a[i].type = UP => row.lastEntry \in Int /\ a[i].ts <= row.lastEntry
        /\ a[i].type = SLOWING => row.lastExit \in Int /\ a[i].ts <= row.lastExit
    /\ row.state = "IN" => LastIsUp(row, a, s)

History(r, a) == Spaced(a) /\ Paired(a) /\ \A s \in Symbol : RowTells(r[s], a, s)

\* While a scan runs: what it holds tells the story too, what it has yet to
\* look at is IN, and an entry it may still make is far from all others.
ScanTells ==
    pc \in {"exits", "entries"} =>
        /\ History(wst, walerts)
        /\ \A s \in scan.todo : wst[s].state = "IN"
        /\ scan.globalOk /\ (scan.fired > 0 => cfg.globalCooldown = 0) =>
               GlobalEntryOk(walerts, scan.ts, cfg)

HistoryInv == TypeOK /\ History(st, alerts) /\ ScanTells

-----------------------------------------------------------------------------
(* One more alert *)

\* Alerts stay spaced if the new one is far enough from each of its type.
LEMMA SpacedAppend ==
    ASSUME NEW a \in Seq(AlertType), NEW x \in AlertType, Spaced(a),
           \A i \in DOMAIN a : a[i].type = x.type => FarEnough(a[i], x)
    PROVE  Spaced(Append(a, x))
<1>. DEFINE b == Append(a, x)
            n == Len(a) + 1
<1>. SUFFICES ASSUME NEW i \in DOMAIN b, NEW j \in DOMAIN b, i < j, b[i].type = b[j].type
              PROVE  FarEnough(b[i], b[j])
  BY DEF Spaced
<1>1. i \in DOMAIN a /\ b[i] = a[i]
  BY AppendedAlert
<1>2. CASE j = n
  BY <1>1, <1>2, AppendedAlert
<1>3. CASE j \in DOMAIN a
  BY <1>1, <1>3, AppendedAlert DEF Spaced
<1>. QED
  BY <1>2, <1>3, AppendedAlert

\* What comes before an alert does not depend on what is appended after it.
LEMMA LastBeforeAppend ==
    ASSUME NEW a \in Seq(AlertType), NEW x \in AlertType, NEW s,
           NEW i, NEW j \in 1..Len(a) + 1, LastBefore(a, s, i, j)
    PROVE  LastBefore(Append(a, x), s, i, j) /\ Append(a, x)[i] = a[i]
BY AppendedAlert DEF LastBefore, OfSymbol

\* Exits stay paired if a new exit answers the last alert of its symbol.
LEMMA PairedAppend ==
    ASSUME NEW a \in Seq(AlertType), NEW x \in AlertType, Paired(a),
           x.type = SLOWING =>
               \E i \in OfType(a, UP) : /\ LastBefore(a, x.symbol, i, Len(a) + 1)
                                        /\ x.ts - a[i].ts <= x.cfg.lookback
    PROVE  Paired(Append(a, x))
<1>. DEFINE b == Append(a, x)
            n == Len(a) + 1
<1>. SUFFICES ASSUME NEW j \in OfType(b, SLOWING)
              PROVE  \E i \in OfType(b, UP) : /\ LastBefore(b, b[j].symbol, i, j)
                                              /\ b[j].ts - b[i].ts <= b[j].cfg.lookback
  BY DEF Paired
<1>1. j \in DOMAIN b /\ b[j].type = SLOWING
  BY DEF OfType
<1>2. \A i \in OfType(a, UP) : i \in OfType(b, UP)
  BY AppendedAlert DEF OfType
<1>3. CASE j = n
  <2>1. b[j] = x
    BY <1>3, AppendedAlert
  <2>2. PICK i \in OfType(a, UP) : /\ LastBefore(a, x.symbol, i, n)
                                   /\ x.ts - a[i].ts <= x.cfg.lookback
    BY <1>1, <2>1
  <2>3. n \in 1..Len(a) + 1
    BY AppendedAlert
  <2>4. LastBefore(b, x.symbol, i, n) /\ b[i] = a[i]
    BY <2>2, <2>3, LastBeforeAppend
  <2>. QED
    BY <1>2, <1>3, <2>1, <2>2, <2>4
<1>4. CASE j \in DOMAIN a
  <2>1. b[j] = a[j] /\ j \in OfType(a, SLOWING) /\ j \in 1..Len(a) + 1
    BY <1>1, <1>4, AppendedAlert DEF OfType
  <2>2. PICK i \in OfType(a, UP) : /\ LastBefore(a, a[j].symbol, i, j)
                                   /\ a[j].ts - a[i].ts <= a[j].cfg.lookback
    BY <2>1 DEF Paired
  <2>3. LastBefore(b, a[j].symbol, i, j) /\ b[i] = a[i]
    BY <2>1, <2>2, LastBeforeAppend
  <2>. QED
    BY <1>2, <2>1, <2>2, <2>3
<1>5. DOMAIN b = DOMAIN a \cup {n}
  BY AppendedAlert
<1>. QED
  BY <1>1, <1>3, <1>4, <1>5

\* An alert about another symbol does not change the story of s.
LEMMA RowTellsOther ==
    ASSUME NEW a \in Seq(AlertType), NEW x \in AlertType, NEW s, x.symbol # s,
           NEW row, RowTells(row, a, s)
    PROVE  RowTells(row, Append(a, x), s)
<1>. DEFINE b == Append(a, x)
            n == Len(a) + 1
<1>1. OfSymbol(b, s) = OfSymbol(a, s) /\ \A i \in OfSymbol(a, s) : b[i] = a[i] /\ i \in DOMAIN a
  BY AppendedAlert DEF OfSymbol
<1>2. ASSUME LastIsUp(row, a, s) PROVE LastIsUp(row, b, s)
  <2>1. PICK i \in OfType(a, UP) : LastBefore(a, s, i, n) /\ a[i].ts = row.lastEntry
    BY <1>2 DEF LastIsUp
  <2>2. i \in OfSymbol(a, s) /\ i \in DOMAIN a /\ b[i] = a[i]
    BY <1>1, <2>1 DEF LastBefore
  <2>3. i \in OfType(b, UP)
    BY <2>1, <2>2, AppendedAlert DEF OfType
  <2>4. Len(b) = n /\ \A k \in OfSymbol(b, s) : k \in DOMAIN a /\ k < n
    BY <1>1, AppendedAlert
  <2>5. LastBefore(b, s, i, Len(b) + 1)
    BY <1>1, <2>1, <2>2, <2>4, AppendedAlert DEF LastBefore
  <2>. QED
    BY <2>1, <2>2, <2>3, <2>5 DEF LastIsUp
<1>. QED
  BY <1>1, <1>2 DEF RowTells

\* The story of s after an alert about s.
LEMMA RowTellsSame ==
    ASSUME NEW a \in Seq(AlertType), NEW x \in AlertType, NEW row, NEW new,
           RowTells(row, a, x.symbol),
           x.type = UP => /\ new.lastEntry = x.ts /\ new.lastExit = row.lastExit
                          /\ row.lastEntry \in Int => row.lastEntry <= x.ts,
           x.type = SLOWING => /\ new.lastExit = x.ts /\ new.lastEntry = row.lastEntry
                               /\ row.lastExit \in Int => row.lastExit <= x.ts
                               /\ new.state = "OUT"
    PROVE  RowTells(new, Append(a, x), x.symbol)
<1>. DEFINE b == Append(a, x)
            n == Len(a) + 1
            s == x.symbol
<1>0. x.type \in {UP, SLOWING} /\ UP # SLOWING /\ x.ts \in Int
  BY DEF AlertType, UP, SLOWING
<1>1. \A i \in OfSymbol(b, s) :
        i = n \/ (i \in OfSymbol(a, s) /\ b[i] = a[i] /\ a[i].ts \in Int)
  <2>1. \A i \in DOMAIN a : a[i].ts \in Int
    BY AppendedAlert DEF AlertType
  <2>2. /\ DOMAIN b = DOMAIN a \cup {n} /\ n \notin DOMAIN a
        /\ \A i \in DOMAIN a : b[i] = a[i]
    BY AppendedAlert
  <2>. HIDE DEF b, n
  <2>. QED
    BY <2>1, <2>2 DEF OfSymbol
<1>2. b[n] = x
  BY AppendedAlert
<1>3. \A i \in OfSymbol(a, s) :
        /\ a[i].type = UP => row.lastEntry \in Int /\ a[i].ts <= row.lastEntry
        /\ a[i].type = SLOWING => row.lastExit \in Int /\ a[i].ts <= row.lastExit
  BY DEF RowTells
<1>4. ASSUME NEW i \in OfSymbol(b, s)
      PROVE  /\ b[i].type = UP => new.lastEntry \in Int /\ b[i].ts <= new.lastEntry
             /\ b[i].type = SLOWING => new.lastExit \in Int /\ b[i].ts <= new.lastExit
  <2>1. CASE i = n
    BY <1>0, <1>2, <2>1
  <2>2. CASE i \in OfSymbol(a, s) /\ b[i] = a[i] /\ a[i].ts \in Int
    <3>1. CASE x.type = UP
      BY <1>0, <1>3, <2>2, <3>1
    <3>2. CASE x.type = SLOWING
      BY <1>0, <1>3, <2>2, <3>2
    <3>. QED
      BY <1>0, <3>1, <3>2
  <2>. QED
    BY <1>1, <1>4, <2>1, <2>2
<1>5. ASSUME new.state = "IN" PROVE LastIsUp(new, b, s)
  <2>1. x.type = UP /\ new.lastEntry = x.ts
    BY <1>0, <1>5
  <2>2. Len(b) = n /\ n \in Nat /\ n \in DOMAIN b
    BY AppendedAlert
  <2>3. n \in OfType(b, UP) /\ n \in OfSymbol(b, s)
    BY <1>2, <2>1, <2>2 DEF OfType, OfSymbol
  <2>4. \A k \in OfSymbol(b, s) : k <= n
    BY AppendedAlert DEF OfSymbol
  <2>5. LastBefore(b, s, n, Len(b) + 1)
    BY <2>2, <2>3, <2>4 DEF LastBefore
  <2>. QED
    BY <1>2, <2>1, <2>3, <2>5 DEF LastIsUp
<1>. QED
  BY <1>4, <1>5 DEF RowTells

-----------------------------------------------------------------------------
(* The story is told by every step *)

\* There is no story yet.
LEMMA HistoryInit == Init => HistoryInv
<1>. SUFFICES ASSUME Init PROVE HistoryInv
  OBVIOUS
<1>1. OfType(<<>>, SLOWING) = {} /\ \A s : OfSymbol(<<>>, s) = {}
  BY DEF OfType, OfSymbol
<1>2. Spaced(<<>>) /\ Paired(<<>>)
  BY <1>1 DEF Spaced, Paired
<1>3. \A s \in Symbol : RowTells(st[s], <<>>, s)
  BY <1>1 DEF Init, RowTells, FreshState
<1>. QED
  BY <1>2, <1>3, TypeInit DEF Init, HistoryInv, History, ScanTells

\* An alert about s, with the row of s changed to match.
LEMMA HistoryAppend ==
    ASSUME NEW a \in Seq(AlertType), NEW x \in AlertType,
           NEW r \in [Symbol -> StateType], NEW row, History(r, a),
           \A i \in DOMAIN a : a[i].type = x.type => FarEnough(a[i], x),
           x.type = SLOWING =>
               \E i \in OfType(a, UP) : /\ LastBefore(a, x.symbol, i, Len(a) + 1)
                                        /\ x.ts - a[i].ts <= x.cfg.lookback,
           x.type = UP => /\ row.lastEntry = x.ts /\ row.lastExit = r[x.symbol].lastExit
                          /\ r[x.symbol].lastEntry \in Int => r[x.symbol].lastEntry <= x.ts,
           x.type = SLOWING => /\ row.lastExit = x.ts
                               /\ row.lastEntry = r[x.symbol].lastEntry
                               /\ r[x.symbol].lastExit \in Int => r[x.symbol].lastExit <= x.ts
                               /\ row.state = "OUT"
    PROVE  History([r EXCEPT ![x.symbol] = row], Append(a, x))
<1>. DEFINE new == [r EXCEPT ![x.symbol] = row]
            b == Append(a, x)
<1>1. Spaced(b)
  BY SpacedAppend DEF History
<1>2. Paired(b)
  BY PairedAppend DEF History
<1>3. ASSUME NEW s \in Symbol PROVE RowTells(new[s], b, s)
  <2>1. RowTells(r[s], a, s)
    BY DEF History
  <2>2. CASE s = x.symbol
    <3>1. new[s] = row
      BY <2>2
    <3>2. RowTells(row, b, x.symbol)
      BY <2>1, <2>2, RowTellsSame
    <3>. QED
      BY <2>2, <3>1, <3>2
  <2>3. CASE s # x.symbol
    <3>1. new[s] = r[s]
      BY <2>3
    <3>. QED
      BY <2>1, <2>3, <3>1, RowTellsOther
  <2>. QED
    BY <2>2, <2>3
<1>. QED
  BY <1>1, <1>2, <1>3 DEF History

\* A row whose peaks move, or that goes OUT, tells the same story.
LEMMA HistoryRow ==
    ASSUME NEW a, NEW r \in [Symbol -> StateType], NEW s \in Symbol, NEW row,
           History(r, a),
           row.lastEntry = r[s].lastEntry, row.lastExit = r[s].lastExit,
           row.state \in {"OUT", r[s].state}
    PROVE  History([r EXCEPT ![s] = row], a)
<1>. DEFINE new == [r EXCEPT ![s] = row]
<1>1. ASSUME NEW o \in Symbol PROVE RowTells(new[o], a, o)
  <2>1. RowTells(r[o], a, o)
    BY DEF History
  <2>2. CASE o = s
    <3>1. new[o] = row
      BY <2>2
    <3>. QED
      BY <2>1, <2>2, <3>1 DEF RowTells, LastIsUp
  <2>3. CASE o # s
    BY <2>1, <2>3
  <2>. QED
    BY <2>2, <2>3
<1>. QED
  BY <1>1 DEF History


\* An exit with an alert (state_machine.py, lines 220-263) goes on with the story.
LEMMA HistoryExit ==
    ASSUME HistoryInv, NEW s \in Symbol, ExitWithAlert(s)
    PROVE  ScanTells'
<1>. DEFINE x == AlertRow(scan.ts, s, SLOWING, None, cfg)
            row == [Closed(wst[s]) EXCEPT !.lastExit = scan.ts]
            b == walerts'
<1>1. /\ pc = "exits" /\ s \in scan.todo /\ ShouldAlertExit(wst[s], scan, cfg)
      /\ b = Append(walerts, x) /\ wst' = [wst EXCEPT ![s] = row]
      /\ scan' = [scan EXCEPT !.todo = @ \ {s}, !.exitCount = @ + 1, !.totalCount = @ + 1]
      /\ pc' = pc /\ cfg' = cfg
  BY DEF ExitWithAlert, NextExit
<1>2. /\ TypeOK /\ cfg \in Settings /\ scan \in ScanType /\ scan.ts \in Int
      /\ wst \in [Symbol -> StateType] /\ walerts \in Seq(AlertType)
  BY <1>1, RowTypes DEF HistoryInv, TypeOK, ScanType
<1>3. History(wst, walerts) /\ wst[s].state = "IN" /\ RowTells(wst[s], walerts, s)
  BY <1>1 DEF HistoryInv, ScanTells, History
<1>4. /\ x \in AlertType /\ x.type = SLOWING /\ x.type # UP /\ x.symbol = s
      /\ x.ts = scan.ts /\ x.cfg = cfg
  BY <1>2 DEF AlertRow, AlertType, Optional, UP, SLOWING
<1>5. row.lastExit = scan.ts /\ row.lastEntry = wst[s].lastEntry /\ row.state = "OUT"
  BY <1>2 DEF Closed, StateType
<1>6. wst[s].lastExit \in Int => scan.ts - wst[s].lastExit >= cfg.exitCooldown
  BY <1>1, ConstantTypes DEF ShouldAlertExit
<1>7. cfg.exitCooldown \in Nat /\ cfg.exitCooldown >= 0 /\ cfg.lookback \in Nat
  BY <1>2, ConstantTypes
<1>8. ASSUME NEW i \in DOMAIN walerts, walerts[i].type = x.type
      PROVE  FarEnough(walerts[i], x)
  <2>1. walerts[i].ts \in Int
    BY <1>2, <1>4, AppendedAlert DEF AlertType
  <2>2. ASSUME walerts[i].symbol = s PROVE x.ts - walerts[i].ts >= cfg.exitCooldown
    <3>1. wst[s].lastExit \in Int /\ walerts[i].ts <= wst[s].lastExit
      BY <1>3, <1>4, <1>8, <2>2 DEF RowTells, OfSymbol
    <3>. QED
      BY <1>2, <1>4, <1>6, <1>7, <2>1, <3>1
  <2>. QED
    BY <1>4, <2>2 DEF FarEnough
<1>9. \E i \in OfType(walerts, UP) : /\ LastBefore(walerts, s, i, Len(walerts) + 1)
                                     /\ x.ts - walerts[i].ts <= x.cfg.lookback
  BY <1>1, <1>3, <1>4 DEF RowTells, LastIsUp, ShouldAlertExit
<1>10. wst[s].lastExit \in Int => wst[s].lastExit <= x.ts
  BY <1>2, <1>4, <1>6, <1>7
<1>. HIDE DEF x, row
<1>11. History([wst EXCEPT ![s] = row], Append(walerts, x))
  BY <1>2, <1>3, <1>4, <1>5, <1>8, <1>9, <1>10, HistoryAppend
<1>12. \A o \in scan'.todo : wst'[o].state = "IN"
  <2>1. scan'.todo = scan.todo \ {s} /\ scan.todo \subseteq Symbol
    BY <1>1, <1>2 DEF ScanType
  <2>. QED
    BY <1>1, <1>2, <2>1 DEF HistoryInv, ScanTells
<1>13. /\ OfType(b, UP) = OfType(walerts, UP)
       /\ \A i \in OfType(walerts, UP) : b[i] = walerts[i]
  BY <1>1, <1>2, <1>4, AppendedAlert DEF OfType
<1>14. scan'.globalOk = scan.globalOk /\ scan'.fired = scan.fired /\ scan'.ts = scan.ts
  BY <1>1, <1>2 DEF ScanType
<1>15. scan'.globalOk /\ (scan'.fired > 0 => cfg'.globalCooldown = 0) =>
          GlobalEntryOk(b, scan'.ts, cfg')
  BY <1>1, <1>13, <1>14 DEF HistoryInv, ScanTells, GlobalEntryOk
<1>16. History(wst', b)
  BY <1>1, <1>11
<1>. QED
  BY <1>12, <1>15, <1>16 DEF ScanTells, History, Spaced, Paired, RowTells, LastIsUp,
     LastBefore, OfType, OfSymbol, FarEnough, GlobalEntryOk

\* An entry (state_machine.py, lines 280-343) goes on with the story.
LEMMA HistoryEnter ==
    ASSUME HistoryInv, NEW s \in Symbol, Enter(s)
    PROVE  ScanTells'
<1>. DEFINE x == AlertRow(scan.ts, s, UP, view.t0, cfg)
            row == Opened(wst[s], rows[s], scan.ts, view.t0)
            b == walerts'
<1>1. /\ pc = "entries" /\ s \in Eligible /\ EntryBudgetLeft(scan, cfg)
      /\ b = Append(walerts, x) /\ wst' = [wst EXCEPT ![s] = row]
      /\ scan' = [scan EXCEPT !.fired = @ + 1, !.entryCount = @ + 1, !.totalCount = @ + 1]
      /\ pc' = pc /\ cfg' = cfg
  BY DEF Enter
<1>2. /\ TypeOK /\ cfg \in Settings /\ scan \in ScanType /\ scan.ts \in Int /\ view.t0 \in Int
      /\ wst \in [Symbol -> StateType] /\ walerts \in Seq(AlertType)
  BY <1>1, RowTypes DEF HistoryInv, TypeOK, ScanType
<1>3. History(wst, walerts) /\ RowTells(wst[s], walerts, s)
  BY <1>1 DEF HistoryInv, ScanTells, History
<1>4. /\ x \in AlertType /\ x.type = UP /\ x.type # SLOWING /\ x.symbol = s
      /\ x.ts = scan.ts /\ x.cfg = cfg
  BY <1>2 DEF AlertRow, AlertType, Optional, UP, SLOWING
<1>5. row.lastEntry = scan.ts /\ row.lastExit = wst[s].lastExit /\ row.state = "IN"
  BY <1>2 DEF Opened, StateType
<1>6. wst[s].lastEntry \in Int => scan.ts - wst[s].lastEntry >= cfg.entryCooldown
  BY <1>1, ConstantTypes DEF Eligible, OffCooldown
<1>7. /\ cfg.entryCooldown \in Nat /\ cfg.entryCooldown >= 0
      /\ cfg.globalCooldown \in Nat /\ cfg.globalCooldown >= 0
  BY <1>2, ConstantTypes
<1>8. GlobalEntryOk(walerts, scan.ts, cfg)
  BY <1>1 DEF HistoryInv, ScanTells, EntryBudgetLeft
<1>9. ASSUME NEW i \in DOMAIN walerts, walerts[i].type = x.type
      PROVE  FarEnough(walerts[i], x)
  <2>1. walerts[i].ts \in Int
    BY <1>2, <1>4, AppendedAlert DEF AlertType
  <2>2. ASSUME walerts[i].symbol = s PROVE x.ts - walerts[i].ts >= cfg.entryCooldown
    <3>1. wst[s].lastEntry \in Int /\ walerts[i].ts <= wst[s].lastEntry
      BY <1>3, <1>4, <1>9, <2>2 DEF RowTells, OfSymbol
    <3>. QED
      BY <1>2, <1>4, <1>6, <1>7, <2>1, <3>1
  <2>3. x.ts - walerts[i].ts >= cfg.globalCooldown
    BY <1>4, <1>8, <1>9 DEF GlobalEntryOk, OfType
  <2>. QED
    BY <1>4, <2>2, <2>3 DEF FarEnough
<1>10. wst[s].lastEntry \in Int => wst[s].lastEntry <= x.ts
  BY <1>2, <1>4, <1>6, <1>7
<1>. HIDE DEF x, row
<1>11. History([wst EXCEPT ![s] = row], Append(walerts, x))
  BY <1>2, <1>3, <1>4, <1>5, <1>9, <1>10, HistoryAppend
<1>12. \A o \in scan'.todo : wst'[o].state = "IN"
  <2>1. scan'.todo = scan.todo /\ scan.todo \subseteq Symbol
    BY <1>1, <1>2 DEF ScanType
  <2>2. \A o \in scan.todo : wst[o].state = "IN"
    BY <1>1 DEF HistoryInv, ScanTells
  <2>. QED
    BY <1>1, <1>2, <1>5, <2>1, <2>2
<1>13. /\ OfType(b, UP) = OfType(walerts, UP) \cup {Len(walerts) + 1}
       /\ \A i \in OfType(walerts, UP) : b[i] = walerts[i]
       /\ b[Len(walerts) + 1] = x
  BY <1>1, <1>2, <1>4, AppendedAlert DEF OfType
<1>14. scan'.fired > 0 /\ scan'.ts = scan.ts
  BY <1>1, <1>2 DEF ScanType
<1>15. ASSUME scan'.fired > 0 => cfg'.globalCooldown = 0
       PROVE  GlobalEntryOk(b, scan'.ts, cfg')
  <2>1. cfg.globalCooldown = 0 /\ cfg' = cfg
    BY <1>1, <1>14, <1>15
  <2>2. scan.ts - x.ts >= 0
    BY <1>2, <1>4
  <2>3. \A i \in OfType(walerts, UP) : scan.ts - walerts[i].ts >= cfg.globalCooldown
    BY <1>8 DEF GlobalEntryOk
  <2>. QED
    BY <1>13, <1>14, <2>1, <2>2, <2>3 DEF GlobalEntryOk
<1>16. History(wst', b)
  BY <1>1, <1>11
<1>. QED
  BY <1>12, <1>15, <1>16 DEF ScanTells, History, Spaced, Paired, RowTells, LastIsUp,
     LastBefore, OfType, OfSymbol, FarEnough, GlobalEntryOk


\* Every step, of the scan or of the environment, goes on with the story.
LEMMA HistoryStep == HistoryInv /\ [Next]_vars => HistoryInv'
<1>. SUFFICES ASSUME HistoryInv, [Next]_vars PROVE HistoryInv'
  OBVIOUS
<1>. USE DEF env, db
<1>0. TypeOK /\ TypeOK' /\ History(st, alerts) /\ ScanTells
  BY TypeStep DEF HistoryInv
\* A step that leaves the database alone has only the open scan to answer for.
<1>1. ASSUME UNCHANGED db, ScanTells' PROVE HistoryInv'
  <2>1. History(st', alerts')
    BY <1>0, <1>1
  <2>2. History(st, alerts)'
    BY <2>1 DEF History, Spaced, Paired, RowTells, LastIsUp, LastBefore, OfType, OfSymbol,
       FarEnough
  <2>. QED
    BY <1>0, <1>1, <2>2 DEF HistoryInv
\* A step that leaves the open scan alone too.
<1>2. ASSUME UNCHANGED <<db, wst, walerts, scan, cfg>>,
             pc' \in {"exits", "entries"} => pc \in {"exits", "entries"}
      PROVE  HistoryInv'
  <2>1. ScanTells'
    BY <1>0, <1>2 DEF ScanTells, History, Spaced, Paired, RowTells, LastIsUp,
       LastBefore, OfType, OfSymbol, FarEnough, GlobalEntryOk
  <2>. QED
    BY <1>1, <1>2, <2>1
<1>3. CASE StartScan
  <2>1. ScanTells'
    BY <1>3 DEF StartScan, ScanTells
  <2>. QED
    BY <1>1, <1>3, <2>1 DEF StartScan
<1>4. ASSUME pc = "snapshot", NEW r \in Snapshots(view.universe), BeginScan(r)
      PROVE  HistoryInv'
  <2>1. wst' = st /\ walerts' = alerts /\ UNCHANGED db /\ cfg' = cfg
    BY <1>4 DEF BeginScan
  <2>2. History(wst', walerts')
    BY <1>0, <2>1
  <2>3. /\ \A s \in scan'.todo : wst'[s].state = "IN"
        /\ scan'.globalOk => GlobalEntryOk(walerts', scan'.ts, cfg')
    BY <1>4, <2>1 DEF BeginScan
  <2>4. ScanTells'
    BY <2>2, <2>3 DEF ScanTells, History, Spaced, Paired, RowTells, LastIsUp,
       LastBefore, OfType, OfSymbol, FarEnough, GlobalEntryOk
  <2>. QED
    BY <1>1, <2>1, <2>4
\* A step of the exit loop that creates no alert.
<1>5. ASSUME NEW s \in Symbol, NEW row, pc = "exits", UNCHANGED <<db, pc, cfg, walerts>>,
             wst' = [wst EXCEPT ![s] = row], scan' = [scan EXCEPT !.todo = @ \ {s}],
             row.lastEntry = wst[s].lastEntry, row.lastExit = wst[s].lastExit,
             row.state \in {"OUT", wst[s].state}
      PROVE  HistoryInv'
  <2>1. wst \in [Symbol -> StateType] /\ scan \in ScanType
    BY <1>0, <1>5 DEF TypeOK
  <2>2. History(wst, walerts) /\ \A o \in scan.todo : wst[o].state = "IN"
    BY <1>0, <1>5 DEF ScanTells
  <2>3. History(wst', walerts')
    BY <1>5, <2>1, <2>2, HistoryRow
  <2>4. \A o \in scan'.todo : wst'[o].state = "IN"
    <3>1. scan'.todo = scan.todo \ {s} /\ scan.todo \subseteq Symbol
      BY <1>5, <2>1 DEF ScanType
    <3>. QED
      BY <1>5, <2>1, <2>2, <3>1
  <2>5. scan'.globalOk /\ (scan'.fired > 0 => cfg'.globalCooldown = 0) =>
            GlobalEntryOk(walerts', scan'.ts, cfg')
    <3>1. scan'.globalOk = scan.globalOk /\ scan'.fired = scan.fired /\ scan'.ts = scan.ts
      BY <1>5, <2>1 DEF ScanType
    <3>. QED
      BY <1>0, <1>5, <3>1 DEF ScanTells
  <2>6. ScanTells'
    BY <2>3, <2>4, <2>5 DEF ScanTells, History, Spaced, Paired, RowTells, LastIsUp,
       LastBefore, OfType, OfSymbol, FarEnough, GlobalEntryOk
  <2>. QED
    BY <1>1, <1>5, <2>6
<1>6. ASSUME NEW s \in Symbol, KeepIn(s) PROVE HistoryInv'
  <2>1. wst[s] \in StateType
    BY <1>0 DEF TypeOK
  <2>2. /\ Updated(s).lastEntry = wst[s].lastEntry /\ Updated(s).lastExit = wst[s].lastExit
        /\ Updated(s).state = wst[s].state
    BY <2>1 DEF Updated, Tracked, StateType
  <2>. QED
    BY <1>5, <1>6, <2>2 DEF KeepIn, NextExit
<1>7. ASSUME NEW s \in Symbol, ExitSilently(s) PROVE HistoryInv'
  <2>1. wst[s] \in StateType
    BY <1>0 DEF TypeOK
  <2>2. /\ Closed(wst[s]).lastEntry = wst[s].lastEntry /\ Closed(wst[s]).lastExit = wst[s].lastExit
        /\ Closed(wst[s]).state = "OUT"
    BY <2>1 DEF Closed, StateType
  <2>. QED
    BY <1>5, <1>7, <2>2 DEF ExitSilently, NextExit
<1>8. ASSUME NEW s \in Symbol, ExitWithAlert(s) PROVE HistoryInv'
  BY <1>1, <1>8, HistoryExit DEF ExitWithAlert
<1>9. CASE ExitsDone
  BY <1>2, <1>9 DEF ExitsDone
<1>10. ASSUME NEW s \in Symbol, Enter(s) PROVE HistoryInv'
  BY <1>1, <1>10, HistoryEnter DEF Enter
<1>11. CASE Commit
  <2>1. /\ pc = "entries" /\ st' = wst /\ alerts' = walerts /\ pc' = "idle"
    BY <1>11 DEF Commit, CloseSession
  <2>2. History(st', alerts')
    BY <1>0, <2>1 DEF ScanTells
  <2>3. History(st, alerts)'
    BY <2>2 DEF History, Spaced, Paired, RowTells, LastIsUp, LastBefore, OfType, OfSymbol,
       FarEnough
  <2>4. ScanTells'
    BY <2>1 DEF ScanTells
  <2>. QED
    BY <1>0, <2>3, <2>4 DEF HistoryInv
<1>12. CASE Abort
  <2>1. pc' = "idle" /\ UNCHANGED db
    BY <1>12 DEF Abort, CloseSession
  <2>2. ScanTells'
    BY <2>1 DEF ScanTells
  <2>. QED
    BY <1>1, <2>1, <2>2
<1>13. CASE Tick
  BY <1>2, <1>13 DEF Tick
<1>14. CASE UpdateConfig
  BY <1>2, <1>14 DEF UpdateConfig
<1>15. CASE RefreshUniverse
  BY <1>2, <1>15 DEF RefreshUniverse
<1>16. CASE UNCHANGED vars
  BY <1>2, <1>16 DEF vars
<1>. QED
  BY <1>3, <1>4, <1>6, <1>7, <1>8, <1>9, <1>10, <1>11, <1>12, <1>13, <1>14, <1>15, <1>16
  DEF Next, ExitStep

\* The invariant holds throughout: tables and open scan tell one story
\* (state_machine.py, the two loops and the commit).
THEOREM HistoryCorrect == Spec => []HistoryInv
<1>. QED
  BY HistoryInit, HistoryStep, PTL DEF Spec

\* Cooldowns are kept whatever the settings, their changes and the clock.
THEOREM CooldownsRespected == Spec => []CooldownsKept
<1>1. HistoryInv => CooldownsKept
  BY DEF HistoryInv, History, CooldownsKept
<1>. QED
  BY <1>1, HistoryCorrect, PTL

\* Every SLOWING alert answers one recent UP alert of its symbol.
THEOREM SlowingAnswersUp == Spec => []SlowingClosesUp
<1>1. HistoryInv => SlowingClosesUp
  BY DEF HistoryInv, History, SlowingClosesUp
<1>. QED
  BY <1>1, HistoryCorrect, PTL

\* State rows and alerts never disagree about a symbol that is IN.
THEOREM InAfterUp == Spec => []InMeansUpWasLast
<1>1. HistoryInv => InMeansUpWasLast
  BY DEF HistoryInv, History, RowTells, InMeansUpWasLast
<1>. QED
  BY <1>1, HistoryCorrect, PTL

-----------------------------------------------------------------------------
(***************************************************************************)
(* What one whole scan may do to the tables: nothing if its snapshot       *)
(* failed; every missing symbol it found is closed; and, with thresholds   *)
(* apart, no symbol is closed and entered. And the peaks an exit by stall  *)
(* is measured from belong to the current entry.                           *)
(*                                                                         *)
(* The first three are statements about Commit, which only copies the      *)
(* session to the tables; so ScanInv says how the session, at every step   *)
(* of the loops, differs from the tables the scan started from.            *)
(*                                                                         *)
(* As for the peaks: a peak is stamped with the candle of the snapshot,    *)
(* which is older than the newest candle in memory by the time the scan    *)
(* writes it, and it must not be older than the entry. What orders the     *)
(* three, in PeakInv, is that the newest candle of the baseline only gets  *)
(* newer while the baseline is one symbol.                                 *)
(***************************************************************************)

InLoops == pc \in {"exits", "entries"}

\* With a failed snapshot the session holds what the tables hold.
NothingWritten == rows = NoRows => wst = st /\ walerts = alerts

\* A missing symbol the exit loop is done with is OUT, and the entry loop,
\* which starts when it is done with all of them, leaves it so.
MissingDone ==
    /\ pc = "entries" => scan.todo = {}
    /\ \A s \in scan.scope \ scan.todo :
           rows # NoRows /\ s \notin DOMAIN rows => wst[s].state = "OUT"

\* A row by which an exit can be due, whenever the peak was.
ExitPossible(r, c) == r.score <= c.exitThreshold \/ ~r.trendOk \/ r.dvz < c.stallDvzMax

\* What the session has closed and the snapshot has a row for had one of them.
ClosedForReason ==
    \A s \in Symbol :
        st[s].state = "IN" /\ wst[s].state = "OUT" /\ s \in DOMAIN rows =>
            ExitPossible(rows[s], cfg)

\* Thresholds that are apart: no row passes the entry gates and is an exit.
Hysteresis ==
    \A c \in Settings : c.exitThreshold < c.entryThreshold /\ c.stallDvzMax <= c.dvzMin

\* The entries of the session are of symbols the tables have OUT.
EntriesWereOut ==
    \A i \in OfType(walerts, UP) \ DOMAIN alerts : st[walerts[i].symbol].state = "OUT"

ScanFacts ==
    InLoops => /\ NothingWritten
               /\ MissingDone
               /\ ClosedForReason
               /\ Hysteresis => EntriesWereOut

ScanInv == TypeOK /\ ScanFacts

-----------------------------------------------------------------------------

\* The numbers a row and the settings are compared by.
LEMMA Thresholds ==
    /\ \A r \in Signal : r.score \in Int /\ r.dvz \in Int
    /\ \A c \in Settings : /\ c.exitThreshold \in Int /\ c.entryThreshold \in Int
                           /\ c.stallDvzMax \in Int /\ c.dvzMin \in Int
BY SignalAssumption, SettingsAssumption DEF SignalType, SettingsType

\* A symbol whose row the scan enters by cannot be one it has closed.
LEMMA EntryIsNoExit ==
    ASSUME Hysteresis, NEW c \in Settings, NEW r \in Signal,
           r.score >= c.entryThreshold, PassesHardGates(r, c)
    PROVE  ~ExitPossible(r, c)
<1>1. r.score \in Int /\ r.dvz \in Int /\ c.exitThreshold \in Int /\ c.entryThreshold \in Int
      /\ c.stallDvzMax \in Int /\ c.dvzMin \in Int
  BY Thresholds
<1>2. c.exitThreshold < c.entryThreshold /\ c.stallDvzMax <= c.dvzMin
  BY DEF Hysteresis
<1>. QED
  BY <1>1, <1>2 DEF PassesHardGates, ExitPossible

\* A step of the exit loop for s, whatever it writes to the row of s: it is
\* allowed to close s if an exit is due, and must if s is missing.
LEMMA ExitLoopStep ==
    ASSUME ScanInv, TypeOK', NEW s \in Symbol, NextExit(s), NEW row \in StateType,
           wst' = [wst EXCEPT ![s] = row],
           scan' \in ScanType, scan'.scope = scan.scope, scan'.todo = scan.todo \ {s},
           UNCHANGED <<db, pc, cfg, rows>>,
           rows = NoRows => row = wst[s] /\ walerts' = walerts,
           rows # NoRows /\ s \notin DOMAIN rows => row.state = "OUT",
           row.state = "OUT" /\ s \in DOMAIN rows =>
               wst[s].state = "OUT" \/ ExitPossible(rows[s], cfg),
           OfType(walerts', UP) = OfType(walerts, UP),
           \A i \in OfType(walerts, UP) : walerts'[i] = walerts[i]
    PROVE  ScanInv'
<1>. USE DEF db
<1>1. pc = "exits" /\ InLoops /\ wst \in [Symbol -> StateType]
      /\ scan \in ScanType /\ rows = rows'
  BY RowTypes DEF NextExit, InLoops, ScanInv, TypeOK
<1>2. NothingWritten'
  <2>1. rows = NoRows => wst' = wst /\ walerts' = walerts
    BY <1>1
  <2>. QED
    BY <1>1, <2>1 DEF ScanInv, ScanFacts, NothingWritten
<1>3. MissingDone'
  <2>. SUFFICES ASSUME NEW o \in scan'.scope \ scan'.todo, rows # NoRows, o \notin DOMAIN rows
                PROVE  wst'[o].state = "OUT"
    BY <1>1 DEF MissingDone
  <2>1. o \in Symbol
    BY <1>1 DEF ScanType
  <2>2. CASE o = s
    BY <1>1, <2>2
  <2>3. CASE o # s
    BY <1>1, <2>1, <2>3 DEF ScanInv, ScanFacts, MissingDone
  <2>. QED
    BY <2>2, <2>3
<1>4. ClosedForReason'
  <2>. SUFFICES ASSUME NEW o \in Symbol, st[o].state = "IN", wst'[o].state = "OUT",
                       o \in DOMAIN rows
                PROVE  ExitPossible(rows[o], cfg)
    BY <1>1 DEF ClosedForReason, ExitPossible
  <2>1. wst[o].state = "OUT" => ExitPossible(rows[o], cfg)
    BY <1>1 DEF ScanInv, ScanFacts, ClosedForReason
  <2>2. CASE o = s
    BY <1>1, <2>1, <2>2
  <2>3. CASE o # s
    BY <1>1, <2>1, <2>3
  <2>. QED
    BY <2>2, <2>3
<1>5. Hysteresis => EntriesWereOut'
  BY <1>1 DEF ScanInv, ScanFacts, EntriesWereOut, OfType
<1>. QED
  BY <1>1, <1>2, <1>3, <1>4, <1>5 DEF ScanInv, ScanFacts, Hysteresis, OfType

\* An exit that is due for a row has a reason that row gives.
LEMMA DueIsPossible ==
    ASSUME NEW s \in DOMAIN rows, ExitDue(s)
    PROVE  ExitPossible(rows[s], cfg)
BY DEF ExitDue, DetermineExitReason, ExitPossible

\* No scan has started, so nothing is claimed of one.
LEMMA ScanInit == Init => ScanInv
BY TypeInit DEF Init, ScanInv, ScanFacts, InLoops

\* Every step keeps it.
LEMMA ScanStep == ScanInv /\ [Next]_vars => ScanInv'
<1>. SUFFICES ASSUME ScanInv, [Next]_vars PROVE ScanInv'
  OBVIOUS
<1>. USE DEF env, db
<1>0. TypeOK /\ TypeOK'
  BY TypeStep DEF ScanInv
\* Outside the loops nothing is claimed.
<1>1. ASSUME pc' \notin {"exits", "entries"} PROVE ScanInv'
  BY <1>0, <1>1 DEF ScanInv, ScanFacts, InLoops
<1>2. CASE StartScan
  BY <1>1, <1>2 DEF StartScan
<1>3. ASSUME pc = "snapshot", NEW r \in Snapshots(view.universe), BeginScan(r)
      PROVE  ScanInv'
  <2>1. /\ pc' = "exits" /\ wst' = st /\ walerts' = alerts /\ UNCHANGED db
        /\ scan' \in ScanType /\ scan'.todo = {s \in scan'.scope : st[s].state = "IN"}
    BY <1>0, <1>3, BeginScanTypes DEF BeginScan
  <2>2. \A s \in Symbol : st[s].state \in {"IN", "OUT"}
    BY <1>0 DEF TypeOK, StateType
  <2>3. NothingWritten' /\ MissingDone' /\ ClosedForReason'
    BY <2>1, <2>2 DEF NothingWritten, MissingDone, ClosedForReason, ScanType
  <2>4. EntriesWereOut'
    BY <2>1 DEF EntriesWereOut, OfType
  <2>. QED
    BY <1>0, <2>3, <2>4 DEF ScanInv, ScanFacts
<1>4. ASSUME NEW s \in Symbol, KeepIn(s) PROVE ScanInv'
  <2>. DEFINE row == Updated(s)
  <2>1. NextExit(s) /\ ~ExitDue(s) /\ InLoops /\ scan \in ScanType /\ row \in StateType
    BY <1>0, <1>4, RowTypes DEF KeepIn, NextExit, InLoops
  <2>2. /\ wst' = [wst EXCEPT ![s] = row] /\ walerts' = walerts
        /\ UNCHANGED <<db, pc, cfg, rows>>
    BY <1>4 DEF KeepIn
  <2>3. scan' \in ScanType /\ scan'.scope = scan.scope /\ scan'.todo = scan.todo \ {s}
    BY <1>4, <2>1, ScanProgress DEF KeepIn, ScanType
  <2>4. rows = NoRows => row = wst[s]
    BY DEF NoRows, Updated
  <2>5. rows # NoRows => s \in DOMAIN rows
    BY <2>1 DEF ExitDue
  <2>6. row.state = wst[s].state
    BY <1>0 DEF Updated, Tracked, TypeOK, StateType
  <2>. HIDE DEF row
  <2>. QED
    BY <1>0, <2>1, <2>2, <2>3, <2>4, <2>5, <2>6, ExitLoopStep
<1>5. ASSUME NEW s \in Symbol, ExitWithAlert(s) PROVE ScanInv'
  <2>. DEFINE row == [Closed(wst[s]) EXCEPT !.lastExit = scan.ts]
              x == AlertRow(scan.ts, s, SLOWING, None, cfg)
  <2>1. NextExit(s) /\ ExitDue(s) /\ InLoops /\ scan \in ScanType /\ cfg \in Settings
    BY <1>0, <1>5, RowTypes DEF ExitWithAlert, NextExit, InLoops
  <2>2. /\ wst' = [wst EXCEPT ![s] = row] /\ walerts' = Append(walerts, x)
        /\ UNCHANGED <<db, pc, cfg, rows>>
    BY <1>5 DEF ExitWithAlert
  <2>3. scan' \in ScanType /\ scan'.scope = scan.scope /\ scan'.todo = scan.todo \ {s}
    BY <1>5, <2>1, ScanProgress DEF ExitWithAlert, ScanType
  <2>4. row \in StateType /\ row.state = "OUT"
    BY <1>0, <2>1, ClosedRow DEF TypeOK, ScanType
  <2>5. rows # NoRows
    BY <2>1 DEF ExitDue, NoRows
  <2>6. s \in DOMAIN rows => ExitPossible(rows[s], cfg)
    BY <2>1, DueIsPossible
  <2>7. x \in AlertType /\ x.type # UP
    BY <2>1 DEF AlertRow, AlertType, Optional, SLOWING, UP, ScanType
  <2>8. /\ OfType(walerts', UP) = OfType(walerts, UP)
        /\ \A i \in OfType(walerts, UP) : walerts'[i] = walerts[i]
    BY <1>0, <2>2, <2>7, AppendedAlert DEF TypeOK, OfType
  <2>. HIDE DEF row, x
  <2>. QED
    BY <1>0, <2>1, <2>2, <2>3, <2>4, <2>5, <2>6, <2>8, ExitLoopStep
<1>6. ASSUME NEW s \in Symbol, ExitSilently(s) PROVE ScanInv'
  <2>. DEFINE row == Closed(wst[s])
  <2>1. NextExit(s) /\ ExitDue(s) /\ InLoops /\ scan \in ScanType
    BY <1>0, <1>6, RowTypes DEF ExitSilently, NextExit, InLoops
  <2>2. /\ wst' = [wst EXCEPT ![s] = row] /\ walerts' = walerts
        /\ UNCHANGED <<db, pc, cfg, rows>>
    BY <1>6 DEF ExitSilently
  <2>3. scan' \in ScanType /\ scan'.scope = scan.scope /\ scan'.todo = scan.todo \ {s}
    BY <1>6, <2>1, ScanProgress DEF ExitSilently, ScanType
  <2>4. row \in StateType /\ row.state = "OUT"
    BY <1>0, ClosedRow DEF TypeOK
  <2>5. rows # NoRows
    BY <2>1 DEF ExitDue, NoRows
  <2>6. s \in DOMAIN rows => ExitPossible(rows[s], cfg)
    BY <2>1, DueIsPossible
  <2>. HIDE DEF row
  <2>. QED
    BY <1>0, <2>1, <2>2, <2>3, <2>4, <2>5, <2>6, ExitLoopStep
<1>7. CASE ExitsDone
  BY <1>0, <1>7 DEF ExitsDone, ScanInv, ScanFacts, InLoops, NothingWritten, MissingDone,
     ClosedForReason, ExitPossible, EntriesWereOut, OfType, Hysteresis
<1>8. ASSUME NEW s \in Symbol, Enter(s) PROVE ScanInv'
  <2>. DEFINE row == Opened(wst[s], rows[s], scan.ts, view.t0)
              x == AlertRow(scan.ts, s, UP, view.t0, cfg)
  <2>1. /\ pc = "entries" /\ InLoops /\ pc' = "entries" /\ UNCHANGED <<db, cfg, rows>>
        /\ wst' = [wst EXCEPT ![s] = row] /\ walerts' = Append(walerts, x)
    BY <1>8 DEF Enter, InLoops
  <2>2. /\ s \in DOMAIN rows /\ rows[s].score >= cfg.entryThreshold
        /\ wst[s].state = "OUT" /\ PassesHardGates(rows[s], cfg)
    BY <1>8 DEF Enter, Eligible
  <2>3. /\ scan \in ScanType /\ cfg \in Settings /\ view.t0 \in Int
        /\ rows[s] \in Signal
    BY <1>0, <2>1, <2>2, RowTypes
  <2>4. scan'.scope = scan.scope /\ scan'.todo = scan.todo
    BY <1>8, <2>3 DEF Enter, ScanType
  <2>5. row.state = "IN" /\ wst \in [Symbol -> StateType] /\ walerts \in Seq(AlertType)
    BY <1>0 DEF TypeOK, Opened, StateType
  <2>6. x \in AlertType /\ x.symbol = s
    BY <2>3 DEF AlertRow, AlertType, Optional, ScanType
  <2>. HIDE DEF row, x
  <2>7. NothingWritten'
    BY <2>1, <2>2 DEF NothingWritten, NoRows
  <2>8. MissingDone'
    <3>1. scan.scope \subseteq Symbol
      BY <2>3 DEF ScanType
    <3>. QED
      BY <2>1, <2>2, <2>4, <2>5, <3>1 DEF ScanInv, ScanFacts, MissingDone
  <2>9. ClosedForReason'
    BY <2>1, <2>5 DEF ScanInv, ScanFacts, ClosedForReason, ExitPossible
  <2>10. ASSUME Hysteresis PROVE EntriesWereOut'
    <3>1. st[s].state = "OUT"
      <4>1. ~ExitPossible(rows[s], cfg)
        BY <2>2, <2>3, <2>10, EntryIsNoExit
      <4>2. st[s].state # "IN"
        BY <2>1, <2>2, <4>1 DEF ScanInv, ScanFacts, ClosedForReason
      <4>. QED
        BY <1>0, <4>2 DEF TypeOK, StateType
    <3>2. \A i \in OfType(walerts', UP) :
              \/ i \in OfType(walerts, UP) /\ walerts'[i] = walerts[i]
              \/ walerts'[i] = x
      BY <2>1, <2>5, <2>6, AppendedAlert DEF OfType
    <3>3. EntriesWereOut
      BY <2>1, <2>10 DEF ScanInv, ScanFacts
    <3>4. st' = st /\ alerts' = alerts
      BY <2>1
    <3>. QED
      BY <2>6, <3>1, <3>2, <3>3, <3>4 DEF EntriesWereOut
  <2>. QED
    BY <1>0, <2>7, <2>8, <2>9, <2>10 DEF ScanInv, ScanFacts
<1>9. CASE Commit
  BY <1>1, <1>9 DEF Commit, CloseSession
<1>10. CASE Abort
  BY <1>1, <1>10 DEF Abort, CloseSession
<1>11. CASE Tick
  BY <1>1, <1>11 DEF Tick, AtAwait
<1>12. CASE UpdateConfig
  BY <1>1, <1>12 DEF UpdateConfig, AtAwait
<1>13. CASE RefreshUniverse
  BY <1>1, <1>13 DEF RefreshUniverse, AtAwait
<1>14. CASE UNCHANGED vars
  BY <1>0, <1>14 DEF vars, ScanInv, ScanFacts, InLoops, NothingWritten, MissingDone,
     ClosedForReason, ExitPossible, EntriesWereOut, OfType, Hysteresis
<1>. QED
  BY <1>2, <1>3, <1>4, <1>5, <1>6, <1>7, <1>8, <1>9, <1>10, <1>11, <1>12, <1>13, <1>14
  DEF Next, ExitStep

LEMMA ScanInvariant == Spec => []ScanInv
<1>. QED
  BY ScanInit, ScanStep, PTL DEF Spec

-----------------------------------------------------------------------------
(* What a commit brings *)

\* A scan whose snapshot failed, committed, leaves both tables as they were:
\* no symbol is closed, no peak raised, no alert created on missing data.
THEOREM FailureWritesNothing == Spec => FailedSnapshotChangesNothing
<1>1. ASSUME ScanInv, [Next]_vars
      PROVE  [Commit /\ rows = NoRows => UNCHANGED db]_vars
  BY <1>1 DEF ScanInv, ScanFacts, InLoops, NothingWritten, Commit, db
<1>. QED
  BY <1>1, ScanInvariant, PTL DEF Spec, FailedSnapshotChangesNothing

\* A committed scan with a good snapshot has closed every symbol of its scope
\* that the snapshot has no row for.
THEOREM MissingClosed == Spec => MissingIsClosed
<1>1. ASSUME ScanInv, [Next]_vars
      PROVE  [\A s \in scan.scope : GoodScanWithout(s) => st'[s].state = "OUT"]_vars
  BY <1>1 DEF ScanInv, ScanFacts, InLoops, MissingDone, GoodScanWithout, Commit
<1>. QED
  BY <1>1, ScanInvariant, PTL DEF Spec, MissingIsClosed

\* Hysteresis, from thresholds that are apart (and for no others: the run
\* flapping shows a symbol closed and entered by one scan).
THEOREM ApartNeverFlaps == ASSUME Hysteresis PROVE Spec => NoFlapping
<1>1. ASSUME ScanInv, [Next]_vars
      PROVE  [\A i \in OfType(alerts', UP) \ DOMAIN alerts :
                  st[alerts'[i].symbol].state = "OUT"]_vars
  <2>1. CASE Commit
    BY <1>1, <2>1 DEF ScanInv, ScanFacts, InLoops, EntriesWereOut, Commit, OfType
  <2>2. CASE ~Commit
    <3>1. alerts' = alerts
      BY <1>1, <2>2 DEF Next, ExitStep, vars, env, db, StartScan, BeginScan, KeepIn,
         ExitWithAlert, ExitSilently, ExitsDone, Enter, Abort, Tick, UpdateConfig,
         RefreshUniverse
    <3>. QED
      BY <3>1 DEF OfType
  <2>. QED
    BY <2>1, <2>2
<1>. QED
  BY <1>1, ScanInvariant, PTL DEF Spec, NoFlapping

-----------------------------------------------------------------------------
(* Peaks *)

\* A row that is OUT has no peaks.
OutHasNoPeak(table) ==
    \A s \in Symbol : table[s].state = "OUT" => table[s].peak = NoPeak /\ table[s].high = NoPeak

\* The entry alerts of a are of candles up to the newest one, and up to the
\* one the running scan looks at.
AlertsUpTo(a) ==
    \A i \in OfType(a, UP) :
        /\ a[i].t0 \in Int /\ a[i].t0 <= t0
        /\ pc # "idle" => a[i].t0 <= view.t0

\* A row that is IN has peaks, no older than the entries of the symbol in a
\* and no newer than the newest candle.
PeaksFollow(table, a) ==
    \A s \in Symbol : table[s].state = "IN" =>
        /\ table[s].peak.ts \in Int /\ table[s].high.ts \in Int
        /\ table[s].peak.ts <= t0 /\ table[s].high.ts <= t0
        /\ \A i \in OfType(a, UP) : a[i].symbol = s => a[i].t0 <= table[s].peak.ts

CandleOrder ==
    /\ pc # "idle" => view.t0 <= t0
    /\ AlertsUpTo(alerts) /\ AlertsUpTo(walerts)
    /\ PeaksFollow(st, alerts) /\ PeaksFollow(wst, walerts)

\* The exit loop looks at rows that are IN only.
TodoIsIn == pc = "exits" => \A s \in scan.todo : wst[s].state = "IN"

PeakInv ==
    /\ TypeOK
    /\ TodoIsIn
    /\ OutHasNoPeak(st) /\ OutHasNoPeak(wst)
    /\ OneBaseline => CandleOrder

-----------------------------------------------------------------------------

\* While the baseline is one symbol, a refresh brings no older candle.
LEMMA RefreshKeepsCandle ==
    ASSUME TypeOK, OneBaseline, RefreshUniverse
    PROVE  t0' = t0
BY DEF RefreshUniverse, NewestOfBaseline

\* A peak brought up to date keeps its stamp or gets the one of the candle.
LEMMA RaisedStamp ==
    ASSUME NEW peak, NEW x, NEW candle
    PROVE  Raise(peak, x, candle).ts \in {peak.ts, candle}
BY DEF Raise

\* Fresh rows are OUT.
LEMMA PeakInit == Init => PeakInv
<1>. SUFFICES ASSUME Init PROVE PeakInv
  OBVIOUS
<1>1. TypeOK
  BY TypeInit
<1>2. \A s \in Symbol : st[s] = FreshState /\ wst[s] = FreshState
  BY DEF Init
<1>3. OfType(alerts, UP) = {} /\ OfType(walerts, UP) = {}
  BY DEF Init, OfType
<1>. QED
  BY <1>1, <1>2, <1>3
  DEF Init, PeakInv, TodoIsIn, OutHasNoPeak, CandleOrder, AlertsUpTo, PeaksFollow, FreshState

\* A step that writes one row of the session and appends no entry.
LEMMA RowWritten ==
    ASSUME PeakInv, TypeOK', pc \in {"exits", "entries"}, NEW s \in Symbol, NEW row \in StateType,
           wst' = [wst EXCEPT ![s] = row],
           UNCHANGED <<t0, db, pc, view>>,
           pc = "exits" => scan'.todo = scan.todo \ {s},
           row.state = "OUT" => row.peak = NoPeak /\ row.high = NoPeak,
           row.state = "IN" => /\ wst[s].state = "IN"
                               /\ row.peak.ts \in {wst[s].peak.ts, view.t0}
                               /\ row.high.ts \in {wst[s].high.ts, view.t0},
           OfType(walerts', UP) = OfType(walerts, UP),
           \A i \in OfType(walerts, UP) : walerts'[i] = walerts[i]
    PROVE  PeakInv'
<1>. USE DEF db
<1>1. wst \in [Symbol -> StateType] /\ view.t0 \in Int /\ t0 \in Int
  BY RowTypes DEF PeakInv, TypeOK
<1>2. OutHasNoPeak(st)' /\ OutHasNoPeak(wst)'
  BY <1>1 DEF PeakInv, OutHasNoPeak
<1>3. ASSUME OneBaseline PROVE CandleOrder'
  <2>1. CandleOrder
    BY <1>3 DEF PeakInv
  <2>2. view.t0 <= t0
    BY <2>1 DEF CandleOrder
  <2>3. AlertsUpTo(alerts)' /\ AlertsUpTo(walerts)' /\ PeaksFollow(st, alerts)'
    BY <2>1 DEF CandleOrder, AlertsUpTo, PeaksFollow, OfType
  <2>4. PeaksFollow(wst, walerts)'
    <3>. SUFFICES ASSUME NEW o \in Symbol, wst'[o].state = "IN"
                  PROVE  /\ wst'[o].peak.ts \in Int /\ wst'[o].high.ts \in Int
                         /\ wst'[o].peak.ts <= t0 /\ wst'[o].high.ts <= t0
                         /\ \A i \in OfType(walerts, UP) :
                                walerts[i].symbol = o => walerts[i].t0 <= wst'[o].peak.ts
      BY DEF PeaksFollow
    <3>1. wst[o].state = "IN" =>
              /\ wst[o].peak.ts \in Int /\ wst[o].high.ts \in Int
              /\ wst[o].peak.ts <= t0 /\ wst[o].high.ts <= t0
              /\ \A i \in OfType(walerts, UP) :
                     walerts[i].symbol = o => walerts[i].t0 <= wst[o].peak.ts
      BY <2>1 DEF CandleOrder, PeaksFollow
    <3>2. \A i \in OfType(walerts, UP) : walerts[i].t0 <= view.t0
      BY <2>1 DEF CandleOrder, AlertsUpTo
    <3>3. CASE o = s
      <4>1. wst'[o] = row /\ wst[s].state = "IN"
        BY <1>1, <3>3
      <4>. QED
        BY <1>1, <2>2, <3>1, <3>2, <3>3, <4>1
    <3>4. CASE o # s
      BY <1>1, <3>1, <3>4
    <3>. QED
      BY <3>3, <3>4
  <2>. QED
    BY <2>1, <2>3, <2>4 DEF CandleOrder
<1>4. TodoIsIn'
  <2>. SUFFICES ASSUME pc = "exits", NEW o \in scan.todo \ {s} PROVE wst'[o].state = "IN"
    BY DEF TodoIsIn
  <2>1. o \in Symbol
    BY RowTypes DEF PeakInv, ScanType
  <2>. QED
    BY <1>1, <2>1 DEF PeakInv, TodoIsIn
<1>. QED
  BY <1>2, <1>3, <1>4 DEF PeakInv, OneBaseline

\* Every step keeps it.
LEMMA PeakStep == PeakInv /\ [Next]_vars => PeakInv'
<1>. SUFFICES ASSUME PeakInv, [Next]_vars PROVE PeakInv'
  OBVIOUS
<1>. USE DEF env, db
<1>0. TypeOK /\ TypeOK'
  BY TypeStep DEF PeakInv
\* Steps outside the loops, which leave the tables alone and whose candles
\* only get newer.
<1>1. ASSUME UNCHANGED <<db, wst, walerts>>,
             OneBaseline => t0' >= t0,
             pc' # "idle" => \/ pc # "idle" /\ view' = view
                             \/ view'.t0 = t0 /\ t0' = t0,
             pc' = "exits" => pc = "exits" /\ scan' = scan
      PROVE  PeakInv'
  <2>1. OutHasNoPeak(st)' /\ OutHasNoPeak(wst)'
    BY <1>1 DEF PeakInv, OutHasNoPeak
  <2>2. ASSUME OneBaseline PROVE CandleOrder'
    <3>1. CandleOrder /\ t0' >= t0 /\ t0 \in Int /\ t0' \in Int
      BY <1>0, <1>1, <2>2 DEF PeakInv, TypeOK
    <3>2. /\ pc # "idle" => view.t0 \in Int /\ view.t0 <= t0
          /\ pc' # "idle" => view'.t0 \in Int
      BY <1>0, <3>1 DEF TypeOK, CandleOrder
    <3>3. pc' # "idle" => view'.t0 <= t0'
      BY <1>1, <3>1, <3>2
    <3>4. ASSUME NEW a, AlertsUpTo(a), a' = a PROVE AlertsUpTo(a)'
      BY <1>1, <3>1, <3>2, <3>4 DEF AlertsUpTo, OfType
    <3>5. AlertsUpTo(alerts)' /\ AlertsUpTo(walerts)'
      BY <1>1, <3>1, <3>4 DEF CandleOrder
    <3>6. PeaksFollow(st, alerts)' /\ PeaksFollow(wst, walerts)'
      BY <1>1, <3>1 DEF CandleOrder, PeaksFollow, OfType
    <3>. QED
      BY <3>3, <3>5, <3>6 DEF CandleOrder
  <2>. QED
    BY <1>0, <1>1, <2>1, <2>2 DEF PeakInv, OneBaseline, TodoIsIn
\* Steps that end a scan, one way or the other.
<1>2. ASSUME CloseSession, UNCHANGED env,
             <<st', alerts'>> \in {<<st, alerts>>, <<wst, walerts>>}
      PROVE  PeakInv'
  <2>1. pc' = "idle" /\ wst' = st' /\ walerts' = alerts' /\ t0' = t0
    BY <1>2 DEF CloseSession
  <2>2. OutHasNoPeak(st)' /\ OutHasNoPeak(wst)'
    BY <1>2, <2>1 DEF PeakInv, OutHasNoPeak
  <2>3. OneBaseline => CandleOrder'
    BY <1>2, <2>1 DEF PeakInv, CandleOrder, AlertsUpTo, PeaksFollow, OfType
  <2>. QED
    BY <1>0, <2>1, <2>2, <2>3 DEF PeakInv, OneBaseline, TodoIsIn
<1>3. CASE StartScan
  BY <1>0, <1>1, <1>3 DEF StartScan, TypeOK
<1>4. ASSUME pc = "snapshot", NEW r \in Snapshots(view.universe), BeginScan(r)
      PROVE  PeakInv'
  <2>1. /\ wst' = st /\ walerts' = alerts /\ pc' # "idle"
        /\ UNCHANGED <<t0, db, view>>
    BY <1>4 DEF BeginScan
  <2>2. OutHasNoPeak(st)' /\ OutHasNoPeak(wst)'
    BY <2>1 DEF PeakInv, OutHasNoPeak
  <2>3. OneBaseline => CandleOrder'
    BY <1>4, <2>1 DEF PeakInv, CandleOrder, AlertsUpTo, PeaksFollow, OfType
  <2>. QED
    BY <1>0, <1>4, <2>2, <2>3 DEF PeakInv, OneBaseline, TodoIsIn, BeginScan
<1>5. ASSUME NEW s \in Symbol, KeepIn(s) PROVE PeakInv'
  <2>. DEFINE row == Updated(s)
  <2>1. /\ pc = "exits" /\ s \in scan.todo /\ wst' = [wst EXCEPT ![s] = row]
        /\ UNCHANGED <<t0, db, pc, view, walerts>>
    BY <1>5 DEF KeepIn, NextExit
  <2>2. row \in StateType /\ wst[s] \in StateType /\ scan \in ScanType
    BY <1>0, <2>1, RowTypes DEF TypeOK
  <2>3. wst[s].state = "IN"
    BY <2>1 DEF PeakInv, TodoIsIn
  <2>4. row.state = "IN" /\ row.peak.ts \in {wst[s].peak.ts, view.t0}
        /\ row.high.ts \in {wst[s].high.ts, view.t0}
    BY <2>2, <2>3, RaisedStamp DEF Updated, Tracked, StateType
  <2>5. scan'.todo = scan.todo \ {s}
    BY <1>5, <2>2 DEF KeepIn, ScanType
  <2>. HIDE DEF row
  <2>. QED
    BY <1>0, <2>1, <2>2, <2>3, <2>4, <2>5, RowWritten
<1>6. ASSUME NEW s \in Symbol, ExitWithAlert(s) PROVE PeakInv'
  <2>. DEFINE row == [Closed(wst[s]) EXCEPT !.lastExit = scan.ts]
              x == AlertRow(scan.ts, s, SLOWING, None, cfg)
  <2>1. /\ pc = "exits" /\ s \in scan.todo /\ wst' = [wst EXCEPT ![s] = row]
        /\ walerts' = Append(walerts, x) /\ UNCHANGED <<t0, db, pc, view>>
    BY <1>6 DEF ExitWithAlert, NextExit
  <2>2. wst[s] \in StateType /\ scan \in ScanType /\ cfg \in Settings
    BY <1>0, <2>1, RowTypes DEF TypeOK
  <2>3. row \in StateType /\ row.state = "OUT" /\ row.peak = NoPeak /\ row.high = NoPeak
    BY <2>2, ClosedRow DEF ScanType
  <2>4. x \in AlertType /\ x.type # UP
    BY <2>2 DEF AlertRow, AlertType, Optional, SLOWING, UP, ScanType
  <2>5. /\ OfType(walerts', UP) = OfType(walerts, UP)
        /\ \A i \in OfType(walerts, UP) : walerts'[i] = walerts[i]
    BY <1>0, <2>1, <2>4, AppendedAlert DEF TypeOK, OfType
  <2>6. scan'.todo = scan.todo \ {s}
    BY <1>6, <2>2 DEF ExitWithAlert, ScanType
  <2>. HIDE DEF row, x
  <2>. QED
    BY <1>0, <2>1, <2>3, <2>5, <2>6, RowWritten
<1>7. ASSUME NEW s \in Symbol, ExitSilently(s) PROVE PeakInv'
  <2>. DEFINE row == Closed(wst[s])
  <2>1. /\ pc = "exits" /\ s \in scan.todo /\ wst' = [wst EXCEPT ![s] = row]
        /\ UNCHANGED <<t0, db, pc, view, walerts>>
    BY <1>7 DEF ExitSilently, NextExit
  <2>2. wst[s] \in StateType /\ scan \in ScanType
    BY <1>0, <2>1, RowTypes DEF TypeOK
  <2>3. row \in StateType /\ row.state = "OUT" /\ row.peak = NoPeak /\ row.high = NoPeak
    BY <2>2, ClosedRow
  <2>4. scan'.todo = scan.todo \ {s}
    BY <1>7, <2>2 DEF ExitSilently, ScanType
  <2>. HIDE DEF row
  <2>. QED
    BY <1>0, <2>1, <2>3, <2>4, RowWritten
<1>8. CASE ExitsDone
  BY <1>0, <1>1, <1>8 DEF ExitsDone, TypeOK
<1>9. ASSUME NEW s \in Symbol, Enter(s) PROVE PeakInv'
  <2>. DEFINE row == Opened(wst[s], rows[s], scan.ts, view.t0)
              x == AlertRow(scan.ts, s, UP, view.t0, cfg)
  <2>1. /\ pc = "entries" /\ s \in DOMAIN rows /\ wst' = [wst EXCEPT ![s] = row]
        /\ walerts' = Append(walerts, x) /\ UNCHANGED <<t0, db, pc, view>>
    BY <1>9 DEF Enter, Eligible
  <2>2. /\ scan \in ScanType /\ cfg \in Settings /\ view.t0 \in Int /\ t0 \in Int
        /\ wst \in [Symbol -> StateType] /\ walerts \in Seq(AlertType)
    BY <1>0, <2>1, RowTypes DEF TypeOK
  <2>3. row.state = "IN" /\ row.peak.ts = view.t0 /\ row.high.ts = view.t0
    BY <2>2 DEF Opened, StateType
  <2>4. x \in AlertType /\ x.type = UP /\ x.symbol = s /\ x.t0 = view.t0
    BY <2>2 DEF AlertRow, AlertType, Optional, ScanType
  <2>. HIDE DEF row, x
  <2>5. \A i \in OfType(walerts', UP) :
            \/ i \in OfType(walerts, UP) /\ walerts'[i] = walerts[i]
            \/ walerts'[i] = x
    BY <2>1, <2>2, <2>4, AppendedAlert DEF OfType
  <2>6. OutHasNoPeak(st)' /\ OutHasNoPeak(wst)' /\ TodoIsIn'
    BY <2>1, <2>2, <2>3 DEF PeakInv, OutHasNoPeak, TodoIsIn
  <2>7. ASSUME OneBaseline PROVE CandleOrder'
    <3>1. CandleOrder /\ view.t0 <= t0
      BY <2>1, <2>7 DEF PeakInv, CandleOrder
    <3>2. AlertsUpTo(alerts)' /\ PeaksFollow(st, alerts)'
      BY <2>1, <3>1 DEF CandleOrder, AlertsUpTo, PeaksFollow, OfType
    <3>3. AlertsUpTo(walerts)'
      <4>. SUFFICES ASSUME NEW i \in OfType(walerts', UP)
                    PROVE  walerts'[i].t0 \in Int /\ walerts'[i].t0 <= t0
                           /\ walerts'[i].t0 <= view.t0
        BY <2>1 DEF AlertsUpTo
      <4>1. CASE walerts'[i] = x
        BY <2>2, <2>4, <3>1, <4>1
      <4>2. CASE i \in OfType(walerts, UP) /\ walerts'[i] = walerts[i]
        BY <2>1, <3>1, <4>2 DEF CandleOrder, AlertsUpTo
      <4>. QED
        BY <2>5, <4>1, <4>2
    <3>4. PeaksFollow(wst, walerts)'
      <4>. SUFFICES ASSUME NEW o \in Symbol, wst'[o].state = "IN"
                    PROVE  /\ wst'[o].peak.ts \in Int /\ wst'[o].high.ts \in Int
                           /\ wst'[o].peak.ts <= t0 /\ wst'[o].high.ts <= t0
                           /\ \A i \in OfType(walerts', UP) :
                                  walerts'[i].symbol = o => walerts'[i].t0 <= wst'[o].peak.ts
        BY <2>1 DEF PeaksFollow
      <4>1. \A i \in OfType(walerts', UP) : walerts'[i].t0 <= view.t0
        BY <2>1, <3>3 DEF AlertsUpTo
      <4>2. CASE o = s
        BY <2>1, <2>2, <2>3, <3>1, <4>1, <4>2
      <4>3. CASE o # s
        BY <2>1, <2>2, <2>4, <2>5, <3>1, <4>3 DEF CandleOrder, PeaksFollow
      <4>. QED
        BY <4>2, <4>3
    <3>. QED
      BY <2>1, <3>1, <3>2, <3>3, <3>4 DEF CandleOrder
  <2>. QED
    BY <1>0, <2>6, <2>7 DEF PeakInv, OneBaseline
<1>10. CASE Commit
  BY <1>2, <1>10 DEF Commit
<1>11. CASE Abort
  BY <1>2, <1>11 DEF Abort
<1>12. CASE Tick
  <2>1. t0' >= t0
    BY <1>0, <1>12 DEF Tick, TypeOK
  <2>. QED
    BY <1>1, <1>12, <2>1 DEF Tick, AtAwait
<1>13. CASE UpdateConfig
  BY <1>0, <1>1, <1>13 DEF UpdateConfig, AtAwait, TypeOK
<1>14. CASE RefreshUniverse
  BY <1>0, <1>1, <1>14, RefreshKeepsCandle DEF RefreshUniverse, AtAwait, TypeOK
<1>15. CASE UNCHANGED vars
  BY <1>0, <1>1, <1>15 DEF vars, TypeOK
<1>. QED
  BY <1>3, <1>4, <1>5, <1>6, <1>7, <1>8, <1>9, <1>10, <1>11, <1>12, <1>13, <1>14, <1>15
  DEF Next, ExitStep

\* The inductive invariant says what the run checks.
LEMMA PeaksImplyProperty == PeakInv => PeakBelongsToEntry
<1>. SUFFICES ASSUME PeakInv, NEW s \in Symbol
              PROVE  IF st[s].state = "OUT" THEN st[s].peak = NoPeak /\ st[s].high = NoPeak
                     ELSE OneBaseline =>
                              /\ \A i \in OfSymbol(alerts, s) :
                                     alerts[i].type = UP => st[s].peak.ts >= alerts[i].t0
                              /\ st[s].peak.ts <= t0 /\ st[s].high.ts <= t0
  BY DEF PeakBelongsToEntry
<1>1. CASE st[s].state = "OUT"
  BY <1>1 DEF PeakInv, OutHasNoPeak
<1>2. CASE st[s].state # "OUT"
  <2>1. st[s].state = "IN"
    BY <1>2 DEF PeakInv, TypeOK, StateType
  <2>. QED
    BY <1>2, <2>1 DEF PeakInv, CandleOrder, PeaksFollow, AlertsUpTo, OfSymbol, OfType
<1>. QED
  BY <1>1, <1>2

\* The stall clock of a symbol always runs from a candle of its current entry,
\* however many scans failed and whatever was aborted in between.
THEOREM PeaksBelong == Spec => []PeakBelongsToEntry
<1>. QED
  BY PeakInit, PeakStep, PeaksImplyProperty, PTL DEF Spec
=============================================================================
