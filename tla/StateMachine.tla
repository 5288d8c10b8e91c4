---------------------------- MODULE StateMachine ----------------------------
(***************************************************************************)
(* One scan of the alerting state machine (app/state_machine.py) and the   *)
(* hook that starts it (app/main.py, _update_latest_signals).              *)
(*                                                                         *)
(* A scan captures the settings, computes a snapshot of signal rows from   *)
(* the universe and the candle store (app/signals.py; here: any rows for   *)
(* any part of the universe), opens a database session, and then, in one   *)
(* go, closes the symbols whose exit condition holds and opens new ones    *)
(* within the alert budgets.  It commits everything or nothing.            *)
(*                                                                         *)
(* The scan awaits before the snapshot is complete and before it reads     *)
(* the database; there the clock, the settings and the universe may move.  *)
(* The two loops contain no await: the environment does not move there.    *)
(* (What moves while the commit is awaited is not read by it, and is       *)
(* ordered after it.)                                                      *)
(***************************************************************************)
EXTENDS Integers, Sequences, FiniteSets

CONSTANTS
    Symbol,     \* tradable symbols, the baseline included
    None,       \* Python's None
    Signal,     \* the signal rows a snapshot may hold for a symbol
    Settings,   \* the settings an operator may choose
    Universe,   \* the universes a refresh may persist
    ClockStep,  \* what the wall clock may do between two awaits
    MaxTime     \* bound: the clock stays between 0 and here

UP == "MOMENTUM_UP"
SLOWING == "MOMENTUM_SLOWING"

SignalType ==
    [score : Int, trendOk : BOOLEAN, dvz : Int, price : Int, high : Int,
     liquid : BOOLEAN, spreadOk : BOOLEAN]

SettingsType ==
    [lookback : Nat, maxEntry : Nat, maxExit : Nat, maxTotal : Nat,
     globalCooldown : Nat, entryCooldown : Nat, exitCooldown : Nat,
     maxPerScan : Nat, entryThreshold : Int, exitThreshold : Int,
     stallTime : Nat, stallDvzMax : Int, dvzMin : Int, bookCheckTopN : Nat]

\* A persisted universe: the liquidity rank of its active members, and which
\* of them is the baseline (none in the empty universe of a fresh database).
IsUniverse(u) ==
    /\ DOMAIN u.rank \subseteq Symbol
    /\ \A s \in DOMAIN u.rank : u.rank[s] \in Nat
    /\ u.baseline \in DOMAIN u.rank \cup {None}

ASSUME NoneAssumption == None \notin Int \cup Symbol
ASSUME SymbolAssumption == IsFiniteSet(Symbol)
ASSUME SignalAssumption == Signal \subseteq SignalType
ASSUME SettingsAssumption == Settings \subseteq SettingsType
ASSUME UniverseAssumption == \A u \in Universe : IsUniverse(u)
ASSUME ClockAssumption == ClockStep \subseteq Int /\ MaxTime \in Int

VARIABLES
    now,        \* the wall clock
    t0,         \* start of the newest candle of the baseline in memory
    settings,   \* app.state.settings
    universe,   \* table universe_membership
    st,         \* table signal_state
    alerts,     \* table alerts, oldest insertion first
    pc,         \* where the scan is
    cfg,        \* the settings the scan captured
    view,       \* the universe and t0 its snapshot was computed from
    rows,       \* the rows of its snapshot; no row at all: the snapshot failed
    scan,       \* what the scan read and counts
    wst,        \* signal_state as the open session sees it
    walerts     \* alerts as the open session sees it

env == <<now, t0, settings, universe>>
db == <<st, alerts>>
vars == <<env, db, pc, cfg, view, rows, scan, wst, walerts>>

-----------------------------------------------------------------------------
(* Rows, alerts and what is read of them *)

NoPeak == [x |-> None, ts |-> None]
FreshState == [state |-> "OUT", lastEntry |-> None, lastExit |-> None,
               peak |-> NoPeak, high |-> NoPeak]

\* cfg is the settings the alert was created under: the database does not
\* keep it, the properties below need it.
AlertRow(ts, s, type, candle, c) ==
    [ts |-> ts, symbol |-> s, type |-> type, t0 |-> candle, cfg |-> c]

OfType(a, type) == {i \in DOMAIN a : a[i].type = type}
OfSymbol(a, s) == {i \in DOMAIN a : a[i].symbol = s}
Since(a, ts) == {i \in DOMAIN a : a[i].ts >= ts}

\* Mutant: the window is open at its start.
AlertCountsOpenWindow(a, type, since) ==
    Cardinality(OfType(a, type) \cap Since(a, since + 1))
AlertCounts(a, type, since) == Cardinality(OfType(a, type) \cap Since(a, since))
TotalCount(a, since) == Cardinality(Since(a, since))

GlobalEntryOk(a, ts, c) ==
    \A i \in OfType(a, UP) : ts - a[i].ts >= c.globalCooldown

NoRows == <<>>
Candidates(u) == DOMAIN u.rank \ {u.baseline}

\* A snapshot without a baseline, or for which no symbol has the candles it
\* needs, has an error and no rows; every other one has at least one row.
Snapshots(u) ==
    IF u.baseline = None THEN {NoRows}
    ELSE UNION {[c -> Signal] : c \in SUBSET Candidates(u)}

LoadUniverseSymbols(u, baseline) == DOMAIN u.rank \ {baseline}

-----------------------------------------------------------------------------
(* Exits *)

Raise(peak, x, candle) ==
    IF peak.x = None \/ x > peak.x THEN [x |-> x, ts |-> candle] ELSE peak

Tracked(row, r, candle) ==
    [row EXCEPT !.peak = Raise(@, r.price, candle), !.high = Raise(@, r.high, candle)]

DetermineExitReason(r, candle, peakTs, c) ==
    \/ r.score <= c.exitThreshold
    \/ ~r.trendOk
    \/ peakTs # None /\ candle - peakTs >= c.stallTime /\ r.dvz < c.stallDvzMax

\* Mutant: the peak is stamped with the time of the scan, not of the candle.
UpdatedAtScanTime(s) ==
    IF s \in DOMAIN rows THEN Tracked(wst[s], rows[s], scan.ts) ELSE wst[s]
\* The row of s with its peaks brought up to date by the snapshot.
Updated(s) ==
    IF s \in DOMAIN rows THEN Tracked(wst[s], rows[s], view.t0) ELSE wst[s]

\* Mutant: a missing row is taken for missing data even if the snapshot failed.
ExitDueOnError(s) ==
    s \in DOMAIN rows => DetermineExitReason(rows[s], view.t0, Updated(s).peak.ts, cfg)
\* Mutant: a symbol without a row is passed over.
ExitDueOnlyWithRow(s) ==
    s \in DOMAIN rows /\ DetermineExitReason(rows[s], view.t0, Updated(s).peak.ts, cfg)
ExitDue(s) ==
    IF s \in DOMAIN rows
    THEN DetermineExitReason(rows[s], view.t0, Updated(s).peak.ts, cfg)
    ELSE rows # NoRows

\* Mutant: the age of the entry alert is not looked at.
ShouldAlertExitAnyAge(row, sc, c) ==
    /\ row.lastExit # None => sc.ts - row.lastExit >= c.exitCooldown
    /\ sc.exitCount < c.maxExit /\ sc.totalCount < c.maxTotal
ShouldAlertExit(row, sc, c) ==
    /\ row.lastEntry # None
    /\ sc.ts - row.lastEntry <= c.lookback
    /\ row.lastExit # None => sc.ts - row.lastExit >= c.exitCooldown
    /\ sc.exitCount < c.maxExit
    /\ sc.totalCount < c.maxTotal

\* Mutant: the row is left IN.
ClosedButIn(row) == [row EXCEPT !.peak = NoPeak, !.high = NoPeak]
Closed(row) == [row EXCEPT !.state = "OUT", !.peak = NoPeak, !.high = NoPeak]

-----------------------------------------------------------------------------
(* Entries *)

PassesHardGates(r, c) == r.trendOk /\ r.dvz >= c.dvzMin /\ r.liquid

PassesSpreadGate(r, c) == c.bookCheckTopN > 0 => r.spreadOk

OffCooldown(row, ts, c) ==
    row.lastEntry # None => ts - row.lastEntry >= c.entryCooldown

\* Mutant: the thresholds are read again, after the awaits.
EligibleNow ==
    {s \in DOMAIN rows \cap scan.scope :
        /\ rows[s].score >= settings.entryThreshold
        /\ wst[s].state = "OUT"
        /\ OffCooldown(wst[s], scan.ts, cfg)
        /\ PassesHardGates(rows[s], cfg)
        /\ PassesSpreadGate(rows[s], cfg)}
Eligible ==
    {s \in DOMAIN rows \cap scan.scope :
        /\ rows[s].score >= cfg.entryThreshold
        /\ wst[s].state = "OUT"
        /\ OffCooldown(wst[s], scan.ts, cfg)
        /\ PassesHardGates(rows[s], cfg)
        /\ PassesSpreadGate(rows[s], cfg)}

\* Rows are sorted by score; equal scores stay in the order of the universe
\* the snapshot was computed from.
Before(s, o) ==
    \/ rows[s].score > rows[o].score
    \/ rows[s].score = rows[o].score /\ view.universe.rank[s] <= view.universe.rank[o]

\* Mutant: the scan does not stop at its first entry under a global cooldown.
EntryBudgetLeftNoBreak(sc, c) ==
    /\ sc.globalOk
    /\ sc.entryCount < c.maxEntry /\ sc.totalCount < c.maxTotal
    /\ sc.fired < c.maxPerScan
EntryBudgetLeft(sc, c) ==
    /\ sc.globalOk
    /\ sc.entryCount < c.maxEntry
    /\ sc.totalCount < c.maxTotal
    /\ sc.fired < c.maxPerScan
    /\ sc.fired > 0 => c.globalCooldown = 0

Opened(row, r, ts, candle) ==
    [row EXCEPT !.state = "IN", !.lastEntry = ts,
                !.peak = [x |-> r.price, ts |-> candle],
                !.high = [x |-> r.high, ts |-> candle]]

-----------------------------------------------------------------------------
(* The steps of a scan *)

NoScan == [ts |-> None, scope |-> {}, todo |-> {}, entryCount |-> 0,
           exitCount |-> 0, totalCount |-> 0, fired |-> 0, globalOk |-> FALSE]

Init ==
    /\ now = 1 /\ t0 = 0
    /\ settings \in Settings
    /\ universe \in Universe
    /\ st = [s \in Symbol |-> FreshState]
    /\ alerts = <<>>
    /\ pc = "idle"
    /\ cfg = None /\ view = None /\ rows = NoRows /\ scan = NoScan
    /\ wst = st /\ walerts = alerts

\* The hook reads app.state.settings once, then awaits the snapshot, which
\* reads the universe and the candles.
StartScan ==
    /\ pc = "idle"
    /\ pc' = "snapshot"
    /\ cfg' = settings
    /\ view' = [t0 |-> t0, universe |-> universe]
    /\ UNCHANGED <<env, db, rows, scan, wst, walerts>>

BeginScan(r) ==
    /\ pc = "snapshot"
    /\ pc' = "exits"
    /\ rows' = r
    /\ LET scope == LoadUniverseSymbols(universe, view.universe.baseline)
           since == now - cfg.lookback
       IN  scan' = [ts |-> now, scope |-> scope,
                    todo |-> {s \in scope : st[s].state = "IN"},
                    entryCount |-> AlertCounts(alerts, UP, since),
                    exitCount |-> AlertCounts(alerts, SLOWING, since),
                    totalCount |-> TotalCount(alerts, since),
                    fired |-> 0,
                    globalOk |-> GlobalEntryOk(alerts, now, cfg)]
    /\ wst' = st /\ walerts' = alerts
    /\ UNCHANGED <<env, db, cfg, view>>

NextExit(s) ==
    /\ pc = "exits"
    /\ s \in scan.todo
    /\ \A o \in scan.todo : universe.rank[s] <= universe.rank[o]

KeepIn(s) ==
    /\ NextExit(s) /\ ~ExitDue(s)
    /\ wst' = [wst EXCEPT ![s] = Updated(s)]
    /\ scan' = [scan EXCEPT !.todo = @ \ {s}]
    /\ UNCHANGED <<env, db, pc, cfg, view, rows, walerts>>

\* Mutant: an exit alert is not counted into the total.
ExitWithAlertUncounted(s) ==
    /\ NextExit(s) /\ ExitDue(s) /\ ShouldAlertExit(wst[s], scan, cfg)
    /\ walerts' = Append(walerts, AlertRow(scan.ts, s, SLOWING, None, cfg))
    /\ wst' = [wst EXCEPT ![s] = [Closed(@) EXCEPT !.lastExit = scan.ts]]
    /\ scan' = [scan EXCEPT !.todo = @ \ {s}, !.exitCount = @ + 1]
    /\ UNCHANGED <<env, db, pc, cfg, view, rows>>

ExitWithAlert(s) ==
    /\ NextExit(s) /\ ExitDue(s) /\ ShouldAlertExit(wst[s], scan, cfg)
    /\ walerts' = Append(walerts, AlertRow(scan.ts, s, SLOWING, None, cfg))
    /\ wst' = [wst EXCEPT ![s] = [Closed(@) EXCEPT !.lastExit = scan.ts]]
    /\ scan' = [scan EXCEPT !.todo = @ \ {s}, !.exitCount = @ + 1, !.totalCount = @ + 1]
    /\ UNCHANGED <<env, db, pc, cfg, view, rows>>

ExitSilently(s) ==
    /\ NextExit(s) /\ ExitDue(s) /\ ~ShouldAlertExit(wst[s], scan, cfg)
    /\ wst' = [wst EXCEPT ![s] = Closed(@)]
    /\ scan' = [scan EXCEPT !.todo = @ \ {s}]
    /\ UNCHANGED <<env, db, pc, cfg, view, rows, walerts>>

ExitsDone ==
    /\ pc = "exits" /\ scan.todo = {}
    /\ pc' = "entries"
    /\ UNCHANGED <<env, db, cfg, view, rows, scan, wst, walerts>>

Enter(s) ==
    /\ pc = "entries" /\ EntryBudgetLeft(scan, cfg)
    /\ s \in Eligible
    /\ \A o \in Eligible : Before(s, o)
    /\ walerts' = Append(walerts, AlertRow(scan.ts, s, UP, view.t0, cfg))
    /\ wst' = [wst EXCEPT ![s] = Opened(@, rows[s], scan.ts, view.t0)]
    /\ scan' = [scan EXCEPT !.fired = @ + 1, !.entryCount = @ + 1, !.totalCount = @ + 1]
    /\ UNCHANGED <<env, db, pc, cfg, view, rows>>

\* Mutant: what was captured outlives the scan.
CloseSessionOnly ==
    /\ pc' = "idle"
    /\ rows' = NoRows /\ scan' = NoScan
    /\ wst' = st' /\ walerts' = alerts'
    /\ UNCHANGED <<cfg, view>>
CloseSession ==
    /\ pc' = "idle"
    /\ cfg' = None /\ view' = None /\ rows' = NoRows /\ scan' = NoScan
    /\ wst' = st' /\ walerts' = alerts'

Commit ==
    /\ pc = "entries"
    /\ ~EntryBudgetLeft(scan, cfg) \/ Eligible = {}
    /\ st' = wst /\ alerts' = walerts
    /\ CloseSession
    /\ UNCHANGED env

\* An exchange or database error, a cancelled task or a crash: the session is
\* rolled back, and the next tick of the service starts another scan.
Abort ==
    /\ pc # "idle"
    /\ UNCHANGED <<env, db>>
    /\ CloseSession

-----------------------------------------------------------------------------
(* The environment, at the awaits of the scan and between scans *)

AtAwait == pc \in {"idle", "snapshot"}

Tick ==
    /\ AtAwait
    /\ \E d \in ClockStep : now' = now + d
    /\ now' \in 0..MaxTime
    /\ t0' \in {t0} \cup {t \in {now' - 1} : t > t0}
    /\ UNCHANGED <<settings, universe, db, pc, cfg, view, rows, scan, wst, walerts>>

UpdateConfig ==
    /\ AtAwait
    /\ settings' \in Settings
    /\ UNCHANGED <<now, t0, universe, db, pc, cfg, view, rows, scan, wst, walerts>>

OneBaseline ==
    \A u, v \in Universe : None \in {u.baseline, v.baseline} \/ u.baseline = v.baseline

\* The newest candle of another baseline may be an old one: it was not polled
\* while it was not in the universe.
NewestOfBaseline(u) ==
    {t0} \cup {t \in 0..(now - 1) : ~OneBaseline /\ u.baseline # universe.baseline}

RefreshUniverse ==
    /\ AtAwait
    /\ universe' \in Universe
    /\ t0' \in NewestOfBaseline(universe')
    /\ UNCHANGED <<now, settings, db, pc, cfg, view, rows, scan, wst, walerts>>

-----------------------------------------------------------------------------

ExitStep == (\E s \in Symbol : KeepIn(s) \/ ExitWithAlert(s) \/ ExitSilently(s)) \/ ExitsDone

Next ==
    \/ StartScan
    \/ pc = "snapshot" /\ \E r \in Snapshots(view.universe) : BeginScan(r)
    \/ ExitStep
    \/ \E s \in Symbol : Enter(s)
    \/ Commit
    \/ Abort
    \/ Tick \/ UpdateConfig \/ RefreshUniverse

\* The ingestion service starts a scan every minute and a started one goes on;
\* a scan may be aborted any number of times, but not every time for ever.
Fairness ==
    /\ WF_vars(StartScan)
    /\ SF_vars(pc = "snapshot" /\ \E r \in Snapshots(view.universe) : BeginScan(r))
    /\ SF_vars(ExitStep)
    /\ SF_vars(\E s \in Symbol : Enter(s))
    /\ SF_vars(Commit)

Spec == Init /\ [][Next]_vars
FairSpec == Spec /\ Fairness

-----------------------------------------------------------------------------
(* What must hold of the two tables *)

\* The types of all variables.
Optional(S) == S \cup {None}
PeakType == [x : Optional(Int), ts : Optional(Int)]
StateType == [state : {"IN", "OUT"}, lastEntry : Optional(Int), lastExit : Optional(Int),
              peak : PeakType, high : PeakType]
AlertType == [ts : Int, symbol : Symbol, type : {UP, SLOWING}, t0 : Optional(Int),
              cfg : Settings]
ScanType == [ts : Int, scope : SUBSET Symbol, todo : SUBSET Symbol, entryCount : Nat,
             exitCount : Nat, totalCount : Nat, fired : Nat, globalOk : BOOLEAN]

TypeOK ==
    /\ now \in Int /\ t0 \in Int
    /\ settings \in Settings /\ universe \in Universe
    /\ st \in [Symbol -> StateType] /\ wst \in [Symbol -> StateType]
    /\ alerts \in Seq(AlertType) /\ walerts \in Seq(AlertType)
    /\ pc \in {"idle", "snapshot", "exits", "entries"}
    /\ pc = "idle" => cfg = None /\ view = None /\ scan = NoScan
    /\ pc # "idle" => cfg \in Settings /\ view \in [t0 : Int, universe : Universe]
    /\ pc \in {"idle", "snapshot"} => rows = NoRows
    /\ pc \in {"exits", "entries"} =>
          rows \in Snapshots(view.universe) /\ scan \in ScanType

\* The alerts of a window, and that they respect the budgets of c if they
\* were all created under c.
Window(a, from, length) ==
    {i \in DOMAIN a : from <= a[i].ts /\ a[i].ts <= from + length}

WithinBudget(a, c, from) ==
    LET W == Window(a, from, c.lookback)
    IN  (\A i \in W : a[i].cfg = c) =>
            /\ Cardinality(W \cap OfType(a, UP)) <= c.maxEntry
            /\ Cardinality(W \cap OfType(a, SLOWING)) <= c.maxExit
            /\ Cardinality(W) <= c.maxTotal

\* Budgets are enforced at creation (SPEC 9): while the settings are left
\* alone, no window of the lookback length, wherever it starts, holds more
\* alerts than the budgets, whatever the scans, failures and clock did.
RollingBudgets ==
    \A c \in Settings, k \in DOMAIN alerts : WithinBudget(alerts, c, alerts[k].ts)

\* The counters a scan carries through both its loops are at every step what a
\* query of its own session would count in the lookback before its start.
CountsExact ==
    pc \in {"exits", "entries"} =>
        LET since == scan.ts - cfg.lookback
        IN  /\ scan.entryCount = AlertCounts(walerts, UP, since)
            /\ scan.exitCount = AlertCounts(walerts, SLOWING, since)
            /\ scan.totalCount = TotalCount(walerts, since)

\* Two alerts of one kind, the later one created under its cfg, are far enough
\* apart.
FarEnough(earlier, later) ==
    LET gap == later.ts - earlier.ts
        same == earlier.symbol = later.symbol
    IN  /\ later.type = UP => gap >= later.cfg.globalCooldown
        /\ later.type = UP /\ same => gap >= later.cfg.entryCooldown
        /\ later.type = SLOWING /\ same => gap >= later.cfg.exitCooldown

Spaced(a) ==
    \A i, j \in DOMAIN a : i < j /\ a[i].type = a[j].type => FarEnough(a[i], a[j])

\* Cooldowns: two entry alerts are at least the global cooldown apart, two of
\* one symbol at least the symbol's, and two exit alerts of one symbol at least
\* the exit cooldown, by the settings under which the later one was created.
CooldownsKept == Spaced(alerts)

\* i is the last of the alerts of s before j.
LastBefore(a, s, i, j) ==
    /\ i \in OfSymbol(a, s) /\ i < j
    /\ \A k \in OfSymbol(a, s) : k < j => k <= i

Paired(a) ==
    \A j \in OfType(a, SLOWING) :
        \E i \in OfType(a, UP) :
            /\ LastBefore(a, a[j].symbol, i, j)
            /\ a[j].ts - a[i].ts <= a[j].cfg.lookback

\* A SLOWING alert closes one UP alert of the same symbol, the last thing said
\* of it, no older than the lookback (SPEC 8.4: only if UP in the last 24h).
SlowingClosesUp == Paired(alerts)

LastIsUp(row, a, s) ==
    \E i \in OfType(a, UP) :
        LastBefore(a, s, i, Len(a) + 1) /\ a[i].ts = row.lastEntry

\* The state rows and the alerts, written by one commit, tell one story: a
\* symbol is IN only while the last thing said of it is UP, and its row
\* remembers when that was.
InMeansUpWasLast ==
    \A s \in Symbol : st[s].state = "IN" => LastIsUp(st[s], alerts, s)

\* The peaks an exit by stall is measured from belong to the current entry:
\* gone when the symbol is OUT and, as long as the baseline is one symbol, set
\* no earlier than the candle of the entry and never later than the newest one
\* (with another baseline the candle time may go back, and peaks with it).
PeakBelongsToEntry ==
    \A s \in Symbol :
        IF st[s].state = "OUT" THEN st[s].peak = NoPeak /\ st[s].high = NoPeak
        ELSE OneBaseline =>
                 /\ \A i \in OfSymbol(alerts, s) :
                        alerts[i].type = UP => st[s].peak.ts >= alerts[i].t0
                 /\ st[s].peak.ts <= t0 /\ st[s].high.ts <= t0

\* Hysteresis (PRD 6): a scan never closes a symbol and alerts a new entry of
\* it, so a symbol that is IN when a scan starts has no new UP alert after it.
NoFlapping ==
    [][\A i \in OfType(alerts', UP) \ DOMAIN alerts :
           st[alerts'[i].symbol].state = "OUT"]_vars

\* "With a good snapshot but a symbol missing, don't get stuck IN forever":
\* if good snapshots without s are committed again and again, s is not IN
\* for ever.
GoodScanWithout(s) == Commit /\ rows # NoRows /\ s \notin DOMAIN rows
NotStuckIn ==
    \A s \in Symbol :
        []<><<GoodScanWithout(s)>>_vars => []<>(st[s].state = "OUT")

\* What the code keeps of that: a good scan closes every missing symbol that
\* is in the universe as it finds it.
MissingIsClosed ==
    [][\A s \in scan.scope : GoodScanWithout(s) => st'[s].state = "OUT"]_vars

\* A bad snapshot proves nothing: a scan whose snapshot failed changes no
\* row and creates no alert.
FailedSnapshotChangesNothing ==
    [][Commit /\ rows = NoRows => UNCHANGED db]_vars
=============================================================================
