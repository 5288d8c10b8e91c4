------------------------------- MODULE Signals -------------------------------
(***************************************************************************)
(* The signal engine (app/signals.py, app/features.py) between the candle  *)
(* store it reads and the exchange client it checks order books with.      *)
(*                                                                         *)
(* A snapshot awaits twice: for the universe, and for the order books of   *)
(* the best rows, which are fetched at the same time.  Between the two it  *)
(* computes everything else in one go, all of it at the time of the        *)
(* baseline's newest candle.  At its awaits minutes pass, candles arrive   *)
(* or are missed (app/jobs/candle_ingestion.py), and the universe changes. *)
(*                                                                         *)
(* A candle is named by its minute.  Its prices are left out: the features *)
(* of a symbol that has the candles they need are any of Feature, or none  *)
(* (a price or the volume is zero).                                        *)
(***************************************************************************)
EXTENDS Scoring

CONSTANTS
    Symbol, None,
    Universe,       \* universes a refresh may persist
    Feature,
    Offsets, DvWindow, HighWindow, BucketLength, SlowBuckets,  \* features.py
    BufferSize, PollCount, BackfillCount,
    DvzMin, TopN, EntryPercent,
    Slots, MaxTries,
    Start,          \* the minute of the backfill
    MaxMinute,      \* bound: the clock stops here
    MaxUpsets       \* bound: how many fetches fail and how often the universe is refreshed

ASSUME FeatureAssumption ==
    Feature \subseteq [rel : Int, accel : Int, dvz : Int, breakout : 0..1,
                       trendOk : BOOLEAN, extensionOk : BOOLEAN, liquid : BOOLEAN]
ASSUME UniverseAssumption ==
    \A u \in Universe : u.order \in Seq(Symbol) /\ u.baseline \in ToSet(u.order) \cup {None}
ASSUME GateAssumption == {DvzMin, EntryPercent} \subseteq Int
ASSUME WindowAssumption ==
    /\ Offsets \subseteq Nat /\ 0 \in Offsets /\ IsFiniteSet(Offsets)
    /\ {DvWindow, HighWindow, BucketLength, SlowBuckets} \subseteq Nat \ {0}
ASSUME StoreAssumption ==
    /\ {BufferSize, PollCount, BackfillCount, Start} \subseteq Nat \ {0}
    /\ {TopN, MaxMinute, MaxUpsets} \subseteq Nat /\ None \notin Nat \cup Universe \cup BOOLEAN
ASSUME ClientAssumption == {Slots, MaxTries} \subseteq Nat \ {0}

VARIABLES
    minute,
    universe,
    held,       \* the minutes whose candles the store holds, per symbol
    pc,         \* "idle", "loaded", "books" or "shown"
    snap,       \* the snapshot under construction
    books,      \* the order books that were answered
    call, free, waiters,    \* the exchange client
    polled,     \* history: the minutes in which a symbol's candles were fetched
    upsets      \* how many fetches failed and refreshes were made

Client == INSTANCE ExchangeClient WITH Caller <- Symbol

store == <<minute, universe, held, polled, upsets>>
client == <<call, free, waiters>>
vars == <<store, pc, snap, books, client>>

Members(u) == ToSet(u.order)
Backfill == Start - BackfillCount + 1 .. Start - 1

-----------------------------------------------------------------------------
(* Features *)

\* The buckets of which every candle is there.
ClosedBuckets(S) ==
    {b \in {t \div BucketLength : t \in S} :
        b * BucketLength .. b * BucketLength + BucketLength - 1 \subseteq S}

\* Mutant: the window is one candle short.
HasCandlesShort(S, base, t0) ==
    /\ \A k \in Offsets : t0 - k \in S \cap base
    /\ t0 - DvWindow + 2 .. t0 \subseteq S
    /\ t0 - HighWindow .. t0 - 1 \subseteq S
    /\ Cardinality(ClosedBuckets({t \in S : t <= t0})) >= SlowBuckets
\* Mutant: the window is one candle long.
HasCandlesLong(S, base, t0) ==
    /\ \A k \in Offsets : t0 - k \in S \cap base
    /\ t0 - DvWindow .. t0 \subseteq S
    /\ t0 - HighWindow .. t0 - 1 \subseteq S
    /\ Cardinality(ClosedBuckets({t \in S : t <= t0})) >= SlowBuckets
\* Whether a symbol that holds S has the candles its features at t0 need.
HasCandles(S, base, t0) ==
    /\ \A k \in Offsets : t0 - k \in S \cap base
    /\ t0 - DvWindow + 1 .. t0 \subseteq S
    /\ t0 - HighWindow .. t0 - 1 \subseteq S
    /\ Cardinality(ClosedBuckets({t \in S : t <= t0})) >= SlowBuckets

-----------------------------------------------------------------------------
(* Rows *)

HardGates(f) == f.trendOk /\ f.dvz >= DvzMin /\ f.extensionOk /\ f.liquid

\* The rows for features fs, without their order books.
Rows(fs) ==
    LET n == Cardinality(DOMAIN fs)
        rel == PercentileRanks([s \in DOMAIN fs |-> fs[s].rel])
        accel == PercentileRanks([s \in DOMAIN fs |-> fs[s].accel])
    IN  [s \in DOMAIN fs |->
            LET score == ComputeScore(rel[s], accel[s], fs[s].dvz, fs[s].breakout, n)
            IN  [score |-> score, rankRel |-> rel[s], rankAccel |-> accel[s],
                 meets |-> score >= Threshold(EntryPercent, n),
                 hard |-> HardGates(fs[s]), spreadGate |-> None]]

\* Mutant: lowest score first.
BestLast(rows, order) ==
    LET at == [s \in DOMAIN rows |-> CHOOSE i \in DOMAIN order : order[i] = s]
    IN  Sorted(DOMAIN rows, LAMBDA s, o :
            \/ rows[s].score < rows[o].score
            \/ rows[s].score = rows[o].score /\ at[s] < at[o])
\* Highest score first; the sort is stable, so equal scores stay in the order
\* of the universe.
BestFirst(rows, order) ==
    LET at == [s \in DOMAIN rows |-> CHOOSE i \in DOMAIN order : order[i] = s]
    IN  Sorted(DOMAIN rows, LAMBDA s, o :
            \/ rows[s].score > rows[o].score
            \/ rows[s].score = rows[o].score /\ at[s] < at[o])

\* Mutant: the first TopN rows, of which the hard-gated ones are checked.
BookCandidatesOfTop(rows, ranking) ==
    SelectSeq(SubSeq(ranking, 1, Min({TopN, Len(ranking)})), LAMBDA s : rows[s].hard)
BookCandidates(rows, ranking) ==
    LET hard == {i \in DOMAIN ranking : rows[ranking[i]].hard}
        nth(i) == Cardinality({j \in hard : j <= i})
    IN  [k \in 1..Min({TopN, Cardinality(hard)}) |-> ranking[CHOOSE i \in hard : nth(i) = k]]

-----------------------------------------------------------------------------
(* A snapshot *)

\* at, starved and features are kept for the properties below.
NoSnap == [universe |-> None, t0 |-> None, failed |-> FALSE, rows |-> <<>>, ranking |-> <<>>,
           at |-> None, starved |-> {}, features |-> <<>>]
NoBooks == [s \in {} |-> None]

\* A process that has just backfilled what its startup could.
Init ==
    /\ minute = Start
    /\ universe \in Universe
    /\ \E backfilled \in {Members(universe)} \cup {Members(universe) \ {s} : s \in Symbol} :
           /\ held = [s \in Symbol |-> IF s \in backfilled THEN Backfill ELSE {}]
           /\ polled = [s \in Symbol |-> IF s \in backfilled THEN {Start} ELSE {}]
    /\ upsets = Cardinality({s \in Members(universe) : held[s] = {}}) /\ upsets <= MaxUpsets
    /\ pc = "idle" /\ snap = NoSnap /\ books = NoBooks
    /\ Client!Init

\* _load_universe() has returned.
LoadUniverse ==
    /\ pc = "idle" /\ pc' = "loaded"
    /\ snap' = [NoSnap EXCEPT !.universe = universe]
    /\ UNCHANGED <<store, books, client>>

\* Mutant: the baseline of the universe as it is now.
BaseNow == universe.baseline
Base == snap.universe.baseline
Newest(s) == IF held[s] = {} THEN None ELSE Max(held[s])
Candidates == Members(snap.universe) \ {Base}

\* "Baseline candles not available yet", "not usable yet".
BaselineUnusable ==
    Base = None \/ held[Base] = {} \/ ~HasCandles(held[Base], held[Base], Newest(Base))

\* The symbols that have the candles.
Ready == {s \in Candidates : HasCandles(held[s], held[Base], Newest(Base))}

\* The snapshot has an error: there is no usable baseline, or no symbol has
\* features (for want of candles or because of what they say).
Fail ==
    /\ pc = "loaded" /\ pc' = "shown"
    /\ snap' = [snap EXCEPT
           !.failed = TRUE, !.at = minute,
           !.t0 = IF Base = None THEN None ELSE Newest(Base),
           !.starved = IF BaselineUnusable THEN {Base} \ {None} ELSE Candidates \ Ready]
    /\ UNCHANGED <<store, books, client>>

\* Everything between the two awaits: the features of all symbols as of one
\* t0, ranks, scores, gates, and the books to be fetched.
Compute ==
    /\ pc = "loaded" /\ ~BaselineUnusable
    /\ \E S \in SUBSET Ready \ {{}} : \E fs \in [S -> Feature] :
           LET rows == Rows(fs)
               ranking == BestFirst(rows, snap.universe.order)
           IN  /\ snap' = [snap EXCEPT
                      !.t0 = Newest(Base), !.rows = rows, !.ranking = ranking,
                      !.at = minute, !.starved = Candidates \ Ready, !.features = fs]
               /\ Client!Begin(BookCandidates(rows, ranking))
    /\ pc' = "books"
    /\ UNCHANGED <<store, books>>

\* One step of a call of get_book(), by the exchange or by the client.
FetchBook(s) ==
    /\ pc = "books"
    /\ \/ Client!Send(s) /\ UNCHANGED books
       \/ Client!TryAgain(s) /\ UNCHANGED books
       \/ /\ Client!Succeed(s)
          /\ \E spread \in {"narrow", "wide", None} : books' = (s :> spread) @@ books
       \/ (Client!Refuse(s) \/ Client!Miss(s)) /\ UNCHANGED books
    /\ UNCHANGED <<store, pc, snap>>

SpreadOk(s) == s \in DOMAIN books /\ books[s] = "narrow"

\* All books have been answered or given up.
Finish ==
    /\ pc = "books" /\ pc' = "shown"
    /\ Client!Collect
    /\ LET checked == ToSet(BookCandidates(snap.rows, snap.ranking))
       IN  snap' = [snap EXCEPT !.rows = [s \in DOMAIN @ |->
                       IF s \in checked THEN [@[s] EXCEPT !.spreadGate = SpreadOk(s)] ELSE @[s]]]
    /\ UNCHANGED <<store, books>>

\* The scan goes on with the snapshot.
HandOver ==
    /\ pc = "shown" /\ pc' = "idle"
    /\ snap' = NoSnap /\ books' = NoBooks
    /\ UNCHANGED <<store, client>>

-----------------------------------------------------------------------------
(* What moves at the awaits *)

\* Mutant: a full buffer drops what is new.
KeepOldest(S) == {t \in S : Cardinality({u \in S : u < t}) < BufferSize}
Keep(S) == {t \in S : Cardinality({u \in S : u > t}) < BufferSize}

\* A minute begins and its poll brings the closed candles of the symbols in ok.
Minute(ok) ==
    /\ pc # "shown" /\ minute < MaxMinute
    /\ ok \subseteq Members(universe)
    /\ minute' = minute + 1
    /\ held' = [s \in Symbol |-> IF s \in ok
                                 THEN Keep(held[s] \cup minute' - PollCount + 1 .. minute' - 1)
                                 ELSE held[s]]
    /\ polled' = [s \in Symbol |-> IF s \in ok THEN polled[s] \cup {minute'} ELSE polled[s]]
    /\ upsets' = upsets + Cardinality(Members(universe) \ ok)
    /\ upsets' <= MaxUpsets
    /\ UNCHANGED <<universe, pc, snap, books, client>>

RefreshUniverse ==
    /\ pc # "shown"
    /\ universe' \in Universe
    /\ upsets' = upsets + 1 /\ upsets' <= MaxUpsets
    /\ UNCHANGED <<minute, held, polled, pc, snap, books, client>>

Next ==
    \/ LoadUniverse \/ Fail \/ Compute
    \/ \E s \in Symbol : FetchBook(s)
    \/ Finish \/ HandOver
    \/ \E ok \in SUBSET Symbol : Minute(ok)
    \/ RefreshUniverse

Spec == Init /\ [][Next]_vars
\* A request is answered or times out, a wait ends, and the loop runs on.
FairSpec == Spec /\ WF_vars((\E s \in Symbol : FetchBook(s)) \/ Finish)

-----------------------------------------------------------------------------
(* What must hold *)

\* What the fetches until minute m brought of s.
Fetched(s, m) ==
    UNION {IF p = Start THEN Backfill ELSE p - PollCount + 1 .. p - 1 : p \in {q \in polled[s] : q <= m}}

\* So many candles in a row, up to t0, are enough for features at t0, however
\* t0 lies in its bucket.
History ==
    Max({DvWindow, HighWindow + 1, Max(Offsets) + 1, BucketLength * (SlowBuckets + 1) - 1})

\* One missed candle silences a symbol for as long as a window reaches back: a
\* row is computed from an unbroken series of fetched candles up to the
\* snapshot's t0, the same for every row.
RowsNeedFetches ==
    \A s \in DOMAIN snap.rows : snap.t0 - DvWindow + 1 .. snap.t0 \subseteq Fetched(s, snap.at)

\* The other way round, nothing but a missed candle silences a symbol or, with
\* the baseline, everything: whoever lacks candles missed one of the last
\* History (the baseline, if its own are not all there), unless the baseline
\* is so late that the buffer has already dropped what t0 needs.
OnlyMissesSilence ==
    \A s \in snap.starved :
        LET recent == IF s = Base THEN snap.at - History .. snap.at - 1
                      ELSE snap.t0 - History + 1 .. snap.t0
        IN  \/ ~(recent \subseteq Fetched(s, snap.at))
            \/ s # Base /\ snap.at - 1 - snap.t0 > BufferSize - History

\* A snapshot is of the last closed minute; it is older only if the baseline
\* was not fetched in any minute since (a miss, or it was not in the universe).
OldOnlyIfMissed ==
    pc = "shown" /\ ~snap.failed =>
        \A m \in snap.t0 + 2 .. snap.at : m \notin polled[Base]

\* The percentile of a symbol is the number of symbols below it and half of
\* those beside it, whatever the order the sort leaves equal values in.
Midrank(v, s) ==
    IF DOMAIN v = {s} THEN 2
    ELSE Cardinality({o \in DOMAIN v : v[o] < v[s]})
         + Cardinality({o \in DOMAIN v : v[o] <= v[s]}) - 1
RanksAreMidranks ==
    LET fs == snap.features
    IN  pc = "shown" => \A s \in DOMAIN fs :
            /\ snap.rows[s].rankRel = Midrank([o \in DOMAIN fs |-> fs[o].rel], s)
            /\ snap.rows[s].rankAccel = Midrank([o \in DOMAIN fs |-> fs[o].accel], s)

\* Who is at least as good in everything is not behind, and passes the entry
\* threshold if the other does.
AsGood(f, g) ==
    f.rel >= g.rel /\ f.accel >= g.accel /\ f.dvz >= g.dvz /\ f.breakout >= g.breakout
BetterNotBehind ==
    pc = "shown" => \A i, j \in DOMAIN snap.ranking :
        LET s == snap.ranking[i]  o == snap.ranking[j]
        IN  AsGood(snap.features[s], snap.features[o]) /\ snap.features[s] # snap.features[o] =>
                /\ snap.rows[o].meets => snap.rows[s].meets
                /\ snap.rows[s].score = snap.rows[o].score \/ i < j

\* Books are spent on the best: a row that passes the hard gates and was not
\* checked has TopN checked ones before it.  And a checked row passes only with
\* a book of its own, fetched for this snapshot and narrow.
BestAreChecked ==
    pc = "shown" =>
        \A j \in DOMAIN snap.ranking :
            LET row(i) == snap.rows[snap.ranking[i]]
            IN  /\ row(j).hard /\ row(j).spreadGate = None =>
                       Cardinality({i \in 1..(j - 1) : row(i).spreadGate # None}) = TopN
                /\ row(j).spreadGate = TRUE =>
                       snap.ranking[j] \in DOMAIN books /\ books[snap.ranking[j]] = "narrow"

CallsEndInOrder == Client!CallsEndInOrder

\* Every snapshot is completed: calls end, and no slot is lost that another
\* one waits for.
SnapshotsComplete == pc = "books" ~> pc = "shown"

\* The promise the state machine builds on.
Promise == INSTANCE SnapshotPromise WITH
    newest <- [s \in Symbol |-> Newest(s)],
    of <- snap.universe,
    t0 <- IF snap.failed THEN None ELSE snap.t0,
    complete <- pc = "shown",
    rowsOf <- IF pc = "shown" THEN DOMAIN snap.rows ELSE {}
KeepsPromise == Promise!Spec
=============================================================================
