---------------------------- MODULE SignalsProofs ----------------------------
(***************************************************************************)
(* The snapshots of the signal engine, for any symbols, universes,         *)
(* windows, buffer and poll sizes, thresholds, slots and tries, and        *)
(* whatever candles are missed: what a row is computed from and how old a  *)
(* snapshot is, how its rows are ranked and scored, which of them are      *)
(* checked against an order book and how those calls end, and what the     *)
(* state machine may build on.                                             *)
(*                                                                         *)
(* Between the two awaits of a snapshot the store moves on. So the first   *)
(* invariants say what the store holds of what was fetched, whenever it is *)
(* read, and what a snapshot has kept of it; the next that what is ranked  *)
(* after the second await is what was ranked before it, whatever the calls *)
(* did between the two; and the last that the candles a window needs are   *)
(* not pushed out by newer ones.                                           *)
(*                                                                         *)
(* The ranks are a recursive function over the places of a sorted          *)
(* sequence. That the function exists is shown by naming its values, and   *)
(* what it computes by the least place at which it would go wrong.         *)
(***************************************************************************)
EXTENDS Signals, FiniteSetTheorems, WellFoundedInduction, TLAPS

\* The newest candle of S, if it has one, is not before the first minute.
HasNewest(S) == \E x \in S : x \in Nat /\ \A y \in S : y <= x

StoreInv ==
    /\ minute \in Nat /\ minute >= Start /\ universe \in Universe
    /\ DOMAIN held = Symbol /\ DOMAIN polled = Symbol
    /\ \A s \in Symbol :
           /\ held[s] \subseteq Int /\ (held[s] # {} => HasNewest(held[s]))
           /\ \A p \in polled[s] : p \in Nat /\ p <= minute
           /\ held[s] \subseteq Fetched(s, minute)

\* A poll of two candles or more brings the one of the last minute.
NewestIsPolled ==
    PollCount >= 2 =>
        \A s \in Symbol : \A m \in polled[s] :
            held[s] # {} => \E c \in held[s] : c >= m - 1

SnapFields ==
    snap = [universe |-> snap.universe, t0 |-> snap.t0, failed |-> snap.failed,
            rows |-> snap.rows, ranking |-> snap.ranking, at |-> snap.at,
            starved |-> snap.starved, features |-> snap.features]

\* A snapshot that has been computed.
Computed ==
    /\ snap.t0 \in Nat /\ Base \in Symbol
    /\ DOMAIN snap.rows \in SUBSET (Members(snap.universe) \ {Base}) \ {{}}
    /\ \A s \in DOMAIN snap.rows :
           s \in Symbol /\ snap.t0 - DvWindow + 1 .. snap.t0 \subseteq Fetched(s, snap.at)
    /\ PollCount >= 2 => \A m \in snap.t0 + 2 .. snap.at : m \notin polled[Base]

SnapInv ==
    /\ SnapFields /\ pc \in {"idle", "loaded", "books", "shown"}
    /\ pc = "idle" => snap.universe = None
    /\ pc # "idle" => snap.universe \in Universe
    /\ pc \in {"idle", "loaded"} => ~snap.failed /\ snap.t0 = None /\ snap.rows = <<>>
    /\ pc \in {"books", "shown"} =>
           /\ snap.at \in Nat /\ snap.at <= minute
           /\ ~snap.failed => Computed
           /\ snap.failed => pc = "shown" /\ snap.rows = <<>>

SignalInv == StoreInv /\ NewestIsPolled /\ SnapInv

-----------------------------------------------------------------------------
(* The store *)

LEMMA NewestOf ==
    ASSUME NEW S, S \subseteq Int, HasNewest(S)
    PROVE  \E m \in Nat : m = Max(S) /\ m \in S /\ \A y \in S : y <= m
<1>. DEFINE P(x) == x \in S /\ \A y \in S : x >= y
<1>1. PICK x \in S : x \in Nat /\ \A y \in S : y <= x
  BY DEF HasNewest
<1>2. P(x)
  BY <1>1
<1>. HIDE DEF P
<1>3. P(CHOOSE z : P(z))
  BY <1>2, Zenon
<1>4. Max(S) = CHOOSE z : P(z)
  BY DEF Max, P
<1>5. PICK m : m = Max(S)
  OBVIOUS
<1>6. m \in S /\ \A y \in S : m >= y
  BY <1>3, <1>4, <1>5 DEF P
<1>7. m \in Nat /\ \A y \in S : y <= m
  BY <1>1, <1>6
<1>. QED
  BY <1>5, <1>6, <1>7

\* Whatever the buffer drops, it keeps the newest.
LEMMA KeepNewestOne ==
    ASSUME NEW S, S \subseteq Int, NEW m \in Nat, m \in S, \A y \in S : y <= m
    PROVE  m \in Keep(S) /\ Keep(S) \subseteq S /\ Max(S) = m /\ Max(Keep(S)) = m
           /\ HasNewest(Keep(S))
<1>1. {u \in S : u > m} = {}
  <2>1. \A u \in S : ~(u > m)
    OBVIOUS
  <2>. QED
    BY <2>1
<1>2. Cardinality({u \in S : u > m}) < BufferSize
  BY <1>1, FS_EmptySet, StoreAssumption
<1>3. m \in Keep(S) /\ Keep(S) \subseteq S
  BY <1>2 DEF Keep
<1>4. ASSUME NEW T \in SUBSET S, m \in T
      PROVE  Max(T) = m /\ HasNewest(T)
  <2>1. HasNewest(T)
    BY <1>4 DEF HasNewest
  <2>2. PICK k \in Nat : k = Max(T) /\ k \in T /\ \A y \in T : y <= k
    BY <2>1, NewestOf
  <2>3. k = m
    BY <1>4, <2>2
  <2>. QED
    BY <2>1, <2>2, <2>3
<1>. QED
  BY <1>3, <1>4

\* The candles a poll in minute n brings.
Window(n) == n - PollCount + 1 .. n - 1

LEMMA PollKeeps ==
    ASSUME NEW S, S \subseteq Int, S # {} => HasNewest(S), NEW n \in Nat \ {0},
           NEW T, T = Keep(S \cup Window(n))
    PROVE  /\ T \subseteq Int /\ T \subseteq S \cup Window(n)
           /\ T # {} => HasNewest(T)
           /\ PollCount >= 2 => \E c \in T : c >= n - 1
           /\ S # {} => T # {} /\ Max(T) >= Max(S)
<1>1. Window(n) \subseteq Int /\ \A y \in Window(n) : y <= n - 1
  BY StoreAssumption DEF Window
<1>2. Window(n) # {} => n - 1 \in Window(n)
  BY StoreAssumption DEF Window
<1>3. PollCount >= 2 => n - 1 \in Window(n)
  BY StoreAssumption DEF Window
<1>4. CASE S = {} /\ Window(n) = {}
  <2>1. T = {}
    BY <1>4 DEF Keep
  <2>. QED
    BY <1>3, <1>4, <2>1
<1>5. CASE S = {} /\ Window(n) # {}
  <2>1. n - 1 \in Nat /\ n - 1 \in S \cup Window(n) /\ \A y \in S \cup Window(n) : y <= n - 1
    BY <1>1, <1>2, <1>5
  <2>2. n - 1 \in T /\ HasNewest(T) /\ T \subseteq S \cup Window(n)
    BY <1>1, <1>5, <2>1, KeepNewestOne
  <2>. QED
    BY <1>1, <1>5, <2>1, <2>2
<1>6. CASE S # {}
  <2>1. PICK k \in Nat : k = Max(S) /\ k \in S /\ \A y \in S : y <= k
    BY <1>6, NewestOf
  <2>2. PICK m \in Nat : /\ m \in S \cup Window(n) /\ \A y \in S \cup Window(n) : y <= m
                         /\ m >= k /\ (Window(n) # {} => m >= n - 1)
    <3>1. CASE Window(n) = {} \/ n - 1 <= k
      <4>1. \A y \in Window(n) : y <= k
        BY <1>1, <3>1
      <4>2. Window(n) # {} => k >= n - 1
        BY <3>1
      <4>. QED
        BY <2>1, <4>1, <4>2
    <3>2. CASE Window(n) # {} /\ ~(n - 1 <= k)
      <4>1. n - 1 \in Nat /\ n - 1 \in Window(n) /\ n - 1 >= k /\ \A y \in S : y <= n - 1
        BY <1>2, <2>1, <3>2
      <4>. QED
        BY <1>1, <4>1
    <3>. QED
      BY <3>1, <3>2
  <2>3. S \cup Window(n) \subseteq Int
    BY <1>1
  <2>4. m \in T /\ HasNewest(T) /\ T \subseteq S \cup Window(n) /\ Max(T) = m
    BY <2>2, <2>3, KeepNewestOne
  <2>5. PollCount >= 2 => \E c \in T : c >= n - 1
    BY <1>3, <2>2, <2>4
  <2>. QED
    BY <1>6, <2>1, <2>2, <2>3, <2>4, <2>5
<1>. QED
  BY <1>4, <1>5, <1>6

LEMMA StoreInit == Init => StoreInv /\ NewestIsPolled
<1>. SUFFICES ASSUME Init PROVE StoreInv /\ NewestIsPolled
  OBVIOUS
<1>1. PICK backfilled :
          /\ held = [s \in Symbol |-> IF s \in backfilled THEN Backfill ELSE {}]
          /\ polled = [s \in Symbol |-> IF s \in backfilled THEN {Start} ELSE {}]
  BY DEF Init
<1>2. minute = Start /\ Start \in Nat \ {0} /\ BackfillCount \in Nat \ {0} /\ universe \in Universe
  BY StoreAssumption DEF Init
<1>3. Backfill \subseteq Int /\ \A c \in Backfill : c <= Start - 1
  BY <1>2 DEF Backfill
<1>4. Backfill # {} => Start - 1 \in Backfill /\ HasNewest(Backfill)
  <2>. SUFFICES ASSUME Backfill # {} PROVE Start - 1 \in Backfill /\ HasNewest(Backfill)
    OBVIOUS
  <2>1. Start - 1 \in Backfill /\ Start - 1 \in Nat
    BY <1>2 DEF Backfill
  <2>. QED
    BY <1>3, <2>1 DEF HasNewest
<1>5. ASSUME NEW s \in Symbol PROVE held[s] \subseteq Fetched(s, minute)
  <2>1. CASE s \in backfilled
    <3>1. {q \in polled[s] : q <= minute} = {Start} /\ held[s] = Backfill
      BY <1>1, <1>2, <2>1
    <3>. QED
      BY <3>1 DEF Fetched
  <2>2. CASE s \notin backfilled
    BY <1>1, <2>2
  <2>. QED
    BY <2>1, <2>2
<1>6. StoreInv
  BY <1>1, <1>2, <1>3, <1>4, <1>5 DEF StoreInv
<1>7. NewestIsPolled
  BY <1>1, <1>2, <1>4 DEF NewestIsPolled
<1>. QED
  BY <1>6, <1>7

\* What a minute does to the store, and what it leaves of what was fetched.
LEMMA MinuteStore ==
    ASSUME StoreInv, NewestIsPolled, NEW ok \in SUBSET Symbol, Minute(ok)
    PROVE  /\ StoreInv' /\ NewestIsPolled'
           /\ \A s \in Symbol : \A m \in Nat : m <= minute =>
                  /\ {q \in polled'[s] : q <= m} = {q \in polled[s] : q <= m}
                  /\ m \in polled'[s] <=> m \in polled[s]
           /\ \A s \in Symbol : held[s] # {} => held'[s] # {} /\ Max(held'[s]) >= Max(held[s])
<1>1. /\ universe' = universe
      /\ held' = [s \in Symbol |-> IF s \in ok THEN Keep(held[s] \cup Window(minute')) ELSE held[s]]
      /\ polled' = [s \in Symbol |-> IF s \in ok THEN polled[s] \cup {minute'} ELSE polled[s]]
  BY DEF Minute, Window
<1>2. PICK n \in Nat \ {0} : n = minute' /\ minute = n - 1 /\ n > Start
  BY StoreAssumption DEF Minute, StoreInv
<1>3. universe \in Universe /\ minute' \in Nat /\ minute' >= Start
  BY <1>2, StoreAssumption DEF StoreInv
<1>4. ASSUME NEW s \in Symbol
      PROVE  /\ held'[s] \subseteq Int /\ (held'[s] # {} => HasNewest(held'[s]))
             /\ \A p \in polled'[s] : p \in Nat /\ p <= n
             /\ held'[s] \subseteq Fetched(s, n)'
             /\ PollCount >= 2 => \A m \in polled'[s] :
                    held'[s] # {} => \E c \in held'[s] : c >= m - 1
             /\ held[s] # {} => held'[s] # {} /\ Max(held'[s]) >= Max(held[s])
  <2>1. /\ held[s] \subseteq Int /\ (held[s] # {} => HasNewest(held[s]))
        /\ \A p \in polled[s] : p \in Nat /\ p <= n - 1
        /\ held[s] \subseteq Fetched(s, n - 1)
        /\ PollCount >= 2 => \A m \in polled[s] :
               held[s] # {} => \E c \in held[s] : c >= m - 1
    BY <1>2 DEF StoreInv, NewestIsPolled
  <2>2. polled'[s] = polled[s] \cup (IF s \in ok THEN {n} ELSE {})
    BY <1>1, <1>2
  <2>3. \A p \in polled'[s] : p \in Nat /\ p <= n
    BY <1>2, <2>1, <2>2
  <2>4. Fetched(s, n - 1) \subseteq Fetched(s, n)'
    <3>1. {q \in polled[s] : q <= n - 1} \subseteq {q \in polled'[s] : q <= n}
      BY <1>2, <2>1, <2>2
    <3>. QED
      BY <3>1 DEF Fetched
  <2>5. CASE s \notin ok
    <3>1. held'[s] = held[s] /\ polled'[s] = polled[s]
      BY <1>1, <2>5
    <3>2. held[s] # {} => Max(held[s]) \in Nat
      BY <2>1, NewestOf
    <3>3. held[s] # {} => Max(held'[s]) >= Max(held[s])
      BY <3>1, <3>2
    <3>. QED
      BY <2>1, <2>3, <2>4, <3>1, <3>3
  <2>6. CASE s \in ok
    <3>1. held'[s] = Keep(held[s] \cup Window(n)) /\ n \in polled'[s]
      BY <1>1, <1>2, <2>2, <2>6
    <3>2. /\ held'[s] \subseteq Int /\ held'[s] \subseteq held[s] \cup Window(n)
          /\ held'[s] # {} => HasNewest(held'[s])
          /\ PollCount >= 2 => \E c \in held'[s] : c >= n - 1
          /\ held[s] # {} => held'[s] # {} /\ Max(held'[s]) >= Max(held[s])
      BY <2>1, <3>1, PollKeeps
    <3>3. Window(n) \subseteq Fetched(s, n)'
      <4>1. n \in {q \in polled'[s] : q <= n} /\ n # Start
        BY <1>2, <3>1, StoreAssumption
      <4>2. Window(n) \in {IF p = Start THEN Backfill ELSE p - PollCount + 1 .. p - 1 :
                               p \in {q \in polled'[s] : q <= n}}
        BY <4>1 DEF Window
      <4>. QED
        BY <4>2 DEF Fetched
    <3>4. PollCount >= 2 => \A m \in polled'[s] : \E c \in held'[s] : c >= m - 1
      <4>. SUFFICES ASSUME PollCount >= 2, NEW m \in polled'[s]
                    PROVE  \E c \in held'[s] : c >= m - 1
        OBVIOUS
      <4>1. PICK c \in held'[s] : c >= n - 1
        BY <3>2
      <4>2. m \in Nat /\ m <= n /\ c \in Int
        BY <2>3, <3>2
      <4>. QED
        BY <4>1, <4>2
    <3>. QED
      BY <2>1, <2>3, <2>4, <3>2, <3>3, <3>4
  <2>. QED
    BY <2>5, <2>6
<1>5. ASSUME NEW s \in Symbol, NEW m \in Nat, m <= minute
      PROVE  /\ {q \in polled'[s] : q <= m} = {q \in polled[s] : q <= m}
             /\ m \in polled'[s] <=> m \in polled[s]
  BY <1>1, <1>2, <1>5
<1>6. DOMAIN held' = Symbol /\ DOMAIN polled' = Symbol
  BY <1>1
<1>7. StoreInv'
  BY <1>1, <1>2, <1>3, <1>4, <1>6 DEF StoreInv
<1>8. NewestIsPolled'
  BY <1>4 DEF NewestIsPolled
<1>. QED
  BY <1>4, <1>5, <1>7, <1>8

-----------------------------------------------------------------------------
(* The snapshot *)

LEMMA MembersAreSymbols ==
    ASSUME NEW u \in Universe
    PROVE  Members(u) \subseteq Symbol
<1>1. u.order \in Seq(Symbol)
  BY UniverseAssumption
<1>. QED
  BY <1>1 DEF Members, ToSet

LEMMA BaseInUniverse ==
    ASSUME NEW u \in Universe, u.baseline # None
    PROVE  u.baseline \in Symbol
<1>1. u.baseline \in Members(u)
  BY UniverseAssumption DEF Members
<1>. QED
  BY <1>1, MembersAreSymbols

\* A computed snapshot stays what it was, whatever the store does after.
LEMMA ComputedStays ==
    ASSUME Computed, minute \in Nat, snap.at \in Nat, snap.at <= minute,
           snap'.universe = snap.universe, snap'.t0 = snap.t0, snap'.at = snap.at,
           DOMAIN snap'.rows = DOMAIN snap.rows,
           \A s \in Symbol : \A m \in Nat : m <= minute =>
               /\ {q \in polled'[s] : q <= m} = {q \in polled[s] : q <= m}
               /\ m \in polled'[s] <=> m \in polled[s]
    PROVE  Computed'
<1>1. Base' = Base
  BY DEF Base
<1>2. \A s \in Symbol : Fetched(s, snap.at)' = Fetched(s, snap.at)
  BY DEF Fetched
<1>3. ASSUME PollCount >= 2, NEW m \in snap.t0 + 2 .. snap.at
      PROVE  m \notin polled'[Base]
  <2>1. snap.t0 \in Nat
    BY DEF Computed
  <2>2. m \in Nat /\ m <= minute
    BY <1>3, <2>1
  <2>. QED
    BY <1>3, <2>1 DEF Computed
<1>. QED
  BY <1>1, <1>2, <1>3 DEF Computed

LEMMA ComputeComputes ==
    ASSUME SignalInv, Compute
    PROVE  Computed' /\ snap'.at = minute /\ snap'.failed = snap.failed
           /\ snap'.universe = snap.universe /\ SnapFields'
           /\ snap'.t0 = Newest(Base) /\ Base # None /\ held[Base] # {}
<1>1. /\ pc = "loaded" /\ ~BaselineUnusable
      /\ UNCHANGED <<minute, universe, held, polled>>
  BY DEF Compute, store
<1>2. PICK S \in SUBSET Ready \ {{}} : \E fs \in [S -> Feature] :
          LET rows == Rows(fs)
              ranking == BestFirst(rows, snap.universe.order)
          IN  snap' = [snap EXCEPT
                  !.t0 = Newest(Base), !.rows = rows, !.ranking = ranking,
                  !.at = minute, !.starved = Candidates \ Ready, !.features = fs]
  BY DEF Compute
<1>2a. PICK fs \in [S -> Feature] : \E ranking :
          snap' = [snap EXCEPT !.t0 = Newest(Base), !.rows = Rows(fs), !.ranking = ranking,
                               !.at = minute, !.starved = Candidates \ Ready, !.features = fs]
  BY <1>2
<1>3. DOMAIN Rows(fs) = S
  BY DEF Rows
<1>4. /\ snap'.t0 = Newest(Base) /\ snap'.rows = Rows(fs) /\ snap'.at = minute
      /\ snap'.universe = snap.universe /\ snap'.failed = snap.failed /\ SnapFields'
  BY <1>2a DEF SignalInv, SnapInv, SnapFields
<1>5. Base' = Base /\ Base # None /\ held[Base] # {} /\ Base \in Symbol
  BY <1>1, <1>4, BaseInUniverse DEF Base, BaselineUnusable, SignalInv, SnapInv
<1>6. held[Base] \subseteq Int /\ HasNewest(held[Base])
  BY <1>5 DEF SignalInv, StoreInv
<1>7. PICK t \in Nat : t = Newest(Base) /\ \A y \in held[Base] : y <= t
  BY <1>5, <1>6, NewestOf DEF Newest
<1>8. S \in SUBSET (Members(snap.universe) \ {Base}) \ {{}}
  BY DEF Ready, Candidates
<1>9. ASSUME NEW s \in S
      PROVE  s \in Symbol /\ t - DvWindow + 1 .. t \subseteq Fetched(s, minute)
  <2>1. s \in Symbol
    BY <1>1, <1>8, MembersAreSymbols DEF SignalInv, SnapInv
  <2>2. t - DvWindow + 1 .. t \subseteq held[s]
    BY <1>7 DEF Ready, HasCandles
  <2>. QED
    BY <2>1, <2>2 DEF SignalInv, StoreInv
<1>10. ASSUME PollCount >= 2, NEW m \in t + 2 .. minute
       PROVE  m \notin polled[Base]
  <2>. SUFFICES ASSUME m \in polled[Base] PROVE FALSE
    OBVIOUS
  <2>1. PICK c \in held[Base] : c >= m - 1
    BY <1>5, <1>10 DEF SignalInv, NewestIsPolled
  <2>2. c <= t /\ c \in Int /\ m \in Int /\ m >= t + 2
    BY <1>6, <1>7
  <2>. QED
    BY <2>1, <2>2
<1>11. \A s \in Symbol : Fetched(s, minute)' = Fetched(s, minute)
  BY <1>1 DEF Fetched
<1>12. Computed'
  BY <1>1, <1>3, <1>4, <1>5, <1>7, <1>8, <1>9, <1>10, <1>11 DEF Computed
<1>. QED
  BY <1>4, <1>5, <1>12

LEMMA SignalInit == Init => SignalInv
<1>. SUFFICES ASSUME Init PROVE SignalInv
  OBVIOUS
<1>1. SnapInv
  BY DEF Init, NoSnap, SnapInv, SnapFields
<1>. QED
  BY <1>1, StoreInit DEF SignalInv

LEMMA SignalStep == SignalInv /\ [Next]_vars => SignalInv'
<1>. SUFFICES ASSUME SignalInv, [Next]_vars PROVE SignalInv'
  OBVIOUS
<1>. USE DEF store
\* A snapshot's own steps leave the store alone.
<1>1. ASSUME UNCHANGED store PROVE StoreInv' /\ NewestIsPolled'
  <2>1. UNCHANGED <<minute, universe, held, polled>> /\ \A s, m : Fetched(s, m)' = Fetched(s, m)
    BY <1>1 DEF Fetched
  <2>. QED
    BY <2>1 DEF SignalInv, StoreInv, NewestIsPolled, Fetched
<1>2. CASE LoadUniverse
  <2>1. SnapInv'
    BY <1>2, StoreAssumption DEF LoadUniverse, NoSnap, SignalInv, SnapInv, SnapFields, StoreInv
  <2>. QED
    BY <1>1, <1>2, <2>1 DEF LoadUniverse, SignalInv
<1>3. CASE Fail
  <2>1. /\ pc = "loaded" /\ pc' = "shown" /\ UNCHANGED store
        /\ snap'.failed /\ snap'.at = minute /\ snap'.rows = snap.rows
        /\ snap'.universe = snap.universe /\ SnapFields'
    BY <1>3 DEF Fail, SignalInv, SnapInv, SnapFields
  <2>2. SnapInv'
    BY <2>1 DEF SignalInv, SnapInv, StoreInv
  <2>. QED
    BY <1>1, <2>1, <2>2 DEF SignalInv
<1>4. CASE Compute
  <2>1. pc = "loaded" /\ pc' = "books" /\ UNCHANGED store
    BY <1>4 DEF Compute
  <2>2. SnapInv'
    BY <1>4, <2>1, ComputeComputes DEF SignalInv, SnapInv, StoreInv
  <2>. QED
    BY <1>1, <2>1, <2>2 DEF SignalInv
<1>5. ASSUME UNCHANGED <<store, pc, snap>> PROVE SignalInv'
  <2>1. Computed => Computed'
    BY <1>5 DEF Computed, Base, Fetched
  <2>2. SnapInv'
    BY <1>5, <2>1 DEF SignalInv, SnapInv, SnapFields
  <2>. QED
    BY <1>1, <1>5, <2>2 DEF SignalInv
<1>6. ASSUME NEW s \in Symbol, FetchBook(s) PROVE SignalInv'
  BY <1>5, <1>6 DEF FetchBook
<1>7. CASE Finish
  <2>1. PICK rows : DOMAIN rows = DOMAIN snap.rows /\ snap' = [snap EXCEPT !.rows = rows]
    BY <1>7 DEF Finish
  <2>2. /\ pc = "books" /\ pc' = "shown" /\ UNCHANGED store
        /\ snap'.universe = snap.universe /\ snap'.t0 = snap.t0 /\ snap'.at = snap.at
        /\ snap'.failed = snap.failed /\ snap'.rows = rows /\ SnapFields'
    BY <1>7, <2>1 DEF Finish, SignalInv, SnapInv, SnapFields
  <2>3. Computed'
    BY <2>1, <2>2, ComputedStays DEF SignalInv, SnapInv, StoreInv
  <2>4. SnapInv'
    BY <2>2, <2>3 DEF SignalInv, SnapInv
  <2>. QED
    BY <1>1, <2>2, <2>4 DEF SignalInv
<1>8. CASE HandOver
  <2>1. SnapInv'
    BY <1>8 DEF HandOver, NoSnap, SnapInv, SnapFields
  <2>. QED
    BY <1>1, <1>8, <2>1 DEF HandOver, SignalInv
<1>9. ASSUME NEW ok \in SUBSET Symbol, Minute(ok) PROVE SignalInv'
  <2>1. UNCHANGED <<pc, snap>> /\ minute' = minute + 1 /\ minute \in Nat
    BY <1>9 DEF Minute, SignalInv, StoreInv
  <2>2. pc \in {"books", "shown"} /\ Computed => Computed'
    BY <1>9, <2>1, MinuteStore, ComputedStays DEF SignalInv, SnapInv, StoreInv
  <2>3. SnapInv'
    BY <2>1, <2>2 DEF SignalInv, SnapInv, SnapFields
  <2>. QED
    BY <1>9, <2>3, MinuteStore DEF SignalInv
<1>10. CASE RefreshUniverse
  <2>1. universe' \in Universe /\ UNCHANGED <<minute, held, polled, pc, snap>>
    BY <1>10 DEF RefreshUniverse
  <2>2. \A s, m : Fetched(s, m)' = Fetched(s, m)
    BY <2>1 DEF Fetched
  <2>3. StoreInv' /\ NewestIsPolled'
    BY <2>1 DEF SignalInv, StoreInv, NewestIsPolled, Fetched
  <2>4. Computed => Computed'
    BY <2>1 DEF Computed, Base, Fetched
  <2>5. SnapInv'
    BY <2>1, <2>4 DEF SignalInv, SnapInv, SnapFields
  <2>. QED
    BY <2>3, <2>5 DEF SignalInv
<1>11. CASE UNCHANGED vars
  BY <1>5, <1>11 DEF vars
<1>. QED
  BY <1>2, <1>3, <1>4, <1>6, <1>7, <1>8, <1>9, <1>10, <1>11 DEF Next

THEOREM SignalsCorrect == Spec => []SignalInv
BY SignalInit, SignalStep, PTL DEF Spec

-----------------------------------------------------------------------------
(* What follows *)

\* Every row is computed from an unbroken series of fetched candles that ends
\* at the one candle time of its snapshot (compute_features, DV_LOOKBACK).
THEOREM RowsFetched == Spec => []RowsNeedFetches
<1>1. SignalInv => RowsNeedFetches
  BY DEF SignalInv, SnapInv, Computed, RowsNeedFetches
<1>. QED
  BY SignalsCorrect, <1>1, PTL

\* If a poll asks for the last closed candle at all, a snapshot is of the last
\* closed minute unless its baseline was not fetched (candle_poll_count).
THEOREM OldIfMissed ==
    ASSUME PollCount >= 2
    PROVE  Spec => []OldOnlyIfMissed
<1>1. SignalInv => OldOnlyIfMissed
  BY DEF SignalInv, SnapInv, Computed, OldOnlyIfMissed
<1>. QED
  BY SignalsCorrect, <1>1, PTL

\* What the state machine builds on, as far as safety goes: the engine
\* implements SnapshotPromise.
THEOREM PromiseKept == Spec => KeepsPromise
<1>. DEFINE T0 == IF snap.failed THEN None ELSE snap.t0
            RowsOf == IF pc = "shown" THEN DOMAIN snap.rows ELSE {}
            Times == [s \in Symbol |-> Newest(s)]
<1>1. ASSUME SignalInv
      PROVE  Times \in [Symbol -> Nat \cup {None}] /\ None \notin Nat
  <2>1. \A s \in Symbol : held[s] # {} => Max(held[s]) \in Nat
    BY <1>1, NewestOf DEF SignalInv, StoreInv
  <2>. QED
    BY <2>1, StoreAssumption DEF Newest
<1>2. Init => Promise!Init
  <2>. SUFFICES ASSUME Init PROVE Promise!Init
    OBVIOUS
  <2>1. SignalInv
    BY SignalInit
  <2>2. universe \in Universe /\ snap = NoSnap /\ pc = "idle"
    BY DEF Init
  <2>. QED
    BY <1>1, <2>1, <2>2 DEF Promise!Init, NoSnap
<1>3. SignalInv /\ [Next]_vars => [Promise!Next]_(Promise!vars)
  <2>. SUFFICES ASSUME SignalInv, [Next]_vars PROVE [Promise!Next]_(Promise!vars)
    OBVIOUS
  <2>. USE DEF store
  <2>1. ASSUME UNCHANGED held PROVE Times' = Times
    BY <2>1 DEF Newest
  <2>2. CASE LoadUniverse
    <3>1. Promise!Begin
      BY <2>1, <2>2 DEF LoadUniverse, Promise!Begin, NoSnap, SignalInv, SnapInv
    <3>. QED
      BY <3>1 DEF Promise!Next
  <2>3. CASE Fail
    <3>1. /\ snap'.failed /\ snap'.rows = snap.rows /\ snap'.universe = snap.universe
      BY <2>3 DEF Fail, SignalInv, SnapInv, SnapFields
    <3>2. Promise!Fail
      BY <2>1, <2>3, <3>1, StoreAssumption DEF Fail, Promise!Fail, SignalInv, SnapInv
    <3>. QED
      BY <3>2 DEF Promise!Next
  <2>4. CASE Compute
    <3>1. Promise!FixTime
      <4>1. pc = "loaded" /\ pc' = "books" /\ UNCHANGED store
        BY <2>4 DEF Compute
      <4>2. /\ snap'.t0 = Newest(Base) /\ snap'.universe = snap.universe /\ ~snap'.failed
            /\ Base # None /\ held[Base] # {} /\ Base \in Symbol
        BY <2>4, <4>1, ComputeComputes, BaseInUniverse DEF SignalInv, SnapInv, Base
      <4>3. Times[Base] = Newest(Base) /\ Newest(Base) \in Nat
        BY <1>1, <4>2, NewestOf DEF Newest, SignalInv, StoreInv
      <4>. QED
        BY <1>1, <2>1, <4>1, <4>2, <4>3, StoreAssumption
        DEF Promise!FixTime, SignalInv, SnapInv, Base
    <3>. QED
      BY <3>1 DEF Promise!Next
  <2>5. CASE Finish
    <3>1. PICK rows : DOMAIN rows = DOMAIN snap.rows /\ snap' = [snap EXCEPT !.rows = rows]
      BY <2>5 DEF Finish
    <3>2. /\ pc = "books" /\ pc' = "shown" /\ UNCHANGED store
          /\ snap'.universe = snap.universe /\ snap'.t0 = snap.t0
          /\ snap'.failed = snap.failed /\ snap'.rows = rows
      BY <2>5, <3>1 DEF Finish, SignalInv, SnapInv, SnapFields
    <3>3. Promise!Complete
      BY <1>1, <2>1, <3>1, <3>2 DEF Promise!Complete, SignalInv, SnapInv, Computed, Base
    <3>. QED
      BY <3>3 DEF Promise!Next
  <2>6. CASE HandOver
    <3>1. Promise!HandOver
      BY <2>1, <2>6 DEF HandOver, Promise!HandOver, NoSnap
    <3>. QED
      BY <3>1 DEF Promise!Next
  <2>7. CASE RefreshUniverse
    <3>1. Promise!Environment
      <4>1. universe' \in Universe /\ UNCHANGED <<held, pc, snap>>
        BY <2>7 DEF RefreshUniverse
      <4>2. \A s \in Symbol : Times[s] # None => Times[s] \in Nat
        BY <1>1
      <4>. QED
        BY <1>1, <2>1, <4>1, <4>2 DEF Promise!Environment
    <3>. QED
      BY <3>1 DEF Promise!Next
  <2>8. ASSUME NEW ok \in SUBSET Symbol, Minute(ok)
        PROVE  [Promise!Next]_(Promise!vars)
    <3>1. UNCHANGED <<universe, pc, snap>>
      BY <2>8 DEF Minute
    <3>2. SignalInv'
      BY SignalStep
    <3>3. Times' \in [Symbol -> Nat \cup {None}]
      <4>1. \A s \in Symbol : held'[s] # {} => Max(held'[s]) \in Nat
        BY <3>2, NewestOf DEF SignalInv, StoreInv
      <4>. QED
        BY <4>1 DEF Newest
    <3>4. ASSUME NEW s \in Symbol, Times[s] # None
          PROVE  Times'[s] # None /\ Times'[s] >= Times[s]
      <4>1. held[s] # {} /\ held'[s] # {} /\ Max(held'[s]) >= Max(held[s])
        BY <2>8, <3>4, MinuteStore DEF Newest, SignalInv
      <4>2. Times[s] = Max(held[s]) /\ Times'[s] = Max(held'[s])
        BY <4>1 DEF Newest
      <4>3. Max(held'[s]) \in Nat
        BY <3>2, <4>1, NewestOf DEF SignalInv, StoreInv
      <4>. QED
        BY <4>1, <4>2, <4>3, StoreAssumption
    <3>5. Promise!Environment
      BY <3>1, <3>3, <3>4 DEF Promise!Environment, SignalInv, StoreInv
    <3>. QED
      BY <3>5 DEF Promise!Next
  <2>9. ASSUME UNCHANGED <<store, pc, snap>> PROVE UNCHANGED Promise!vars
    BY <2>1, <2>9 DEF Promise!vars
  <2>10. ASSUME NEW s \in Symbol, FetchBook(s) PROVE UNCHANGED Promise!vars
    BY <2>9, <2>10 DEF FetchBook
  <2>11. CASE UNCHANGED vars
    BY <2>9, <2>11 DEF vars
  <2>. QED
    BY <2>2, <2>3, <2>4, <2>5, <2>6, <2>7, <2>8, <2>10, <2>11 DEF Next
<1>. QED
  BY SignalsCorrect, <1>2, <1>3, PTL DEF Spec, KeepsPromise, Promise!Spec

-----------------------------------------------------------------------------
(* Orders: a finite set can be sorted, by anything that is transitive and    *)
(* leaves no two of its elements apart.                                      *)

\* Numbers are well-founded by <.
LEMMA LessIsWellFounded ==
    \E R \in {OpToRel(<, Nat)} :
        IsWellFoundedOn(R, Nat) /\ \A x, y \in Nat : <<x, y>> \in R <=> x < y
BY NatLessThanWellFounded DEF OpToRel

\* So a set of numbers that is not empty has a least one.
LEMMA LeastNumber ==
    ASSUME NEW T, T \subseteq Nat, T # {}
    PROVE  \E x \in T : \A y \in T : x <= y
<1>1. PICK R : IsWellFoundedOn(R, Nat) /\ \A x, y \in Nat : <<x, y>> \in R <=> x < y
  BY LessIsWellFounded, Zenon
<1>2. IsWellFoundedOn(R, Nat)
  BY <1>1, Zenon
<1>3. PICK x \in T : \A y \in T : ~ (<<y, x>> \in R)
  BY <1>2, WFMin, Zenon
<1>4. \A y \in T : y \in Nat /\ x \in Nat
  BY SMT
<1>5. \A y \in T : ~(y < x)
  BY <1>1, <1>3, <1>4, Zenon
<1>6. \A y \in T : x <= y
  BY <1>4, <1>5
<1>. QED
  BY <1>6

\* And of some subsets of a finite set, one is the smallest.
LEMMA SmallestSet ==
    ASSUME NEW S, IsFiniteSet(S), NEW F, F \subseteq SUBSET S, F # {}
    PROVE  \E U \in F : \A V \in F : Cardinality(U) <= Cardinality(V)
<1>. DEFINE sizes == {Cardinality(V) : V \in F}
<1>1. sizes \subseteq Nat /\ sizes # {}
  <2>1. \A V \in F : Cardinality(V) \in Nat
    BY FS_Subset, FS_CardinalityType
  <2>. QED
    BY <2>1
<1>2. PICK n \in sizes : \A m \in sizes : n <= m
  BY <1>1, LeastNumber
<1>. QED
  BY <1>2

TotalOn(R, S) == \A x, y \in S : x # y => <<x, y>> \in R \/ <<y, x>> \in R
TransitiveOn(R, S) ==
    \A x, y, z \in S : <<x, y>> \in R /\ <<y, z>> \in R => <<x, z>> \in R

LEMMA LastExists ==
    ASSUME NEW S, IsFiniteSet(S), NEW R, TotalOn(R, S), TransitiveOn(R, S), S # {}
    PROVE  \E m \in S : \A x \in S \ {m} : <<x, m>> \in R
<1>. DEFINE IsLast(U, m) == \A x \in U \ {m} : <<x, m>> \in R
            F == {U \in SUBSET S : U # {} /\ \A m \in U : ~IsLast(U, m)}
<1>. SUFFICES ASSUME F # {} PROVE FALSE
  OBVIOUS
<1>1. PICK U \in F : \A V \in F : Cardinality(U) <= Cardinality(V)
  BY SmallestSet
<1>2. PICK e \in U : TRUE
  OBVIOUS
<1>3. IsFiniteSet(U) /\ Cardinality(U) \in Nat
  BY FS_Subset, FS_CardinalityType
<1>4. Cardinality(U \ {e}) = Cardinality(U) - 1
  BY <1>3, FS_RemoveElement
<1>5. U \ {e} \notin F
  <2>. SUFFICES ASSUME U \ {e} \in F PROVE FALSE
    OBVIOUS
  <2>1. Cardinality(U) <= Cardinality(U \ {e})
    BY <1>1, Zenon
  <2>2. PICK n \in Nat : n = Cardinality(U)
    BY <1>3
  <2>. QED
    BY <1>4, <2>1, <2>2
<1>6. CASE U \ {e} = {}
  <2>1. IsLast(U, e)
    BY <1>6
  <2>. QED
    BY <2>1
<1>7. CASE U \ {e} # {}
  <2>1. PICK m \in U \ {e} : IsLast(U \ {e}, m)
    BY <1>5, <1>7
  <2>2. CASE <<m, e>> \in R
    <3>1. IsLast(U, e)
      BY <2>1, <2>2 DEF TransitiveOn
    <3>. QED
      BY <3>1
  <2>3. CASE <<e, m>> \in R
    <3>1. IsLast(U, m)
      BY <2>1, <2>3
    <3>. QED
      BY <2>1, <3>1
  <2>. QED
    BY <2>1, <2>2, <2>3 DEF TotalOn
<1>. QED
  BY <1>6, <1>7

InOrder(items, R) == \A i, j \in DOMAIN items : i < j => <<items[i], items[j]>> \in R

LEMMA SortExists ==
    ASSUME NEW S, IsFiniteSet(S), NEW R, TotalOn(R, S), TransitiveOn(R, S)
    PROVE  \E items \in SetToSeqs(S) : InOrder(items, R)
<1>. DEFINE F == {U \in SUBSET S : \A items \in SetToSeqs(U) : ~InOrder(items, R)}
<1>. SUFFICES ASSUME F # {} PROVE FALSE
  OBVIOUS
<1>1. PICK U \in F : \A V \in F : Cardinality(U) <= Cardinality(V)
  BY SmallestSet
<1>2. IsFiniteSet(U) /\ Cardinality(U) \in Nat
  BY FS_Subset, FS_CardinalityType
<1>3. CASE U = {}
  <2>. DEFINE items == [i \in 1..0 |-> 0]
  <2>1. Cardinality(U) = 0
    BY <1>3, FS_EmptySet
  <2>2. items \in SetToSeqs(U)
    BY <1>3, <2>1 DEF SetToSeqs
  <2>3. InOrder(items, R)
    BY DEF InOrder
  <2>. QED
    BY <2>2, <2>3
<1>4. CASE U # {}
  <2>1. TotalOn(R, U) /\ TransitiveOn(R, U)
    BY DEF TotalOn, TransitiveOn
  <2>2. PICK m \in U : \A x \in U \ {m} : <<x, m>> \in R
    BY <1>2, <1>4, <2>1, LastExists
  <2>a. IsFiniteSet(U \ {m}) /\ Cardinality(U \ {m}) = Cardinality(U) - 1
    BY <1>2, FS_RemoveElement
  <2>b. Cardinality(U \ {m}) \in Nat
    BY <2>a, FS_CardinalityType
  <2>3. PICK n \in Nat : n = Cardinality(U \ {m}) /\ Cardinality(U) = n + 1
    BY <1>2, <2>a, <2>b
  <2>4. U \ {m} \notin F
    <3>. SUFFICES ASSUME U \ {m} \in F PROVE FALSE
      OBVIOUS
    <3>1. Cardinality(U) <= Cardinality(U \ {m})
      BY <1>1, Zenon
    <3>. QED
      BY <2>3, <3>1
  <2>5. PICK t \in SetToSeqs(U \ {m}) : InOrder(t, R)
    BY <2>4
  <2>6. t \in [1..n -> U \ {m}] /\ \A i, j \in 1..n : i # j => t[i] # t[j]
    BY <2>3, <2>5 DEF SetToSeqs
  <2>. DEFINE items == [i \in 1..(n + 1) |-> IF i = n + 1 THEN m ELSE t[i]]
  <2>7. \A i \in 1..(n + 1) : i = n + 1 \/ i \in 1..n
    OBVIOUS
  <2>8. items \in [1..(n + 1) -> U] /\ \A i, j \in 1..(n + 1) : i # j => items[i] # items[j]
    BY <2>6, <2>7
  <2>9. items \in SetToSeqs(U)
    BY <2>3, <2>8 DEF SetToSeqs
  <2>10. InOrder(items, R)
    <3>. SUFFICES ASSUME NEW i \in 1..(n + 1), NEW j \in 1..(n + 1), i < j
                  PROVE  <<items[i], items[j]>> \in R
      BY DEF InOrder
    <3>1. i \in 1..n
      OBVIOUS
    <3>2. CASE j = n + 1
      BY <2>2, <2>6, <3>1, <3>2
    <3>3. CASE j \in 1..n
      BY <2>5, <2>6, <3>1, <3>3 DEF InOrder
    <3>. QED
      BY <2>7, <3>2, <3>3
  <2>. QED
    BY <2>9, <2>10
<1>. QED
  BY <1>3, <1>4

\* A sequence that lists a finite set lists all of it.
LEMMA ListsAll ==
    ASSUME NEW S, IsFiniteSet(S), NEW items \in SetToSeqs(S)
    PROVE  /\ items \in Seq(S) /\ Len(items) = Cardinality(S) /\ Cardinality(S) \in Nat
           /\ DOMAIN items = 1..Cardinality(S)
           /\ \A i, j \in 1..Cardinality(S) : items[i] = items[j] => i = j
           /\ \A x \in S : \E i \in 1..Cardinality(S) : items[i] = x
<1>. DEFINE n == Cardinality(S)
<1>1. n \in Nat
  BY FS_CardinalityType
<1>2. items \in [1..n -> S] /\ \A i, j \in 1..n : i # j => items[i] # items[j]
  BY DEF SetToSeqs
<1>3. items \in Seq(S) /\ Len(items) = n
  BY <1>1, <1>2
<1>4. items \in Injection(1..n, S)
  BY <1>2 DEF Injection, IsInjective
<1>5. Cardinality(1..n) = n
  BY <1>1, FS_Interval
<1>6. items \in Surjection(1..n, S)
  BY <1>4, <1>5, FS_Injection
<1>7. \A x \in S : \E i \in 1..n : items[i] = x
  BY <1>6 DEF Surjection
<1>. QED
  BY <1>1, <1>2, <1>3, <1>7

-----------------------------------------------------------------------------
(* Ranks *)

\* What is below a value in v, and what is not above it.
Below(v, x) == {o \in DOMAIN v : v[o] < x}
UpTo(v, x) == {o \in DOMAIN v : v[o] <= x}

\* The items of v, lowest value first.
IsByValue(v, items) ==
    /\ items \in SetToSeqs(DOMAIN v)
    /\ \A i, j \in DOMAIN items : i < j => v[items[i]] <= v[items[j]]

LEMMA LowestFirst ==
    ASSUME NEW D, NEW v
    PROVE  \E R : \A s, o \in D : <<s, o>> \in R <=> v[s] <= v[o]
<1>. DEFINE R == {p \in D \X D : v[p[1]] <= v[p[2]]}
<1>1. \A s, o \in D : <<s, o>> \in R <=> v[s] <= v[o]
  OBVIOUS
<1>. QED
  BY <1>1, Zenon

LEMMA ByValueSorts ==
    ASSUME NEW v, IsFiniteSet(DOMAIN v), \A s \in DOMAIN v : v[s] \in Int
    PROVE  IsByValue(v, ByValue(v))
<1>. DEFINE P(items) == items \in SetToSeqs(DOMAIN v)
                        /\ \A i, j \in DOMAIN items : i < j => v[items[i]] <= v[items[j]]
<1>1. PICK R : \A s, o \in DOMAIN v : <<s, o>> \in R <=> v[s] <= v[o]
  BY LowestFirst, Zenon
<1>2. TotalOn(R, DOMAIN v) /\ TransitiveOn(R, DOMAIN v)
  <2>1. \A s, o \in DOMAIN v : v[s] <= v[o] \/ v[o] <= v[s]
    OBVIOUS
  <2>2. \A s, o, u \in DOMAIN v : v[s] <= v[o] /\ v[o] <= v[u] => v[s] <= v[u]
    OBVIOUS
  <2>. QED
    BY <1>1, <2>1, <2>2, Zenon DEF TotalOn, TransitiveOn
<1>3. PICK items \in SetToSeqs(DOMAIN v) : InOrder(items, R)
  BY <1>2, SortExists
<1>4. items \in [1..Cardinality(DOMAIN v) -> DOMAIN v]
  BY DEF SetToSeqs
<1>5. P(items)
  BY <1>1, <1>3, <1>4 DEF InOrder
<1>6. ByValue(v) = CHOOSE x : P(x)
  BY DEF ByValue, Sorted
<1>. HIDE DEF P
<1>7. P(CHOOSE x : P(x))
  BY <1>5, Zenon
<1>. QED
  BY <1>6, <1>7 DEF P, IsByValue

Prefix(items, j) == {items[k] : k \in 1..j}

\* The first j of a list without repetitions are j.
LEMMA PrefixCount ==
    ASSUME NEW n \in Nat, NEW items, NEW S, items \in [1..n -> S],
           \A i, j \in 1..n : items[i] = items[j] => i = j, NEW j \in 0..n
    PROVE  IsFiniteSet(Prefix(items, j)) /\ Cardinality(Prefix(items, j)) = j
<1>. DEFINE T == {items[k] : k \in 1..j}
            f == [k \in 1..j |-> items[k]]
<1>1. f \in Bijection(1..j, T)
  BY DEF Bijection, Injection, Surjection, IsInjective
<1>2. IsFiniteSet(1..j) /\ Cardinality(1..j) = j
  BY FS_Interval
<1>. QED
  BY <1>1, <1>2, FS_Bijection DEF ExistsBijection, Prefix

\* Where the group of equal values ends that item i + 1 begins or is in.
GroupEnd(v, items, i) == Max({k \in (i + 1)..Len(items) : v[items[k]] = v[items[i + 1]]})

Lists(v, items, n) ==
    /\ n \in Nat /\ n = Len(items) /\ n = Cardinality(DOMAIN v) /\ IsFiniteSet(DOMAIN v)
    /\ \A s \in DOMAIN v : v[s] \in Int
    /\ items \in [1..n -> DOMAIN v] /\ DOMAIN items = 1..n
    /\ \A i, j \in 1..n : items[i] = items[j] => i = j
    /\ \A s \in DOMAIN v : \E i \in 1..n : items[i] = s
    /\ \A i, j \in 1..n : i <= j => v[items[i]] <= v[items[j]]

LEMMA ByValueLists ==
    ASSUME NEW v, IsFiniteSet(DOMAIN v), \A s \in DOMAIN v : v[s] \in Int
    PROVE  Lists(v, ByValue(v), Len(ByValue(v)))
<1>1. PICK items : items = ByValue(v)
  OBVIOUS
<1>2. items \in SetToSeqs(DOMAIN v)
  BY <1>1, ByValueSorts DEF IsByValue
<1>3. PICK n \in Nat : n = Cardinality(DOMAIN v)
  BY FS_CardinalityType
<1>4. /\ Len(items) = n /\ DOMAIN items = 1..n
      /\ \A i, j \in 1..n : items[i] = items[j] => i = j
      /\ \A s \in DOMAIN v : \E i \in 1..n : items[i] = s
  BY <1>2, <1>3, ListsAll
<1>5. items \in [1..n -> DOMAIN v]
  BY <1>2, <1>3 DEF SetToSeqs
<1>6. \A i, j \in 1..n : i <= j => v[items[i]] <= v[items[j]]
  <2>. SUFFICES ASSUME NEW i \in 1..n, NEW j \in 1..n, i <= j
                PROVE  v[items[i]] <= v[items[j]]
    OBVIOUS
  <2>1. v[items[i]] \in Int
    BY <1>5
  <2>2. CASE i = j
    BY <2>1, <2>2
  <2>3. CASE i < j
    BY <1>1, <1>4, <2>3, ByValueSorts DEF IsByValue
  <2>. QED
    BY <2>2, <2>3
<1>. QED
  BY <1>1, <1>3, <1>4, <1>5, <1>6 DEF Lists

LEMMA GroupEnds ==
    ASSUME NEW v, NEW items, NEW n, Lists(v, items, n), NEW i \in 0..(n - 1)
    PROVE  \E j \in (i + 1)..n :
              /\ j = GroupEnd(v, items, i)
              /\ \A k \in (i + 1)..j : v[items[k]] = v[items[j]]
              /\ \A k \in (j + 1)..n : v[items[k]] > v[items[j]]
<1>. DEFINE G == {k \in (i + 1)..n : v[items[k]] = v[items[i + 1]]}
            A == {y \in Nat : \A k \in G : y >= k}
<1>1. n \in Nat /\ i + 1 \in 1..n /\ i + 1 \in G /\ G \subseteq Int
  BY DEF Lists
<1>2. n \in A /\ A \subseteq Nat
  BY <1>1
<1>3. PICK m \in A : \A y \in A : m <= y
  <2>. HIDE DEF A
  <2>. QED
    BY <1>2, LeastNumber
<1>4. m \in G
  <2>. SUFFICES ASSUME m \notin G PROVE FALSE
    OBVIOUS
  <2>1. m \in Nat /\ m >= i + 1 /\ \A k \in G : m >= k /\ k \in Int /\ m # k
    BY <1>1, <1>3
  <2>2. m - 1 \in Nat
    BY <2>1
  <2>3. \A k \in G : m - 1 >= k
    <3>. HIDE DEF G
    <3>. QED
      BY <2>1
  <2>4. m - 1 \in A
    BY <2>2, <2>3
  <2>. QED
    BY <1>3, <2>1, <2>4
<1>5. HasNewest(G)
  BY <1>3, <1>4 DEF HasNewest
<1>6. PICK j \in Nat : j = Max(G) /\ j \in G /\ \A y \in G : y <= j
  <2>. HIDE DEF G
  <2>. QED
    BY <1>1, <1>5, NewestOf
<1>7. j = GroupEnd(v, items, i)
  BY <1>6 DEF GroupEnd, Lists
<1>8. \A k \in 1..n : v[items[k]] \in Int
  BY DEF Lists
<1>9. j \in (i + 1)..n /\ j \in 1..n /\ v[items[j]] = v[items[i + 1]]
  BY <1>1, <1>6
<1>10. ASSUME NEW k \in (i + 1)..j PROVE v[items[k]] = v[items[j]]
  <2>1. k \in 1..n /\ i + 1 <= k /\ k <= j
    BY <1>1, <1>9
  <2>2. v[items[i + 1]] <= v[items[k]] /\ v[items[k]] <= v[items[j]]
    BY <1>1, <1>9, <2>1 DEF Lists
  <2>. QED
    BY <1>8, <1>9, <2>1, <2>2
<1>11. ASSUME NEW k \in (j + 1)..n PROVE v[items[k]] > v[items[j]]
  <2>1. k \in 1..n /\ k \in (i + 1)..n /\ j <= k /\ ~(k <= j)
    BY <1>1, <1>9
  <2>2. k \notin G
    BY <1>6, <2>1
  <2>3. v[items[j]] <= v[items[k]] /\ v[items[k]] # v[items[j]]
    BY <1>9, <2>1, <2>2 DEF Lists
  <2>. QED
    BY <1>8, <1>9, <2>1, <2>3
<1>. QED
  BY <1>7, <1>9, <1>10, <1>11

LEMMA CountsAt ==
    ASSUME NEW v, NEW items, NEW n, Lists(v, items, n), NEW i \in 0..(n - 1),
           NEW j \in (i + 1)..n, j = GroupEnd(v, items, i)
    PROVE  /\ \A k \in (i + 1)..j : /\ Cardinality(UpTo(v, v[items[k]])) = j
                                    /\ Cardinality(Below(v, v[items[k]])) \in 0..i
           /\ \A k \in (j + 1)..n : /\ Cardinality(UpTo(v, v[items[k]])) \in Nat
                                    /\ Cardinality(Below(v, v[items[k]])) \in Nat
                                    /\ Cardinality(Below(v, v[items[k]])) >= j
<1>1. /\ n \in Nat /\ \A k \in 1..n : items[k] \in DOMAIN v /\ v[items[k]] \in Int
      /\ \A s \in DOMAIN v : \E k \in 1..n : items[k] = s
  BY DEF Lists
<1>2. \A m \in 0..n : IsFiniteSet(Prefix(items, m)) /\ Cardinality(Prefix(items, m)) = m
  <2>1. n \in Nat /\ items \in [1..n -> DOMAIN v]
        /\ \A k, m \in 1..n : items[k] = items[m] => k = m
    BY DEF Lists
  <2>. QED
    BY <2>1, PrefixCount
<1>3. /\ \A k \in (i + 1)..j : v[items[k]] = v[items[j]]
      /\ \A k \in (j + 1)..n : v[items[k]] > v[items[j]]
  BY GroupEnds
<1>4. \A x : /\ IsFiniteSet(UpTo(v, x)) /\ Cardinality(UpTo(v, x)) \in Nat
             /\ IsFiniteSet(Below(v, x)) /\ Cardinality(Below(v, x)) \in Nat
  <2>. SUFFICES ASSUME NEW x
                PROVE  /\ IsFiniteSet(UpTo(v, x)) /\ Cardinality(UpTo(v, x)) \in Nat
                       /\ IsFiniteSet(Below(v, x)) /\ Cardinality(Below(v, x)) \in Nat
    OBVIOUS
  <2>1. UpTo(v, x) \in SUBSET DOMAIN v /\ Below(v, x) \in SUBSET DOMAIN v
    BY DEF UpTo, Below
  <2>. QED
    BY <2>1, FS_Subset, FS_CardinalityType DEF Lists
<1>5. ASSUME NEW k \in (i + 1)..j
      PROVE  Cardinality(UpTo(v, v[items[k]])) = j /\ Cardinality(Below(v, v[items[k]])) \in 0..i
  <2>1. k \in 1..n /\ v[items[k]] = v[items[j]] /\ i \in 0..n /\ j \in 0..n /\ j \in 1..n
    BY <1>1, <1>3
  <2>2. UpTo(v, v[items[k]]) = Prefix(items, j)
    <3>1. ASSUME NEW m \in 1..n PROVE v[items[m]] <= v[items[j]] <=> m <= j
      <4>1. CASE m <= j
        BY <2>1, <4>1 DEF Lists
      <4>2. CASE m > j
        <5>1. v[items[m]] > v[items[j]]
          BY <1>1, <1>3, <2>1, <4>2
        <5>. QED
          BY <1>1, <2>1, <4>2, <5>1
      <4>. QED
        BY <1>1, <2>1, <4>1, <4>2
    <3>2. ASSUME NEW s \in UpTo(v, v[items[k]]) PROVE s \in Prefix(items, j)
      <4>1. PICK m \in 1..n : items[m] = s
        BY <1>1 DEF UpTo
      <4>2. m \in 1..j
        BY <2>1, <3>1, <4>1 DEF UpTo
      <4>. QED
        BY <4>1, <4>2 DEF Prefix
    <3>3. ASSUME NEW s \in Prefix(items, j) PROVE s \in UpTo(v, v[items[k]])
      <4>1. PICK m \in 1..j : items[m] = s
        BY <3>3 DEF Prefix
      <4>2. m \in 1..n /\ m <= j
        BY <1>1, <2>1
      <4>. QED
        BY <1>1, <2>1, <3>1, <4>1, <4>2 DEF UpTo
    <3>. QED
      BY <3>2, <3>3
  <2>3. Below(v, v[items[k]]) \in SUBSET Prefix(items, i)
    <3>1. ASSUME NEW s \in Below(v, v[items[k]]) PROVE s \in Prefix(items, i)
      <4>1. PICK m \in 1..n : items[m] = s
        BY <1>1 DEF Below
      <4>2. ~(m > i)
        <5>. SUFFICES ASSUME m > i PROVE FALSE
          OBVIOUS
        <5>1. i + 1 \in 1..n /\ i + 1 \in (i + 1)..j /\ i + 1 <= m
          BY <1>1, <2>1
        <5>2. v[items[i + 1]] <= v[items[m]] /\ v[items[i + 1]] = v[items[j]]
          BY <1>3, <5>1 DEF Lists
        <5>. QED
          BY <1>1, <2>1, <4>1, <5>2 DEF Below
      <4>3. m \in 1..i
        BY <2>1, <4>2
      <4>. QED
        BY <4>1, <4>3 DEF Prefix
    <3>. QED
      BY <3>1
  <2>4. Cardinality(Below(v, v[items[k]])) <= i
    <3>1. IsFiniteSet(Prefix(items, i)) /\ Cardinality(Prefix(items, i)) = i
      BY <1>2, <2>1
    <3>2. Cardinality(Below(v, v[items[k]])) <= Cardinality(Prefix(items, i))
      BY <2>3, <3>1, FS_Subset
    <3>. QED
      BY <3>1, <3>2
  <2>. QED
    BY <1>2, <1>4, <2>1, <2>2, <2>4
<1>6. ASSUME NEW k \in (j + 1)..n
      PROVE  Cardinality(Below(v, v[items[k]])) >= j
  <2>1. k \in 1..n /\ v[items[k]] > v[items[j]] /\ j \in 0..n /\ j \in 1..n
    BY <1>1, <1>3
  <2>2. Prefix(items, j) \in SUBSET Below(v, v[items[k]])
    <3>1. ASSUME NEW s \in Prefix(items, j) PROVE s \in Below(v, v[items[k]])
      <4>1. PICK m \in 1..j : items[m] = s
        BY <3>1 DEF Prefix
      <4>2. m \in 1..n /\ m <= j
        BY <1>1, <2>1
      <4>3. v[items[m]] <= v[items[j]]
        BY <2>1, <4>2 DEF Lists
      <4>. QED
        BY <1>1, <2>1, <4>1, <4>2, <4>3 DEF Below
    <3>. QED
      BY <3>1
  <2>3. Cardinality(Prefix(items, j)) <= Cardinality(Below(v, v[items[k]]))
    BY <1>4, <2>2, FS_Subset
  <2>. QED
    BY <1>2, <1>4, <2>1, <2>3
<1>. QED
  BY <1>4, <1>5, <1>6

\* The ranks of the items after the first i, taken as one above the other.
RankFrom(v, i, s) ==
    LET below == Cardinality(Below(v, v[s]))
    IN  (IF below < i THEN i ELSE below) + Cardinality(UpTo(v, v[s])) - 1
RanksFrom(v, items, i) ==
    [s \in {items[k] : k \in (i + 1)..Len(items)} |-> RankFrom(v, i, s)]

\* What the code makes of f, the ranks of the items after each group.
RanksBy(v, items, f, i) ==
    IF i >= Len(items) THEN <<>>
    ELSE LET j == GroupEnd(v, items, i)
             group == {items[k] : k \in (i + 1)..j}
         IN  [s \in group \cup DOMAIN f[j] |-> IF s \in group THEN i + j - 1 ELSE f[j][s]]
AreRanks(v, items, f) == f = [i \in 0..Len(items) |-> RanksBy(v, items, f, i)]

LEMMA RanksFromStep ==
    ASSUME NEW v, NEW items, NEW n, Lists(v, items, n), NEW i \in 0..n,
           NEW f, \A j \in (i + 1)..n : f[j] = RanksFrom(v, items, j)
    PROVE  RanksBy(v, items, f, i) = RanksFrom(v, items, i)
<1>1. n \in Nat /\ Len(items) = n
  BY DEF Lists
<1>2. CASE i >= n
  <2>1. PICK D : D = {items[k] : k \in (i + 1)..n}
    OBVIOUS
  <2>1a. D = {}
    BY <1>1, <1>2, <2>1
  <2>1b. [s \in D |-> RankFrom(v, i, s)] = <<>>
    BY <2>1a
  <2>2. RanksFrom(v, items, i) = <<>>
    BY <1>1, <2>1, <2>1b DEF RanksFrom
  <2>. QED
    BY <1>1, <1>2, <2>2 DEF RanksBy
<1>3. CASE i < n
  <2>1. i \in 0..(n - 1)
    BY <1>1, <1>3
  <2>2. PICK j \in (i + 1)..n : j = GroupEnd(v, items, i)
    BY <2>1, GroupEnds
  <2>. DEFINE Group == {items[k] : k \in (i + 1)..j}
              Rest == {items[k] : k \in (j + 1)..n}
              All == {items[k] : k \in (i + 1)..n}
  <2>3. \A k \in (i + 1)..n : k \in (i + 1)..j \/ k \in (j + 1)..n
    BY <1>1, <2>2
  <2>4. (\A k \in (i + 1)..j : k \in (i + 1)..n) /\ (\A k \in (j + 1)..n : k \in (i + 1)..n)
    BY <1>1, <2>2
  <2>5. All = Group \cup Rest
    BY <2>3, <2>4
  <2>6. \A s \in Group : RankFrom(v, i, s) = i + j - 1
    <3>. SUFFICES ASSUME NEW k \in (i + 1)..j
                  PROVE  RankFrom(v, i, items[k]) = i + j - 1
      OBVIOUS
    <3>1. /\ Cardinality(UpTo(v, v[items[k]])) = j
          /\ Cardinality(Below(v, v[items[k]])) \in 0..i
      BY <2>1, <2>2, CountsAt
    <3>. QED
      BY <2>1, <3>1 DEF RankFrom
  <2>7. \A s \in Rest : RankFrom(v, i, s) = RankFrom(v, j, s)
    <3>. SUFFICES ASSUME NEW k \in (j + 1)..n
                  PROVE  RankFrom(v, i, items[k]) = RankFrom(v, j, items[k])
      OBVIOUS
    <3>1. /\ Cardinality(UpTo(v, v[items[k]])) \in Nat
          /\ Cardinality(Below(v, v[items[k]])) \in Nat
          /\ Cardinality(Below(v, v[items[k]])) >= j
      BY <2>1, <2>2, CountsAt
    <3>. QED
      BY <1>1, <2>1, <2>2, <3>1 DEF RankFrom
  <2>8. RanksFrom(v, items, i) = [s \in All |-> RankFrom(v, i, s)]
    BY <1>1 DEF RanksFrom
  <2>9. RanksBy(v, items, f, i) =
            [s \in Group \cup DOMAIN f[j] |-> IF s \in Group THEN i + j - 1 ELSE f[j][s]]
    BY <1>1, <1>3, <2>2 DEF RanksBy
  <2>10. f[j] = [s \in Rest |-> RankFrom(v, j, s)]
    BY <1>1, <2>2 DEF RanksFrom
  <2>. HIDE DEF Group, Rest, All
  <2>11. RanksBy(v, items, f, i) =
             [s \in Group \cup Rest |-> IF s \in Group THEN i + j - 1 ELSE RankFrom(v, j, s)]
    BY <2>9, <2>10
  <2>. QED
    BY <2>5, <2>6, <2>7, <2>8, <2>11
<1>. QED
  BY <1>1, <1>2, <1>3

LEMMA RanksExist ==
    ASSUME NEW v, NEW items, NEW n, Lists(v, items, n)
    PROVE  \E f : AreRanks(v, items, f)
<1>. DEFINE f == [i \in 0..n |-> RanksFrom(v, items, i)]
<1>1. n \in Nat /\ Len(items) = n
  BY DEF Lists
<1>2. ASSUME NEW i \in 0..n PROVE f[i] = RanksBy(v, items, f, i)
  <2>1. \A j \in (i + 1)..n : j \in 0..n
    BY <1>1
  <2>2. \A j \in (i + 1)..n : f[j] = RanksFrom(v, items, j)
    BY <2>1
  <2>3. f[i] = RanksFrom(v, items, i)
    OBVIOUS
  <2>. HIDE DEF f
  <2>. QED
    BY <2>2, <2>3, RanksFromStep
<1>3. f = [i \in 0..n |-> RanksBy(v, items, f, i)]
  BY <1>2, Zenon
<1>. QED
  BY <1>1, <1>3 DEF AreRanks

LEMMA RanksAre ==
    ASSUME NEW v, NEW items, NEW n, Lists(v, items, n), NEW f, AreRanks(v, items, f)
    PROVE  f[0] = RanksFrom(v, items, 0)
<1>. DEFINE T == {m \in 0..n : f[n - m] # RanksFrom(v, items, n - m)}
<1>1. n \in Nat /\ \A i \in 0..n : f[i] = RanksBy(v, items, f, i)
  BY DEF Lists, AreRanks
<1>2. ASSUME T # {} PROVE FALSE
  <2>1. T \subseteq Nat
    OBVIOUS
  <2>2. PICK m \in T : \A y \in T : m <= y
    <3>. HIDE DEF T
    <3>. QED
      BY <1>2, <2>1, LeastNumber
  <2>3. PICK i \in 0..n : i = n - m
    BY <1>1
  <2>4. ASSUME NEW j \in (i + 1)..n PROVE f[j] = RanksFrom(v, items, j)
    <3>1. PICK y \in 0..n : y = n - j /\ y < m /\ n - y = j
      BY <1>1, <2>3
    <3>2. y \notin T
      BY <2>2, <3>1
    <3>. QED
      BY <3>1, <3>2
  <2>5. f[i] = RanksFrom(v, items, i)
    BY <1>1, <2>4, RanksFromStep
  <2>. QED
    BY <2>2, <2>3, <2>5
<1>3. n \in 0..n /\ n - n = 0 /\ n \notin T
  BY <1>1, <1>2
<1>. QED
  BY <1>3

\* Whatever order the sort leaves equal values in, every item gets its midrank.
LEMMA PercentileRanksAre ==
    ASSUME NEW v, IsFiniteSet(DOMAIN v), \A s \in DOMAIN v : v[s] \in Int
    PROVE  \A s \in DOMAIN v :
               PercentileRanks(v)[s] = Midrank(v, s) /\ Midrank(v, s) \in Int
<1>1. PICK items, n : items = ByValue(v) /\ n = Len(items)
  OBVIOUS
<1>2. Lists(v, items, n)
  BY <1>1, ByValueLists
<1>3. n \in Nat /\ n = Cardinality(DOMAIN v) /\ n = Len(items)
  BY <1>2 DEF Lists
<1>4. PercentileRanks(v) =
          IF n = 1 THEN [s \in DOMAIN v |-> 2] ELSE (CHOOSE f : AreRanks(v, items, f))[0]
  <2>1. PercentileRanks(v) =
            IF Len(ByValue(v)) = 1 THEN [s \in DOMAIN v |-> 2]
            ELSE (CHOOSE f : AreRanks(v, ByValue(v), f))[0]
    BY Zenon DEF PercentileRanks, AreRanks, RanksBy, GroupEnd
  <2>. QED
    BY <1>1, <2>1, Zenon
<1>5. \A s : /\ Cardinality(Below(v, v[s])) \in Nat /\ Cardinality(UpTo(v, v[s])) \in Nat
  <2>. SUFFICES ASSUME NEW s
                PROVE  Cardinality(Below(v, v[s])) \in Nat /\ Cardinality(UpTo(v, v[s])) \in Nat
    OBVIOUS
  <2>1. UpTo(v, v[s]) \in SUBSET DOMAIN v /\ Below(v, v[s]) \in SUBSET DOMAIN v
    BY DEF UpTo, Below
  <2>. QED
    BY <2>1, FS_Subset, FS_CardinalityType
<1>6. CASE n = 1
  <2>1. PICK x : DOMAIN v = {x}
    BY <1>3, <1>6, FS_Singleton
  <2>2. PercentileRanks(v) = [s \in DOMAIN v |-> 2]
    BY <1>4, <1>6
  <2>3. \A s \in DOMAIN v : DOMAIN v = {s}
    BY <2>1
  <2>. QED
    BY <2>2, <2>3 DEF Midrank
<1>7. CASE n # 1
  <2>1. AreRanks(v, items, CHOOSE f : AreRanks(v, items, f))
    BY <1>2, RanksExist
  <2>2. PercentileRanks(v) = RanksFrom(v, items, 0)
    BY <1>2, <1>4, <1>7, <2>1, RanksAre
  <2>3. {items[k] : k \in 1..n} = DOMAIN v
    <3>1. \A k \in 1..n : items[k] \in DOMAIN v
      BY <1>2 DEF Lists
    <3>2. \A s \in DOMAIN v : \E k \in 1..n : items[k] = s
      BY <1>2 DEF Lists
    <3>. QED
      BY <3>1, <3>2
  <2>4. PercentileRanks(v) = [s \in DOMAIN v |-> RankFrom(v, 0, s)]
    BY <1>3, <2>2, <2>3 DEF RanksFrom
  <2>5. \A s : DOMAIN v # {s}
    BY <1>3, <1>7, FS_Singleton
  <2>6. \A s : Midrank(v, s) = Cardinality(Below(v, v[s])) + Cardinality(UpTo(v, v[s])) - 1
    BY <2>5 DEF Midrank, Below, UpTo
  <2>7. \A s : RankFrom(v, 0, s) = Cardinality(Below(v, v[s])) + Cardinality(UpTo(v, v[s])) - 1
    BY <1>5 DEF RankFrom
  <2>. QED
    BY <1>5, <2>4, <2>6, <2>7
<1>. QED
  BY <1>6, <1>7

-----------------------------------------------------------------------------
(* Scores *)

LEMMA MaxOfTwo ==
    ASSUME NEW x \in Int, NEW y \in Int
    PROVE  Max({x, y}) = IF x >= y THEN x ELSE y
<1>. DEFINE m == IF x >= y THEN x ELSE y
<1>1. m \in {x, y} /\ \A z \in {x, y} : m >= z
  OBVIOUS
<1>2. \A z \in {x, y} : (\A w \in {x, y} : z >= w) => z = m
  OBVIOUS
<1>. QED
  BY <1>1, <1>2 DEF Max

LEMMA MinOfTwo ==
    ASSUME NEW x \in Int, NEW y \in Int
    PROVE  Min({x, y}) = IF x <= y THEN x ELSE y
<1>. DEFINE m == IF x <= y THEN x ELSE y
<1>1. m \in {x, y} /\ \A z \in {x, y} : m <= z
  OBVIOUS
<1>2. \A z \in {x, y} : (\A w \in {x, y} : z <= w) => z = m
  OBVIOUS
<1>. QED
  BY <1>1, <1>2 DEF Min

LEMMA DvTermIs ==
    ASSUME NEW d \in Int
    PROVE  DvTerm(d) = IF d < -3 THEN -3 ELSE IF d > 6 THEN 6 ELSE d
<1>1. PICK m \in Int : m = Min({6, d}) /\ m = IF 6 <= d THEN 6 ELSE d
  BY MinOfTwo
<1>2. Max({-3, m}) = IF -3 >= m THEN -3 ELSE m
  BY MaxOfTwo
<1>. QED
  BY <1>1, <1>2 DEF DvTerm, Clamp

LEMMA ScoreType ==
    ASSUME NEW n \in Nat, NEW r \in Int, NEW a \in Int, NEW d \in Int, NEW b \in Int
    PROVE  ComputeScore(r, a, d, b, n) \in Int
<1>1. PICK m \in Nat : m = Span(n)
  BY MaxOfTwo DEF Span
<1>2. PICK t \in Int : t = DvTerm(d)
  BY DvTermIs
<1>. QED
  BY <1>1, <1>2 DEF ComputeScore

\* More of anything never lowers a score.
LEMMA ScoreMonotone ==
    ASSUME NEW n \in Nat,
           NEW r \in Int, NEW a \in Int, NEW d \in Int, NEW b \in Int,
           NEW r1 \in Int, NEW a1 \in Int, NEW d1 \in Int, NEW b1 \in Int,
           r >= r1, a >= a1, d >= d1, b >= b1
    PROVE  ComputeScore(r, a, d, b, n) >= ComputeScore(r1, a1, d1, b1, n)
<1>1. PICK m \in Nat : m = Span(n)
  BY MaxOfTwo DEF Span
<1>2. PICK t \in Int, t1 \in Int : t = DvTerm(d) /\ t1 = DvTerm(d1) /\ t >= t1
  BY DvTermIs
<1>3. PICK x \in Int, x1 \in Int :
          x = 20 * t + 60 * b /\ x1 = 20 * t1 + 60 * b1 /\ x >= x1
  BY <1>2
<1>4. 2 * m * x >= 2 * m * x1
  <2>1. \A p \in Nat, q \in Nat : p * q >= 0
    OBVIOUS
  <2>2. m * (x - x1) >= 0
    BY <1>3, <2>1
  <2>3. m * (x - x1) = m * x - m * x1
    OBVIOUS
  <2>. QED
    BY <2>2, <2>3
<1>5. /\ ComputeScore(r, a, d, b, n) = 6 * (45 * r + 35 * a) + 2 * m * x
      /\ ComputeScore(r1, a1, d1, b1, n) = 6 * (45 * r1 + 35 * a1) + 2 * m * x1
  BY <1>1, <1>2, <1>3 DEF ComputeScore
<1>6. PICK y \in Int, y1 \in Int : y = 2 * m * x /\ y1 = 2 * m * x1 /\ y >= y1
  BY <1>4
<1>. QED
  BY <1>5, <1>6

LEMMA MidrankMonotone ==
    ASSUME NEW v, IsFiniteSet(DOMAIN v), \A s \in DOMAIN v : v[s] \in Int,
           NEW s \in DOMAIN v, NEW o \in DOMAIN v, v[s] >= v[o]
    PROVE  Midrank(v, s) >= Midrank(v, o)
<1>1. CASE \E x : DOMAIN v = {x}
  <2>1. s = o /\ DOMAIN v = {o}
    BY <1>1
  <2>. QED
    BY <2>1 DEF Midrank
<1>2. CASE ~ \E x : DOMAIN v = {x}
  <2>1. /\ Midrank(v, s) = Cardinality(Below(v, v[s])) + Cardinality(UpTo(v, v[s])) - 1
        /\ Midrank(v, o) = Cardinality(Below(v, v[o])) + Cardinality(UpTo(v, v[o])) - 1
    BY <1>2 DEF Midrank, Below, UpTo
  <2>2. \A x : IsFiniteSet(Below(v, x)) /\ IsFiniteSet(UpTo(v, x))
    <3>1. \A x : Below(v, x) \in SUBSET DOMAIN v /\ UpTo(v, x) \in SUBSET DOMAIN v
      BY DEF Below, UpTo
    <3>. QED
      BY <3>1, FS_Subset
  <2>3. Below(v, v[o]) \in SUBSET Below(v, v[s]) /\ UpTo(v, v[o]) \in SUBSET UpTo(v, v[s])
    BY DEF Below, UpTo
  <2>4. /\ Cardinality(Below(v, v[o])) <= Cardinality(Below(v, v[s]))
        /\ Cardinality(UpTo(v, v[o])) <= Cardinality(UpTo(v, v[s]))
    BY <2>2, <2>3, FS_Subset
  <2>5. \A x : Cardinality(Below(v, x)) \in Nat /\ Cardinality(UpTo(v, x)) \in Nat
    BY <2>2, FS_CardinalityType
  <2>. QED
    BY <2>1, <2>4, <2>5
<1>. QED
  BY <1>1, <1>2

-----------------------------------------------------------------------------
(* Order books *)

\* The place of i among the numbers of H.
Nth(H, i) == Cardinality({j \in H : j <= i})

LEMMA NthCounts ==
    ASSUME NEW n \in Nat, NEW H, H \subseteq 1..n
    PROVE  /\ IsFiniteSet(H) /\ Cardinality(H) \in Nat
           /\ \A i \in H : Nth(H, i) \in 1..Cardinality(H)
           /\ \A i, j \in H : i < j => Nth(H, i) < Nth(H, j)
           /\ \A k \in 1..Cardinality(H) : \E i \in H : Nth(H, i) = k
<1>1. IsFiniteSet(1..n)
  BY FS_Interval
<1>2. IsFiniteSet(H) /\ Cardinality(H) \in Nat
  BY <1>1, FS_Subset, FS_CardinalityType
<1>3. PICK h \in Nat : h = Cardinality(H)
  BY <1>2
<1>4. \A i : /\ IsFiniteSet({j \in H : j <= i}) /\ Nth(H, i) \in Nat
             /\ Nth(H, i) <= Cardinality(H)
  <2>1. \A i : {j \in H : j <= i} \in SUBSET H
    OBVIOUS
  <2>. QED
    BY <1>2, <2>1, FS_Subset, FS_CardinalityType DEF Nth
<1>4a. \A i : Nth(H, i) \in Nat /\ Nth(H, i) <= h
  BY <1>3, <1>4, Zenon
<1>5. ASSUME NEW i \in H PROVE Nth(H, i) \in 1..h
  <2>1. i \in {j \in H : j <= i}
    OBVIOUS
  <2>2. Nth(H, i) # 0
    BY <1>4, <2>1, FS_EmptySet DEF Nth
  <2>. QED
    BY <1>4a, <2>2
<1>6. ASSUME NEW i \in H, NEW j \in H, i < j PROVE Nth(H, i) < Nth(H, j)
  <2>. DEFINE I == {k \in H : k <= i}
              J == {k \in H : k <= j}
  <2>0. i \in Int /\ j \in Int /\ \A k \in H : k \in Int
    OBVIOUS
  <2>1. I \in SUBSET J /\ j \in J /\ j \notin I
    <3>1. \A k \in H : k <= i => k <= j
      BY <1>6, <2>0
    <3>2. j <= j /\ ~(j <= i)
      BY <1>6, <2>0
    <3>. QED
      BY <3>1, <3>2
  <2>2. Cardinality(I) <= Cardinality(J) /\ Cardinality(I) # Cardinality(J)
    BY <1>4, <2>1, FS_Subset
  <2>3. Nth(H, i) = Cardinality(I) /\ Nth(H, j) = Cardinality(J)
    BY DEF Nth
  <2>. QED
    BY <1>4a, <2>2, <2>3
<1>7. ASSUME NEW k \in 1..h PROVE \E i \in H : Nth(H, i) = k
  <2>. DEFINE f == [i \in H |-> Nth(H, i)]
  <2>1. \A i, j \in H : Nth(H, i) = Nth(H, j) => i = j
    <3>. SUFFICES ASSUME NEW i \in H, NEW j \in H, Nth(H, i) = Nth(H, j), i # j PROVE FALSE
      OBVIOUS
    <3>1. i \in Int /\ j \in Int
      OBVIOUS
    <3>2. Nth(H, i) \in Int /\ Nth(H, j) \in Int
      BY <1>4a
    <3>3. i < j \/ j < i
      BY <3>1
    <3>. QED
      BY <1>6, <3>2, <3>3
  <2>2. f \in Injection(H, 1..h)
    BY <1>5, <2>1 DEF Injection, IsInjective
  <2>3. IsFiniteSet(1..h) /\ Cardinality(1..h) = h
    BY FS_Interval
  <2>4. f \in Surjection(H, 1..h)
    BY <1>3, <2>2, <2>3, FS_Injection
  <2>. QED
    BY <1>7, <2>4 DEF Surjection
<1>. QED
  BY <1>2, <1>3, <1>5, <1>6, <1>7

\* The rows at i of a ranking that pass the hard gates.
Hard(rows, ranking) == {i \in DOMAIN ranking : rows[ranking[i]].hard}

IsRanking(ranking, S) ==
    /\ ranking \in Seq(S) /\ DOMAIN ranking = 1..Len(ranking) /\ Len(ranking) \in Nat
    /\ \A i, j \in 1..Len(ranking) : ranking[i] = ranking[j] => i = j

\* The books are fetched for the first TopN that pass the hard gates, each once.
LEMMA CandidatesAre ==
    ASSUME NEW rows, NEW ranking, NEW S, IsRanking(ranking, S)
    PROVE  LET cs == BookCandidates(rows, ranking)
               H == Hard(rows, ranking)
           IN  /\ cs \in Seq(S) /\ Len(cs) \in Nat /\ DOMAIN cs = 1..Len(cs)
               /\ \A k, l \in 1..Len(cs) : cs[k] = cs[l] => k = l
               /\ ToSet(cs) = {ranking[i] : i \in {j \in H : Nth(H, j) <= TopN}}
<1>. DEFINE N == Len(ranking)
<1>1. PICK H : H = Hard(rows, ranking)
  OBVIOUS
<1>2. H \subseteq 1..N /\ N \in Nat
  BY <1>1 DEF Hard, IsRanking
<1>3. PICK h \in Nat : h = Cardinality(H)
  BY <1>2, NthCounts
<1>4. /\ \A i \in H : Nth(H, i) \in 1..h
      /\ \A i, j \in H : i < j => Nth(H, i) < Nth(H, j)
      /\ \A k \in 1..h : \E i \in H : Nth(H, i) = k
  BY <1>2, <1>3, NthCounts
<1>. DEFINE pos(k) == CHOOSE i \in H : Nth(H, i) = k
<1>5. \A k \in 1..h : pos(k) \in H /\ Nth(H, pos(k)) = k
  BY <1>4
<1>6. PICK m \in 0..h : m = Min({TopN, h}) /\ \A k \in 1..h : k <= m <=> k <= TopN
  <2>1. TopN \in Nat
    BY StoreAssumption
  <2>2. Min({TopN, h}) = IF TopN <= h THEN TopN ELSE h
    BY <2>1, MinOfTwo
  <2>. QED
    BY <2>1, <2>2
<1>7. BookCandidates(rows, ranking) = [k \in 1..m |-> ranking[pos(k)]]
  BY <1>1, <1>3, <1>6 DEF BookCandidates, Hard, Nth
<1>8. PICK cs : cs = BookCandidates(rows, ranking)
  OBVIOUS
<1>. HIDE DEF pos
<1>9. ASSUME NEW k \in 1..m
      PROVE  k \in 1..h /\ k <= TopN /\ pos(k) \in H /\ pos(k) \in 1..N /\ Nth(H, pos(k)) = k
  <2>1. k \in 1..h /\ k <= m
    OBVIOUS
  <2>2. pos(k) \in H /\ Nth(H, pos(k)) = k
    BY <1>5, <2>1
  <2>. QED
    BY <1>2, <1>6, <2>1, <2>2
<1>10. \A k \in 1..m : ranking[pos(k)] \in S
  BY <1>9 DEF IsRanking
<1>11. cs \in Seq(S) /\ Len(cs) = m /\ m \in Nat /\ DOMAIN cs = 1..m
  BY <1>7, <1>8, <1>10
<1>12. ASSUME NEW k \in 1..m, NEW l \in 1..m, cs[k] = cs[l] PROVE k = l
  <2>1. ranking[pos(k)] = ranking[pos(l)]
    BY <1>7, <1>8, <1>12
  <2>2. pos(k) = pos(l)
    BY <1>9, <2>1 DEF IsRanking
  <2>. QED
    BY <1>9, <2>2
<1>13. ASSUME NEW x \in ToSet(cs)
       PROVE  x \in {ranking[i] : i \in {j \in H : Nth(H, j) <= TopN}}
  <2>1. PICK k \in 1..m : x = ranking[pos(k)]
    BY <1>7, <1>8, <1>11, <1>13 DEF ToSet
  <2>2. pos(k) \in H /\ Nth(H, pos(k)) = k /\ k <= TopN
    BY <1>9
  <2>. QED
    BY <2>1, <2>2
<1>14. ASSUME NEW i \in H, Nth(H, i) <= TopN
       PROVE  ranking[i] \in ToSet(cs)
  <2>1. PICK k \in 1..h : k = Nth(H, i) /\ k <= m
    BY <1>4, <1>6, <1>14
  <2>2. pos(k) = i
    <3>1. PICK p \in H : p = pos(k) /\ Nth(H, p) = Nth(H, i)
      BY <1>5, <2>1
    <3>2. p \in Int /\ i \in Int /\ Nth(H, i) \in Int
      BY <1>2, <2>1
    <3>3. ~(p < i) /\ ~(i < p)
      BY <1>4, <3>1, <3>2
    <3>. QED
      BY <3>1, <3>2, <3>3
  <2>3. k \in 1..m
    BY <2>1
  <2>4. cs[k] = ranking[i]
    BY <1>7, <1>8, <2>2, <2>3
  <2>. QED
    BY <1>11, <2>3, <2>4 DEF ToSet
<1>15. ToSet(cs) = {ranking[i] : i \in {j \in H : Nth(H, j) <= TopN}}
  BY <1>13, <1>14
<1>. QED
  BY <1>1, <1>8, <1>11, <1>12, <1>15

-----------------------------------------------------------------------------
(* The ranking *)

Higher(v, at, s, o) == v[s] > v[o] \/ (v[s] = v[o] /\ at[s] < at[o])

LEMMA HighestFirst ==
    ASSUME NEW D, NEW v, NEW at
    PROVE  \E R : \A s, o \in D : <<s, o>> \in R <=> Higher(v, at, s, o)
<1>. DEFINE R == {p \in D \X D : Higher(v, at, p[1], p[2])}
<1>1. \A s, o \in D : <<s, o>> \in R <=> Higher(v, at, s, o)
  OBVIOUS
<1>. QED
  BY <1>1, Zenon

\* A ranking of rows has all of them, by falling score.
Ranks(ranking, rows) ==
    /\ IsRanking(ranking, DOMAIN rows)
    /\ \A i, j \in DOMAIN ranking :
           i < j => rows[ranking[i]].score >= rows[ranking[j]].score

LEMMA BestFirstRanks ==
    ASSUME NEW rows, NEW order, NEW X, order \in Seq(X), IsFiniteSet(DOMAIN rows),
           DOMAIN rows \subseteq ToSet(order), \A s \in DOMAIN rows : rows[s].score \in Int
    PROVE  Ranks(BestFirst(rows, order), rows)
<1>. DEFINE D == DOMAIN rows
            at == [s \in D |-> CHOOSE i \in DOMAIN order : order[i] = s]
            v == [s \in D |-> rows[s].score]
            P(items) == items \in SetToSeqs(D) /\ \A i, j \in DOMAIN items : i < j =>
                \/ rows[items[i]].score > rows[items[j]].score
                \/ rows[items[i]].score = rows[items[j]].score /\ at[items[i]] < at[items[j]]
<1>1. BestFirst(rows, order) = CHOOSE items : P(items)
  BY DEF BestFirst, Sorted
<1>2. \A s \in D : at[s] \in Nat /\ order[at[s]] = s
  <2>1. \A s \in D : \E i \in DOMAIN order : order[i] = s
    BY DEF ToSet
  <2>2. DOMAIN order \subseteq Nat
    OBVIOUS
  <2>. QED
    BY <2>1, <2>2
<1>3. \A s, o \in D : at[s] = at[o] => s = o
  BY <1>2
<1>4. \A s \in D : v[s] = rows[s].score /\ v[s] \in Int
  OBVIOUS
<1>. HIDE DEF at, v
<1>5. PICK R : \A s, o \in D : <<s, o>> \in R <=> Higher(v, at, s, o)
  BY HighestFirst, Zenon
<1>6. TotalOn(R, D)
  <2>1. \A s, o \in D : s # o => Higher(v, at, s, o) \/ Higher(v, at, o, s)
    BY <1>2, <1>3, <1>4 DEF Higher
  <2>. QED
    BY <1>5, <2>1, Zenon DEF TotalOn
<1>7. TransitiveOn(R, D)
  <2>1. \A s, o, u \in D :
            Higher(v, at, s, o) /\ Higher(v, at, o, u) => Higher(v, at, s, u)
    BY <1>2, <1>4 DEF Higher
  <2>. QED
    BY <1>5, <2>1, Zenon DEF TransitiveOn
<1>8. PICK items \in SetToSeqs(D) : InOrder(items, R)
  BY <1>6, <1>7, SortExists
<1>9. items \in [1..Cardinality(D) -> D]
  BY DEF SetToSeqs
<1>10. P(items)
  <2>. SUFFICES ASSUME NEW i \in DOMAIN items, NEW j \in DOMAIN items, i < j
                PROVE  \/ rows[items[i]].score > rows[items[j]].score
                       \/ rows[items[i]].score = rows[items[j]].score /\ at[items[i]] < at[items[j]]
    OBVIOUS
  <2>1. items[i] \in D /\ items[j] \in D /\ <<items[i], items[j]>> \in R
    BY <1>8, <1>9 DEF InOrder
  <2>2. Higher(v, at, items[i], items[j])
    BY <1>5, <2>1
  <2>. QED
    BY <1>4, <2>1, <2>2 DEF Higher
<1>. HIDE DEF P
<1>11. P(CHOOSE x : P(x))
  BY <1>10, Zenon
<1>12. PICK ranking : ranking = BestFirst(rows, order) /\ P(ranking)
  BY <1>1, <1>11
<1>13. ranking \in SetToSeqs(D)
  BY <1>12 DEF P
<1>14. /\ ranking \in Seq(D) /\ DOMAIN ranking = 1..Len(ranking) /\ Len(ranking) \in Nat
       /\ \A i, j \in 1..Len(ranking) : ranking[i] = ranking[j] => i = j
       /\ \A i \in 1..Len(ranking) : ranking[i] \in D
  <2>1. PICK c \in Nat : c = Cardinality(D)
    BY FS_CardinalityType
  <2>2. /\ ranking \in Seq(D) /\ Len(ranking) = c /\ DOMAIN ranking = 1..c
        /\ \A i, j \in 1..c : ranking[i] = ranking[j] => i = j
    BY <1>13, <2>1, ListsAll
  <2>. QED
    BY <2>2
<1>15. ASSUME NEW i \in DOMAIN ranking, NEW j \in DOMAIN ranking, i < j
       PROVE  rows[ranking[i]].score >= rows[ranking[j]].score
  <2>1. \/ rows[ranking[i]].score > rows[ranking[j]].score
        \/ rows[ranking[i]].score = rows[ranking[j]].score
    BY <1>12, <1>15 DEF P
  <2>2. rows[ranking[i]].score \in Int /\ rows[ranking[j]].score \in Int
    BY <1>14, <1>15
  <2>. QED
    BY <2>1, <2>2
<1>. QED
  BY <1>12, <1>14, <1>15 DEF Ranks, IsRanking

-----------------------------------------------------------------------------
(* The rows *)

RelOf(fs) == [s \in DOMAIN fs |-> fs[s].rel]
AccelOf(fs) == [s \in DOMAIN fs |-> fs[s].accel]

LEMMA FeatureType ==
    ASSUME NEW fs, NEW s, fs[s] \in Feature
    PROVE  /\ fs[s].rel \in Int /\ fs[s].accel \in Int /\ fs[s].dvz \in Int
           /\ fs[s].breakout \in Int
BY FeatureAssumption

LEMMA RowsAre ==
    ASSUME NEW fs, IsFiniteSet(DOMAIN fs), \A s \in DOMAIN fs : fs[s] \in Feature
    PROVE  LET rows == Rows(fs)
               n == Cardinality(DOMAIN fs)
           IN  /\ DOMAIN rows = DOMAIN fs /\ n \in Nat
               /\ rows = [s \in DOMAIN fs |->
                      [score |-> rows[s].score, rankRel |-> rows[s].rankRel,
                       rankAccel |-> rows[s].rankAccel, meets |-> rows[s].meets,
                       hard |-> rows[s].hard, spreadGate |-> None]]
               /\ \A s \in DOMAIN fs :
                      /\ rows[s].rankRel = Midrank(RelOf(fs), s) /\ rows[s].rankRel \in Int
                      /\ rows[s].rankAccel = Midrank(AccelOf(fs), s) /\ rows[s].rankAccel \in Int
                      /\ rows[s].score = ComputeScore(rows[s].rankRel, rows[s].rankAccel,
                                                      fs[s].dvz, fs[s].breakout, n)
                      /\ rows[s].score \in Int
                      /\ rows[s].meets <=> rows[s].score >= Threshold(EntryPercent, n)
                      /\ rows[s].hard \in BOOLEAN /\ rows[s].spreadGate = None
<1>. DEFINE rel == PercentileRanks(RelOf(fs))
            accel == PercentileRanks(AccelOf(fs))
            n == Cardinality(DOMAIN fs)
            score(s) == ComputeScore(rel[s], accel[s], fs[s].dvz, fs[s].breakout, n)
<1>1. n \in Nat
  BY FS_CardinalityType
<1>2. /\ DOMAIN RelOf(fs) = DOMAIN fs /\ DOMAIN AccelOf(fs) = DOMAIN fs
      /\ \A s \in DOMAIN fs : RelOf(fs)[s] \in Int /\ AccelOf(fs)[s] \in Int
  BY FeatureType DEF RelOf, AccelOf
<1>3. \A s \in DOMAIN fs : /\ rel[s] = Midrank(RelOf(fs), s) /\ rel[s] \in Int
                           /\ accel[s] = Midrank(AccelOf(fs), s) /\ accel[s] \in Int
  BY <1>2, PercentileRanksAre
<1>4. \A s \in DOMAIN fs : score(s) \in Int
  BY <1>1, <1>3, FeatureType, ScoreType
<1>5. Rows(fs) = [s \in DOMAIN fs |->
          [score |-> score(s), rankRel |-> rel[s], rankAccel |-> accel[s],
           meets |-> score(s) >= Threshold(EntryPercent, n),
           hard |-> HardGates(fs[s]), spreadGate |-> None]]
  BY DEF Rows, RelOf, AccelOf
<1>6. \A s : HardGates(fs[s]) \in BOOLEAN
  BY DEF HardGates
<1>. HIDE DEF rel, accel, n, score
<1>7. PICK rows : rows = Rows(fs)
  OBVIOUS
<1>8. \A s \in DOMAIN fs :
          /\ rows[s].rankRel = rel[s] /\ rows[s].rankAccel = accel[s]
          /\ rows[s].score = score(s) /\ rows[s].meets = (score(s) >= Threshold(EntryPercent, n))
          /\ rows[s].hard = HardGates(fs[s]) /\ rows[s].spreadGate = None
  BY <1>5, <1>7
<1>9. \A s \in DOMAIN fs :
          rows[s].score = ComputeScore(rows[s].rankRel, rows[s].rankAccel,
                                       fs[s].dvz, fs[s].breakout, n)
  BY <1>8 DEF score
<1>10. rows = [s \in DOMAIN fs |->
           [score |-> rows[s].score, rankRel |-> rows[s].rankRel,
            rankAccel |-> rows[s].rankAccel, meets |-> rows[s].meets,
            hard |-> rows[s].hard, spreadGate |-> None]]
  BY <1>5, <1>7, <1>8
<1>11. DOMAIN rows = DOMAIN fs
  BY <1>10
<1>. QED
  BY <1>1, <1>3, <1>4, <1>6, <1>7, <1>8, <1>9, <1>10, <1>11 DEF n

-----------------------------------------------------------------------------
(* The calls of the exchange client *)

Call == [at : {"none", "queued", "open", "waiting", "done", "failed"},
         tries : 0..MaxTries, last : {"none", "good", "wrong", "nothing"}]

Open == {s \in Symbol : call[s].at = "open"}

\* A queued call is once in the queue, and a call that is to make a request
\* still has a try left.
QueueInv ==
    /\ call \in [Symbol -> Call] /\ waiters \in Seq(Symbol)
    /\ \A i, j \in 1..Len(waiters) : waiters[i] = waiters[j] => i = j
    /\ \A s \in Symbol : call[s].at = "queued" <=> \E i \in 1..Len(waiters) : waiters[i] = s
    /\ \A s \in Symbol :
           /\ call[s].at \in {"none", "queued", "waiting"} => call[s].tries < MaxTries
           /\ call[s].at = "failed" => call[s].last = "wrong" \/ call[s].tries = MaxTries

SlotInv == IsFiniteSet(Open) /\ free \in 0..Slots /\ free + Cardinality(Open) = Slots

NoCalls == waiters = <<>> /\ \A s \in Symbol : call[s] = Client!NoCall

CallInv == QueueInv /\ SlotInv /\ (pc # "books" => NoCalls)

LEMMA NoCallIs ==
    /\ Client!NoCall \in Call /\ Client!NoCall.at = "none" /\ Client!NoCall.tries = 0
    /\ [Client!NoCall EXCEPT !.at = "queued"] = [at |-> "queued", tries |-> 0, last |-> "none"]
    /\ MaxTries \in Nat /\ MaxTries > 0 /\ Slots \in Nat /\ Slots > 0
BY ClientAssumption DEF Client!NoCall, Call

LEMMA CallsInit == Client!Init => QueueInv /\ SlotInv /\ NoCalls
<1>. SUFFICES ASSUME Client!Init PROVE QueueInv /\ SlotInv /\ NoCalls
  OBVIOUS
<1>1. call = [s \in Symbol |-> Client!NoCall] /\ free = Slots /\ waiters = <<>>
  BY DEF Client!Init
<1>2. \A s \in Symbol : call[s] = Client!NoCall
  BY <1>1
<1>3. call \in [Symbol -> Call] /\ waiters \in Seq(Symbol) /\ Len(waiters) = 0
  BY <1>1, NoCallIs
<1>4. \A s \in Symbol : call[s].at = "none" /\ call[s].tries < MaxTries
  BY <1>2, NoCallIs
<1>5. QueueInv
  BY <1>3, <1>4 DEF QueueInv
<1>6. Open = {}
  BY <1>4 DEF Open
<1>7. SlotInv
  BY <1>1, <1>6, FS_EmptySet, NoCallIs DEF SlotInv
<1>. QED
  BY <1>1, <1>2, <1>5, <1>7 DEF NoCalls

\* A step that leaves the open requests alone.
LEMMA SlotsStay ==
    ASSUME SlotInv, UNCHANGED free, \A s \in Symbol : call'[s].at = "open" <=> call[s].at = "open"
    PROVE  SlotInv'
<1>1. Open' = Open
  BY DEF Open
<1>. QED
  BY <1>1 DEF SlotInv

LEMMA BeginKeeps ==
    ASSUME QueueInv, SlotInv, NoCalls, NEW cs \in Seq(Symbol),
           \A k, l \in 1..Len(cs) : cs[k] = cs[l] => k = l, Client!Begin(cs)
    PROVE  QueueInv' /\ SlotInv'
<1>1. PICK S : S = ToSet(cs)
  OBVIOUS
<1>2. /\ call' = [s \in Symbol |-> IF s \in S THEN [Client!NoCall EXCEPT !.at = "queued"]
                                              ELSE call[s]]
      /\ waiters' = waiters \o cs /\ UNCHANGED free
  BY <1>1 DEF Client!Begin, Client!ToSet, ToSet
<1>3. waiters' = cs
  BY <1>2 DEF NoCalls
<1>4. \A s \in Symbol : s \in S <=> \E i \in 1..Len(cs) : cs[i] = s
  BY <1>1 DEF ToSet
<1>5. ASSUME NEW s \in Symbol
      PROVE  /\ call'[s] \in Call /\ call'[s].at # "open" /\ call'[s].at # "failed"
             /\ call'[s].at = "queued" <=> s \in S
             /\ call'[s].tries < MaxTries
  <2>1. call[s] = Client!NoCall
    BY DEF NoCalls
  <2>2. CASE s \in S
    <3>1. call'[s] = [at |-> "queued", tries |-> 0, last |-> "none"]
      BY <1>2, <2>2, NoCallIs
    <3>. QED
      BY <2>2, <3>1, NoCallIs DEF Call
  <2>3. CASE s \notin S
    <3>1. call'[s] = Client!NoCall
      BY <1>2, <2>1, <2>3
    <3>. QED
      BY <2>3, <3>1, NoCallIs
  <2>. QED
    BY <2>2, <2>3
<1>6. call' \in [Symbol -> Call]
  BY <1>2, <1>5
<1>7. QueueInv'
  BY <1>3, <1>4, <1>5, <1>6 DEF QueueInv
<1>8. \A s \in Symbol : call[s].at # "open"
  BY NoCallIs DEF NoCalls
<1>9. SlotInv'
  BY <1>2, <1>5, <1>8, SlotsStay
<1>. QED
  BY <1>7, <1>9

LEMMA SendKeeps ==
    ASSUME QueueInv, SlotInv, NEW c \in Symbol, Client!Send(c)
    PROVE  QueueInv' /\ SlotInv'
<1>1. /\ free > 0 /\ waiters # <<>> /\ c = Head(waiters)
      /\ free' = free - 1 /\ waiters' = Tail(waiters)
      /\ call' = [call EXCEPT ![c].at = "open", ![c].tries = @ + 1]
  BY DEF Client!Send
<1>2. PICK n \in Nat : n = Len(waiters) /\ n > 0
  BY <1>1 DEF QueueInv
<1>3. c = waiters[1] /\ call[c].at = "queued"
  <2>1. c = waiters[1]
    BY <1>1 DEF QueueInv
  <2>. QED
    BY <1>2, <2>1 DEF QueueInv
<1>4. /\ waiters' \in Seq(Symbol) /\ Len(waiters') = n - 1
      /\ \A i \in 1..(n - 1) : waiters'[i] = waiters[i + 1]
  BY <1>1, <1>2 DEF QueueInv
<1>5. call[c] \in Call /\ call[c].tries < MaxTries /\ call \in [Symbol -> Call]
  BY <1>3 DEF QueueInv
<1>6. /\ call'[c] = [at |-> "open", tries |-> call[c].tries + 1, last |-> call[c].last]
      /\ \A s \in Symbol : s # c => call'[s] = call[s]
  BY <1>1, <1>5 DEF Call
<1>7. call'[c] \in Call
  BY <1>5, <1>6, NoCallIs DEF Call
<1>8. call' \in [Symbol -> Call]
  BY <1>1, <1>5, <1>6, <1>7
<1>9. \A i, j \in 1..(n - 1) : waiters'[i] = waiters'[j] => i = j
  <2>. SUFFICES ASSUME NEW i \in 1..(n - 1), NEW j \in 1..(n - 1), waiters'[i] = waiters'[j]
                PROVE  i = j
    OBVIOUS
  <2>1. i + 1 \in 1..n /\ j + 1 \in 1..n /\ waiters[i + 1] = waiters[j + 1]
    BY <1>2, <1>4
  <2>2. i + 1 = j + 1
    BY <1>2, <2>1 DEF QueueInv
  <2>. QED
    BY <2>2
<1>10. ASSUME NEW s \in Symbol
       PROVE  call'[s].at = "queued" <=> \E i \in 1..(n - 1) : waiters'[i] = s
  <2>1. CASE s = c
    <3>1. \A i \in 1..(n - 1) : waiters'[i] # c
      <4>. SUFFICES ASSUME NEW i \in 1..(n - 1), waiters'[i] = c PROVE FALSE
        OBVIOUS
      <4>1. i + 1 \in 1..n /\ 1 \in 1..n /\ waiters[i + 1] = waiters[1]
        BY <1>2, <1>3, <1>4
      <4>2. i + 1 = 1
        BY <1>2, <4>1 DEF QueueInv
      <4>. QED
        BY <4>2
    <3>. QED
      BY <1>6, <2>1, <3>1
  <2>2. CASE s # c
    <3>1. call'[s] = call[s]
      BY <1>6, <2>2
    <3>2. call[s].at = "queued" <=> \E i \in 1..n : waiters[i] = s
      BY <1>2 DEF QueueInv
    <3>3. ASSUME NEW i \in 1..n, waiters[i] = s
          PROVE  \E k \in 1..(n - 1) : waiters'[k] = s
      <4>1. i # 1
        BY <1>3, <2>2, <3>3
      <4>2. i - 1 \in 1..(n - 1) /\ (i - 1) + 1 = i
        BY <1>2, <4>1
      <4>. QED
        BY <1>4, <3>3, <4>2
    <3>4. ASSUME NEW i \in 1..(n - 1), waiters'[i] = s
          PROVE  \E k \in 1..n : waiters[k] = s
      <4>1. i + 1 \in 1..n
        BY <1>2
      <4>. QED
        BY <1>4, <3>4, <4>1
    <3>. QED
      BY <3>1, <3>2, <3>3, <3>4
  <2>. QED
    BY <2>1, <2>2
<1>11. \A s \in Symbol :
           /\ call'[s].at \in {"none", "queued", "waiting"} => call'[s].tries < MaxTries
           /\ call'[s].at = "failed" => call'[s].last = "wrong" \/ call'[s].tries = MaxTries
  BY <1>6 DEF QueueInv
<1>12. QueueInv'
  BY <1>4, <1>8, <1>9, <1>10, <1>11 DEF QueueInv
<1>13. Open' = Open \cup {c} /\ c \notin Open
  BY <1>3, <1>6 DEF Open
<1>14. IsFiniteSet(Open') /\ Cardinality(Open') = Cardinality(Open) + 1
  BY <1>13, FS_AddElement DEF SlotInv
<1>15. Cardinality(Open) \in Nat
  BY FS_CardinalityType DEF SlotInv
<1>16. SlotInv'
  <2>1. free \in 0..Slots /\ free + Cardinality(Open) = Slots /\ Slots \in Nat
    BY NoCallIs DEF SlotInv
  <2>2. free' \in 0..Slots /\ free' + Cardinality(Open') = Slots
    BY <1>1, <1>14, <1>15, <2>1
  <2>. QED
    BY <1>14, <2>2 DEF SlotInv
<1>. QED
  BY <1>12, <1>16

LEMMA OverKeeps ==
    ASSUME QueueInv, SlotInv, NEW c \in Symbol,
           NEW at \in {"waiting", "done", "failed"}, NEW last \in {"good", "wrong", "nothing"},
           Client!Over(c, at, last),
           at = "waiting" => call[c].tries < MaxTries,
           at = "failed" => last = "wrong" \/ call[c].tries = MaxTries
    PROVE  QueueInv' /\ SlotInv'
<1>1. /\ call[c].at = "open" /\ call' = [call EXCEPT ![c].at = at, ![c].last = last]
      /\ free' = free + 1 /\ UNCHANGED waiters
  BY DEF Client!Over
<1>2. call[c] \in Call /\ call \in [Symbol -> Call]
  BY DEF QueueInv
<1>3. /\ call'[c] = [at |-> at, tries |-> call[c].tries, last |-> last]
      /\ \A s \in Symbol : s # c => call'[s] = call[s]
  BY <1>1, <1>2 DEF Call
<1>4. call'[c] \in Call
  BY <1>2, <1>3 DEF Call
<1>5. call' \in [Symbol -> Call]
  BY <1>1, <1>2, <1>3, <1>4
<1>6. \A s \in Symbol :
          /\ call'[s].at = "queued" <=> call[s].at = "queued"
          /\ call'[s].at \in {"none", "queued", "waiting"} => call'[s].tries < MaxTries
          /\ call'[s].at = "failed" => call'[s].last = "wrong" \/ call'[s].tries = MaxTries
  BY <1>1, <1>3 DEF QueueInv
<1>7. QueueInv'
  BY <1>1, <1>5, <1>6 DEF QueueInv
<1>8. Open' = Open \ {c} /\ c \in Open
  <2>1. call'[c].at # "open" /\ \A s \in Symbol : s # c => call'[s].at = call[s].at
    BY <1>3
  <2>. QED
    BY <1>1, <2>1 DEF Open
<1>9. IsFiniteSet(Open') /\ Cardinality(Open') = Cardinality(Open) - 1
  BY <1>8, FS_RemoveElement DEF SlotInv
<1>10. Cardinality(Open) \in Nat /\ Cardinality(Open') \in Nat
  BY <1>9, FS_CardinalityType DEF SlotInv
<1>11. SlotInv'
  <2>1. free \in 0..Slots /\ free + Cardinality(Open) = Slots /\ Slots \in Nat
    BY NoCallIs DEF SlotInv
  <2>2. free' \in 0..Slots /\ free' + Cardinality(Open') = Slots
    BY <1>1, <1>9, <1>10, <2>1
  <2>. QED
    BY <1>9, <2>2 DEF SlotInv
<1>. QED
  BY <1>7, <1>11

LEMMA TryAgainKeeps ==
    ASSUME QueueInv, SlotInv, NEW c \in Symbol, Client!TryAgain(c)
    PROVE  QueueInv' /\ SlotInv'
<1>1. /\ call[c].at = "waiting" /\ call' = [call EXCEPT ![c].at = "queued"]
      /\ waiters' = Append(waiters, c) /\ UNCHANGED free
  BY DEF Client!TryAgain
<1>2. call[c] \in Call /\ call \in [Symbol -> Call] /\ waiters \in Seq(Symbol)
  BY DEF QueueInv
<1>3. PICK n \in Nat : n = Len(waiters)
  BY <1>2
<1>4. /\ waiters' \in Seq(Symbol) /\ Len(waiters') = n + 1 /\ waiters'[n + 1] = c
      /\ \A i \in 1..n : waiters'[i] = waiters[i]
  BY <1>1, <1>2, <1>3
<1>5. /\ call'[c] = [at |-> "queued", tries |-> call[c].tries, last |-> call[c].last]
      /\ \A s \in Symbol : s # c => call'[s] = call[s]
  BY <1>1, <1>2 DEF Call
<1>6. call'[c] \in Call
  BY <1>2, <1>5 DEF Call
<1>7. call' \in [Symbol -> Call]
  BY <1>1, <1>2, <1>5, <1>6
<1>8. \A i \in 1..n : waiters[i] # c
  BY <1>1, <1>3 DEF QueueInv
<1>9. \A i \in 1..(n + 1) : i = n + 1 \/ i \in 1..n
  OBVIOUS
<1>10. \A i, j \in 1..(n + 1) : waiters'[i] = waiters'[j] => i = j
  BY <1>3, <1>4, <1>8, <1>9 DEF QueueInv
<1>11. ASSUME NEW s \in Symbol
       PROVE  call'[s].at = "queued" <=> \E i \in 1..(n + 1) : waiters'[i] = s
  <2>1. call[s].at = "queued" <=> \E i \in 1..n : waiters[i] = s
    BY <1>3 DEF QueueInv
  <2>2. CASE s = c
    BY <1>4, <1>5, <2>2
  <2>3. CASE s # c
    <3>1. call'[s].at = call[s].at
      BY <1>5, <2>3
    <3>2. \A i \in 1..n : i \in 1..(n + 1)
      OBVIOUS
    <3>. QED
      BY <1>4, <1>9, <2>1, <2>3, <3>1, <3>2
  <2>. QED
    BY <2>2, <2>3
<1>12. \A s \in Symbol :
           /\ call'[s].at \in {"none", "queued", "waiting"} => call'[s].tries < MaxTries
           /\ call'[s].at = "failed" => call'[s].last = "wrong" \/ call'[s].tries = MaxTries
  <2>0. call[c].at = "waiting"
    BY <1>1
  <2>1. call'[c].at = "queued" /\ call'[c].tries < MaxTries
    BY <1>5, <2>0 DEF QueueInv
  <2>2. \A s \in Symbol : s # c => call'[s] = call[s]
    BY <1>5
  <2>. QED
    BY <2>1, <2>2 DEF QueueInv
<1>13. QueueInv'
  BY <1>4, <1>7, <1>10, <1>11, <1>12 DEF QueueInv
<1>14. SlotInv'
  BY <1>1, <1>5, SlotsStay
<1>. QED
  BY <1>13, <1>14

LEMMA CollectKeeps ==
    ASSUME QueueInv, SlotInv, Client!Collect
    PROVE  QueueInv' /\ SlotInv' /\ NoCalls'
<1>1. /\ \A s \in Symbol : call[s].at \in {"none", "done", "failed"}
      /\ call' = [s \in Symbol |-> Client!NoCall] /\ UNCHANGED <<free, waiters>>
  BY DEF Client!Collect
<1>2. \A s \in Symbol : call'[s] = Client!NoCall
  BY <1>1
<1>3. waiters = <<>>
  <2>. SUFFICES ASSUME waiters # <<>> PROVE FALSE
    OBVIOUS
  <2>1. 1 \in 1..Len(waiters) /\ waiters[1] \in Symbol
    BY DEF QueueInv
  <2>2. call[waiters[1]].at = "queued"
    BY <2>1 DEF QueueInv
  <2>. QED
    BY <1>1, <2>1, <2>2
<1>4. call' \in [Symbol -> Call] /\ waiters' \in Seq(Symbol) /\ Len(waiters') = 0
  BY <1>1, <1>3, NoCallIs
<1>5. \A s \in Symbol : call'[s].at = "none" /\ call'[s].tries < MaxTries
  BY <1>2, NoCallIs
<1>6. QueueInv'
  BY <1>4, <1>5 DEF QueueInv
<1>7. SlotInv'
  BY <1>1, <1>5, SlotsStay
<1>. QED
  BY <1>1, <1>2, <1>3, <1>6, <1>7 DEF NoCalls

-----------------------------------------------------------------------------
(* Snapshots and their books *)

Checked(rows, ranking) ==
    [s \in DOMAIN rows |-> IF s \in ToSet(BookCandidates(rows, ranking))
                           THEN [rows[s] EXCEPT !.spreadGate = SpreadOk(s)] ELSE rows[s]]

FromFeatures ==
    /\ IsFiniteSet(DOMAIN snap.features) /\ DOMAIN snap.features \subseteq Members(snap.universe)
    /\ \A s \in DOMAIN snap.features : snap.features[s] \in Feature
    /\ snap.ranking = BestFirst(Rows(snap.features), snap.universe.order)

\* A snapshot's rows and ranking are those of its features, and once it is
\* shown the answers to the books of the best are in.
RankInv ==
    /\ pc \in {"idle", "loaded"} \/ snap.failed => snap.features = <<>> /\ snap.ranking = <<>>
    /\ pc = "books" => FromFeatures /\ snap.rows = Rows(snap.features)
    /\ pc = "shown" /\ ~snap.failed =>
           FromFeatures /\ snap.rows = Checked(Rows(snap.features), snap.ranking)

BookInv == RankInv /\ CallInv

LEMMA MembersFinite ==
    ASSUME NEW u \in Universe
    PROVE  IsFiniteSet(Members(u))
<1>1. PICK order \in Seq(Symbol) : order = u.order
  BY UniverseAssumption
<1>2. order \in Surjection(1..Len(order), ToSet(order))
  BY DEF Surjection, ToSet
<1>3. IsFiniteSet(1..Len(order))
  BY FS_Interval
<1>. QED
  BY <1>1, <1>2, <1>3, FS_Surjection DEF Members

LEMMA RankingIs ==
    ASSUME FromFeatures, snap.universe \in Universe
    PROVE  /\ Ranks(snap.ranking, Rows(snap.features))
           /\ DOMAIN Rows(snap.features) = DOMAIN snap.features
           /\ DOMAIN snap.features \subseteq Symbol
<1>1. PICK rows : rows = Rows(snap.features)
  OBVIOUS
<1>2. DOMAIN rows = DOMAIN snap.features /\ \A s \in DOMAIN rows : rows[s].score \in Int
  BY <1>1, RowsAre DEF FromFeatures
<1>3. snap.universe.order \in Seq(Symbol)
  BY UniverseAssumption
<1>4. DOMAIN rows \subseteq ToSet(snap.universe.order)
  BY <1>2 DEF FromFeatures, Members
<1>5. Ranks(BestFirst(rows, snap.universe.order), rows)
  BY <1>2, <1>3, <1>4, BestFirstRanks DEF FromFeatures
<1>6. DOMAIN snap.features \subseteq Symbol
  BY MembersAreSymbols DEF FromFeatures
<1>. QED
  BY <1>1, <1>2, <1>5, <1>6 DEF FromFeatures

LEMMA BooksInit == Init => BookInv
<1>. SUFFICES ASSUME Init PROVE BookInv
  OBVIOUS
<1>1. CallInv
  BY CallsInit DEF Init, CallInv
<1>2. RankInv
  BY DEF Init, NoSnap, RankInv
<1>. QED
  BY <1>1, <1>2 DEF BookInv

LEMMA ComputeRanks ==
    ASSUME SignalInv, Compute
    PROVE  FromFeatures' /\ snap'.rows = Rows(snap'.features)
           /\ Client!Begin(BookCandidates(snap'.rows, snap'.ranking))
<1>1. PICK S \in SUBSET Ready \ {{}} : \E fs \in [S -> Feature] :
          LET rows == Rows(fs)
              ranking == BestFirst(rows, snap.universe.order)
          IN  /\ snap' = [snap EXCEPT
                     !.t0 = Newest(Base), !.rows = rows, !.ranking = ranking,
                     !.at = minute, !.starved = Candidates \ Ready, !.features = fs]
              /\ Client!Begin(BookCandidates(rows, ranking))
  BY DEF Compute
<1>2. PICK fs \in [S -> Feature] :
          /\ snap' = [snap EXCEPT
                 !.t0 = Newest(Base), !.rows = Rows(fs),
                 !.ranking = BestFirst(Rows(fs), snap.universe.order),
                 !.at = minute, !.starved = Candidates \ Ready, !.features = fs]
          /\ Client!Begin(BookCandidates(Rows(fs), BestFirst(Rows(fs), snap.universe.order)))
  BY <1>1, Zenon
<1>3. /\ snap'.features = fs /\ snap'.rows = Rows(fs) /\ snap'.universe = snap.universe
      /\ snap'.ranking = BestFirst(Rows(fs), snap.universe.order)
  BY <1>2 DEF SignalInv, SnapInv, SnapFields
<1>4. DOMAIN fs = S /\ \A s \in DOMAIN fs : fs[s] \in Feature
  OBVIOUS
<1>5. S \subseteq Members(snap.universe)
  BY DEF Ready, Candidates
<1>6. snap.universe \in Universe
  BY DEF Compute, SignalInv, SnapInv
<1>7. IsFiniteSet(S)
  BY <1>5, <1>6, MembersFinite, FS_Subset
<1>8. FromFeatures'
  BY <1>3, <1>4, <1>5, <1>7 DEF FromFeatures
<1>. QED
  BY <1>2, <1>3, <1>8

LEMMA BooksStep == SignalInv /\ BookInv /\ [Next]_vars => BookInv'
<1>. SUFFICES ASSUME SignalInv, BookInv, [Next]_vars PROVE BookInv'
  OBVIOUS
<1>1. ASSUME UNCHANGED client, pc = "books" => pc' = "books" PROVE CallInv'
  BY <1>1 DEF client, BookInv, CallInv, QueueInv, SlotInv, Open, NoCalls
<1>2. ASSUME UNCHANGED <<pc, snap, books>> PROVE RankInv'
  BY <1>2 DEF BookInv, RankInv, FromFeatures, Checked, SpreadOk
<1>3. CASE LoadUniverse
  <2>1. CallInv'
    BY <1>1, <1>3 DEF LoadUniverse
  <2>2. RankInv'
    BY <1>3 DEF LoadUniverse, NoSnap, RankInv
  <2>. QED
    BY <2>1, <2>2 DEF BookInv
<1>4. CASE Fail
  <2>1. CallInv'
    BY <1>1, <1>4 DEF Fail
  <2>2. /\ pc = "loaded" /\ pc' = "shown" /\ snap'.failed
        /\ snap'.features = snap.features /\ snap'.ranking = snap.ranking
    BY <1>4 DEF Fail, SignalInv, SnapInv, SnapFields
  <2>3. RankInv'
    BY <2>2 DEF BookInv, RankInv
  <2>. QED
    BY <2>1, <2>3 DEF BookInv
<1>5. CASE Compute
  <2>1. pc = "loaded" /\ pc' = "books"
    BY <1>5 DEF Compute
  <2>2. SignalInv'
    BY SignalStep
  <2>3. /\ FromFeatures' /\ snap'.rows = Rows(snap'.features)
        /\ Client!Begin(BookCandidates(snap'.rows, snap'.ranking))
    BY <1>5, ComputeRanks
  <2>4. snap'.universe \in Universe /\ ~snap'.failed
    BY <2>1, <2>2 DEF SignalInv, SnapInv
  <2>5. RankInv'
    BY <2>1, <2>3, <2>4 DEF RankInv
  <2>6. /\ Ranks(snap'.ranking, Rows(snap'.features))
        /\ DOMAIN Rows(snap'.features) \subseteq Symbol
    <3>1. (FromFeatures /\ snap.universe \in Universe =>
              /\ Ranks(snap.ranking, Rows(snap.features))
              /\ DOMAIN Rows(snap.features) = DOMAIN snap.features
              /\ DOMAIN snap.features \subseteq Symbol)'
      BY RankingIs, PTL
    <3>. QED
      BY <2>3, <2>4, <3>1
  <2>7. PICK rows, ranking : rows = snap'.rows /\ ranking = snap'.ranking
    OBVIOUS
  <2>8. IsRanking(ranking, Symbol)
    BY <2>3, <2>6, <2>7 DEF Ranks, IsRanking
  <2>9. /\ BookCandidates(rows, ranking) \in Seq(Symbol)
        /\ \A k, l \in 1..Len(BookCandidates(rows, ranking)) :
               BookCandidates(rows, ranking)[k] = BookCandidates(rows, ranking)[l] => k = l
    BY <2>8, CandidatesAre
  <2>10. QueueInv' /\ SlotInv'
    BY <2>1, <2>3, <2>7, <2>9, BeginKeeps DEF BookInv, CallInv
  <2>. QED
    BY <2>1, <2>5, <2>10 DEF BookInv, CallInv
<1>6. ASSUME NEW s \in Symbol, FetchBook(s) PROVE BookInv'
  <2>1. pc = "books" /\ UNCHANGED <<pc, snap>>
    BY <1>6 DEF FetchBook
  <2>2. RankInv'
    BY <2>1 DEF BookInv, RankInv, FromFeatures
  <2>3. QueueInv' /\ SlotInv'
    <3>1. CASE Client!Send(s)
      BY <3>1, SendKeeps DEF BookInv, CallInv
    <3>2. CASE Client!TryAgain(s)
      BY <3>2, TryAgainKeeps DEF BookInv, CallInv
    <3>3. CASE Client!Succeed(s)
      BY <3>3, OverKeeps DEF BookInv, CallInv, Client!Succeed
    <3>4. CASE Client!Refuse(s)
      BY <3>4, OverKeeps DEF BookInv, CallInv, Client!Refuse
    <3>5. CASE Client!Miss(s)
      <4>1. call[s].tries \in 0..MaxTries /\ MaxTries \in Nat
        BY NoCallIs DEF BookInv, CallInv, QueueInv, Call
      <4>2. CASE call[s].tries < MaxTries
        BY <3>5, <4>2, OverKeeps DEF BookInv, CallInv, Client!Miss
      <4>3. CASE ~(call[s].tries < MaxTries)
        <5>1. call[s].tries = MaxTries
          BY <4>1, <4>3
        <5>. QED
          BY <3>5, <4>3, <5>1, OverKeeps DEF BookInv, CallInv, Client!Miss
      <4>. QED
        BY <4>2, <4>3
    <3>. QED
      BY <1>6, <3>1, <3>2, <3>3, <3>4, <3>5 DEF FetchBook
  <2>. QED
    BY <2>1, <2>2, <2>3 DEF BookInv, CallInv
<1>7. CASE Finish
  <2>1. pc = "books" /\ pc' = "shown" /\ UNCHANGED books /\ Client!Collect
    BY <1>7 DEF Finish
  <2>2. QueueInv' /\ SlotInv' /\ NoCalls'
    BY <2>1, CollectKeeps DEF BookInv, CallInv
  <2>3. /\ snap' = [snap EXCEPT !.rows = Checked(snap.rows, snap.ranking)]
    BY <1>7 DEF Finish, Checked
  <2>4. /\ snap'.rows = Checked(snap.rows, snap.ranking) /\ snap'.ranking = snap.ranking
        /\ snap'.features = snap.features /\ snap'.failed = snap.failed
        /\ snap'.universe = snap.universe
    BY <2>3 DEF SignalInv, SnapInv, SnapFields
  <2>5. FromFeatures' /\ ~snap.failed
    BY <2>1, <2>4 DEF BookInv, RankInv, FromFeatures, SignalInv, SnapInv
  <2>6. Checked(Rows(snap.features), snap.ranking)' = Checked(Rows(snap.features), snap.ranking)
    BY <2>1, <2>4 DEF Checked, SpreadOk
  <2>7. snap'.rows = Checked(Rows(snap.features), snap.ranking)'
    BY <2>1, <2>4, <2>6 DEF BookInv, RankInv
  <2>8. RankInv'
    BY <2>1, <2>4, <2>5, <2>7 DEF RankInv
  <2>. QED
    BY <2>1, <2>2, <2>8 DEF BookInv, CallInv
<1>8. CASE HandOver
  <2>1. CallInv'
    BY <1>1, <1>8 DEF HandOver
  <2>2. RankInv'
    BY <1>8 DEF HandOver, NoSnap, RankInv
  <2>. QED
    BY <2>1, <2>2 DEF BookInv
<1>9. ASSUME NEW ok \in SUBSET Symbol, Minute(ok) PROVE BookInv'
  BY <1>1, <1>2, <1>9 DEF Minute, BookInv
<1>10. CASE RefreshUniverse
  BY <1>1, <1>2, <1>10 DEF RefreshUniverse, BookInv
<1>11. CASE UNCHANGED vars
  BY <1>1, <1>2, <1>11 DEF vars, BookInv
<1>. QED
  BY <1>3, <1>4, <1>5, <1>6, <1>7, <1>8, <1>9, <1>10, <1>11 DEF Next

THEOREM BooksCorrect == Spec => []BookInv
BY SignalsCorrect, BooksInit, BooksStep, PTL DEF Spec

-----------------------------------------------------------------------------
(* What a snapshot shows of its ranks, its books and its calls *)

LEMMA ShownRows ==
    ASSUME SignalInv, BookInv, pc = "shown", ~snap.failed
    PROVE  LET rows == Rows(snap.features)
           IN  /\ Ranks(snap.ranking, rows) /\ FromFeatures
               /\ DOMAIN rows = DOMAIN snap.features
               /\ \A s \in DOMAIN snap.features :
                      /\ snap.rows[s].score = rows[s].score
                      /\ snap.rows[s].rankRel = rows[s].rankRel
                      /\ snap.rows[s].rankAccel = rows[s].rankAccel
                      /\ snap.rows[s].meets = rows[s].meets
                      /\ snap.rows[s].hard = rows[s].hard
                      /\ snap.rows[s].spreadGate =
                             IF s \in ToSet(BookCandidates(rows, snap.ranking))
                             THEN SpreadOk(s) ELSE None
<1>1. FromFeatures /\ snap.rows = Checked(Rows(snap.features), snap.ranking)
  BY DEF BookInv, RankInv
<1>2. snap.universe \in Universe
  BY DEF SignalInv, SnapInv
<1>3. Ranks(snap.ranking, Rows(snap.features))
  BY <1>1, <1>2, RankingIs
<1>4. PICK rows, cs : rows = Rows(snap.features) /\ cs = ToSet(BookCandidates(rows, snap.ranking))
  OBVIOUS
<1>5. DOMAIN rows = DOMAIN snap.features
  BY <1>1, <1>4, RowsAre DEF FromFeatures
<1>6. ASSUME NEW s \in DOMAIN snap.features
      PROVE  /\ snap.rows[s].score = rows[s].score
             /\ snap.rows[s].rankRel = rows[s].rankRel
             /\ snap.rows[s].rankAccel = rows[s].rankAccel
             /\ snap.rows[s].meets = rows[s].meets
             /\ snap.rows[s].hard = rows[s].hard
             /\ snap.rows[s].spreadGate = IF s \in cs THEN SpreadOk(s) ELSE None
  <2>1. snap.rows[s] = IF s \in cs THEN [rows[s] EXCEPT !.spreadGate = SpreadOk(s)] ELSE rows[s]
    BY <1>1, <1>4, <1>5 DEF Checked
  <2>2. rows = [o \in DOMAIN snap.features |->
                   [score |-> rows[o].score, rankRel |-> rows[o].rankRel,
                    rankAccel |-> rows[o].rankAccel, meets |-> rows[o].meets,
                    hard |-> rows[o].hard, spreadGate |-> None]]
    BY <1>1, <1>4, RowsAre DEF FromFeatures
  <2>3. PICK row : row = rows[s]
    OBVIOUS
  <2>4. row = [score |-> row.score, rankRel |-> row.rankRel, rankAccel |-> row.rankAccel,
               meets |-> row.meets, hard |-> row.hard, spreadGate |-> None]
    BY <2>2, <2>3
  <2>5. CASE s \in cs
    <3>1. snap.rows[s] = [row EXCEPT !.spreadGate = SpreadOk(s)]
      BY <2>1, <2>3, <2>5
    <3>. QED
      BY <2>3, <2>4, <2>5, <3>1
  <2>6. CASE s \notin cs
    BY <2>1, <2>3, <2>4, <2>6
  <2>. QED
    BY <2>5, <2>6
<1>. QED
  BY <1>1, <1>3, <1>4, <1>5, <1>6

\* A call is given up only when an answer said it is wrong or all tries were
\* made, and no slot is lost or given twice, for any number of slots, tries and
\* symbols (ExchangeClient.get_json, _semaphore).
THEOREM CallsEnd == Spec => []CallsEndInOrder
<1>1. ASSUME BookInv PROVE CallsEndInOrder
  <2>1. QueueInv /\ SlotInv
    BY <1>1 DEF BookInv, CallInv
  <2>2. {s \in Symbol : call[s].at = "open"} = Open
    BY DEF Open
  <2>3. Client!ToSet(waiters) = {s \in Symbol : call[s].at = "queued"}
    <3>1. Client!ToSet(waiters) = {waiters[i] : i \in 1..Len(waiters)}
      BY <2>1 DEF QueueInv, Client!ToSet
    <3>2. \A i \in 1..Len(waiters) : waiters[i] \in Symbol
      BY <2>1 DEF QueueInv
    <3>3. \A s \in Symbol : call[s].at = "queued" <=> \E i \in 1..Len(waiters) : waiters[i] = s
      BY <2>1 DEF QueueInv
    <3>. QED
      BY <3>1, <3>2, <3>3
  <2>4. free \in 0..Slots /\ free + Cardinality({s \in Symbol : call[s].at = "open"}) = Slots
    BY <2>1, <2>2 DEF SlotInv
  <2>5. \A s \in Symbol :
            call[s].at = "failed" => call[s].last = "wrong" \/ call[s].tries = MaxTries
    BY <2>1 DEF QueueInv
  <2>. QED
    BY <2>3, <2>4, <2>5 DEF CallsEndInOrder, Client!CallsEndInOrder, Client!Cardinality, Cardinality
<1>. QED
  BY BooksCorrect, <1>1, PTL

\* The percentile of a symbol is its midrank, whatever order the sort leaves
\* equal values in, for any features (percentile_ranks).
THEOREM RanksRight == Spec => []RanksAreMidranks
<1>1. ASSUME SignalInv, BookInv, pc = "shown", NEW s \in DOMAIN snap.features
      PROVE  /\ snap.rows[s].rankRel = Midrank(RelOf(snap.features), s)
             /\ snap.rows[s].rankAccel = Midrank(AccelOf(snap.features), s)
  <2>1. CASE snap.failed
    <3>1. snap.features = <<>>
      BY <1>1, <2>1 DEF BookInv, RankInv
    <3>. QED
      BY <1>1, <3>1
  <2>2. CASE ~snap.failed
    <3>1. PICK rows : rows = Rows(snap.features)
      OBVIOUS
    <3>2. /\ snap.rows[s].rankRel = rows[s].rankRel /\ snap.rows[s].rankAccel = rows[s].rankAccel
          /\ FromFeatures
      BY <1>1, <2>2, <3>1, ShownRows
    <3>3. /\ rows[s].rankRel = Midrank(RelOf(snap.features), s)
          /\ rows[s].rankAccel = Midrank(AccelOf(snap.features), s)
      BY <3>1, <3>2, RowsAre DEF FromFeatures
    <3>. QED
      BY <3>2, <3>3
  <2>. QED
    BY <2>1, <2>2
<1>2. SignalInv /\ BookInv => RanksAreMidranks
  BY <1>1 DEF RanksAreMidranks, RelOf, AccelOf
<1>. QED
  BY SignalsCorrect, BooksCorrect, <1>2, PTL

\* Who is at least as good in everything is not behind, and passes the entry
\* threshold if the other does, for any features and threshold (compute_score,
\* the sort in build_snapshot).
THEOREM BetterFirst == Spec => []BetterNotBehind
<1>1. ASSUME SignalInv, BookInv, pc = "shown",
             NEW i \in DOMAIN snap.ranking, NEW j \in DOMAIN snap.ranking,
             AsGood(snap.features[snap.ranking[i]], snap.features[snap.ranking[j]])
      PROVE  LET s == snap.ranking[i]  o == snap.ranking[j]
             IN  /\ snap.rows[o].meets => snap.rows[s].meets
                 /\ snap.rows[s].score = snap.rows[o].score \/ i < j
  <2>1. CASE snap.failed
    <3>1. snap.ranking = <<>>
      BY <1>1, <2>1 DEF BookInv, RankInv
    <3>. QED
      BY <1>1, <3>1
  <2>2. CASE ~snap.failed
    <3>1. PICK rows, fs, n, s, o :
              /\ rows = Rows(snap.features) /\ fs = snap.features
              /\ n = Cardinality(DOMAIN fs) /\ s = snap.ranking[i] /\ o = snap.ranking[j]
      OBVIOUS
    <3>2. Ranks(snap.ranking, rows) /\ FromFeatures /\ DOMAIN rows = DOMAIN fs
      BY <1>1, <2>2, <3>1, ShownRows
    <3>3. s \in DOMAIN fs /\ o \in DOMAIN fs
      BY <3>1, <3>2 DEF Ranks, IsRanking
    <3>4. /\ snap.rows[s].score = rows[s].score /\ snap.rows[o].score = rows[o].score
          /\ snap.rows[s].meets = rows[s].meets /\ snap.rows[o].meets = rows[o].meets
      BY <1>1, <2>2, <3>1, <3>3, ShownRows
    <3>5. /\ n \in Nat
          /\ \A x \in DOMAIN fs :
                 /\ rows[x].rankRel = Midrank(RelOf(fs), x) /\ rows[x].rankRel \in Int
                 /\ rows[x].rankAccel = Midrank(AccelOf(fs), x) /\ rows[x].rankAccel \in Int
                 /\ rows[x].score = ComputeScore(rows[x].rankRel, rows[x].rankAccel,
                                                 fs[x].dvz, fs[x].breakout, n)
                 /\ rows[x].score \in Int
                 /\ rows[x].meets <=> rows[x].score >= Threshold(EntryPercent, n)
      BY <3>1, <3>2, RowsAre DEF FromFeatures
    <3>6. \A x \in DOMAIN fs : fs[x] \in Feature
      BY <3>1, <3>2 DEF FromFeatures
    <3>7. /\ fs[s].rel >= fs[o].rel /\ fs[s].accel >= fs[o].accel
          /\ fs[s].dvz >= fs[o].dvz /\ fs[s].breakout >= fs[o].breakout
      BY <1>1, <3>1 DEF AsGood
    <3>8. /\ DOMAIN RelOf(fs) = DOMAIN fs /\ DOMAIN AccelOf(fs) = DOMAIN fs
          /\ \A x \in DOMAIN fs : /\ RelOf(fs)[x] = fs[x].rel /\ RelOf(fs)[x] \in Int
                                  /\ AccelOf(fs)[x] = fs[x].accel /\ AccelOf(fs)[x] \in Int
      BY <3>6, FeatureType DEF RelOf, AccelOf
    <3>9. IsFiniteSet(DOMAIN fs)
      BY <3>1, <3>2 DEF FromFeatures
    <3>10. /\ Midrank(RelOf(fs), s) >= Midrank(RelOf(fs), o)
           /\ Midrank(AccelOf(fs), s) >= Midrank(AccelOf(fs), o)
      BY <3>3, <3>7, <3>8, <3>9, MidrankMonotone
    <3>11. \A x \in DOMAIN fs : fs[x].dvz \in Int /\ fs[x].breakout \in Int
      BY <3>6, FeatureType
    <3>12. rows[s].score >= rows[o].score
      <4>1. PICK x, y : x = rows[s] /\ y = rows[o]
        OBVIOUS
      <4>2. /\ x.rankRel \in Int /\ x.rankAccel \in Int /\ y.rankRel \in Int /\ y.rankAccel \in Int
            /\ x.rankRel >= y.rankRel /\ x.rankAccel >= y.rankAccel
        BY <3>3, <3>5, <3>10, <4>1
      <4>3. /\ x.score = ComputeScore(x.rankRel, x.rankAccel, fs[s].dvz, fs[s].breakout, n)
            /\ y.score = ComputeScore(y.rankRel, y.rankAccel, fs[o].dvz, fs[o].breakout, n)
        BY <3>3, <3>5, <4>1
      <4>4. /\ fs[s].dvz \in Int /\ fs[s].breakout \in Int
            /\ fs[o].dvz \in Int /\ fs[o].breakout \in Int
        BY <3>3, <3>11
      <4>5. n \in Nat
        BY <3>5
      <4>6. ComputeScore(x.rankRel, x.rankAccel, fs[s].dvz, fs[s].breakout, n)
                >= ComputeScore(y.rankRel, y.rankAccel, fs[o].dvz, fs[o].breakout, n)
        BY <3>7, <4>2, <4>4, <4>5, ScoreMonotone
      <4>. QED
        BY <4>1, <4>3, <4>6
    <3>13. Threshold(EntryPercent, n) \in Int
      <4>1. PICK m \in Nat : m = Span(n)
        BY <3>5, MaxOfTwo DEF Span
      <4>. QED
        BY <4>1, GateAssumption DEF Threshold
    <3>14. rows[o].meets => rows[s].meets
      BY <3>3, <3>5, <3>12, <3>13
    <3>15. rows[s].score = rows[o].score \/ i < j
      <4>. SUFFICES ASSUME rows[s].score # rows[o].score PROVE i < j
        OBVIOUS
      <4>1. rows[s].score > rows[o].score
        BY <3>3, <3>5, <3>12
      <4>2. i \in Nat /\ j \in Nat
        BY <3>2 DEF Ranks, IsRanking
      <4>3. i # j
        BY <3>1
      <4>4. ~(j < i)
        <5>. SUFFICES ASSUME j < i PROVE FALSE
          OBVIOUS
        <5>1. rows[o].score >= rows[s].score
          BY <3>1, <3>2 DEF Ranks
        <5>. QED
          BY <3>3, <3>5, <4>1, <5>1
      <4>. QED
        BY <4>2, <4>3, <4>4
    <3>. QED
      BY <3>1, <3>4, <3>14, <3>15
  <2>. QED
    BY <2>1, <2>2
<1>2. SignalInv /\ BookInv => BetterNotBehind
  BY <1>1 DEF BetterNotBehind
<1>. QED
  BY SignalsCorrect, BooksCorrect, <1>2, PTL

\* Books are spent on the best, for any TopN: a row that passes the hard gates
\* and was not checked has TopN checked ones before it, and a checked one passes
\* only with a narrow book of its own (_check_spreads).
THEOREM BestChecked == Spec => []BestAreChecked
<1>1. ASSUME SignalInv, BookInv, pc = "shown", NEW j \in DOMAIN snap.ranking
      PROVE  LET row(i) == snap.rows[snap.ranking[i]]
             IN  /\ row(j).hard /\ row(j).spreadGate = None =>
                        Cardinality({i \in 1..(j - 1) : row(i).spreadGate # None}) = TopN
                 /\ row(j).spreadGate = TRUE =>
                        snap.ranking[j] \in DOMAIN books /\ books[snap.ranking[j]] = "narrow"
  <2>1. CASE snap.failed
    <3>1. snap.ranking = <<>>
      BY <1>1, <2>1 DEF BookInv, RankInv
    <3>. QED
      BY <1>1, <3>1
  <2>2. CASE ~snap.failed
    <3>1. PICK rows, ranking, N, H, chosen :
              /\ rows = Rows(snap.features) /\ ranking = snap.ranking /\ N = Len(ranking)
              /\ H = Hard(rows, ranking)
              /\ chosen = ToSet(BookCandidates(rows, ranking))
      OBVIOUS
    <3>2. Ranks(ranking, rows) /\ FromFeatures /\ DOMAIN rows = DOMAIN snap.features
      BY <1>1, <2>2, <3>1, ShownRows
    <3>3. /\ N \in Nat /\ DOMAIN ranking = 1..N /\ H \subseteq 1..N
          /\ \A i \in 1..N : ranking[i] \in DOMAIN snap.features
          /\ \A i, k \in 1..N : ranking[i] = ranking[k] => i = k
      BY <3>1, <3>2 DEF Ranks, IsRanking, Hard
    <3>4. chosen = {ranking[i] : i \in {k \in H : Nth(H, k) <= TopN}}
      <4>1. IsRanking(ranking, DOMAIN rows)
        BY <3>2 DEF Ranks
      <4>2. ToSet(BookCandidates(rows, ranking)) =
                {ranking[i] : i \in {k \in Hard(rows, ranking) : Nth(Hard(rows, ranking), k) <= TopN}}
        BY <4>1, CandidatesAre
      <4>. QED
        BY <3>1, <4>2
    <3>5. \A i \in 1..N :
              /\ snap.rows[ranking[i]].hard = rows[ranking[i]].hard
              /\ snap.rows[ranking[i]].spreadGate =
                     IF ranking[i] \in chosen THEN SpreadOk(ranking[i]) ELSE None
      BY <1>1, <2>2, <3>1, <3>3, ShownRows
    <3>6. \A i \in 1..N : ranking[i] \in chosen <=> i \in H /\ Nth(H, i) <= TopN
      BY <3>3, <3>4
    <3>7. /\ None # TRUE /\ \A s : SpreadOk(s) # None
          /\ \A s : SpreadOk(s) = TRUE => s \in DOMAIN books /\ books[s] = "narrow"
      <4>1. \A s : SpreadOk(s) \in BOOLEAN
        BY DEF SpreadOk
      <4>2. None \notin BOOLEAN
        BY StoreAssumption
      <4>. QED
        BY <4>1, <4>2 DEF SpreadOk
    <3>8. \A i \in 1..N : snap.rows[ranking[i]].spreadGate # None <=> i \in H /\ Nth(H, i) <= TopN
      BY <3>5, <3>6, <3>7
    <3>9. ASSUME snap.rows[ranking[j]].hard, snap.rows[ranking[j]].spreadGate = None
          PROVE  Cardinality({i \in 1..(j - 1) : snap.rows[ranking[i]].spreadGate # None}) = TopN
      <4>1. j \in 1..N /\ j \in H /\ ~(Nth(H, j) <= TopN)
        <5>1. j \in 1..N
          BY <3>1, <3>3
        <5>2. rows[ranking[j]].hard
          BY <3>5, <3>9, <5>1
        <5>. QED
          BY <3>1, <3>3, <3>8, <3>9, <5>1, <5>2 DEF Hard
      <4>. DEFINE C == {k \in H : Nth(H, k) <= TopN}
                  f == [k \in C |-> Nth(H, k)]
      <4>2. PICK h \in Nat : h = Cardinality(H)
        BY <3>3, NthCounts
      <4>3. /\ \A i \in H : Nth(H, i) \in 1..h
            /\ \A i, k \in H : i < k => Nth(H, i) < Nth(H, k)
            /\ \A k \in 1..h : \E i \in H : Nth(H, i) = k
        BY <3>3, <4>2, NthCounts
      <4>4. TopN \in Nat /\ TopN < h
        BY <4>1, <4>3, StoreAssumption
      <4>5. ASSUME NEW i \in C PROVE i \in 1..(j - 1)
        <5>1. i \in 1..N /\ Nth(H, i) \in Int /\ Nth(H, j) \in Int
          BY <3>3, <4>1, <4>3
        <5>2. i # j /\ ~(j < i)
          BY <4>1, <4>3, <4>4, <5>1
        <5>. QED
          BY <3>3, <4>1, <5>1, <5>2
      <4>6. {i \in 1..(j - 1) : snap.rows[ranking[i]].spreadGate # None} = C
        <5>1. \A i \in 1..(j - 1) : i \in 1..N
          BY <3>3, <4>1
        <5>. QED
          BY <3>8, <4>5, <5>1
      <4>7. \A i, k \in C : Nth(H, i) = Nth(H, k) => i = k
        <5>. SUFFICES ASSUME NEW i \in C, NEW k \in C, Nth(H, i) = Nth(H, k) PROVE i = k
          OBVIOUS
        <5>1. i \in 1..N /\ k \in 1..N /\ Nth(H, i) \in Int
          BY <3>3, <4>3
        <5>2. ~(i < k) /\ ~(k < i)
          BY <4>3, <5>1
        <5>. QED
          BY <5>1, <5>2
      <4>8. f \in Bijection(C, 1..TopN)
        <5>1. \A i \in C : f[i] \in 1..TopN
          BY <4>3, <4>4
        <5>2. \A k \in 1..TopN : \E i \in C : f[i] = k
          <6>. SUFFICES ASSUME NEW k \in 1..TopN PROVE \E i \in C : f[i] = k
            OBVIOUS
          <6>1. k \in 1..h
            BY <4>4
          <6>2. PICK i \in H : Nth(H, i) = k
            BY <4>3, <6>1
          <6>3. i \in C
            BY <6>2
          <6>. QED
            BY <6>2, <6>3
        <5>. QED
          BY <4>7, <5>1, <5>2 DEF Bijection, Injection, Surjection, IsInjective
      <4>9. IsFiniteSet(C)
        <5>1. IsFiniteSet(1..N)
          BY <3>3, FS_Interval
        <5>2. C \in SUBSET (1..N)
          BY <3>3
        <5>. QED
          BY <5>1, <5>2, FS_Subset
      <4>10. Cardinality(1..TopN) = TopN
        BY <4>4, FS_Interval
      <4>11. Cardinality(C) = TopN
        <5>. HIDE DEF C, f
        <5>. QED
          BY <4>8, <4>9, <4>10, FS_Bijection DEF ExistsBijection
      <4>. QED
        BY <4>6, <4>11
    <3>10. ASSUME snap.rows[ranking[j]].spreadGate = TRUE
           PROVE  ranking[j] \in DOMAIN books /\ books[ranking[j]] = "narrow"
      <4>1. j \in 1..N
        BY <3>1, <3>3
      <4>. QED
        BY <3>5, <3>7, <3>10, <4>1
    <3>. QED
      BY <3>1, <3>9, <3>10
  <2>. QED
    BY <2>1, <2>2
<1>2. SignalInv /\ BookInv => BestAreChecked
  BY <1>1 DEF BestAreChecked
<1>. QED
  BY SignalsCorrect, BooksCorrect, <1>2, PTL

-----------------------------------------------------------------------------
(* Silence *)

LEMMA Newer ==
    ASSUME NEW S, S \subseteq Int, NEW m \in S, \A y \in S : y <= m
    PROVE  Max(S) = m
<1>1. \A z \in S : (\A w \in S : z >= w) => z = m
  <2>. SUFFICES ASSUME NEW z \in S, \A w \in S : z >= w PROVE z = m
    OBVIOUS
  <2>1. z >= m /\ z <= m /\ z \in Int /\ m \in Int
    OBVIOUS
  <2>. QED
    BY <2>1
<1>2. \A y \in S : m >= y
  OBVIOUS
<1>. QED
  BY <1>1, <1>2 DEF Max

LEMMA FarthestOffset ==
    \E m \in Nat : m = Max(Offsets) /\ \A k \in Offsets : k <= m
<1>1. Offsets \subseteq Nat /\ Offsets # {} /\ IsFiniteSet(Offsets)
  BY WindowAssumption
<1>2. PICK v : v = [k \in Offsets |-> k]
  OBVIOUS
<1>3. PICK R : \A s, o \in Offsets : <<s, o>> \in R <=> v[s] <= v[o]
  BY LowestFirst, Zenon
<1>4. \A s, o \in Offsets : <<s, o>> \in R <=> s <= o
  BY <1>2, <1>3
<1>5. TotalOn(R, Offsets) /\ TransitiveOn(R, Offsets)
  <2>1. \A s, o \in Offsets : s <= o \/ o <= s
    BY <1>1
  <2>2. \A s, o, u \in Offsets : s <= o /\ o <= u => s <= u
    BY <1>1
  <2>. QED
    BY <1>4, <2>1, <2>2, Zenon DEF TotalOn, TransitiveOn
<1>6. PICK m \in Offsets : \A x \in Offsets \ {m} : <<x, m>> \in R
  BY <1>1, <1>5, LastExists
<1>7. m \in Nat /\ \A k \in Offsets : k <= m
  <2>. SUFFICES ASSUME NEW k \in Offsets PROVE m \in Nat /\ k <= m
    OBVIOUS
  <2>1. m \in Nat /\ k \in Nat
    BY <1>1
  <2>2. CASE k = m
    BY <2>1, <2>2
  <2>3. CASE k # m
    <3>1. <<k, m>> \in R
      BY <1>6, <2>3
    <3>. QED
      BY <1>4, <2>1, <3>1
  <2>. QED
    BY <2>2, <2>3
<1>8. Max(Offsets) = m
  <2>1. Offsets \subseteq Int
    BY <1>1
  <2>. QED
    BY <1>7, <2>1, Newer
<1>. QED
  BY <1>7, <1>8

LEMMA HistoryCovers ==
    /\ History \in Nat /\ History >= DvWindow /\ History >= HighWindow + 1
    /\ \A k \in Offsets : History >= k + 1
    /\ History >= BucketLength * (SlowBuckets + 1) - 1
<1>1. PICK m \in Nat : m = Max(Offsets) /\ \A k \in Offsets : k <= m
  BY FarthestOffset
<1>2. /\ DvWindow \in Nat /\ HighWindow + 1 \in Nat
      /\ BucketLength \in Nat \ {0} /\ SlowBuckets \in Nat \ {0}
  BY WindowAssumption
<1>3. PICK b \in Int : b = BucketLength * (SlowBuckets + 1) - 1
  BY <1>2
<1>4. PICK d \in Nat, h \in Nat, f \in Nat :
          d = DvWindow /\ h = HighWindow + 1 /\ f = m + 1
  BY <1>2
<1>. DEFINE S == {d, h, f, b}
<1>5. PICK x \in S : \A y \in S : y <= x
  <2>1. PICK p \in {d, h} : p >= d /\ p >= h /\ p \in Int
    BY <1>4
  <2>2. PICK q \in {f, b} : q >= f /\ q >= b /\ q \in Int
    BY <1>3, <1>4
  <2>3. CASE p >= q
    BY <1>3, <1>4, <2>1, <2>2, <2>3
  <2>4. CASE q >= p
    BY <1>3, <1>4, <2>1, <2>2, <2>4
  <2>. QED
    BY <2>1, <2>2, <2>3, <2>4
<1>6. S \subseteq Int
  BY <1>3, <1>4
<1>7. Max(S) = x
  <2>. HIDE DEF S
  <2>. QED
    BY <1>5, <1>6, Newer
<1>8. History = x
  BY <1>1, <1>3, <1>4, <1>7 DEF History
<1>9. x \in Int /\ x >= d /\ x >= h /\ x >= f /\ x >= b
  BY <1>5, <1>6
<1>10. \A k \in Offsets : x >= k + 1
  <2>1. \A k \in Offsets : k \in Nat
    BY WindowAssumption
  <2>. QED
    BY <1>1, <1>4, <1>9, <2>1
<1>. QED
  BY <1>3, <1>4, <1>8, <1>9, <1>10

\* The last closed bucket at t.
LastBucket(t) == ((t + 1) \div BucketLength) - 1

LEMMA BucketsClosed ==
    ASSUME NEW t \in Int, NEW S, IsFiniteSet(S), S \subseteq Int, t - History + 1 .. t \subseteq S
    PROVE  Cardinality(ClosedBuckets({u \in S : u <= t})) >= SlowBuckets
<1>1. BucketLength \in Nat \ {0} /\ SlowBuckets \in Nat \ {0}
  BY WindowAssumption
<1>2. PICK L \in Nat \ {0}, n \in Nat \ {0} : L = BucketLength /\ n = SlowBuckets
  BY <1>1
<1>3. PICK e \in Int : e = LastBucket(t)
  BY <1>1 DEF LastBucket
<1>4. e * L + L <= t + 1 /\ t + 1 < e * L + L + L
  <2>1. PICK q \in Int : q = (t + 1) \div L /\ q * L <= t + 1 /\ t + 1 < q * L + L
    OBVIOUS
  <2>2. q = e + 1
    BY <1>2, <1>3, <2>1 DEF LastBucket
  <2>3. (e + 1) * L = e * L + L
    OBVIOUS
  <2>. QED
    BY <2>1, <2>2, <2>3
<1>5. PICK h \in Nat : h = History /\ h >= L * (n + 1) - 1
  BY <1>2, HistoryCovers
<1>6. PICK w \in Int : w = n * L /\ h >= w + L - 1
  <2>1. L * (n + 1) = n * L + L
    OBVIOUS
  <2>. QED
    BY <1>5, <2>1
<1>. DEFINE T == {u \in S : u <= t}
<1>7. ASSUME NEW b \in (e - n + 1)..e
      PROVE  b \in ClosedBuckets(T)
  <2>1. PICK x \in Int, y \in Int : x = b * L /\ y = e * L
    OBVIOUS
  <2>2. x <= y
    <3>1. b <= e
      OBVIOUS
    <3>. QED
      BY <2>1, <3>1
  <2>3. x >= y - w + L
    <3>1. (e - n + 1) * L = e * L - n * L + L
      OBVIOUS
    <3>2. e - n + 1 <= b
      OBVIOUS
    <3>3. (e - n + 1) * L <= b * L
      BY <3>2
    <3>. QED
      BY <1>6, <2>1, <3>1, <3>3
  <2>4. x + L - 1 <= t /\ x >= t - h + 1
    BY <1>4, <1>6, <2>1, <2>2, <2>3
  <2>5. x .. x + L - 1 \subseteq T
    <3>1. \A u \in x .. x + L - 1 : u \in t - h + 1 .. t /\ u <= t
      BY <2>4
    <3>. QED
      BY <1>5, <3>1
  <2>6. x \in T
    BY <2>5
  <2>7. x \div L = b
    BY <2>1
  <2>. HIDE DEF T
  <2>. QED
    BY <1>2, <2>1, <2>5, <2>6, <2>7 DEF ClosedBuckets
<1>8. IsFiniteSet(ClosedBuckets(T))
  <2>1. IsFiniteSet(T)
    BY FS_Subset
  <2>. DEFINE B == {u \div BucketLength : u \in T}
              f == [u \in T |-> u \div BucketLength]
  <2>2. f \in Surjection(T, B)
    BY DEF Surjection
  <2>3. IsFiniteSet(B)
    <3>. HIDE DEF T, B, f
    <3>. QED
      BY <2>1, <2>2, FS_Surjection
  <2>4. ClosedBuckets(T) \in SUBSET B
    BY DEF ClosedBuckets
  <2>. QED
    BY <2>3, <2>4, FS_Subset
<1>9. Cardinality((e - n + 1)..e) = n
  BY FS_Interval
<1>10. (e - n + 1)..e \in SUBSET ClosedBuckets(T)
  <2>. HIDE DEF T
  <2>. QED
    BY <1>7
<1>11. Cardinality((e - n + 1)..e) <= Cardinality(ClosedBuckets(T))
  <2>. HIDE DEF T
  <2>. QED
    BY <1>8, <1>10, FS_Subset
<1>12. Cardinality(ClosedBuckets(T)) \in Nat
  BY <1>8, FS_CardinalityType
<1>. QED
  BY <1>2, <1>9, <1>11, <1>12

\* So many candles in a row are enough, however they lie in their buckets.
LEMMA HistoryIsEnough ==
    ASSUME NEW t \in Int, NEW S, IsFiniteSet(S), S \subseteq Int, t - History + 1 .. t \subseteq S,
           NEW base, \A k \in Offsets : t - k \in base
    PROVE  HasCandles(S, base, t)
<1>1. /\ History \in Nat /\ History >= DvWindow /\ History >= HighWindow + 1
      /\ \A k \in Offsets : History >= k + 1
  BY HistoryCovers
<1>2. DvWindow \in Nat /\ HighWindow \in Nat /\ \A k \in Offsets : k \in Nat
  BY WindowAssumption
<1>3. \A k \in Offsets : t - k \in t - History + 1 .. t
  BY <1>1, <1>2
<1>4. t - DvWindow + 1 .. t \subseteq t - History + 1 .. t
  BY <1>1, <1>2
<1>5. t - HighWindow .. t - 1 \subseteq t - History + 1 .. t
  BY <1>1, <1>2
<1>6. Cardinality(ClosedBuckets({u \in S : u <= t})) >= SlowBuckets
  BY BucketsClosed
<1>. QED
  BY <1>3, <1>4, <1>5, <1>6 DEF HasCandles

\* The store still holds what was fetched and fits its buffer, and whoever was
\* found to be silent had missed a candle.
RecentHeld ==
    \A s \in Symbol :
        /\ IsFiniteSet(held[s])
        /\ \A t \in Fetched(s, minute) : t <= minute - 1 /\ (t >= minute - BufferSize => t \in held[s])

SilenceInv ==
    /\ RecentHeld /\ snap.starved \subseteq Symbol
    /\ pc \in {"idle", "loaded"} => snap.starved = {}
    /\ OnlyMissesSilence

LEMMA SilenceInit == Init => SilenceInv
<1>. SUFFICES ASSUME Init PROVE SilenceInv
  OBVIOUS
<1>1. PICK backfilled :
          /\ held = [s \in Symbol |-> IF s \in backfilled THEN Backfill ELSE {}]
          /\ polled = [s \in Symbol |-> IF s \in backfilled THEN {Start} ELSE {}]
  BY DEF Init
<1>2. minute = Start /\ Start \in Nat \ {0} /\ BackfillCount \in Nat \ {0} /\ snap = NoSnap
  BY StoreAssumption DEF Init
<1>3. IsFiniteSet(Backfill) /\ \A t \in Backfill : t <= minute - 1
  BY <1>2, FS_Interval DEF Backfill
<1>4. ASSUME NEW s \in Symbol
      PROVE  /\ IsFiniteSet(held[s])
             /\ \A t \in Fetched(s, minute) : t <= minute - 1 /\ t \in held[s]
  <2>1. CASE s \in backfilled
    <3>1. {q \in polled[s] : q <= minute} = {Start} /\ held[s] = Backfill
      BY <1>1, <1>2, <2>1
    <3>2. Fetched(s, minute) = Backfill
      BY <3>1 DEF Fetched
    <3>. QED
      BY <1>3, <3>1, <3>2
  <2>2. CASE s \notin backfilled
    <3>1. {q \in polled[s] : q <= minute} = {} /\ held[s] = {}
      BY <1>1, <2>2
    <3>2. Fetched(s, minute) = {}
      BY <3>1 DEF Fetched
    <3>. QED
      BY <3>1, <3>2, FS_EmptySet
  <2>. QED
    BY <2>1, <2>2
<1>5. snap.starved = {}
  BY <1>2 DEF NoSnap
<1>. QED
  BY <1>4, <1>5 DEF SilenceInv, RecentHeld, OnlyMissesSilence

\* What a full buffer drops is older than the buffer is long.
LEMMA MinuteHolds ==
    ASSUME StoreInv, RecentHeld, NEW ok \in SUBSET Symbol, Minute(ok)
    PROVE  RecentHeld'
<1>1. PICK n \in Nat : n = minute' /\ minute = n - 1 /\ n > Start
  BY StoreAssumption DEF Minute, StoreInv
<1>2. BufferSize \in Nat \ {0} /\ PollCount \in Nat \ {0} /\ Start \in Nat
  BY StoreAssumption
<1>3. ASSUME NEW s \in Symbol
      PROVE  /\ IsFiniteSet(held'[s])
             /\ \A t \in Fetched(s, n)' : t <= n - 1 /\ (t >= n - BufferSize => t \in held'[s])
  <2>1. /\ IsFiniteSet(held[s]) /\ held[s] \subseteq Int /\ held[s] \subseteq Fetched(s, n - 1)
        /\ \A t \in Fetched(s, n - 1) : t <= n - 2 /\ (t >= n - 1 - BufferSize => t \in held[s])
        /\ \A p \in polled[s] : p \in Nat /\ p <= n - 1
    BY <1>1 DEF StoreInv, RecentHeld
  <2>2. \A t \in Fetched(s, n - 1) : t \in Int
    <3>1. Backfill \subseteq Int /\ \A p \in polled[s] : p - PollCount + 1 .. p - 1 \subseteq Int
      BY <1>2, <2>1 DEF Backfill
    <3>. QED
      BY <3>1 DEF Fetched
  <2>3. CASE s \notin ok
    <3>1. held'[s] = held[s] /\ polled'[s] = polled[s]
      BY <2>3 DEF Minute
    <3>2. {q \in polled'[s] : q <= n} = {q \in polled[s] : q <= n - 1}
      BY <2>1, <3>1
    <3>3. Fetched(s, n)' = Fetched(s, n - 1)
      BY <3>2 DEF Fetched
    <3>4. \A t \in Fetched(s, n - 1) : t <= n - 1 /\ (t >= n - BufferSize => t >= n - 1 - BufferSize)
      BY <1>2, <2>1, <2>2
    <3>. QED
      BY <2>1, <3>1, <3>3, <3>4
  <2>4. CASE s \in ok
    <3>1. polled'[s] = polled[s] \cup {n}
      BY <1>1, <2>4 DEF Minute
    <3>2. {q \in polled'[s] : q <= n} = {q \in polled[s] : q <= n - 1} \cup {n}
      BY <2>1, <3>1
    <3>3. Fetched(s, n)' = Fetched(s, n - 1) \cup Window(n)
      <4>1. n # Start
        BY <1>1, <1>2
      <4>. QED
        BY <3>2, <4>1 DEF Fetched, Window
    <3>4. /\ IsFiniteSet(Window(n)) /\ Window(n) \subseteq Int /\ \A t \in Window(n) : t <= n - 1
      BY <1>2, FS_Interval DEF Window
    <3>5. PICK S : S = held[s] \cup Window(n)
      OBVIOUS
    <3>6. held'[s] = Keep(S)
      BY <1>1, <2>4, <3>5 DEF Minute, Window
    <3>7. IsFiniteSet(S) /\ S \subseteq Int /\ \A t \in S : t <= n - 1
      <4>1. \A t \in held[s] : t \in Int /\ t <= n - 1
        BY <2>1, <2>2
      <4>. QED
        BY <2>1, <3>4, <3>5, <4>1, FS_Union
    <3>8. IsFiniteSet(Keep(S))
      <4>1. Keep(S) \in SUBSET S
        BY DEF Keep
      <4>. QED
        BY <3>7, <4>1, FS_Subset
    <3>9. ASSUME NEW t \in Fetched(s, n - 1) \cup Window(n)
          PROVE  t <= n - 1 /\ (t >= n - BufferSize => t \in Keep(S))
      <4>1. t \in Int /\ t <= n - 1
        BY <2>1, <2>2, <3>4, <3>9
      <4>2. ASSUME t >= n - BufferSize PROVE t \in Keep(S)
        <5>1. t \in S
          BY <1>2, <2>1, <3>5, <3>9, <4>1, <4>2
        <5>2. {u \in S : u > t} \in SUBSET (t + 1 .. n - 1)
          <6>1. ASSUME NEW u \in S, u > t PROVE u \in t + 1 .. n - 1
            <7>1. u \in Int /\ u <= n - 1
              BY <3>7, <6>1
            <7>. QED
              BY <1>2, <4>1, <6>1, <7>1
          <6>. QED
            BY <6>1
        <5>3. IsFiniteSet(t + 1 .. n - 1) /\ Cardinality(t + 1 .. n - 1) = n - 1 - t
          <6>1. Cardinality(t + 1 .. n - 1) = IF t + 1 > n - 1 THEN 0 ELSE (n - 1) - (t + 1) + 1
            BY <4>1, FS_Interval
          <6>. QED
            BY <4>1, <6>1, FS_Interval
        <5>4. /\ Cardinality({u \in S : u > t}) <= n - 1 - t
              /\ Cardinality({u \in S : u > t}) \in Nat
          <6>1. PICK C : C = {u \in S : u > t}
            OBVIOUS
          <6>2. IsFiniteSet(C) /\ Cardinality(C) <= Cardinality(t + 1 .. n - 1)
            BY <5>2, <5>3, <6>1, FS_Subset
          <6>. QED
            BY <5>3, <6>1, <6>2, FS_CardinalityType
        <5>5. Cardinality({u \in S : u > t}) < BufferSize
          BY <1>2, <4>1, <4>2, <5>4
        <5>. QED
          BY <5>1, <5>5 DEF Keep
      <4>. QED
        BY <4>1, <4>2
    <3>. QED
      BY <3>3, <3>6, <3>8, <3>9
  <2>. QED
    BY <2>3, <2>4
<1>4. \A s \in Symbol : Fetched(s, minute)' = Fetched(s, n)'
  BY <1>1 DEF Fetched
<1>. QED
  BY <1>1, <1>3, <1>4 DEF RecentHeld

\* Whoever fetched what a window needs holds it.
LEMMA FetchedIsHeld ==
    ASSUME StoreInv, RecentHeld, NEW s \in Symbol, NEW t \in Int,
           t - History + 1 .. t \subseteq Fetched(s, minute),
           minute - 1 - t <= BufferSize - History
    PROVE  /\ t - History + 1 .. t \subseteq held[s]
           /\ IsFiniteSet(held[s]) /\ held[s] \subseteq Int
<1>1. History \in Nat /\ BufferSize \in Nat /\ minute \in Nat
  BY HistoryCovers, StoreAssumption DEF StoreInv
<1>2. \A u \in t - History + 1 .. t : u >= minute - BufferSize
  BY <1>1
<1>. QED
  BY <1>2 DEF RecentHeld, StoreInv

LEMMA SilenceHasReason ==
    ASSUME SignalInv, RecentHeld, History <= BufferSize, Fail \/ Compute
    PROVE  snap'.starved \subseteq Symbol /\ OnlyMissesSilence'
<1>1. /\ snap'.universe = snap.universe /\ snap'.at = minute /\ snap.universe \in Universe
      /\ UNCHANGED <<minute, polled>>
      /\ snap'.t0 = IF Base = None THEN None ELSE Newest(Base)
      /\ snap'.starved = IF BaselineUnusable THEN {Base} \ {None} ELSE Candidates \ Ready
  <2>1. CASE Fail
    BY <2>1 DEF Fail, store, SignalInv, SnapInv, SnapFields
  <2>2. CASE Compute
    <3>1. ~BaselineUnusable /\ UNCHANGED store /\ pc = "loaded"
      BY <2>2 DEF Compute
    <3>2. Base # None
      BY <3>1 DEF BaselineUnusable
    <3>3. PICK rows, ranking, fs :
              snap' = [snap EXCEPT !.t0 = Newest(Base), !.rows = rows, !.ranking = ranking,
                           !.at = minute, !.starved = Candidates \ Ready, !.features = fs]
      BY <2>2, Zenon DEF Compute
    <3>4. /\ snap'.t0 = Newest(Base) /\ snap'.at = minute /\ snap'.universe = snap.universe
          /\ snap'.starved = Candidates \ Ready
      BY <3>3 DEF SignalInv, SnapInv, SnapFields
    <3>. QED
      BY <3>1, <3>2, <3>4 DEF store, SignalInv, SnapInv
  <2>. QED
    BY <2>1, <2>2
<1>2. Base' = Base /\ \A s : Fetched(s, snap.at)' = Fetched(s, minute)
  BY <1>1 DEF Base, Fetched
<1>3. /\ minute \in Nat /\ History \in Nat /\ BufferSize \in Nat /\ None \notin Nat
  BY HistoryCovers, StoreAssumption DEF SignalInv, StoreInv
<1>4. CASE BaselineUnusable
  <2>1. snap'.starved \subseteq Symbol /\ \A s \in snap'.starved : s = Base /\ Base # None /\ Base \in Symbol
    BY <1>1, <1>4, BaseInUniverse DEF Base
  <2>2. ASSUME Base # None, Base \in Symbol,
               minute - History .. minute - 1 \subseteq Fetched(Base, minute)
        PROVE  FALSE
    <3>1. PICK t \in Int : t = minute - 1
      BY <1>3
    <3>2. /\ t - History + 1 .. t \subseteq Fetched(Base, minute)
          /\ minute - 1 - t <= BufferSize - History
      BY <1>3, <2>2, <3>1
    <3>3. t - History + 1 .. t \subseteq held[Base] /\ IsFiniteSet(held[Base]) /\ held[Base] \subseteq Int
      BY <2>2, <3>2, FetchedIsHeld DEF SignalInv
    <3>4. t \in held[Base] /\ \A y \in held[Base] : y <= t
      <4>1. History >= 1
        BY HistoryCovers, WindowAssumption
      <4>2. t \in t - History + 1 .. t
        BY <1>3, <4>1
      <4>. QED
        BY <2>2, <3>1, <3>3, <4>2 DEF RecentHeld, SignalInv, StoreInv
    <3>5. Newest(Base) = t /\ held[Base] # {}
      BY <3>3, <3>4, Newer DEF Newest
    <3>6. \A k \in Offsets : t - k \in held[Base]
      <4>1. \A k \in Offsets : k \in Nat /\ History >= k + 1
        BY HistoryCovers, WindowAssumption
      <4>2. \A k \in Offsets : t - k \in t - History + 1 .. t
        BY <1>3, <4>1
      <4>. QED
        BY <3>3, <4>2
    <3>7. HasCandles(held[Base], held[Base], t)
      BY <3>3, <3>6, HistoryIsEnough
    <3>. QED
      BY <1>4, <2>2, <3>5, <3>7 DEF BaselineUnusable
  <2>3. OnlyMissesSilence'
    BY <1>1, <1>2, <2>1, <2>2 DEF OnlyMissesSilence
  <2>. QED
    BY <2>1, <2>3
<1>5. CASE ~BaselineUnusable
  <2>1. Base # None /\ held[Base] # {} /\ HasCandles(held[Base], held[Base], Newest(Base)) /\ Base \in Symbol
    BY <1>1, <1>5, BaseInUniverse DEF BaselineUnusable, Base
  <2>2. PICK t \in Nat : t = Newest(Base)
    BY <2>1, NewestOf DEF Newest, SignalInv, StoreInv
  <2>3. snap'.t0 = t /\ snap'.starved = Candidates \ Ready
    BY <1>1, <1>5, <2>1, <2>2
  <2>4. snap'.starved \subseteq Symbol
    BY <1>1, <2>3, MembersAreSymbols DEF Candidates
  <2>5. ASSUME NEW s \in snap'.starved,
               t - History + 1 .. t \subseteq Fetched(s, minute),
               ~(minute - 1 - t > BufferSize - History)
        PROVE  FALSE
    <3>1. s \in Symbol /\ minute - 1 - t <= BufferSize - History
      BY <1>3, <2>4, <2>5
    <3>2. t - History + 1 .. t \subseteq held[s] /\ IsFiniteSet(held[s]) /\ held[s] \subseteq Int
      BY <2>5, <3>1, FetchedIsHeld DEF SignalInv
    <3>3. \A k \in Offsets : t - k \in held[Base]
      BY <2>1, <2>2 DEF HasCandles
    <3>4. HasCandles(held[s], held[Base], t)
      BY <3>2, <3>3, HistoryIsEnough
    <3>. QED
      BY <2>2, <2>3, <3>4 DEF Ready
  <2>6. \A s \in snap'.starved : s # Base
    BY <2>3 DEF Candidates
  <2>7. OnlyMissesSilence'
    BY <1>1, <1>2, <2>3, <2>5, <2>6 DEF OnlyMissesSilence
  <2>. QED
    BY <2>4, <2>7
<1>. QED
  BY <1>4, <1>5

LEMMA SilenceStep ==
    ASSUME History <= BufferSize
    PROVE  SignalInv /\ SilenceInv /\ [Next]_vars => SilenceInv'
<1>. SUFFICES ASSUME SignalInv, SilenceInv, [Next]_vars PROVE SilenceInv'
  OBVIOUS
<1>1. ASSUME UNCHANGED store PROVE RecentHeld'
  <2>1. UNCHANGED <<minute, held, polled>> /\ \A s, m : Fetched(s, m)' = Fetched(s, m)
    BY <1>1 DEF store, Fetched
  <2>. QED
    BY <2>1 DEF SilenceInv, RecentHeld, Fetched
<1>2. ASSUME UNCHANGED <<minute, polled>>, snap'.starved = snap.starved, snap'.at = snap.at,
             snap'.t0 = snap.t0, snap'.universe = snap.universe
      PROVE  OnlyMissesSilence'
  <2>1. Base' = Base /\ \A s : Fetched(s, snap.at)' = Fetched(s, snap.at)
    BY <1>2 DEF Base, Fetched
  <2>. QED
    BY <1>2, <2>1 DEF SilenceInv, OnlyMissesSilence
<1>3. CASE LoadUniverse
  <2>1. snap'.starved = {} /\ UNCHANGED store
    BY <1>3 DEF LoadUniverse, NoSnap
  <2>. QED
    BY <1>1, <2>1 DEF SilenceInv, OnlyMissesSilence
<1>4. CASE Fail \/ Compute
  <2>1. UNCHANGED store /\ pc' \in {"books", "shown"}
    BY <1>4 DEF Fail, Compute
  <2>. QED
    BY <1>1, <1>4, <2>1, SilenceHasReason DEF SilenceInv
<1>5. ASSUME NEW s \in Symbol, FetchBook(s) PROVE SilenceInv'
  BY <1>1, <1>2, <1>5 DEF FetchBook, store, SilenceInv
<1>6. CASE Finish
  <2>1. PICK rows : snap' = [snap EXCEPT !.rows = rows]
    BY <1>6 DEF Finish
  <2>2. /\ snap'.starved = snap.starved /\ snap'.at = snap.at /\ snap'.t0 = snap.t0
        /\ snap'.universe = snap.universe /\ UNCHANGED store /\ pc' = "shown"
    BY <1>6, <2>1 DEF Finish, SignalInv, SnapInv, SnapFields
  <2>3. UNCHANGED <<minute, polled>>
    BY <2>2 DEF store
  <2>. QED
    BY <1>1, <1>2, <2>2, <2>3 DEF SilenceInv
<1>7. CASE HandOver
  <2>1. snap'.starved = {} /\ UNCHANGED store
    BY <1>7 DEF HandOver, NoSnap
  <2>. QED
    BY <1>1, <2>1 DEF SilenceInv, OnlyMissesSilence
<1>8. ASSUME NEW ok \in SUBSET Symbol, Minute(ok) PROVE SilenceInv'
  <2>1. UNCHANGED <<pc, snap>> /\ RecentHeld'
    BY <1>8, MinuteHolds DEF Minute, SignalInv, SilenceInv
  <2>2. OnlyMissesSilence'
    <3>1. CASE pc \in {"idle", "loaded"}
      BY <2>1, <3>1 DEF SilenceInv, OnlyMissesSilence
    <3>2. CASE pc \in {"books", "shown"}
      <4>1. snap.at \in Nat /\ snap.at <= minute
        BY <3>2 DEF SignalInv, SnapInv
      <4>2. \A s \in Symbol :
                {q \in polled'[s] : q <= snap.at} = {q \in polled[s] : q <= snap.at}
        BY <1>8, <4>1, MinuteStore DEF SignalInv
      <4>3. Base' = Base /\ \A s \in Symbol : Fetched(s, snap.at)' = Fetched(s, snap.at)
        BY <2>1, <4>2 DEF Base, Fetched
      <4>4. snap.starved \subseteq Symbol
        BY DEF SilenceInv
      <4>. QED
        BY <2>1, <4>3, <4>4 DEF SilenceInv, OnlyMissesSilence
    <3>. QED
      BY <3>1, <3>2 DEF SignalInv, SnapInv
  <2>. QED
    BY <2>1, <2>2 DEF SilenceInv
<1>9. CASE RefreshUniverse
  <2>1. UNCHANGED <<minute, held, polled, pc, snap>>
    BY <1>9 DEF RefreshUniverse
  <2>2. RecentHeld'
    BY <2>1 DEF SilenceInv, RecentHeld, Fetched
  <2>. QED
    BY <1>2, <2>1, <2>2 DEF SilenceInv
<1>10. CASE UNCHANGED vars
  BY <1>1, <1>2, <1>10 DEF vars, store, SilenceInv
<1>. QED
  BY <1>3, <1>4, <1>5, <1>6, <1>7, <1>8, <1>9, <1>10 DEF Next

\* If the buffer holds the history features need, nothing but a missed candle
\* silences a symbol or, with the baseline, everything (CandleBuffer's maxlen,
\* compute_features).
THEOREM SilenceIsMissing ==
    ASSUME History <= BufferSize
    PROVE  Spec => []OnlyMissesSilence
<1>1. Init => SilenceInv
  BY SilenceInit
<1>2. SignalInv /\ SilenceInv /\ [Next]_vars => SilenceInv'
  BY SilenceStep
<1>3. SilenceInv => OnlyMissesSilence
  BY DEF SilenceInv
<1>. QED
  BY SignalsCorrect, <1>1, <1>2, <1>3, PTL DEF Spec
=============================================================================
