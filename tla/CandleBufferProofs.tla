-------------------------- MODULE CandleBufferProofs --------------------------
(***************************************************************************)
(* A candle series is strictly ascending and holds what NewestCandles      *)
(* says, for lists of any length.                                          *)
(*                                                                         *)
(* The binary search is a recursive function.  A function that satisfies   *)
(* its equation can be written down (the place of t, moved into the bounds *)
(* of the search), so there is one; and one that satisfies it is that one, *)
(* because a smallest interval where it is not cannot be.                  *)
(***************************************************************************)
EXTENDS CandleBuffer, FiniteSetTheorems, SequenceTheorems, WellFoundedInduction, TLAPS

Ascending(s) == \A i, j \in 1..Len(s) : i < j => s[i].t < s[j].t

-----------------------------------------------------------------------------
(* The binary search *)

\* Numbers are well-founded by <.
LEMMA LessIsWellFounded ==
    \E R \in {OpToRel(<, Nat)} :
        IsWellFoundedOn(R, Nat) /\ \A x, y \in Nat : <<x, y>> \in R <=> x < y
BY NatLessThanWellFounded DEF OpToRel

\* So a set of numbers that is not empty has a least one.
LEMMA LeastNumber ==
    ASSUME NEW T, T \subseteq Nat, T # {}
    PROVE  \E x \in T : \A y \in T : x =< y
<1>1. PICK R : IsWellFoundedOn(R, Nat) /\ \A x, y \in Nat : <<x, y>> \in R <=> x < y
  BY LessIsWellFounded, Zenon
<1>2. IsWellFoundedOn(R, Nat)
  BY <1>1, Zenon
<1>3. PICK x \in T : \A y \in T : ~ (<<y, x>> \in R)
  BY <1>2, WFMin, Zenon
<1>4. \A y \in T : y \in Nat /\ x \in Nat
  BY SMT
<1>5. \A y \in T : ~(y < x)
  BY <1>4, <1>1, <1>3, Zenon
<1>6. \A y \in T : x =< y
  BY <1>4, <1>5
<1>. QED
  BY <1>6

Intervals(s) == (0..Len(s)) \X (0..Len(s))

\* The equation of the search, for the interval p.
Halved(s, t, f, p) ==
    LET lo == p[1]  hi == p[2]  mid == (lo + hi) \div 2
    IN  IF lo >= hi THEN lo
        ELSE IF s[mid + 1].t < t THEN f[<<mid + 1, hi>>] ELSE f[<<lo, mid>>]

IsSearch(s, t, f) == f = [p \in Intervals(s) |-> Halved(s, t, f, p)]

\* t belongs behind the first n of s.
Before(s, t, n) == n \in 0..Len(s) /\ \A i \in 1..Len(s) : s[i].t < t <=> i <= n

\* The place n as a search between lo and hi finds it.
Within(n, lo, hi) == IF n <= lo \/ hi <= lo THEN lo ELSE IF n >= hi THEN hi ELSE n

LEMMA TimesAreNumbers ==
    ASSUME NEW s \in Seq(Candle)
    PROVE  Len(s) \in Nat /\ \A i \in 1..Len(s) : s[i] \in Candle /\ s[i].t \in Nat
<1>1. \A i \in 1..Len(s) : s[i] \in Candle
  OBVIOUS
<1>2. \A c \in Candle : c.t \in Nat
  BY TimesAssumption DEF Candle
<1>. QED
  BY <1>1, <1>2

LEMMA PlaceExists ==
    ASSUME NEW s \in Seq(Candle), Ascending(s), NEW t \in Nat
    PROVE  \E n \in Nat : Before(s, t, n)
<1>. DEFINE T == {n \in 0..Len(s) : \A i \in 1..Len(s) : s[i].t < t => i <= n}
<1>1. Len(s) \in Nat /\ \A i \in 1..Len(s) : s[i].t \in Nat
  BY TimesAreNumbers
<1>2. Len(s) \in T /\ T \subseteq Nat
  BY <1>1
<1>3. PICK n \in T : \A m \in T : n <= m
  BY <1>2, LeastNumber
<1>4. ASSUME NEW k \in 1..Len(s), k <= n, ~(s[k].t < t) PROVE FALSE
  <2>1. \A i \in 1..Len(s) : s[i].t < t => i <= k - 1
    <3>. SUFFICES ASSUME NEW i \in 1..Len(s), s[i].t < t, i >= k PROVE FALSE
      BY <1>1
    <3>0. i = k \/ i > k
      BY <1>1
    <3>1. s[k].t <= s[i].t
      BY <1>1, <3>0 DEF Ascending
    <3>. QED
      BY <1>1, <1>4, <3>1
  <2>2. k - 1 \in T
    BY <1>1, <2>1, k - 1 \in 0..Len(s)
  <2>3. n <= k - 1
    BY <1>3, <2>2
  <2>. QED
    BY <1>1, <1>3, <1>4, <2>3
<1>5. n \in 0..Len(s) /\ n \in Nat /\ \A i \in 1..Len(s) : s[i].t < t => i <= n
  BY <1>1, <1>3
<1>. QED
  BY <1>4, <1>5 DEF Before

\* One step of the search keeps the place within its bounds.
LEMMA HalvingKeepsPlace ==
    ASSUME NEW s \in Seq(Candle), NEW t \in Nat, NEW n \in Nat, Before(s, t, n),
           NEW lo \in 0..Len(s), NEW hi \in 0..Len(s), lo < hi,
           NEW mid \in Nat, lo <= mid, mid < hi
    PROVE  /\ mid \in 0..Len(s) /\ mid + 1 \in 0..Len(s)
           /\ s[mid + 1].t < t => Within(n, mid + 1, hi) = Within(n, lo, hi)
           /\ ~(s[mid + 1].t < t) => Within(n, lo, mid) = Within(n, lo, hi)
<1>1. Len(s) \in Nat /\ lo \in Nat /\ hi \in Nat
  OBVIOUS
<1>3. mid \in 0..Len(s) /\ mid + 1 \in 1..Len(s)
  BY <1>1
<1>4. s[mid + 1].t < t => n >= mid + 1
  BY <1>3 DEF Before
<1>5. ~(s[mid + 1].t < t) => n <= mid
  BY <1>3 DEF Before
<1>. QED
  BY <1>1, <1>3, <1>4, <1>5 DEF Within

LEMMA SearchExists ==
    ASSUME NEW s \in Seq(Candle), NEW t \in Nat, NEW n \in Nat, Before(s, t, n)
    PROVE  \E f : IsSearch(s, t, f)
<1>. DEFINE f == [p \in Intervals(s) |-> Within(n, p[1], p[2])]
<1>1. ASSUME NEW p \in Intervals(s) PROVE Within(n, p[1], p[2]) = Halved(s, t, f, p)
  <2>1. PICK lo \in 0..Len(s), hi \in 0..Len(s) : p = <<lo, hi>> /\ lo = p[1] /\ hi = p[2]
    BY DEF Intervals
  <2>2. CASE lo >= hi
    BY <2>1, <2>2 DEF Halved, Within
  <2>3. CASE lo < hi
    <3>0. PICK mid \in Nat : mid = (lo + hi) \div 2 /\ lo <= mid /\ mid < hi
      BY <2>3
    <3>1. /\ mid \in 0..Len(s) /\ mid + 1 \in 0..Len(s)
          /\ s[mid + 1].t < t => Within(n, mid + 1, hi) = Within(n, lo, hi)
          /\ ~(s[mid + 1].t < t) => Within(n, lo, mid) = Within(n, lo, hi)
      BY <2>3, <3>0, HalvingKeepsPlace
    <3>2. f[<<mid + 1, hi>>] = Within(n, mid + 1, hi) /\ f[<<lo, mid>>] = Within(n, lo, mid)
      BY <2>1, <3>1 DEF Intervals
    <3>3. Halved(s, t, f, p) = IF s[mid + 1].t < t THEN f[<<mid + 1, hi>>] ELSE f[<<lo, mid>>]
      BY <2>1, <2>3, <3>0 DEF Halved
    <3>. QED
      BY <2>1, <3>1, <3>2, <3>3
  <2>. QED
    BY <2>1, <2>2, <2>3
<1>2. f = [p \in Intervals(s) |-> Halved(s, t, f, p)]
  BY <1>1
<1>. QED
  BY <1>2 DEF IsSearch

LEMMA SearchIsUnique ==
    ASSUME NEW s \in Seq(Candle), NEW t \in Nat, NEW n \in Nat, Before(s, t, n),
           NEW f, IsSearch(s, t, f),
           NEW lo \in 0..Len(s), NEW hi \in 0..Len(s)
    PROVE  f[<<lo, hi>>] = Within(n, lo, hi)
<1>. DEFINE Wrong(w) == \E a, b \in 0..Len(s) : b - a = w /\ f[<<a, b>>] # Within(n, a, b)
            T == {w \in Nat : Wrong(w)}
<1>1. \A a, b \in 0..Len(s) : f[<<a, b>>] = Halved(s, t, f, <<a, b>>)
  BY DEF IsSearch, Intervals
<1>2. \A a, b \in 0..Len(s) : a >= b => f[<<a, b>>] = Within(n, a, b)
  BY <1>1 DEF Halved, Within
<1>3. ASSUME T # {} PROVE FALSE
  <2>1. PICK w \in T : \A x \in T : w <= x
    BY <1>3, LeastNumber
  <2>2. PICK a \in 0..Len(s), b \in 0..Len(s) : b - a = w /\ f[<<a, b>>] # Within(n, a, b)
    BY <2>1
  <2>3. a < b
    BY <1>2, <2>2
  <2>. PICK mid \in Nat : mid = (a + b) \div 2 /\ a <= mid /\ mid < b
    BY <2>3
  <2>4. /\ mid \in 0..Len(s) /\ mid + 1 \in 0..Len(s)
        /\ s[mid + 1].t < t => Within(n, mid + 1, b) = Within(n, a, b)
        /\ ~(s[mid + 1].t < t) => Within(n, a, mid) = Within(n, a, b)
    BY <2>3, HalvingKeepsPlace
  <2>5. f[<<a, b>>] = IF s[mid + 1].t < t THEN f[<<mid + 1, b>>] ELSE f[<<a, mid>>]
    BY <1>1, <2>3 DEF Halved
  <2>6. ASSUME NEW c \in 0..Len(s), NEW d \in 0..Len(s), d - c < w
        PROVE  f[<<c, d>>] = Within(n, c, d)
    <3>1. CASE c >= d
      BY <1>2, <3>1
    <3>2. CASE c < d
      <4>1. d - c \in Nat /\ ~(w <= d - c)
        BY <2>6, <3>2
      <4>2. d - c \notin T
        BY <2>1, <4>1
      <4>. QED
        BY <4>1, <4>2
    <3>. QED
      BY <3>1, <3>2
  <2>7. f[<<mid + 1, b>>] = Within(n, mid + 1, b)
    BY <2>2, <2>4, <2>6
  <2>8. f[<<a, mid>>] = Within(n, a, mid)
    BY <2>2, <2>4, <2>6
  <2>. QED
    BY <2>2, <2>4, <2>5, <2>7, <2>8
<1>4. CASE lo >= hi
  BY <1>2, <1>4
<1>5. CASE lo < hi
  <2>1. hi - lo \in Nat
    BY <1>5
  <2>. QED
    BY <1>3, <2>1
<1>. QED
  BY <1>4, <1>5

\* The search finds the place.
LEMMA BisectFinds ==
    ASSUME NEW s \in Seq(Candle), Ascending(s), NEW t \in Nat
    PROVE  Before(s, t, Bisect(s, t))
<1>1. PICK n \in Nat : Before(s, t, n)
  BY PlaceExists
<1>2. IsSearch(s, t, CHOOSE f : IsSearch(s, t, f))
  BY <1>1, SearchExists
<1>3. Bisect(s, t) = (CHOOSE f : IsSearch(s, t, f))[<<0, Len(s)>>]
  BY Zenon DEF Bisect, IsSearch, Halved, Intervals
<1>4. 0 \in 0..Len(s) /\ Len(s) \in 0..Len(s)
  OBVIOUS
<1>5. Bisect(s, t) = Within(n, 0, Len(s))
  BY <1>1, <1>2, <1>3, <1>4, SearchIsUnique
<1>6. Within(n, 0, Len(s)) = n
  BY <1>1 DEF Within, Before
<1>. QED
  BY <1>1, <1>5, <1>6

-----------------------------------------------------------------------------
(* Placing and trimming *)

WithCandle(S, c) == {d \in S : d.t # c.t} \cup {c}

\* What has c in place k, as an ascending list, and is otherwise s.
Fits(s, c, r) ==
    r \in Seq(Candle) /\ Ascending(r) /\ ToSet(r) = WithCandle(ToSet(s), c)

LEMMA AppendFits ==
    ASSUME NEW s \in Seq(Candle), Ascending(s), NEW c \in Candle,
           \A i \in 1..Len(s) : s[i].t < c.t
    PROVE  Fits(s, c, Append(s, c))
<1>. DEFINE r == Append(s, c)
            n == Len(s)
<1>1. /\ r \in Seq(Candle) /\ Len(r) = n + 1 /\ n \in Nat
      /\ \A i \in 1..n : r[i] = s[i]
      /\ r[n + 1] = c /\ DOMAIN r = 1..(n + 1) /\ DOMAIN s = 1..n
  OBVIOUS
<1>2. \A i \in 1..n : s[i] \in Candle /\ s[i].t \in Nat
  BY TimesAreNumbers
<1>. HIDE DEF r, n
<1>3. \A i \in 1..(n + 1) : i \in 1..n \/ i = n + 1
  BY <1>1
<1>4. Ascending(r)
  <2>. SUFFICES ASSUME NEW i \in 1..(n + 1), NEW j \in 1..(n + 1), i < j
                PROVE  r[i].t < r[j].t
    BY <1>1 DEF Ascending
  <2>1. i \in 1..n
    BY <1>1
  <2>2. CASE j = n + 1
    BY <1>1, <1>2, <2>1, <2>2
  <2>3. CASE j \in 1..n
    BY <1>1, <2>1, <2>3 DEF Ascending, n
  <2>. QED
    BY <1>3, <2>2, <2>3
<1>5. ToSet(r) = WithCandle(ToSet(s), c)
  <2>1. \A i \in 1..n : s[i].t # c.t
    BY <1>2, TimesAssumption DEF Candle, n
  <2>2. ToSet(r) = {r[i] : i \in 1..(n + 1)} /\ ToSet(s) = {s[i] : i \in 1..n}
    BY <1>1 DEF ToSet
  <2>3. n + 1 \in 1..(n + 1) /\ 1..n \subseteq 1..(n + 1)
    BY <1>1
  <2>. QED
    BY <1>1, <1>3, <2>1, <2>2, <2>3 DEF WithCandle
<1>. QED
  BY <1>1, <1>4, <1>5 DEF Fits, r

LEMMA ReplaceFits ==
    ASSUME NEW s \in Seq(Candle), Ascending(s), NEW c \in Candle,
           NEW k \in 1..Len(s), s[k].t = c.t
    PROVE  Fits(s, c, [s EXCEPT ![k] = c])
<1>. DEFINE r == [s EXCEPT ![k] = c]
            n == Len(s)
<1>1. /\ r \in Seq(Candle) /\ Len(r) = n /\ n \in Nat
      /\ \A i \in 1..n : r[i] = IF i = k THEN c ELSE s[i]
      /\ DOMAIN r = 1..n /\ DOMAIN s = 1..n /\ k \in 1..n
  OBVIOUS
<1>2. \A i \in 1..n : s[i] \in Candle /\ s[i].t \in Nat
  BY TimesAreNumbers
<1>3. \A i, j \in 1..n : i < j => s[i].t < s[j].t
  BY DEF Ascending
<1>. HIDE DEF r, n
<1>4. Ascending(r)
  BY <1>1, <1>3 DEF Ascending
<1>5. ToSet(r) = WithCandle(ToSet(s), c)
  <2>1. \A i \in 1..n : i # k => s[i].t # c.t
    BY <1>1, <1>2, <1>3
  <2>2. ToSet(r) = {r[i] : i \in 1..n} /\ ToSet(s) = {s[i] : i \in 1..n}
    BY <1>1 DEF ToSet
  <2>. QED
    BY <1>1, <2>1, <2>2 DEF WithCandle
<1>. QED
  BY <1>1, <1>4, <1>5 DEF Fits, r

LEMMA SeqIsFunction ==
    ASSUME NEW S, NEW q \in Seq(S)
    PROVE  q = [i \in 1..Len(q) |-> q[i]] /\ DOMAIN q = 1..Len(q)
OBVIOUS

LEMMA InsertFits ==
    ASSUME NEW s \in Seq(Candle), Ascending(s), NEW c \in Candle, NEW k \in 0..(Len(s) - 1),
           \A i \in 1..Len(s) : s[i].t < c.t <=> i <= k, s[k + 1].t # c.t
    PROVE  Fits(s, c, InsertAt(s, k + 1, c))
<1>. DEFINE r == InsertAt(s, k + 1, c)
            n == Len(s)
<1>1. n \in Nat /\ k \in Nat /\ k < n /\ DOMAIN s = 1..n /\ \A i \in 1..n : s[i] \in Candle
  OBVIOUS
<1>2. r = [i \in 1..(n + 1) |-> IF i <= k THEN s[i] ELSE IF i = k + 1 THEN c ELSE s[i - 1]]
  <2>1. SubSeq(s, 1, k) \in Seq(Candle) /\ Len(SubSeq(s, 1, k)) = k
        /\ \A i \in 1..k : SubSeq(s, 1, k)[i] = s[i]
    BY <1>1
  <2>2. SubSeq(s, k + 1, n) \in Seq(Candle) /\ Len(SubSeq(s, k + 1, n)) = n - k
        /\ \A i \in 1..(n - k) : SubSeq(s, k + 1, n)[i] = s[k + i]
    BY <1>1
  <2>3. r = SubSeq(s, 1, k) \o <<c>> \o SubSeq(s, k + 1, n)
    <3>1. (k + 1) - 1 = k
      BY <1>1
    <3>. QED
      BY <3>1, Zenon DEF InsertAt
  <2>. DEFINE a == SubSeq(s, 1, k)  b == SubSeq(s, k + 1, n)  e == a \o <<c>>
  <2>. HIDE DEF a, b, n
  <2>4. e \in Seq(Candle) /\ Len(e) = k + 1 /\ e[k + 1] = c /\ \A i \in 1..k : e[i] = s[i]
    BY <1>1, <2>1 DEF a
  <2>. HIDE DEF e
  <2>5. /\ e \o b \in Seq(Candle) /\ Len(e \o b) = n + 1
        /\ \A i \in 1..(k + 1) : (e \o b)[i] = e[i]
        /\ \A i \in (k + 2)..(n + 1) : (e \o b)[i] = b[i - (k + 1)]
    BY <1>1, <2>2, <2>4 DEF b
  <2>6. \A i \in (k + 2)..(n + 1) : (e \o b)[i] = s[i - 1]
    <3>. SUFFICES ASSUME NEW i \in (k + 2)..(n + 1) PROVE (e \o b)[i] = s[i - 1]
      OBVIOUS
    <3>1. i - (k + 1) \in 1..(n - k) /\ k + (i - (k + 1)) = i - 1
      BY <1>1
    <3>. QED
      BY <2>2, <2>5, <3>1 DEF b
  <2>7. \A i \in 1..(n + 1) :
            (e \o b)[i] = IF i <= k THEN s[i] ELSE IF i = k + 1 THEN c ELSE s[i - 1]
    BY <1>1, <2>4, <2>5, <2>6
  <2>8. DOMAIN (e \o b) = 1..(n + 1) /\ e \o b = [i \in 1..(n + 1) |-> (e \o b)[i]]
    BY <2>5, SeqIsFunction
  <2>. QED
    BY <2>3, <2>7, <2>8 DEF a, b, e
<1>3. \A i \in 1..n : s[i] \in Candle /\ s[i].t \in Nat /\ c.t \in Nat
  BY TimesAreNumbers, TimesAssumption DEF Candle
<1>4. \A i, j \in 1..n : i < j => s[i].t < s[j].t
  BY DEF Ascending
\* What is behind the place is later than c.
<1>5. \A i \in 1..n : i > k => s[i].t > c.t
  <2>1. s[k + 1].t > c.t
    BY <1>1, <1>3
  <2>. QED
    BY <1>1, <1>3, <1>4, <2>1
<1>6. \A i \in 1..n : i <= k => s[i].t < c.t
  OBVIOUS
<1>. HIDE DEF r, n
<1>7. /\ DOMAIN r = 1..(n + 1)
      /\ \A i \in 1..(n + 1) : \/ i <= k /\ i \in 1..n /\ r[i] = s[i]
                               \/ i = k + 1 /\ r[i] = c
                               \/ i > k + 1 /\ i - 1 \in 1..n /\ r[i] = s[i - 1]
  BY <1>1, <1>2
<1>8. r \in [1..(n + 1) -> Candle] /\ r \in Seq(Candle) /\ Len(r) = n + 1
  <2>1. \A i \in 1..(n + 1) : r[i] \in Candle
    BY <1>1, <1>7
  <2>2. r \in [1..(n + 1) -> Candle]
    BY <1>2, <2>1
  <2>. QED
    BY <1>1, <2>2
<1>9. Ascending(r)
  <2>. SUFFICES ASSUME NEW i \in 1..(n + 1), NEW j \in 1..(n + 1), i < j
                PROVE  r[i].t < r[j].t
    BY <1>8 DEF Ascending
  <2>1. CASE j <= k
    BY <1>1, <1>4, <1>7, <2>1
  <2>2. CASE j = k + 1
    BY <1>1, <1>6, <1>7, <2>2
  <2>3. CASE j > k + 1
    <3>1. j - 1 \in 1..n /\ r[j] = s[j - 1] /\ j - 1 > k
      BY <1>1, <1>7, <2>3
    <3>2. CASE i <= k
      BY <1>1, <1>4, <1>7, <3>1, <3>2
    <3>3. CASE i = k + 1
      BY <1>1, <1>3, <1>5, <1>7, <3>1, <3>3
    <3>4. CASE i > k + 1
      BY <1>1, <1>4, <1>7, <3>1, <3>4
    <3>. QED
      BY <1>1, <3>2, <3>3, <3>4
  <2>. QED
    BY <1>1, <2>1, <2>2, <2>3
<1>10. ToSet(r) = WithCandle(ToSet(s), c)
  <2>1. \A i \in 1..n : s[i].t # c.t
    BY <1>1, <1>3, <1>5, <1>6
  <2>2. ToSet(r) = {r[i] : i \in 1..(n + 1)} /\ ToSet(s) = {s[i] : i \in 1..n}
    BY <1>1, <1>7 DEF ToSet
  <2>3. k + 1 \in 1..(n + 1) /\ r[k + 1] = c
    BY <1>1, <1>7
  <2>4. \A i \in 1..n : \E j \in 1..(n + 1) : r[j] = s[i]
    <3>. SUFFICES ASSUME NEW i \in 1..n PROVE \E j \in 1..(n + 1) : r[j] = s[i]
      OBVIOUS
    <3>1. CASE i <= k
      BY <1>1, <1>7, <3>1
    <3>2. CASE i > k
      <4>1. i + 1 \in 1..(n + 1) /\ i + 1 > k + 1 /\ (i + 1) - 1 = i
        BY <1>1, <3>2
      <4>2. r[i + 1] = s[i]
        BY <1>2, <4>1, <1>1
      <4>. QED
        BY <4>1, <4>2
    <3>. QED
      BY <1>1, <3>1, <3>2
  <2>5. \A j \in 1..(n + 1) : r[j] = c \/ \E i \in 1..n : r[j] = s[i]
    BY <1>7
  <2>. QED
    BY <2>1, <2>2, <2>3, <2>4, <2>5 DEF WithCandle
<1>. QED
  BY <1>8, <1>9, <1>10 DEF Fits, r

\* Wherever it goes, a candle is placed where it belongs.
LEMMA PlacedFits ==
    ASSUME NEW s \in Seq(Candle), Ascending(s), NEW c \in Candle
    PROVE  Fits(s, c, Placed(s, c))
<1>. DEFINE n == Len(s)
            k == Bisect(s, c.t)
<1>1. n \in Nat /\ \A i \in 1..n : s[i] \in Candle /\ s[i].t \in Nat
  BY TimesAreNumbers
<1>2. c.t \in Nat
  BY TimesAssumption DEF Candle
<1>3. k \in 0..n /\ \A i \in 1..n : s[i].t < c.t <=> i <= k
  BY <1>2, BisectFinds DEF Before
<1>. HIDE DEF n, k
<1>4. CASE s = <<>>
  <2>1. Placed(s, c) = Append(s, c)
    BY <1>4 DEF Placed
  <2>2. \A i \in 1..Len(s) : FALSE
    BY <1>4
  <2>. QED
    BY <2>1, <2>2, AppendFits
<1>5. ASSUME s # <<>> PROVE n \in 1..n /\ Last(s) = s[n]
  BY <1>1, <1>5 DEF Last, n
<1>6. CASE s # <<>> /\ c.t > s[n].t
  <2>1. Placed(s, c) = Append(s, c)
    BY <1>1, <1>2, <1>5, <1>6 DEF Placed
  <2>2. \A i \in 1..Len(s) : s[i].t < c.t
    BY <1>1, <1>2, <1>5, <1>6 DEF Ascending, n
  <2>. QED
    BY <2>1, <2>2, AppendFits
<1>7. CASE s # <<>> /\ c.t = s[n].t
  <2>1. Placed(s, c) = [s EXCEPT ![n] = c]
    BY <1>1, <1>2, <1>5, <1>7 DEF Placed, n
  <2>. QED
    BY <1>5, <1>7, <2>1, ReplaceFits DEF n
<1>8. CASE s # <<>> /\ c.t < s[n].t
  <2>1. Placed(s, c) = IF k < n /\ s[k + 1].t = c.t THEN [s EXCEPT ![k + 1] = c]
                       ELSE InsertAt(s, k + 1, c)
    BY <1>1, <1>2, <1>5, <1>8 DEF Placed, n, k
  <2>2. k < n
    BY <1>1, <1>2, <1>3, <1>5, <1>8
  <2>3. k \in 0..(n - 1) /\ k + 1 \in 1..n
    BY <1>1, <1>3, <2>2
  <2>4. CASE s[k + 1].t = c.t
    BY <2>1, <2>2, <2>3, <2>4, ReplaceFits DEF n
  <2>5. CASE s[k + 1].t # c.t
    BY <1>3, <2>1, <2>2, <2>3, <2>5, InsertFits DEF n
  <2>. QED
    BY <2>4, <2>5
<1>. QED
  BY <1>1, <1>2, <1>4, <1>5, <1>6, <1>7, <1>8

\* The places behind i hold the later candles.
LEMMA LaterBehind ==
    ASSUME NEW s \in Seq(Candle), Ascending(s), NEW i \in 1..Len(s)
    PROVE  /\ IsFiniteSet({d \in ToSet(s) : d.t > s[i].t})
           /\ Cardinality({d \in ToSet(s) : d.t > s[i].t}) = Len(s) - i
<1>. DEFINE n == Len(s)
            S == {d \in ToSet(s) : d.t > s[i].t}
            D == (i + 1)..n
            f == [j \in D |-> s[j]]
<1>1. n \in Nat /\ i \in 1..n /\ \A j \in 1..n : s[j] \in Candle /\ s[j].t \in Nat
  BY TimesAreNumbers
<1>2. \A j, k \in 1..n : j < k => s[j].t < s[k].t
  BY DEF Ascending
<1>. HIDE DEF n
<1>3. S = {s[j] : j \in D}
  <2>1. ToSet(s) = {s[j] : j \in 1..n}
    BY DEF ToSet, n
  <2>2. ASSUME NEW j \in 1..n PROVE s[j].t > s[i].t <=> j \in D
    <3>1. CASE j < i
      BY <1>1, <1>2, <3>1
    <3>2. CASE j = i
      BY <1>1, <3>2
    <3>3. CASE j > i
      BY <1>1, <1>2, <3>3
    <3>. QED
      BY <1>1, <3>1, <3>2, <3>3
  <2>3. D \subseteq 1..n
    BY <1>1
  <2>. HIDE DEF D
  <2>. QED
    BY <2>1, <2>2, <2>3
<1>4. \A j, k \in D : s[j] = s[k] => j = k
  <2>. SUFFICES ASSUME NEW j \in D, NEW k \in D, j < k PROVE s[j] # s[k]
    BY <1>1
  <2>1. s[j].t < s[k].t /\ s[j].t \in Nat
    BY <1>1, <1>2
  <2>. QED
    BY <2>1
<1>5. f \in Surjection(D, S) /\ f \in Injection(D, S)
  BY <1>3, <1>4 DEF Surjection, Injection, IsInjective
<1>6. IsFiniteSet(D) /\ Cardinality(D) = n - i
  BY <1>1, FS_Interval
<1>. HIDE DEF D, S, f
<1>7. IsFiniteSet(S) /\ Cardinality(S) = n - i
  BY <1>5, <1>6, FS_Surjection
<1>. QED
  BY <1>7 DEF S, n

\* Trimming keeps the newest.
LEMMA TailElements ==
    ASSUME NEW s \in Seq(Candle), NEW off \in Nat, NEW m \in Nat, off + m = Len(s)
    PROVE  /\ SubSeq(s, off + 1, Len(s)) \in Seq(Candle)
           /\ Len(SubSeq(s, off + 1, Len(s))) = m
           /\ \A i \in 1..m : SubSeq(s, off + 1, Len(s))[i] = s[off + i]
<1>. DEFINE n == Len(s)
            r == SubSeq(s, off + 1, n)
<1>1. n \in Nat /\ off + 1 \in 1..(n + 1) /\ n \in off..n
  OBVIOUS
<1>2. /\ r \in Seq(Candle) /\ Len(r) = IF off + 1 <= n THEN n - (off + 1) + 1 ELSE 0
      /\ \A i \in 1..(n - (off + 1) + 1) : r[i] = s[(off + 1) + i - 1]
  BY <1>1, SubSeqProperties
<1>. HIDE DEF n, r
<1>3. off + m = n
  BY DEF n
<1>4. Len(r) = m
  BY <1>1, <1>2, <1>3
<1>5. ASSUME NEW i \in 1..m PROVE r[i] = s[off + i]
  <2>1. i \in 1..(n - (off + 1) + 1) /\ (off + 1) + i - 1 = off + i
    BY <1>1, <1>3
  <2>. QED
    BY <1>2, <2>1
<1>. QED
  BY <1>2, <1>4, <1>5 DEF n, r

LEMMA TrimmedIsNewest ==
    ASSUME NEW s \in Seq(Candle), Ascending(s)
    PROVE  /\ Trimmed(s) \in Seq(Candle) /\ Ascending(Trimmed(s))
           /\ ToSet(Trimmed(s)) = Promise!Newest(ToSet(s))
<1>. DEFINE n == Len(s)
            r == Trimmed(s)
<1>1. n \in Nat /\ MaxLen \in Nat \ {0} /\ \A j \in 1..n : s[j] \in Candle /\ s[j].t \in Nat
  BY TimesAreNumbers, MaxLenAssumption
<1>2. \A j, k \in 1..n : j < k => s[j].t < s[k].t
  BY DEF Ascending
<1>3. ToSet(s) = {s[j] : j \in 1..n}
  BY DEF ToSet
<1>4. \A i \in 1..n : Cardinality({d \in ToSet(s) : d.t > s[i].t}) = n - i
  BY LaterBehind
<1>5. ASSUME NEW i \in 1..n
      PROVE  s[i] \in Promise!Newest(ToSet(s)) <=> n - i < MaxLen
  <2>1. s[i] \in ToSet(s)
    BY <1>3
  <2>2. s[i] \in Promise!Newest(ToSet(s))
            <=> Promise!Cardinality({d \in ToSet(s) : d.t > s[i].t}) < MaxLen
    BY <2>1 DEF Promise!Newest
  <2>3. \A S : Promise!Cardinality(S) = Cardinality(S)
    BY DEF Promise!Cardinality, Cardinality
  <2>. QED
    BY <1>4, <2>2, <2>3
<1>6. Promise!Newest(ToSet(s)) = {s[i] : i \in {j \in 1..n : n - j < MaxLen}}
  <2>1. Promise!Newest(ToSet(s)) \subseteq ToSet(s)
    BY DEF Promise!Newest
  <2>. QED
    BY <1>3, <1>5, <2>1
<1>. HIDE DEF n
<1>7. CASE n > MaxLen
  <2>1. PICK off \in Nat : off = n - MaxLen /\ off + MaxLen = n /\ off + 1 \in 1..n /\ off < n
    BY <1>1, <1>7
  <2>2. r = SubSeq(s, off + 1, n)
    BY <1>7, <2>1 DEF Trimmed, n
  <2>3. /\ r \in Seq(Candle) /\ Len(r) = MaxLen
        /\ \A i \in 1..MaxLen : r[i] = s[off + i]
    <3>1. MaxLen \in Nat /\ off + MaxLen = Len(s) /\ r = SubSeq(s, off + 1, Len(s))
      BY <1>1, <2>1, <2>2 DEF n
    <3>. HIDE DEF r
    <3>. QED
      BY <3>1, TailElements
  <2>. HIDE DEF r
  <2>4. Ascending(r)
    <3>. SUFFICES ASSUME NEW i \in 1..MaxLen, NEW j \in 1..MaxLen, i < j PROVE r[i].t < r[j].t
      BY <2>3 DEF Ascending
    <3>1. off + i \in 1..n /\ off + j \in 1..n /\ off + i < off + j
      BY <1>1, <2>1
    <3>. QED
      BY <1>2, <2>3, <3>1
  <2>5. ToSet(r) = {r[i] : i \in 1..MaxLen}
    BY <2>3, SeqIsFunction DEF ToSet
  <2>6. ASSUME NEW j \in 1..n, n - j < MaxLen PROVE s[j] \in ToSet(r)
    <3>1. PICK k \in Int : k = j - off
      BY <1>1, <2>1
    <3>2. k \in 1..MaxLen /\ off + k = j
      BY <1>1, <2>1, <2>6, <3>1
    <3>. QED
      BY <2>3, <2>5, <3>2
  <2>7. ASSUME NEW i \in 1..MaxLen PROVE \E j \in 1..n : n - j < MaxLen /\ r[i] = s[j]
    <3>1. off + i \in 1..n /\ n - (off + i) < MaxLen
      BY <1>1, <2>1
    <3>. QED
      BY <2>3, <3>1
  <2>8. ToSet(r) = {s[i] : i \in {j \in 1..n : n - j < MaxLen}}
    BY <2>5, <2>6, <2>7
  <2>. QED
    BY <1>6, <2>3, <2>4, <2>8 DEF r
<1>8. CASE n <= MaxLen
  <2>1. r = s
    BY <1>1, <1>8 DEF Trimmed, n
  <2>2. \A j \in 1..n : n - j < MaxLen
    BY <1>1, <1>8
  <2>3. ToSet(s) = Promise!Newest(ToSet(s))
    BY <1>3, <1>6, <2>2
  <2>. QED
    BY <2>1, <2>3 DEF r
<1>. QED
  BY <1>1, <1>7, <1>8

-----------------------------------------------------------------------------
(* The buffer *)

BufferInv == candles \in Seq(Candle) /\ Ascending(candles)

LEMMA UpsertIsNewest ==
    ASSUME BufferInv, NEW c \in Candle, Upsert(c)
    PROVE  BufferInv' /\ ToSet(candles') = Promise!Newest(WithCandle(ToSet(candles), c))
<1>. DEFINE r == Placed(candles, c)
<1>1. Fits(candles, c, r)
  BY PlacedFits DEF BufferInv
<1>2. candles' = Trimmed(r)
  BY DEF Upsert
<1>. HIDE DEF r
<1>3. /\ candles' \in Seq(Candle) /\ Ascending(candles')
      /\ ToSet(candles') = Promise!Newest(ToSet(r))
  BY <1>1, <1>2, TrimmedIsNewest DEF Fits
<1>. QED
  BY <1>1, <1>3 DEF Fits, BufferInv, Ascending

LEMMA BufferStep ==
    /\ Init => BufferInv
    /\ BufferInv /\ [Next]_candles => BufferInv'
<1>1. Init => BufferInv
  BY DEF Init, BufferInv, Ascending
<1>2. ASSUME BufferInv, [Next]_candles PROVE BufferInv'
  BY <1>2, UpsertIsNewest DEF Next, BufferInv, Ascending
<1>. QED
  BY <1>1, <1>2

\* The list is strictly ascending, whatever comes in whatever order (upsert).
THEOREM AlwaysAscending == Spec => []StrictlySorted
<1>1. BufferInv => StrictlySorted
  BY SeqIsFunction DEF BufferInv, Ascending, StrictlySorted
<1>. QED
  BY BufferStep, <1>1, PTL DEF Spec

\* The buffer keeps of every minute the candle given last, and the newest
\* maxlen minutes: it implements NewestCandles.
THEOREM NewestAreKept == Spec => KeepsNewest
<1>1. Init => Promise!Init
  BY DEF Init, Promise!Init, ToSet
<1>2. BufferInv /\ [Next]_candles => [Promise!Next]_(ToSet(candles))
  <2>. SUFFICES ASSUME BufferInv, [Next]_candles PROVE [Promise!Next]_(ToSet(candles))
    OBVIOUS
  <2>1. CASE UNCHANGED candles
    BY <2>1 DEF ToSet
  <2>2. ASSUME NEW c \in Candle, Upsert(c) PROVE Promise!Next
    <3>1. ToSet(candles') = Promise!Newest(WithCandle(ToSet(candles), c))
      BY <2>2, UpsertIsNewest
    <3>2. ToSet(candles)' = ToSet(candles')
      BY DEF ToSet
    <3>3. Promise!Upsert(c)
      BY <3>1, <3>2 DEF Promise!Upsert, WithCandle
    <3>. QED
      BY <3>3 DEF Promise!Next
  <2>. QED
    BY <2>1, <2>2 DEF Next
<1>. QED
  BY BufferStep, <1>1, <1>2, PTL DEF Spec, KeepsNewest, Promise!Spec
===============================================================================
