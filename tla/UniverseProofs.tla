--------------------------- MODULE UniverseProofs ---------------------------
(***************************************************************************)
(* However many refreshes run at once, and whatever the exchange answers   *)
(* each of them, the active rows are those of one selection.               *)
(*                                                                         *)
(* The UPDATE of a refresh does not see rows that another one has inserted *)
(* and not committed.  What makes it see all the rows there are is that no *)
(* two refreshes are past persist_market_data: both would hold the row of  *)
(* Anchor.  So the table does not change under the one that is, and its    *)
(* writes are what the whole table has to become.                          *)
(***************************************************************************)
EXTENDS Universe, FiniteSetTheorems, WellFoundedInduction, TLAPS

Phases == {"idle", "selected", "market", "updating", "deactivated", "upserted"}
Writing == {"market", "updating", "deactivated", "upserted"}

Rows == {s \in Instrument : table[s] # None}
Deactivated(s) == [table[s] EXCEPT !.active = FALSE, !.baseline = FALSE]

Types ==
    /\ phase \in [Refresh -> Phases]
    /\ answer = [r \in Refresh |-> answer[r]]
    /\ selection = [r \in Refresh |-> selection[r]]
    /\ held = [r \in Refresh |-> held[r]]
    /\ visible = [r \in Refresh |-> visible[r]]
    /\ writes = [r \in Refresh |-> writes[r]]
    /\ table \in [Instrument -> Row \cup {None}]

\* A selection names instruments, and none of them twice.
IsSelection(sel) ==
    /\ \E n \in Nat : sel.members \in [1..n -> Instrument]
    /\ \A i, j \in DOMAIN sel.members : i # j => sel.members[i] # sel.members[j]

AnchorHeld ==
    \A r \in Refresh :
        /\ phase[r] = "selected" => Anchor \in DOMAIN answer[r]
        /\ phase[r] \in Writing => Anchor \in held[r]

OneWriter ==
    \A r, o \in Refresh : phase[r] \in Writing /\ phase[o] \in Writing => r = o

\* What a refresh has seen and written, against the table as it is.
WritesFit(r) ==
    /\ phase[r] # "idle" => IsSelection(selection[r])
    /\ phase[r] = "updating" => visible[r] = Rows
    /\ phase[r] \in {"deactivated", "upserted"} =>
           /\ Rows \subseteq DOMAIN writes[r] /\ DOMAIN writes[r] \subseteq Instrument
           /\ \A s \in DOMAIN writes[r] \ ToSet(selection[r].members) :
                  s \in Rows /\ writes[r][s] = Deactivated(s)
    /\ phase[r] = "upserted" =>
           \A i \in DOMAIN selection[r].members :
               /\ selection[r].members[i] \in DOMAIN writes[r]
               /\ writes[r][selection[r].members[i]] = MemberRow(selection[r], i)

UniverseInv ==
    /\ Types /\ AnchorHeld /\ OneWriter
    /\ \A r \in Refresh : WritesFit(r)
    /\ ActiveIsOneSelection

-----------------------------------------------------------------------------
(* Selections *)

\* Numbers are well-founded by <.
LEMMA LessIsWellFounded ==
    \E R \in {OpToRel(<, Nat)} :
        IsWellFoundedOn(R, Nat) /\ \A x, y \in Nat : <<x, y>> \in R <=> x < y
BY NatLessThanWellFounded DEF OpToRel

\* So a set of numbers that is not empty has a least one.
LEMMA LeastNumber ==
    ASSUME NEW T, T \subseteq Nat, T # {}
    PROVE  \E x \in T : \A y \in T : x =< y
<1>1. PICK R : IsWellFoundedOn(R, Nat) /\ \A x, y \in Nat : <<x, y>> \in R <=> x < y
  BY LessIsWellFounded, Zenon
<1>2. IsWellFoundedOn(R, Nat)
  BY <1>1, Zenon
<1>3. PICK x \in T : \A y \in T : ~ (<<y, x>> \in R)
  BY <1>2, WFMin, Zenon
<1>4. \A y \in T : y \in Nat /\ x \in Nat
  BY SMT
<1>5. \A y \in T : ~(y < x)
  BY <1>4, <1>1, <1>3, Zenon
<1>6. \A y \in T : x =< y
  BY <1>4, <1>5
<1>. QED
  BY <1>6

\* The baseline of an order is in it.
LEMMA BaselineListed ==
    ASSUME NEW n \in Nat \ {0}, NEW o \in [1..n -> Instrument]
    PROVE  BaselineSymbol(o) \in Instrument
<1>. DEFINE btc == {i \in DOMAIN o : o[i] \in Btc}
<1>1. CASE btc # {}
  <2>1. btc \subseteq Nat
    OBVIOUS
  <2>2. Min(btc) \in btc
    BY <1>1, <2>1, LeastNumber, Zenon DEF Min
  <2>3. o[Min(btc)] \in Instrument
    BY <2>2
  <2>. QED
    BY <1>1, <2>3 DEF BaselineSymbol
<1>2. CASE btc = {}
  <2>1. o[1] \in Instrument
    OBVIOUS
  <2>. QED
    BY <1>2, <2>1 DEF BaselineSymbol
<1>. QED
  BY <1>1, <1>2

\* select_universe() makes a selection of the candidates.
LEMMA SelectionMade ==
    ASSUME NEW v, Candidates(v) # {}, NEW o \in ByVolume(v)
    PROVE  IsSelection([members |-> Members(o), baseline |-> BaselineSymbol(o)])
<1>. DEFINE n == Cardinality(Candidates(v))
<1>1. Candidates(v) \subseteq Instrument
  BY InstrumentAssumption DEF Candidates
<1>2. IsFiniteSet(Candidates(v))
  BY <1>1, InstrumentAssumption, FS_Subset
<1>3. n \in Nat \ {0}
  BY <1>2, FS_CardinalityType, FS_EmptySet
<1>4. /\ o \in [1..n -> Candidates(v)]
      /\ \A i, j \in 1..n : i # j => o[i] # o[j]
  BY DEF ByVolume, SetToSeqs
<1>. HIDE DEF n
<1>5. o \in [1..n -> Instrument] /\ o \in Seq(Instrument) /\ Len(o) = n
  BY <1>1, <1>3, <1>4
<1>6. BaselineSymbol(o) \in Instrument
  BY <1>3, <1>5, BaselineListed
<1>7. PICK k \in 1..n : Top(o) = [i \in 1..k |-> o[i]]
  <2>. DEFINE k == IF Len(o) < MaxSize THEN Len(o) ELSE MaxSize
  <2>1. k \in 1..n
    BY <1>3, <1>5, NumberAssumption
  <2>2. SubSeq(o, 1, k) = [i \in 1..k |-> o[i]]
    BY <1>5, <2>1
  <2>. QED
    BY <2>1, <2>2 DEF Top
<1>8. CASE BaselineSymbol(o) \in ToSet(Top(o))
  <2>1. Members(o) = [i \in 1..k |-> o[i]]
    BY <1>7, <1>8 DEF Members
  <2>2. k \in Nat /\ Members(o) \in [1..k -> Instrument]
    BY <1>5, <1>7, <2>1
  <2>3. DOMAIN Members(o) = 1..k /\ 1..k \subseteq 1..n
    BY <1>3, <1>7, <2>1
  <2>4. \A i \in 1..k : Members(o)[i] = o[i]
    BY <2>1
  <2>5. \A i, j \in DOMAIN Members(o) : i # j => Members(o)[i] # Members(o)[j]
    BY <1>4, <2>3, <2>4, Zenon
  <2>. QED
    BY <2>2, <2>5 DEF IsSelection
<1>9. CASE BaselineSymbol(o) \notin ToSet(Top(o))
  <2>. DEFINE b == BaselineSymbol(o)
              m == [i \in 1..(k + 1) |-> IF i = k + 1 THEN b ELSE o[i]]
  <2>1. Top(o) \in Seq(Instrument) /\ Len(Top(o)) = k /\ k \in Nat
    BY <1>5, <1>7
  <2>2. Members(o) = Append(Top(o), b)
    BY <1>9 DEF Members
  <2>3. Members(o) = m
    BY <1>6, <1>7, <2>1, <2>2
  <2>4. \A i \in 1..k : o[i] # b
    BY <1>7, <1>9 DEF ToSet
  <2>5. m \in [1..(k + 1) -> Instrument]
    BY <1>5, <1>6, <1>7, <2>1
  <2>6. \A i, j \in 1..(k + 1) : i # j => m[i] # m[j]
    <3>. SUFFICES ASSUME NEW i \in 1..(k + 1), NEW j \in 1..(k + 1), i # j PROVE m[i] # m[j]
      OBVIOUS
    <3>1. CASE i = k + 1
      BY <3>1, <2>1, <2>4
    <3>2. CASE j = k + 1
      BY <3>2, <2>1, <2>4
    <3>3. CASE i # k + 1 /\ j # k + 1
      <4>1. i \in 1..n /\ j \in 1..n
        BY <3>3, <2>1, <1>3, <1>7
      <4>2. m[i] = o[i] /\ m[j] = o[j]
        BY <3>3
      <4>. QED
        BY <4>1, <4>2, <1>4
    <3>. QED
      BY <3>1, <3>2, <3>3
  <2>. QED
    BY <2>1, <2>3, <2>5, <2>6 DEF IsSelection
<1>. QED
  BY <1>8, <1>9

-----------------------------------------------------------------------------
(* The transaction *)

LEMMA UniverseInit == Init => UniverseInv
BY DEF Init, UniverseInv, Types, Phases, AnchorHeld, Writing, OneWriter, WritesFit, Active,
       ActiveIsOneSelection, NoSelection, ToSet

\* What a refresh has written goes on to fit while neither it nor the table changes.
LEMMA OthersFit ==
    ASSUME NEW o, WritesFit(o), UNCHANGED table, phase'[o] = phase[o],
           selection'[o] = selection[o], visible'[o] = visible[o], writes'[o] = writes[o]
    PROVE  WritesFit(o)'
<1>1. Rows' = Rows /\ \A s : Deactivated(s)' = Deactivated(s)
  BY DEF Rows, Deactivated
<1>2. \A i : MemberRow(selection[o], i)' = MemberRow(selection[o], i)
  BY DEF MemberRow
<1>3. IsSelection(selection[o])' <=> IsSelection(selection[o])
  BY DEF IsSelection
<1>4. ToSet(selection[o].members)' = ToSet(selection[o].members)
  BY DEF ToSet
<1>. QED
  BY <1>1, <1>2, <1>3, <1>4 DEF WritesFit

LEMMA TableKept ==
    ASSUME ActiveIsOneSelection, UNCHANGED <<table, current>>
    PROVE  ActiveIsOneSelection'
<1>1. Active' = Active /\ \A i : MemberRow(current, i)' = MemberRow(current, i)
  BY DEF Active, MemberRow
<1>. QED
  BY <1>1 DEF ActiveIsOneSelection, ToSet

LEMMA SelectFits ==
    ASSUME UniverseInv, NEW r \in Refresh, Select(r)
    PROVE  UniverseInv'
<1>0. PICK v :
          /\ Candidates(v) # {} /\ Anchor \in DOMAIN v
          /\ answer' = [answer EXCEPT ![r] = v]
          /\ \E o \in ByVolume(v) :
                 selection' = [selection EXCEPT ![r] =
                     [members |-> Members(o), baseline |-> BaselineSymbol(o)]]
  BY DEF Select
<1>1. PICK o \in ByVolume(v) :
          selection' = [selection EXCEPT ![r] =
              [members |-> Members(o), baseline |-> BaselineSymbol(o)]]
  BY <1>0
<1>2. /\ phase' = [phase EXCEPT ![r] = "selected"]
      /\ UNCHANGED <<held, visible, writes, table, current>>
  BY DEF Select
<1>3. Types'
  BY <1>0, <1>1, <1>2 DEF UniverseInv, Types, Phases
<1>4. AnchorHeld' /\ OneWriter'
  BY <1>0, <1>1, <1>2 DEF UniverseInv, Types, AnchorHeld, OneWriter, Writing
<1>5. \A s \in Refresh : WritesFit(s)'
  <2>1. IsSelection(selection'[r])
    BY <1>0, <1>1, SelectionMade DEF UniverseInv, Types
  <2>2. WritesFit(r)'
    BY <1>2, <2>1 DEF UniverseInv, Types, WritesFit, IsSelection
  <2>3. ASSUME NEW s \in Refresh, s # r PROVE WritesFit(s)'
    BY <1>0, <1>1, <1>2, <2>3, OthersFit DEF UniverseInv, Types
  <2>. QED
    BY <2>2, <2>3
<1>. QED
  BY <1>2, <1>3, <1>4, <1>5, TableKept DEF UniverseInv

LEMMA PersistFits ==
    ASSUME UniverseInv, NEW r \in Refresh, PersistMarketData(r)
    PROVE  UniverseInv'
<1>1. Types'
  BY DEF PersistMarketData, UniverseInv, Types, Phases
<1>2. AnchorHeld'
  BY DEF PersistMarketData, UniverseInv, Types, AnchorHeld, Writing
\* Another one that writes would hold the row of Anchor.
<1>3. OneWriter'
  <2>1. \A o \in Refresh : Anchor \notin held[o]
    BY DEF PersistMarketData, UniverseInv, AnchorHeld
  <2>2. \A o \in Refresh : phase[o] \notin Writing
    BY <2>1 DEF UniverseInv, AnchorHeld
  <2>. QED
    BY <2>2 DEF PersistMarketData, UniverseInv, Types, OneWriter, Writing
<1>4. \A s \in Refresh : WritesFit(s)'
  <2>1. WritesFit(r)'
    BY DEF PersistMarketData, UniverseInv, Types, WritesFit, IsSelection
  <2>2. ASSUME NEW s \in Refresh, s # r PROVE WritesFit(s)'
    BY <2>2, OthersFit DEF PersistMarketData, UniverseInv, Types
  <2>. QED
    BY <2>1, <2>2
<1>. QED
  BY <1>1, <1>2, <1>3, <1>4, TableKept DEF UniverseInv, PersistMarketData

LEMMA BeginDeactivateFits ==
    ASSUME UniverseInv, NEW r \in Refresh, BeginDeactivate(r)
    PROVE  UniverseInv'
<1>1. Types'
  BY DEF BeginDeactivate, UniverseInv, Types, Phases
<1>2. AnchorHeld' /\ OneWriter'
  BY DEF BeginDeactivate, UniverseInv, Types, AnchorHeld, OneWriter, Writing
<1>3. \A s \in Refresh : WritesFit(s)'
  <2>1. WritesFit(r)'
    BY DEF BeginDeactivate, UniverseInv, Types, WritesFit, IsSelection, Rows
  <2>2. ASSUME NEW s \in Refresh, s # r PROVE WritesFit(s)'
    BY <2>2, OthersFit DEF BeginDeactivate, UniverseInv, Types
  <2>. QED
    BY <2>1, <2>2
<1>. QED
  BY <1>1, <1>2, <1>3, TableKept DEF UniverseInv, BeginDeactivate

LEMMA DeactivateFits ==
    ASSUME UniverseInv, NEW r \in Refresh, Deactivate(r)
    PROVE  UniverseInv'
<1>1. Types'
  BY DEF Deactivate, UniverseInv, Types, Phases
<1>2. AnchorHeld' /\ OneWriter'
  BY DEF Deactivate, UniverseInv, Types, AnchorHeld, OneWriter, Writing
<1>3. \A s \in Refresh : WritesFit(s)'
  <2>1. writes'[r] = [s \in Rows |-> Deactivated(s)]
    BY DEF Deactivate, UniverseInv, Types, WritesFit, Rows, Deactivated
  <2>2. /\ phase'[r] = "deactivated" /\ selection'[r] = selection[r] /\ UNCHANGED table
        /\ IsSelection(selection[r])
    BY DEF Deactivate, UniverseInv, Types, WritesFit
  <2>3. DOMAIN writes'[r] = Rows /\ \A s \in Rows : writes'[r][s] = Deactivated(s)
    BY <2>1
  <2>4. Rows' = Rows /\ Rows \subseteq Instrument /\ \A s : Deactivated(s)' = Deactivated(s)
    BY <2>2 DEF Rows, Deactivated
  <2>5. WritesFit(r)'
    BY <2>2, <2>3, <2>4 DEF WritesFit, IsSelection
  <2>6. ASSUME NEW s \in Refresh, s # r PROVE WritesFit(s)'
    BY <2>6, OthersFit DEF Deactivate, UniverseInv, Types
  <2>. QED
    BY <2>5, <2>6
<1>. QED
  BY <1>1, <1>2, <1>3, TableKept DEF UniverseInv, Deactivate

LEMMA UpsertFits ==
    ASSUME UniverseInv, NEW r \in Refresh, Upsert(r)
    PROVE  UniverseInv'
<1>. DEFINE sel == selection[r]
            members == ToSet(sel.members)
<1>1. Types'
  BY DEF Upsert, UniverseInv, Types, Phases
<1>2. AnchorHeld' /\ OneWriter'
  BY DEF Upsert, UniverseInv, Types, AnchorHeld, OneWriter, Writing
<1>3. \A s \in Refresh : WritesFit(s)'
  <2>1. writes'[r] = [s \in DOMAIN writes[r] \cup members |->
            IF s \in members
            THEN MemberRow(sel, CHOOSE i \in DOMAIN sel.members : sel.members[i] = s)
            ELSE writes[r][s]]
    BY DEF Upsert, UniverseInv, Types
  <2>2. /\ phase'[r] = "upserted" /\ selection'[r] = sel /\ UNCHANGED table
        /\ phase[r] = "deactivated" /\ IsSelection(sel)
    BY DEF Upsert, UniverseInv, Types, WritesFit
  <2>3. members \subseteq Instrument
    BY <2>2 DEF IsSelection, ToSet
  <2>4. Rows' = Rows /\ \A s : Deactivated(s)' = Deactivated(s)
    BY <2>2 DEF Rows, Deactivated
  <2>5. /\ Rows \subseteq DOMAIN writes[r] /\ DOMAIN writes[r] \subseteq Instrument
        /\ \A s \in DOMAIN writes[r] \ members : s \in Rows /\ writes[r][s] = Deactivated(s)
    BY <2>2 DEF UniverseInv, WritesFit
  \* No instrument has two places in the selection.
  <2>6. ASSUME NEW i \in DOMAIN sel.members
        PROVE  /\ sel.members[i] \in DOMAIN writes'[r]
               /\ writes'[r][sel.members[i]] = MemberRow(sel, i)
    <3>1. sel.members[i] \in members
      BY DEF ToSet
    <3>2. (CHOOSE j \in DOMAIN sel.members : sel.members[j] = sel.members[i]) = i
      BY <2>2 DEF IsSelection
    <3>. QED
      BY <2>1, <3>1, <3>2
  <2>7. \A s \in DOMAIN writes'[r] \ members : s \in Rows /\ writes'[r][s] = Deactivated(s)
    BY <2>1, <2>5
  <2>8. Rows \subseteq DOMAIN writes'[r] /\ DOMAIN writes'[r] \subseteq Instrument
    BY <2>1, <2>3, <2>5
  <2>9. \A i : MemberRow(sel, i)' = MemberRow(sel', i)
    BY DEF MemberRow
  <2>10. WritesFit(r)'
    BY <2>2, <2>4, <2>6, <2>7, <2>8, <2>9 DEF WritesFit, IsSelection
  <2>11. ASSUME NEW s \in Refresh, s # r PROVE WritesFit(s)'
    BY <2>11, OthersFit DEF Upsert, UniverseInv, Types
  <2>. QED
    BY <2>10, <2>11
<1>. QED
  BY <1>1, <1>2, <1>3, TableKept DEF UniverseInv, Upsert

\* The other refreshes go on as they were when one has ended.
LEMMA ReleaseFits ==
    ASSUME UniverseInv, NEW r \in Refresh, Release(r)
    PROVE  /\ phase' \in [Refresh -> Phases]
           /\ AnchorHeld' /\ OneWriter' /\ WritesFit(r)'
           /\ \A o \in Refresh \ {r} :
                  /\ phase'[o] = phase[o] /\ selection'[o] = selection[o]
                  /\ visible'[o] = visible[o] /\ writes'[o] = writes[o]
           /\ answer' = [o \in Refresh |-> answer'[o]]
           /\ selection' = [o \in Refresh |-> selection'[o]]
           /\ held' = [o \in Refresh |-> held'[o]]
           /\ visible' = [o \in Refresh |-> visible'[o]]
           /\ writes' = [o \in Refresh |-> writes'[o]]
<1>1. AnchorHeld' /\ OneWriter'
  BY DEF Release, UniverseInv, Types, AnchorHeld, OneWriter, Writing
<1>2. WritesFit(r)'
  BY DEF Release, UniverseInv, Types, WritesFit
<1>. QED
  BY <1>1, <1>2 DEF Release, UniverseInv, Types, Phases

LEMMA FailFits ==
    ASSUME UniverseInv, NEW r \in Refresh, Fail(r)
    PROVE  UniverseInv'
<1>1. Release(r) /\ UNCHANGED <<table, current>>
  BY DEF Fail
<1>2. Types' /\ AnchorHeld' /\ OneWriter' /\ WritesFit(r)'
  BY <1>1, ReleaseFits DEF UniverseInv, Types
<1>3. ASSUME NEW o \in Refresh, o # r PROVE WritesFit(o)'
  BY <1>1, <1>3, ReleaseFits, OthersFit DEF UniverseInv
<1>. QED
  BY <1>1, <1>2, <1>3, TableKept DEF UniverseInv

\* What the table is when the writes of r are committed: the members of the
\* selection in their places, and no other row active.
LEMMA CommittedTable ==
    ASSUME UniverseInv, NEW r \in Refresh, phase[r] = "upserted", NEW s \in Instrument,
           table'[s] = IF s \in DOMAIN writes[r] THEN writes[r][s] ELSE table[s]
    PROVE  /\ \A i \in DOMAIN selection[r].members :
                  s = selection[r].members[i] =>
                      table'[s] = MemberRow(selection[r], i) /\ table'[s] \in Row
           /\ s \notin ToSet(selection[r].members) =>
                  \/ table'[s] = None
                  \/ table'[s] \in Row /\ ~table'[s].active /\ ~table'[s].baseline
<1>. DEFINE sel == selection[r]
<1>1. WritesFit(r) /\ IsSelection(sel) /\ table[s] \in Row \cup {None}
  BY DEF UniverseInv, Types, WritesFit
<1>2. ASSUME NEW i \in DOMAIN sel.members, s = sel.members[i]
      PROVE  table'[s] = MemberRow(sel, i) /\ table'[s] \in Row
  <2>1. table'[s] = MemberRow(sel, i)
    BY <1>1, <1>2 DEF WritesFit
  <2>2. i \in Nat \ {0}
    BY <1>1, <1>2 DEF IsSelection
  <2>3. MemberRow(sel, i) \in Row
    BY <2>2 DEF MemberRow, Row
  <2>. QED
    BY <2>1, <2>3
<1>3. ASSUME s \notin ToSet(sel.members)
      PROVE  \/ table'[s] = None
             \/ table'[s] \in Row /\ ~table'[s].active /\ ~table'[s].baseline
  <2>1. CASE s \in DOMAIN writes[r]
    <3>1. s \in Rows /\ table'[s] = Deactivated(s)
      BY <1>1, <1>3, <2>1 DEF WritesFit
    <3>2. table[s] \in Row
      BY <1>1, <3>1 DEF Rows
    <3>. QED
      BY <3>1, <3>2 DEF Deactivated, Row
  <2>2. CASE s \notin DOMAIN writes[r]
    BY <1>1, <2>2 DEF WritesFit, Rows
  <2>. QED
    BY <2>1, <2>2
<1>. QED
  BY <1>2, <1>3

LEMMA CommitFits ==
    ASSUME UniverseInv, NEW r \in Refresh, Commit(r)
    PROVE  UniverseInv'
<1>. DEFINE sel == selection[r]
<1>1. /\ Release(r) /\ phase[r] = "upserted" /\ current' = sel
      /\ table' = [s \in Instrument |-> IF s \in DOMAIN writes[r] THEN writes[r][s] ELSE table[s]]
  BY DEF Commit
<1>2. IsSelection(sel)
  BY <1>1 DEF UniverseInv, WritesFit
<1>3. \A s \in Instrument :
          /\ \A i \in DOMAIN sel.members :
                 s = sel.members[i] => table'[s] = MemberRow(sel, i) /\ table'[s] \in Row
          /\ s \notin ToSet(sel.members) =>
                 \/ table'[s] = None
                 \/ table'[s] \in Row /\ ~table'[s].active /\ ~table'[s].baseline
  BY <1>1, CommittedTable
<1>4. table' \in [Instrument -> Row \cup {None}]
  <2>1. \A s \in Instrument : table'[s] \in Row \cup {None}
    BY <1>3 DEF ToSet
  <2>. QED
    BY <1>1, <2>1
<1>5. Types' /\ AnchorHeld' /\ OneWriter' /\ WritesFit(r)'
  BY <1>1, <1>4, ReleaseFits DEF Types
\* No other one has looked at the table that has changed now.
<1>6. ASSUME NEW o \in Refresh, o # r PROVE WritesFit(o)'
  <2>1. phase[o] \notin Writing
    BY <1>1, <1>6 DEF UniverseInv, OneWriter, Writing
  <2>2. phase'[o] = phase[o] /\ selection'[o] = selection[o] /\ WritesFit(o)
    BY <1>1, <1>6, ReleaseFits DEF UniverseInv
  <2>. QED
    BY <2>1, <2>2 DEF WritesFit, Writing, IsSelection
<1>7. ActiveIsOneSelection'
  <2>1. \A i \in DOMAIN sel.members : sel.members[i] \in Instrument
    BY <1>2 DEF IsSelection
  <2>2. \A i \in DOMAIN sel.members : table'[sel.members[i]] = MemberRow(sel, i)
    BY <1>3, <2>1
  <2>3. ASSUME NEW s \in Instrument
        PROVE  s \in Active' <=> s \in ToSet(sel.members)
    <3>1. ASSUME s \in ToSet(sel.members) PROVE table'[s] # None /\ table'[s].active
      <4>1. PICK i \in DOMAIN sel.members : s = sel.members[i]
        BY <3>1 DEF ToSet
      <4>2. table'[s] = MemberRow(sel, i) /\ table'[s] \in Row
        BY <1>3, <4>1
      <4>3. MemberRow(sel, i).active
        BY DEF MemberRow
      <4>4. None \notin Row
        BY NoneAssumption
      <4>. QED
        BY <4>2, <4>3, <4>4, Zenon
    <3>2. ASSUME s \notin ToSet(sel.members) PROVE ~(table'[s] # None /\ table'[s].active)
      BY <1>3, <3>2
    <3>. QED
      BY <3>1, <3>2 DEF Active
  <2>4. Active' = ToSet(sel.members)
    <3>1. ToSet(sel.members) \subseteq Instrument /\ Active' \subseteq Instrument
      BY <2>1 DEF ToSet, Active
    <3>. QED
      BY <2>3, <3>1
  <2>5. \A s \in Instrument \ Active' : table'[s] # None => ~table'[s].baseline
    BY <1>3, <2>4
  <2>6. \A i : MemberRow(current, i)' = MemberRow(current', i)
    BY DEF MemberRow
  <2>. QED
    BY <1>1, <2>2, <2>4, <2>5, <2>6 DEF ActiveIsOneSelection
<1>. QED
  BY <1>5, <1>6, <1>7 DEF UniverseInv

LEMMA UniverseStep == UniverseInv /\ [Next]_vars => UniverseInv'
<1>. SUFFICES ASSUME UniverseInv, [Next]_vars PROVE UniverseInv'
  OBVIOUS
<1>1. CASE UNCHANGED vars
  <2>1. Types' /\ AnchorHeld' /\ OneWriter'
    BY <1>1 DEF vars, refreshing, UniverseInv, Types, AnchorHeld, OneWriter
  <2>2. \A r \in Refresh : WritesFit(r)'
    BY <1>1, OthersFit DEF vars, refreshing, UniverseInv
  <2>3. ActiveIsOneSelection'
    BY <1>1, TableKept DEF vars, UniverseInv
  <2>. QED
    BY <2>1, <2>2, <2>3 DEF UniverseInv
<1>2. ASSUME NEW r \in Refresh,
             \/ Select(r) \/ PersistMarketData(r) \/ BeginDeactivate(r) \/ Deactivate(r)
             \/ Upsert(r) \/ Commit(r) \/ Fail(r)
      PROVE  UniverseInv'
  BY <1>2, SelectFits, PersistFits, BeginDeactivateFits, DeactivateFits, UpsertFits, CommitFits,
     FailFits
<1>. QED
  BY <1>1, <1>2 DEF Next

\* The invariant, and what it is for: signals, scans and the ingestion read
\* the active rows (_load_universe_symbols, _load_universe) and take them for
\* one universe with one baseline; they are, whatever refreshes ran together.
THEOREM OneUniverse == Spec => []ActiveIsOneSelection
<1>1. UniverseInv => ActiveIsOneSelection
  BY DEF UniverseInv
<1>. QED
  BY UniverseInit, UniverseStep, <1>1, PTL DEF Spec

-----------------------------------------------------------------------------
(* Types *)

\* What a refresh has at hand, apart from what UniverseInv says of it.
TypesOf(r) ==
    /\ DOMAIN answer[r] \subseteq Instrument
    /\ selection[r].baseline \in ToSet(selection[r].members) \cup {None}
    /\ held[r] \cup visible[r] \cup DOMAIN writes[r] \subseteq Instrument
    /\ \A s \in DOMAIN writes[r] : writes[r][s] \in Row
    /\ phase[r] \notin {"deactivated", "upserted"} => DOMAIN writes[r] = {}

TypeInv == UniverseInv /\ \A r \in Refresh : TypesOf(r)

\* The baseline of a selection is one of its members.
LEMMA BaselineIsMember ==
    ASSUME NEW v, Candidates(v) # {}, NEW o \in ByVolume(v)
    PROVE  BaselineSymbol(o) \in ToSet(Members(o))
<1>. DEFINE b == BaselineSymbol(o)
<1>1. PICK n \in Nat : o \in [1..n -> Instrument]
  BY InstrumentAssumption, FS_Subset, FS_CardinalityType DEF ByVolume, SetToSeqs, Candidates
<1>2. CASE b \in ToSet(Top(o))
  BY <1>2 DEF Members
<1>3. CASE b \notin ToSet(Top(o))
  <2>1. Members(o) = Append(Top(o), b)
    BY <1>3 DEF Members
  <2>. QED
    BY <2>1 DEF ToSet
<1>. QED
  BY <1>2, <1>3

LEMMA TypesKept ==
    ASSUME NEW o, TypesOf(o), answer'[o] = answer[o], selection'[o] = selection[o],
           held'[o] = held[o], visible'[o] = visible[o], writes'[o] = writes[o],
           phase'[o] = phase[o]
    PROVE  TypesOf(o)'
BY DEF TypesOf, ToSet

\* Nothing is left of a transaction that has ended.
LEMMA ReleaseTypes ==
    ASSUME UniverseInv, NEW r \in Refresh, Release(r), \A o \in Refresh : TypesOf(o)
    PROVE  \A o \in Refresh : TypesOf(o)'
<1>1. TypesOf(r)'
  BY DEF Release, UniverseInv, Types, TypesOf, NoSelection, NoWrites, ToSet
<1>2. ASSUME NEW o \in Refresh, o # r PROVE TypesOf(o)'
  BY <1>2, TypesKept DEF Release, UniverseInv, Types
<1>. QED
  BY <1>1, <1>2

LEMMA TypeInit == Init => TypeInv
BY UniverseInit DEF Init, TypeInv, TypesOf, NoSelection, NoWrites, ToSet

LEMMA TypeStep == TypeInv /\ [Next]_vars => TypeInv'
<1>. SUFFICES ASSUME TypeInv, [Next]_vars PROVE \A o \in Refresh : TypesOf(o)'
  BY UniverseStep DEF TypeInv
<1>1. UniverseInv /\ Types /\ \A o \in Refresh : TypesOf(o) /\ WritesFit(o)
  BY DEF TypeInv, UniverseInv
\* It is enough to look at the refresh that takes the step.
<1>2. ASSUME NEW r \in Refresh, TypesOf(r)',
             \A o \in Refresh \ {r} :
                 /\ answer'[o] = answer[o] /\ selection'[o] = selection[o] /\ held'[o] = held[o]
                 /\ visible'[o] = visible[o] /\ writes'[o] = writes[o] /\ phase'[o] = phase[o]
      PROVE  \A o \in Refresh : TypesOf(o)'
  BY <1>1, <1>2, TypesKept
<1>3. ASSUME NEW r \in Refresh, Select(r) PROVE \A o \in Refresh : TypesOf(o)'
  <2>1. PICK v :
            /\ Candidates(v) # {} /\ DOMAIN v \subseteq Instrument
            /\ answer' = [answer EXCEPT ![r] = v]
            /\ \E o \in ByVolume(v) :
                   selection' = [selection EXCEPT ![r] =
                       [members |-> Members(o), baseline |-> BaselineSymbol(o)]]
    BY <1>3 DEF Select
  <2>2. PICK o \in ByVolume(v) :
            selection' = [selection EXCEPT ![r] =
                [members |-> Members(o), baseline |-> BaselineSymbol(o)]]
    BY <2>1
  <2>3. BaselineSymbol(o) \in ToSet(Members(o))
    BY <2>1, BaselineIsMember
  <2>4. /\ phase[r] = "idle" /\ phase' = [phase EXCEPT ![r] = "selected"]
        /\ UNCHANGED <<held, visible, writes>>
    BY <1>3 DEF Select
  <2>5. TypesOf(r)'
    BY <1>1, <2>1, <2>2, <2>3, <2>4 DEF Types, TypesOf
  <2>. QED
    BY <1>1, <1>2, <2>1, <2>2, <2>4, <2>5 DEF Types
<1>4. ASSUME NEW r \in Refresh, PersistMarketData(r) PROVE \A o \in Refresh : TypesOf(o)'
  <2>1. TypesOf(r)'
    BY <1>1, <1>4 DEF PersistMarketData, Types, TypesOf, ToSet
  <2>. QED
    BY <1>1, <1>2, <1>4, <2>1 DEF PersistMarketData, Types
<1>5. ASSUME NEW r \in Refresh, BeginDeactivate(r) PROVE \A o \in Refresh : TypesOf(o)'
  <2>1. TypesOf(r)'
    BY <1>1, <1>5 DEF BeginDeactivate, Types, TypesOf, ToSet
  <2>. QED
    BY <1>1, <1>2, <1>5, <2>1 DEF BeginDeactivate, Types
<1>6. ASSUME NEW r \in Refresh, Deactivate(r) PROVE \A o \in Refresh : TypesOf(o)'
  <2>1. /\ writes'[r] = [s \in Rows |-> Deactivated(s)] /\ visible'[r] = {}
        /\ phase'[r] = "deactivated"
        /\ UNCHANGED <<answer, selection, held>>
    BY <1>1, <1>6 DEF Deactivate, Types, WritesFit, Rows, Deactivated
  <2>2. \A s \in Rows : s \in Instrument /\ Deactivated(s) \in Row
    BY <1>1 DEF Rows, Types, Deactivated, Row
  <2>3. TypesOf(r)'
    BY <1>1, <2>1, <2>2 DEF TypesOf, ToSet
  <2>. QED
    BY <1>1, <1>2, <1>6, <2>3 DEF Deactivate, Types
<1>7. ASSUME NEW r \in Refresh, Upsert(r) PROVE \A o \in Refresh : TypesOf(o)'
  <2>. DEFINE sel == selection[r]
              members == ToSet(sel.members)
              place(s) == CHOOSE i \in DOMAIN sel.members : sel.members[i] = s
  <2>1. writes'[r] = [s \in DOMAIN writes[r] \cup members |->
            IF s \in members THEN MemberRow(sel, place(s)) ELSE writes[r][s]]
    BY <1>1, <1>7 DEF Upsert, Types
  <2>2. phase'[r] = "upserted" /\ IsSelection(sel) /\ UNCHANGED <<answer, selection, held, visible>>
    BY <1>1, <1>7 DEF Upsert, Types, WritesFit
  <2>3. ASSUME NEW s \in members PROVE s \in Instrument /\ MemberRow(sel, place(s)) \in Row
    <3>1. place(s) \in DOMAIN sel.members
      BY DEF ToSet
    <3>2. place(s) \in Nat \ {0} /\ s \in Instrument
      BY <2>2, <3>1 DEF IsSelection, ToSet
    <3>. QED
      BY <3>2 DEF MemberRow, Row
  <2>4. \A s \in DOMAIN writes'[r] : s \in Instrument /\ writes'[r][s] \in Row
    BY <1>1, <2>1, <2>3 DEF TypesOf
  <2>5. TypesOf(r)'
    BY <1>1, <2>2, <2>4 DEF TypesOf, ToSet
  <2>. QED
    BY <1>1, <1>2, <1>7, <2>5 DEF Upsert, Types
<1>8. ASSUME NEW r \in Refresh, Commit(r) \/ Fail(r) PROVE \A o \in Refresh : TypesOf(o)'
  BY <1>1, <1>8, ReleaseTypes DEF Commit, Fail
<1>9. CASE UNCHANGED vars
  BY <1>1, <1>9, TypesKept DEF vars, refreshing
<1>. QED
  BY <1>3, <1>4, <1>5, <1>6, <1>7, <1>8, <1>9 DEF Next

\* The types of all variables; and no row is locked by two refreshes.
THEOREM UniverseTypes == Spec => []TypeOK
<1>1. TypeInv => TypeOK
  <2>. SUFFICES ASSUME TypeInv PROVE TypeOK
    OBVIOUS
  <2>1. \A r, o \in Refresh : r # o => DOMAIN writes[r] = {} \/ DOMAIN writes[o] = {}
    BY DEF TypeInv, TypesOf, UniverseInv, OneWriter, Writing
  <2>2. \A r \in Refresh : Unlocked(r, DOMAIN writes[r])
    BY <2>1 DEF Unlocked
  <2>. QED
    BY <2>2 DEF TypeInv, TypesOf, UniverseInv, Types, Phases, TypeOK
<1>. QED
  BY TypeInit, TypeStep, <1>1, PTL DEF Spec

-----------------------------------------------------------------------------
(* What is selected *)

\* The first places of an order hold as many instruments.
LEMMA AsManyAsPlaces ==
    ASSUME NEW k \in Nat, NEW o \in [1..k -> Instrument],
           \A i, j \in 1..k : i # j => o[i] # o[j],
           NEW S, IsFiniteSet(S), \A i \in 1..k : o[i] \in S
    PROVE  Cardinality(S) >= k
<1>1. o \in Injection(1..k, S)
  BY DEF Injection, IsInjective
<1>2. Cardinality(1..k) <= Cardinality(S)
  BY <1>1, FS_Injection
<1>3. Cardinality(1..k) = k
  BY FS_Interval
<1>. QED
  BY <1>2, <1>3

\* An order has all candidates.
LEMMA AllInOrder ==
    ASSUME NEW v, NEW o \in ByVolume(v), NEW c \in Candidates(v)
    PROVE  \E p \in DOMAIN o : o[p] = c
<1>. DEFINE n == Cardinality(Candidates(v))
<1>1. IsFiniteSet(Candidates(v))
  BY InstrumentAssumption, FS_Subset DEF Candidates
<1>2. n \in Nat
  BY <1>1, FS_CardinalityType
<1>3. o \in [1..n -> Candidates(v)] /\ \A i, j \in 1..n : i # j => o[i] # o[j]
  BY DEF ByVolume, SetToSeqs
<1>4. o \in Injection(1..n, Candidates(v))
  BY <1>3 DEF Injection, IsInjective
<1>5. Cardinality(1..n) = Cardinality(Candidates(v))
  BY <1>2, FS_Interval
<1>6. o \in Surjection(1..n, Candidates(v))
  BY <1>1, <1>4, <1>5, FS_Injection
<1>. QED
  BY <1>3, <1>6 DEF Surjection

TopOf(v, sel) ==
    /\ \A out \in Candidates(v) \ ToSet(sel.members) :
           Cardinality({m \in ToSet(sel.members) : v[m] >= v[out]}) >= MaxSize
    /\ Cardinality(ToSet(sel.members)) > MaxSize =>
           /\ Cardinality(ToSet(sel.members)) = MaxSize + 1
           /\ \A m \in ToSet(sel.members) : v[m] >= v[sel.baseline]

\* select_universe() selects the top.
LEMMA SelectsTop ==
    ASSUME NEW v, Candidates(v) # {}, \A s \in DOMAIN v : v[s] \in Nat, NEW o \in ByVolume(v)
    PROVE  TopOf(v, [members |-> Members(o), baseline |-> BaselineSymbol(o)])
<1>. DEFINE n == Cardinality(Candidates(v))
            b == BaselineSymbol(o)
            members == ToSet(Members(o))
            top == ToSet(Top(o))
<1>1. IsFiniteSet(Candidates(v)) /\ Candidates(v) \subseteq Instrument
  BY InstrumentAssumption, FS_Subset DEF Candidates
<1>2. n \in Nat \ {0}
  BY <1>1, FS_CardinalityType, FS_EmptySet
<1>3. /\ o \in [1..n -> Candidates(v)]
      /\ \A i, j \in 1..n : i # j => o[i] # o[j]
      /\ \A i, j \in 1..n : i < j => v[o[i]] >= v[o[j]]
  BY DEF ByVolume, SetToSeqs
<1>. HIDE DEF n
<1>4. o \in [1..n -> Instrument] /\ o \in Seq(Instrument) /\ Len(o) = n
  BY <1>1, <1>2, <1>3
<1>5. PICK k \in 1..n : Top(o) = [i \in 1..k |-> o[i]] /\ (k = MaxSize \/ (k = n /\ k < MaxSize))
  <2>. DEFINE m == IF Len(o) < MaxSize THEN Len(o) ELSE MaxSize
  <2>1. m \in 1..n /\ (m = MaxSize \/ (m = n /\ m < MaxSize))
    BY <1>2, <1>4, NumberAssumption
  <2>2. SubSeq(o, 1, m) = [i \in 1..m |-> o[i]]
    BY <1>4, <2>1
  <2>. QED
    BY <2>1, <2>2 DEF Top
<1>6. k \in Nat \ {0} /\ k <= MaxSize /\ n \in Nat /\ MaxSize \in Nat
  BY <1>2, <1>5, NumberAssumption
<1>7. top = {o[i] : i \in 1..k} /\ 1 \in 1..k /\ 1..k \subseteq 1..n
  BY <1>5, <1>6 DEF ToSet
<1>8. Cardinality(top) = k /\ IsFiniteSet(top)
  <2>. DEFINE f == [i \in 1..k |-> o[i]]
  <2>1. f \in Surjection(1..k, top) /\ f \in Injection(1..k, top)
    BY <1>3, <1>7 DEF Surjection, Injection, IsInjective
  <2>2. Cardinality(1..k) = k /\ IsFiniteSet(1..k)
    BY <1>6, FS_Interval
  <2>. QED
    BY <2>1, <2>2, FS_Surjection
<1>9. \E q \in 1..n : o[q] = b
  <2>1. b \in ToSet(Members(o))
    BY BaselineIsMember
  <2>2. b \in Candidates(v)
    <3>. DEFINE btc == {i \in DOMAIN o : o[i] \in Btc}
    <3>1. CASE btc # {}
      <4>1. btc \subseteq Nat
        BY <1>3
      <4>2. Min(btc) \in btc
        BY <3>1, <4>1, LeastNumber, Zenon DEF Min
      <4>. QED
        BY <1>3, <3>1, <4>2 DEF BaselineSymbol
    <3>2. CASE btc = {}
      BY <1>3, <1>6, <1>7, <3>2 DEF BaselineSymbol
    <3>. QED
      BY <3>1, <3>2
  <2>. QED
    BY <1>3, <2>2, AllInOrder
<1>10. \A i \in 1..n : v[o[i]] \in Nat
  BY <1>3 DEF Candidates
<1>11. /\ members = top \/ (members = top \cup {b} /\ b \notin top)
       /\ IsFiniteSet(members)
  <2>1. CASE b \in top
    BY <1>8, <2>1 DEF Members
  <2>2. CASE b \notin top
    <3>1. Top(o) \in Seq(Instrument) /\ b \in Instrument
      BY <1>1, <1>4, <1>5, <1>6, <1>7, <1>9
    <3>2. Members(o) = Append(Top(o), b) /\ Len(Top(o)) = k
      BY <1>5, <1>6, <2>2 DEF Members
    <3>3. Members(o) = [i \in 1..(k + 1) |-> IF i = k + 1 THEN b ELSE o[i]]
      BY <1>5, <1>6, <3>1, <3>2
    <3>4. members = {Members(o)[i] : i \in 1..(k + 1)}
      BY <1>6, <3>3 DEF ToSet
    <3>5. members = top \cup {b}
      <4>1. \A i \in 1..k : Members(o)[i] = o[i]
        BY <1>6, <3>3
      <4>2. Members(o)[k + 1] = b /\ k + 1 \in 1..(k + 1)
        BY <1>6, <3>3
      <4>3. \A i \in 1..(k + 1) : i = k + 1 \/ i \in 1..k
        BY <1>6
      <4>4. 1..k \subseteq 1..(k + 1)
        BY <1>6
      <4>. HIDE DEF members, top, b
      <4>. QED
        BY <1>7, <3>4, <4>1, <4>2, <4>3, <4>4
    <3>. QED
      BY <1>8, <2>2, <3>5, FS_AddElement
  <2>. QED
    BY <2>1, <2>2
<1>12. ASSUME NEW out \in Candidates(v) \ members
       PROVE  Cardinality({m \in members : v[m] >= v[out]}) >= MaxSize
  <2>. DEFINE S == {m \in members : v[m] >= v[out]}
  <2>1. PICK p \in 1..n : o[p] = out
    BY <1>3, AllInOrder
  <2>2. p > k /\ k = MaxSize
    BY <1>5, <1>6, <1>7, <1>11, <1>12, <2>1
  <2>3. \A i \in 1..k : o[i] \in S
    BY <1>3, <1>6, <1>7, <1>11, <2>1, <2>2
  <2>4. IsFiniteSet(S)
    BY <1>11, FS_Subset
  <2>5. \A i, j \in 1..k : i # j => o[i] # o[j]
    BY <1>3, <1>7
  <2>. DEFINE f == [i \in 1..k |-> o[i]]
  <2>6. f \in [1..k -> Instrument]
    BY <1>4, <1>7
  <2>7. \A i, j \in 1..k : i # j => f[i] # f[j]
    BY <2>5
  <2>8. \A i \in 1..k : f[i] \in S
    BY <2>3
  <2>. HIDE DEF f, S
  <2>9. Cardinality(S) >= k
    BY <1>6, <2>4, <2>6, <2>7, <2>8, AsManyAsPlaces
  <2>. QED
    BY <2>2, <2>9 DEF S
<1>13. ASSUME Cardinality(members) > MaxSize
       PROVE  /\ Cardinality(members) = MaxSize + 1
              /\ \A m \in members : v[m] >= v[b]
  <2>1. members = top \cup {b} /\ b \notin top
    BY <1>6, <1>8, <1>11, <1>13
  <2>2. Cardinality(members) = k + 1
    BY <1>8, <2>1, FS_AddElement
  <2>3. k = MaxSize
    BY <1>6, <1>13, <2>2
  <2>4. PICK q \in 1..n : o[q] = b
    BY <1>9
  <2>5. q > k
    BY <1>6, <1>7, <2>1, <2>4
  <2>6. ASSUME NEW m \in members PROVE v[m] >= v[b]
    <3>1. CASE m = b
      BY <1>10, <2>4, <3>1
    <3>2. CASE m \in top
      <4>1. PICK i \in 1..k : m = o[i]
        BY <1>7, <3>2
      <4>2. i \in 1..n /\ i < q
        BY <1>6, <1>7, <2>5
      <4>. QED
        BY <1>3, <2>4, <4>1, <4>2
    <3>. QED
      BY <2>1, <3>1, <3>2
  <2>. QED
    BY <2>2, <2>3, <2>6
<1>. QED
  BY <1>12, <1>13 DEF TopOf

SelectedTop == \A r \in Refresh : phase[r] = "selected" => TopOf(answer[r], selection[r])

LEMMA SelectedTopKept ==
    ASSUME SelectedTop, Types,
           \A r \in Refresh : phase'[r] = "selected" =>
               phase[r] = "selected" /\ answer'[r] = answer[r] /\ selection'[r] = selection[r]
    PROVE  SelectedTop'
<1>1. ASSUME NEW r \in Refresh, phase'[r] = "selected" PROVE TopOf(answer[r], selection[r])'
  <2>1. TopOf(answer[r], selection[r]) /\ answer'[r] = answer[r] /\ selection'[r] = selection[r]
    BY <1>1 DEF SelectedTop
  <2>. QED
    BY <2>1 DEF TopOf, Candidates, ToSet
<1>. QED
  BY <1>1 DEF SelectedTop

\* Whatever the exchange answers, a selection is the top by volume, with the
\* baseline (select_universe).
THEOREM TopIsSelected == Spec => []SelectionIsTop
<1>1. Init => SelectedTop
  BY DEF Init, SelectedTop
<1>2. UniverseInv /\ SelectedTop /\ [Next]_vars => SelectedTop'
  <2>. SUFFICES ASSUME UniverseInv, SelectedTop, [Next]_vars PROVE SelectedTop'
    OBVIOUS
  <2>1. Types
    BY DEF UniverseInv
  <2>2. ASSUME NEW r \in Refresh, Select(r) PROVE SelectedTop'
    <3>1. PICK v :
              /\ Candidates(v) # {} /\ \A s \in DOMAIN v : v[s] \in Nat
              /\ answer' = [answer EXCEPT ![r] = v]
              /\ \E o \in ByVolume(v) :
                     selection' = [selection EXCEPT ![r] =
                         [members |-> Members(o), baseline |-> BaselineSymbol(o)]]
      BY <2>2, NumberAssumption DEF Select
    <3>2. PICK o \in ByVolume(v) :
              selection' = [selection EXCEPT ![r] =
                  [members |-> Members(o), baseline |-> BaselineSymbol(o)]]
      BY <3>1
    <3>3. phase' = [phase EXCEPT ![r] = "selected"]
      BY <2>2 DEF Select
    <3>. DEFINE sel == [members |-> Members(o), baseline |-> BaselineSymbol(o)]
    <3>4. TopOf(v, sel)
      BY <3>1, SelectsTop
    <3>5. answer'[r] = v /\ selection'[r] = sel
      BY <2>1, <3>1, <3>2 DEF Types
    <3>. HIDE DEF sel
    <3>6. TopOf(answer[r], selection[r])'
      BY <3>4, <3>5 DEF TopOf, Candidates, ToSet
    <3>7. ASSUME NEW s \in Refresh, s # r, phase'[s] = "selected"
          PROVE  TopOf(answer[s], selection[s])'
      <4>1. phase[s] = "selected" /\ answer'[s] = answer[s] /\ selection'[s] = selection[s]
        BY <2>1, <3>1, <3>2, <3>3, <3>7 DEF Types
      <4>. QED
        BY <4>1 DEF SelectedTop, TopOf, Candidates, ToSet
    <3>. QED
      BY <3>6, <3>7 DEF SelectedTop
  <2>3. ASSUME NEW r \in Refresh,
               \/ PersistMarketData(r) \/ BeginDeactivate(r) \/ Deactivate(r) \/ Upsert(r)
        PROVE  SelectedTop'
    BY <2>1, <2>3, SelectedTopKept
    DEF PersistMarketData, BeginDeactivate, Deactivate, Upsert, Types
  <2>4. ASSUME NEW r \in Refresh, Commit(r) \/ Fail(r) PROVE SelectedTop'
    BY <2>1, <2>4, SelectedTopKept DEF Commit, Fail, Release, Types
  <2>5. CASE UNCHANGED vars
    BY <2>1, <2>5, SelectedTopKept DEF vars, refreshing
  <2>. QED
    BY <2>2, <2>3, <2>4, <2>5 DEF Next
<1>3. SelectedTop => SelectionIsTop
  BY DEF SelectedTop, TopOf, SelectionIsTop
<1>. QED
  BY UniverseInit, UniverseStep, <1>1, <1>2, <1>3, PTL DEF Spec
=============================================================================
