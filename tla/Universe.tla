------------------------------ MODULE Universe ------------------------------
(***************************************************************************)
(* The universe: its selection from the answers of the exchange, and the   *)
(* transaction that replaces the rows of universe_membership               *)
(* (app/universe.py).  Refreshes run concurrently: the one at startup and  *)
(* those of POST /universe/refresh.                                        *)
(*                                                                         *)
(* The database is PostgreSQL at its default isolation, READ COMMITTED: a  *)
(* statement sees what was committed when it began; a row it changes is    *)
(* locked up to the end of the transaction, and a statement that comes to  *)
(* a locked row waits and then takes the row as it has become.  Rows that  *)
(* were not there when it began it does not see even then.                 *)
(***************************************************************************)
EXTENDS Integers, Sequences, FiniteSets, FiniteSetsExt, SequencesExt

CONSTANTS
    Refresh,              \* refreshes that may run at the same time
    Instrument, None,
    Pair,                 \* tradable spot pairs in the quote currency
    Btc,                  \* those of them whose base is BTC
    Anchor,               \* an instrument every answer of the exchange lists
    MaxSize,              \* max_universe_size
    Volume                \* 24h dollar volumes

ASSUME InstrumentAssumption ==
    /\ Btc \subseteq Pair /\ Pair \subseteq Instrument /\ Anchor \in Instrument
    /\ IsFiniteSet(Instrument)
ASSUME NumberAssumption == MaxSize \in Nat \ {0} /\ Volume \subseteq Nat

\* A row of universe_membership.
Row == [active : BOOLEAN, baseline : BOOLEAN, rank : Nat \ {0}]

ASSUME NoneAssumption == None \notin Instrument \cup Row

VARIABLES
    phase,
    answer,     \* the dollar volumes of the instruments the exchange listed
    selection,
    held,       \* rows of instruments locked by the refresh
    visible,    \* rows the open UPDATE has seen
    writes,     \* rows written, and locked, by the refresh
    table,      \* universe_membership, as committed
    current     \* history: the selection committed last

refreshing == <<phase, answer, selection, held, visible, writes>>
vars == <<refreshing, table, current>>

NoWrites == [s \in {} |-> None]
NoSelection == [members |-> <<>>, baseline |-> None]

Init ==
    /\ phase = [r \in Refresh |-> "idle"]
    /\ answer = [r \in Refresh |-> <<>>]
    /\ selection = [r \in Refresh |-> NoSelection]
    /\ held = [r \in Refresh |-> {}] /\ visible = [r \in Refresh |-> {}]
    /\ writes = [r \in Refresh |-> NoWrites]
    /\ table = [s \in Instrument |-> None]
    /\ current = NoSelection

-----------------------------------------------------------------------------
(* select_universe *)

Candidates(v) == DOMAIN v \cap Pair

\* The orders by falling volume; equal volumes stay as the exchange lists them.
ByVolume(v) ==
    {o \in SetToSeqs(Candidates(v)) :
        \A i, j \in DOMAIN o : i < j => v[o[i]] >= v[o[j]]}

BaselineSymbol(o) ==
    LET btc == {i \in DOMAIN o : o[i] \in Btc}
    IN  IF btc # {} THEN o[Min(btc)] ELSE o[1]

Top(o) == SubSeq(o, 1, IF Len(o) < MaxSize THEN Len(o) ELSE MaxSize)

\* Mutant: the baseline takes the place of the last member.
MembersWithinSize(o) ==
    IF BaselineSymbol(o) \in ToSet(Top(o)) THEN Top(o)
    ELSE [Top(o) EXCEPT ![MaxSize] = BaselineSymbol(o)]
\* The baseline is behind all of the top by volume, so the sort leaves it last.
Members(o) ==
    IF BaselineSymbol(o) \in ToSet(Top(o)) THEN Top(o)
    ELSE Append(Top(o), BaselineSymbol(o))

-----------------------------------------------------------------------------
(* refresh_universe *)

\* The instruments and the tickers are fetched, and a selection made of them.
\* Without candidates it raises, and nothing has happened.  (A pair without a
\* ticker is no candidate, like the instruments that are no pairs.)
Select(r) ==
    /\ phase[r] = "idle"
    /\ \E listed \in {L \in SUBSET Instrument : Anchor \in L} :
       \E v \in [listed -> Volume] :
          /\ Candidates(v) # {}
          /\ answer' = [answer EXCEPT ![r] = v]
          /\ \E o \in ByVolume(v) :
                selection' = [selection EXCEPT ![r] =
                    [members |-> Members(o), baseline |-> BaselineSymbol(o)]]
    /\ phase' = [phase EXCEPT ![r] = "selected"]
    /\ UNCHANGED <<held, visible, writes, table, current>>

\* Mutant: the instruments are not written.
PersistMarketDataNot(r) ==
    /\ phase[r] = "selected"
    /\ phase' = [phase EXCEPT ![r] = "market"]
    /\ answer' = [answer EXCEPT ![r] = <<>>]
    /\ UNCHANGED <<selection, held, visible, writes, table, current>>
\* Every instrument listed is written, so its row is locked.
PersistMarketData(r) ==
    /\ phase[r] = "selected"
    /\ \A o \in Refresh : held[o] \cap DOMAIN answer[r] = {}
    /\ held' = [held EXCEPT ![r] = DOMAIN answer[r]]
    /\ phase' = [phase EXCEPT ![r] = "market"]
    /\ answer' = [answer EXCEPT ![r] = <<>>]
    /\ UNCHANGED <<selection, visible, writes, table, current>>

\* The UPDATE of persist_universe begins: it sees the rows there are.
BeginDeactivate(r) ==
    /\ phase[r] = "market"
    /\ visible' = [visible EXCEPT ![r] = {s \in Instrument : table[s] # None}]
    /\ phase' = [phase EXCEPT ![r] = "updating"]
    /\ UNCHANGED <<answer, selection, held, writes, table, current>>

Unlocked(r, rows) == \A o \in Refresh \ {r} : DOMAIN writes[o] \cap rows = {}

\* ... and changes them when no one else holds them.
Deactivate(r) ==
    /\ phase[r] = "updating" /\ Unlocked(r, visible[r])
    /\ writes' = [writes EXCEPT ![r] =
           [s \in visible[r] |-> [table[s] EXCEPT !.active = FALSE, !.baseline = FALSE]]]
    /\ visible' = [visible EXCEPT ![r] = {}]
    /\ phase' = [phase EXCEPT ![r] = "deactivated"]
    /\ UNCHANGED <<answer, selection, held, table, current>>

\* Mutant: the members are counted from zero.
MemberRowFromZero(sel, i) ==
    [active |-> TRUE, baseline |-> sel.members[i] = sel.baseline, rank |-> i - 1]
MemberRow(sel, i) == [active |-> TRUE, baseline |-> sel.members[i] = sel.baseline, rank |-> i]

\* The INSERT ... ON CONFLICT DO UPDATE of persist_universe.
Upsert(r) ==
    LET sel == selection[r]
        members == ToSet(sel.members)
    IN  /\ phase[r] = "deactivated" /\ Unlocked(r, members)
        /\ writes' = [writes EXCEPT ![r] =
               [s \in DOMAIN @ \cup members |->
                   IF s \in members
                   THEN MemberRow(sel, CHOOSE i \in DOMAIN sel.members : sel.members[i] = s)
                   ELSE @[s]]]
        /\ phase' = [phase EXCEPT ![r] = "upserted"]
        /\ UNCHANGED <<answer, selection, held, visible, table, current>>

\* The transaction ends and its locks are released.
Release(r) ==
    /\ phase' = [phase EXCEPT ![r] = "idle"]
    /\ answer' = [answer EXCEPT ![r] = <<>>]
    /\ selection' = [selection EXCEPT ![r] = NoSelection]
    /\ held' = [held EXCEPT ![r] = {}] /\ visible' = [visible EXCEPT ![r] = {}]
    /\ writes' = [writes EXCEPT ![r] = NoWrites]

Commit(r) ==
    /\ phase[r] = "upserted"
    /\ table' = [s \in Instrument |-> IF s \in DOMAIN writes[r] THEN writes[r][s] ELSE table[s]]
    /\ current' = selection[r]
    /\ Release(r)

\* A statement fails, is chosen to break a deadlock, or the process stops.
Fail(r) ==
    /\ phase[r] # "idle"
    /\ Release(r)
    /\ UNCHANGED <<table, current>>

Next ==
    \E r \in Refresh :
        \/ Select(r) \/ PersistMarketData(r)
        \/ BeginDeactivate(r) \/ Deactivate(r) \/ Upsert(r)
        \/ Commit(r) \/ Fail(r)

Spec == Init /\ [][Next]_vars

-----------------------------------------------------------------------------
(* What must hold *)

\* The types of all variables; a row is locked by one refresh at most.
TypeOK ==
    /\ phase \in [Refresh -> {"idle", "selected", "market", "updating", "deactivated", "upserted"}]
    /\ \A r \in Refresh :
          /\ DOMAIN answer[r] \subseteq Instrument
          /\ selection[r].baseline \in ToSet(selection[r].members) \cup {None}
          /\ held[r] \cup visible[r] \cup DOMAIN writes[r] \subseteq Instrument
          /\ \A s \in DOMAIN writes[r] : writes[r][s] \in Row
          /\ Unlocked(r, DOMAIN writes[r])
    /\ table \in [Instrument -> Row \cup {None}]

Active == {s \in Instrument : table[s] # None /\ table[s].active}

\* The active rows are, at any time, those of one selection, with its ranks and
\* its baseline: those of the refresh that was committed last, whatever other
\* refreshes did at the same time.  Signals, scans and the ingestion read them
\* and take them for one universe with one baseline.
ActiveIsOneSelection ==
    /\ Active = ToSet(current.members)
    /\ \A i \in DOMAIN current.members : table[current.members[i]] = MemberRow(current, i)
    /\ \A s \in Instrument \ Active : table[s] # None => ~table[s].baseline

\* A selection is the top MaxSize by volume, and the baseline on top of it if it
\* is not one of them: at least MaxSize members trade no less than any candidate
\* left out, and a member more than MaxSize is the baseline, behind all others.
SelectionIsTop ==
    \A r \in Refresh :
        phase[r] = "selected" =>
            LET v == answer[r]
                members == ToSet(selection[r].members)
                baseline == selection[r].baseline
            IN  /\ \A out \in Candidates(v) \ members :
                       Cardinality({m \in members : v[m] >= v[out]}) >= MaxSize
                /\ Cardinality(members) > MaxSize =>
                       /\ Cardinality(members) = MaxSize + 1
                       /\ \A m \in members : v[m] >= v[baseline]
=============================================================================
