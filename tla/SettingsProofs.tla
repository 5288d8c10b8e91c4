--------------------------- MODULE SettingsProofs ---------------------------
(***************************************************************************)
(* Proofs about SettingsStore: an answered change of the settings stays.   *)
(*                                                                         *)
(* AnsweredStays is not inductive: a request in flight holds, in its       *)
(* draft, what the table and the memory are going to be.  Its draft agrees *)
(* with everything that is promised at any time while it is in flight      *)
(* (DraftsKeepPromises), because a promise is only made by a request that  *)
(* was alone.                                                              *)
(***************************************************************************)
EXTENDS SettingsStore, TLAPS

DraftsKeepPromises ==
    \A r \in InFlight, k \in Key : promised[k] # None => draft[r][k] = promised[k]

DraftsHoldPatches ==
    \A r \in InFlight, k \in Key : patch[r][k] # None => draft[r][k] = patch[r][k]

TogetherIsOverlapped ==
    \A r, s \in InFlight : r # s => r \in overlapped

CommittedAlone ==
    \A r \in Request : phase[r] = "committed" /\ r \notin overlapped => table = draft[r]

DownIsIdle == ~up => InFlight = {}

AnswerInv ==
    /\ TypeOK
    /\ AnsweredStays
    /\ DraftsKeepPromises /\ DraftsHoldPatches
    /\ TogetherIsOverlapped /\ CommittedAlone /\ DownIsIdle

CommittedInv ==
    /\ memory \in committed /\ table \in committed /\ NoOverrides \in committed
    /\ \A r \in Request : phase[r] = "committed" => draft[r] \in committed

-----------------------------------------------------------------------------

\* Init establishes both invariants.
LEMMA InitInv == Init => AnswerInv /\ CommittedInv
<1>1. NoOverrides \in Overrides
  BY DEF NoOverrides, Overrides
<1>2. ASSUME Init PROVE InFlight = {} /\ TypeOK
  BY <1>1, <1>2, NoneAssumption, BoundAssumption DEF Init, InFlight, TypeOK
<1>3. ASSUME Init PROVE AnsweredStays /\ CommittedAlone
  BY <1>3 DEF Init, AnsweredStays, CommittedAlone, NoOverrides
<1> QED
  BY <1>2, <1>3 DEF AnswerInv, DraftsKeepPromises, DraftsHoldPatches, TogetherIsOverlapped,
     DownIsIdle, CommittedInv, Init

\* What Merge, Withdraw and Promise yield: overrides, and which of them.
LEMMA MergeFacts ==
    ASSUME NEW o \in Overrides, NEW d \in Overrides
    PROVE  /\ Merge(o, d) \in Overrides
           /\ \A k \in Key : d[k] # None => Merge(o, d)[k] = d[k]
           /\ \A k \in Key : d[k] = None => Merge(o, d)[k] = o[k]
  BY DEF Merge, Overrides

\* A request is received: its draft is made of the settings in effect, which
\* hold all promises its patch leaves, and it was alone if none is in flight.
LEMMA ReceiveInv ==
    ASSUME AnswerInv, NEW r \in Request, NEW delta \in Overrides, Receive(r, delta)
    PROVE  AnswerInv'
<1> USE DEF AnswerInv
<1>1. /\ up /\ phase[r] = "new"
      /\ phase' = [phase EXCEPT ![r] = "merged"]
      /\ patch' = [patch EXCEPT ![r] = delta]
      /\ draft' = [draft EXCEPT ![r] = Merge(memory, delta)]
      /\ promised' = [k \in Key |-> IF delta[k] # None THEN None ELSE promised[k]]
      /\ UNCHANGED <<up, memory, table, lock, faults, committed>>
  BY DEF Receive, Withdraw
<1>2. overlapped' = IF InFlight = {} THEN overlapped ELSE overlapped \cup InFlight \cup {r}
  BY DEF Receive
<1>3. InFlight' = InFlight \cup {r}
  BY <1>1 DEF InFlight, TypeOK
<1>4. /\ memory \in Overrides /\ Merge(memory, delta) \in Overrides
      /\ \A k \in Key : delta[k] # None => Merge(memory, delta)[k] = delta[k]
      /\ \A k \in Key : delta[k] = None => Merge(memory, delta)[k] = memory[k]
  BY MergeFacts DEF TypeOK
<1>5. TypeOK'
  <2>1. promised' \in Overrides
    BY <1>1 DEF Overrides, TypeOK
  <2>2. /\ patch' \in [Request -> Overrides] /\ draft' \in [Request -> Overrides]
        /\ phase' \in [Request -> {"new", "merged", "written", "committed", "answered", "failed"}]
    BY <1>1, <1>4 DEF TypeOK
  <2>3. \A s \in Request : phase'[s] = "written" <=> lock' = s
    BY <1>1 DEF TypeOK
  <2>4. overlapped' \subseteq Request
    BY <1>2 DEF InFlight, TypeOK
  <2> QED
    BY <1>1, <2>1, <2>2, <2>3, <2>4 DEF TypeOK
<1>6. AnsweredStays'
  BY <1>1 DEF AnsweredStays
<1>7. ASSUME NEW s \in InFlight', NEW k \in Key
      PROVE  /\ promised'[k] # None => draft'[s][k] = promised'[k]
             /\ patch'[s][k] # None => draft'[s][k] = patch'[s][k]
  <2>1. CASE s = r
    BY <2>1, <1>1, <1>4 DEF AnsweredStays, TypeOK
  <2>2. CASE s # r
    <3>1. s \in InFlight /\ s \in Request
      BY <1>3, <2>2 DEF InFlight
    <3>2. draft'[s] = draft[s] /\ patch'[s] = patch[s]
      BY <1>1, <2>2, <3>1 DEF TypeOK
    <3>3. promised'[k] # None => promised'[k] = promised[k]
      BY <1>1
    <3> QED
      BY <3>1, <3>2, <3>3 DEF DraftsKeepPromises, DraftsHoldPatches
  <2> QED
    BY <2>1, <2>2
<1>8. TogetherIsOverlapped'
  BY <1>2, <1>3 DEF TogetherIsOverlapped
<1>9. CommittedAlone'
  BY <1>1, <1>2 DEF CommittedAlone, TypeOK
<1>10. DownIsIdle'
  BY <1>1 DEF DownIsIdle
<1> QED
  BY <1>5, <1>6, <1>7, <1>8, <1>9, <1>10 DEF DraftsKeepPromises, DraftsHoldPatches

\* The steps of a request between its receipt and its answer: at most the table
\* changes, and it becomes the draft.
LEMMA StoreInv ==
    ASSUME AnswerInv, NEW r \in Request, Write(r) \/ Commit(r) \/ Fail(r)
    PROVE  AnswerInv'
<1> USE DEF AnswerInv
<1>1. /\ r \in InFlight /\ up
      /\ UNCHANGED <<up, memory, patch, draft, overlapped, promised>>
      /\ table' \in {table, draft[r]}
      /\ \E p \in {"written", "committed", "failed"} : phase' = [phase EXCEPT ![r] = p]
      /\ table' # table => phase[r] = "written"
  BY DEF Write, Commit, Fail, Stored, InFlight, DownIsIdle
<1>2. InFlight' \subseteq InFlight
  BY <1>1 DEF InFlight, TypeOK
<1>3. TypeOK'
  <2>1. {memory', table', promised'} \cup committed' \subseteq Overrides
    BY DEF Write, Commit, Fail, Stored, TypeOK
  <2>2. /\ phase' \in [Request -> {"new", "merged", "written", "committed", "answered", "failed"}]
        /\ faults' \in 0..MaxFaults
    BY <1>1, BoundAssumption DEF Write, Commit, Fail, Fault, TypeOK
  <2>3. \A s \in Request : phase'[s] = "written" <=> lock' = s
    BY NoneAssumption DEF Write, Commit, Fail, TypeOK
  <2> QED
    BY <1>1, <2>1, <2>2, <2>3 DEF TypeOK
<1>4. AnsweredStays'
  BY <1>1 DEF AnsweredStays, DraftsKeepPromises
<1>5. DraftsKeepPromises' /\ DraftsHoldPatches' /\ TogetherIsOverlapped' /\ DownIsIdle'
  BY <1>1, <1>2 DEF DraftsKeepPromises, DraftsHoldPatches, TogetherIsOverlapped, DownIsIdle
<1>6. CommittedAlone'
  <2> SUFFICES ASSUME NEW s \in Request, phase'[s] = "committed", s \notin overlapped
               PROVE  table' = draft[s]
    BY <1>1 DEF CommittedAlone
  <2>1. CASE s = r
    BY <2>1 DEF Write, Commit, Fail, Stored, TypeOK
  <2>2. CASE s # r
    <3>1. phase[s] = "committed" /\ s \in InFlight
      BY <1>1, <2>2 DEF TypeOK, InFlight
    <3> QED
      BY <1>1, <2>2, <3>1 DEF TogetherIsOverlapped
  <2> QED
    BY <2>1, <2>2
<1> QED
  BY <1>3, <1>4, <1>5, <1>6

\* A request is answered: its draft is in the table and keeps all promises, so
\* putting it in memory does too.  It makes new ones only if it was alone.
LEMMA AnswerKeepsInv ==
    ASSUME AnswerInv, NEW r \in Request, Answer(r)
    PROVE  AnswerInv'
<1> USE DEF AnswerInv
<1>1. /\ r \in InFlight /\ up /\ phase[r] = "committed"
      /\ memory' = draft[r]
      /\ phase' = [phase EXCEPT ![r] = "answered"]
      /\ UNCHANGED <<up, table, lock, patch, draft, faults, overlapped, committed>>
  BY DEF Answer, InFlight, DownIsIdle
<1>2. InFlight' = InFlight \ {r}
  BY <1>1 DEF InFlight, TypeOK
<1>3. \/ r \in overlapped /\ promised' = promised
      \/ /\ InFlight = {r} /\ table = draft[r]
         /\ promised' = [k \in Key |-> IF patch[r][k] # None THEN patch[r][k] ELSE promised[k]]
  BY <1>1 DEF Answer, Promise, TogetherIsOverlapped, CommittedAlone
<1>4. TypeOK'
  <2>1. memory' \in Overrides
    BY <1>1 DEF TypeOK
  <2>2. promised' \in Overrides
    <3>1. promised \in Overrides /\ patch[r] \in Overrides
      BY DEF TypeOK
    <3> QED
      BY <1>3, <3>1 DEF Overrides
  <2>3. /\ phase' \in [Request -> {"new", "merged", "written", "committed", "answered", "failed"}]
        /\ \A s \in Request : phase'[s] = "written" <=> lock' = s
    BY <1>1 DEF TypeOK
  <2> QED
    BY <1>1, <2>1, <2>2, <2>3 DEF TypeOK
<1>5. AnsweredStays'
  BY <1>1, <1>3 DEF AnsweredStays, DraftsKeepPromises, DraftsHoldPatches
<1>6. DraftsKeepPromises' /\ DraftsHoldPatches' /\ TogetherIsOverlapped'
  BY <1>1, <1>2, <1>3 DEF DraftsKeepPromises, DraftsHoldPatches, TogetherIsOverlapped
<1>7. CommittedAlone' /\ DownIsIdle'
  BY <1>1, <1>2 DEF CommittedAlone, DownIsIdle, TypeOK
<1> QED
  BY <1>4, <1>5, <1>6, <1>7

\* A crash ends all requests; a start takes the settings from the table, or
\* forgets every promise.
LEMMA ProcessInv ==
    ASSUME AnswerInv, Crash \/ Start \/ StartWithoutOverrides
    PROVE  AnswerInv'
<1> USE DEF AnswerInv
<1>1. NoOverrides \in Overrides
  BY DEF NoOverrides, Overrides
<1>2. InFlight' = {}
  BY DEF Crash, Start, StartWithoutOverrides, InFlight, TypeOK, DownIsIdle, request
<1>3. TypeOK'
  <2>1. CASE Crash
    <3>1. /\ phase' \in [Request -> {"new", "merged", "written", "committed", "answered", "failed"}]
          /\ \A s \in Request : phase'[s] # "written"
      BY <2>1 DEF Crash, InFlight, TypeOK
    <3>2. up' \in BOOLEAN
      BY <2>1 DEF Crash
    <3>3. faults' \in 0..MaxFaults
      BY <2>1, BoundAssumption DEF Crash, Fault, TypeOK
    <3>4. \A s \in Request : lock' # s
      BY <2>1, NoneAssumption DEF Crash
    <3> QED
      BY <2>1, <3>1, <3>2, <3>3, <3>4 DEF Crash, TypeOK
  <2>2. CASE Start
    BY <2>2 DEF Start, TypeOK, request
  <2>3. CASE StartWithoutOverrides
    BY <2>3, <1>1, BoundAssumption DEF StartWithoutOverrides, Fault, TypeOK, request
  <2> QED
    BY <2>1, <2>2, <2>3
<1>4. AnsweredStays'
  <2>1. CASE Crash
    BY <2>1 DEF Crash, AnsweredStays
  <2>2. CASE Start
    BY <2>2 DEF Start, AnsweredStays
  <2>3. CASE StartWithoutOverrides
    BY <2>3 DEF StartWithoutOverrides, AnsweredStays, NoOverrides
  <2> QED
    BY <2>1, <2>2, <2>3
<1>5. \A r \in Request : phase'[r] # "committed"
  BY <1>2 DEF InFlight
<1> QED
  BY <1>2, <1>3, <1>4, <1>5 DEF DraftsKeepPromises, DraftsHoldPatches,
     TogetherIsOverlapped, CommittedAlone, DownIsIdle

\* The overrides in memory, in the table and in the drafts about to be put in
\* memory have all been committed.
LEMMA CommittedStep ==
    ASSUME TypeOK, CommittedInv, Next
    PROVE  CommittedInv'
<1> USE DEF CommittedInv
<1>1. ASSUME NEW r \in Request, NEW delta \in Overrides, Receive(r, delta)
      PROVE  CommittedInv'
  BY <1>1 DEF Receive, TypeOK
<1>2. ASSUME NEW r \in Request, Write(r) \/ Commit(r) \/ Fail(r)
      PROVE  CommittedInv'
  BY <1>2 DEF Write, Commit, Fail, Stored, TypeOK
<1>3. ASSUME NEW r \in Request, Answer(r) PROVE CommittedInv'
  BY <1>3 DEF Answer, TypeOK
<1>4. ASSUME Crash \/ Start \/ StartWithoutOverrides PROVE CommittedInv'
  BY <1>4 DEF Crash, Start, StartWithoutOverrides, TypeOK, InFlight, request
<1> QED
  BY <1>1, <1>2, <1>3, <1>4 DEF Next

\* Both invariants hold in every behaviour.
LEMMA Invariants == Spec => [](AnswerInv /\ CommittedInv)
<1>1. AnswerInv /\ CommittedInv /\ [Next]_vars => (AnswerInv /\ CommittedInv)'
  <2> SUFFICES ASSUME AnswerInv, CommittedInv, [Next]_vars
               PROVE  (AnswerInv /\ CommittedInv)'
    OBVIOUS
  <2>1. CASE Next
    <3>1. AnswerInv'
      BY <2>1, ReceiveInv, StoreInv, AnswerKeepsInv, ProcessInv DEF Next
    <3> QED
      BY <2>1, <3>1, CommittedStep DEF AnswerInv
  <2>2. CASE UNCHANGED vars
    BY <2>2 DEF vars, request, AnswerInv, TypeOK, AnsweredStays, DraftsKeepPromises,
       DraftsHoldPatches, TogetherIsOverlapped, CommittedAlone, DownIsIdle, InFlight, CommittedInv
  <2> QED
    BY <2>1, <2>2
<1> QED
  BY InitInv, <1>1, PTL DEF Spec

\* Every variable keeps its type, and the lock of the row in config_kv is held
\* by the one request that has written it.
THEOREM SettingsTypes == Spec => []TypeOK
<1>1. AnswerInv => TypeOK
  BY DEF AnswerInv
<1> QED
  BY Invariants, <1>1, PTL

\* A change of the settings that was answered, and was handled alone, stays in
\* effect and in the table until its key is named again (POST /config), for any
\* number of requests, keys, values and faults.
THEOREM AnswersKept == Spec => []AnsweredStays
<1>1. AnswerInv => AnsweredStays
  BY DEF AnswerInv
<1> QED
  BY Invariants, <1>1, PTL

\* The settings in effect are the defaults or have been committed.
THEOREM EffectIsCommitted == Spec => []OnlyCommittedInEffect
<1>1. CommittedInv => OnlyCommittedInEffect
  BY DEF CommittedInv, OnlyCommittedInEffect
<1> QED
  BY Invariants, <1>1, PTL
=============================================================================
