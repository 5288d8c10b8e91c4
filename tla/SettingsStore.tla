---------------------------- MODULE SettingsStore ----------------------------
(***************************************************************************)
(* The settings and their overrides: POST /config (app/main.py,            *)
(* update_config), the table config_kv (app/config_store.py) and the load  *)
(* at startup (app/main.py, lifespan).                                     *)
(*                                                                         *)
(* A request reads the overrides in memory, merges its patch into them,    *)
(* writes the result to one row of the table, commits, and only then       *)
(* replaces what is in memory.  It awaits the write and the commit, and    *)
(* requests are handled concurrently.  The row is locked from the write to *)
(* the end of the transaction.                                             *)
(***************************************************************************)
EXTENDS Naturals

CONSTANTS
    Request,              \* requests, each used once
    Key, Value, None,     \* None: not overridden
    MaxFaults             \* bound: crashes, failed loads, failed transactions

ASSUME NoneAssumption == None \notin Value \cup Request
ASSUME BoundAssumption == MaxFaults \in Nat

VARIABLES
    up,          \* the process runs
    memory,      \* app.state.settings_overrides, and settings made from them
    table,       \* the row of config_kv
    lock,        \* the request that holds its lock
    phase, patch, draft,   \* of each request; draft: new_overrides
    faults,
    overlapped,  \* history: another request was in flight together with it
    promised,    \* history: what was answered for each key, and not asked to change
    committed    \* history: the overrides ever committed

request == <<phase, patch, draft>>
vars == <<up, memory, table, lock, request, faults, overlapped, promised, committed>>

Overrides == [Key -> Value \cup {None}]
NoOverrides == [k \in Key |-> None]

\* Mutant: the patch replaces the overrides.
MergeOnlyDelta(current, delta) == delta
\* {**current, **delta}
Merge(current, delta) ==
    [k \in Key |-> IF delta[k] # None THEN delta[k] ELSE current[k]]

InFlight == {r \in Request : phase[r] \in {"merged", "written", "committed"}}

\* promised, when a patch is received and when it is answered.
Withdraw(delta) == [k \in Key |-> IF delta[k] # None THEN None ELSE promised[k]]
Promise(delta) == [k \in Key |-> IF delta[k] # None THEN delta[k] ELSE promised[k]]

Init ==
    /\ up = TRUE
    /\ memory = NoOverrides /\ table = NoOverrides /\ lock = None
    /\ phase = [r \in Request |-> "new"]
    /\ patch = [r \in Request |-> NoOverrides] /\ draft = patch
    /\ faults = 0
    /\ overlapped = {} /\ promised = NoOverrides /\ committed = {NoOverrides}

-----------------------------------------------------------------------------
(* update_config *)

\* Up to the first await.
Receive(r, delta) ==
    /\ up /\ phase[r] = "new" /\ delta # NoOverrides
    /\ phase' = [phase EXCEPT ![r] = "merged"]
    /\ patch' = [patch EXCEPT ![r] = delta]
    /\ draft' = [draft EXCEPT ![r] = Merge(memory, delta)]
    /\ overlapped' = IF InFlight = {} THEN overlapped ELSE overlapped \cup InFlight \cup {r}
    /\ promised' = Withdraw(delta)
    /\ UNCHANGED <<up, memory, table, lock, faults, committed>>

Write(r) ==
    /\ phase[r] = "merged" /\ lock = None
    /\ lock' = r
    /\ phase' = [phase EXCEPT ![r] = "written"]
    /\ UNCHANGED <<up, memory, table, patch, draft, faults, overlapped, promised, committed>>

Stored(r) == table' = draft[r] /\ committed' = committed \cup {draft[r]}

\* Mutant: the lock outlives the transaction.
CommitAndKeepLock(r) ==
    /\ phase[r] = "written"
    /\ Stored(r) /\ UNCHANGED lock
    /\ phase' = [phase EXCEPT ![r] = "committed"]
    /\ UNCHANGED <<up, memory, patch, draft, faults, overlapped, promised>>
Commit(r) ==
    /\ phase[r] = "written"
    /\ Stored(r) /\ lock' = None
    /\ phase' = [phase EXCEPT ![r] = "committed"]
    /\ UNCHANGED <<up, memory, patch, draft, faults, overlapped, promised>>

Fault == faults < MaxFaults /\ faults' = faults + 1

\* Mutant: the settings are replaced although the transaction failed.
FailAndAssign(r) ==
    /\ phase[r] \in {"merged", "written"} /\ Fault
    /\ UNCHANGED <<table, committed>>
    /\ memory' = draft[r]
    /\ lock' = IF lock = r THEN None ELSE lock
    /\ phase' = [phase EXCEPT ![r] = "failed"]
    /\ UNCHANGED <<up, patch, draft, overlapped, promised>>
\* The write or the commit raises; the table may have been changed even so, if
\* it is the answer of the commit that was lost.
Fail(r) ==
    /\ phase[r] \in {"merged", "written"} /\ Fault
    /\ \/ UNCHANGED <<table, committed>>
       \/ phase[r] = "written" /\ Stored(r)
    /\ lock' = IF lock = r THEN None ELSE lock
    /\ phase' = [phase EXCEPT ![r] = "failed"]
    /\ UNCHANGED <<up, memory, patch, draft, overlapped, promised>>

\* After the commit, with nothing awaited up to the answer.
Answer(r) ==
    /\ phase[r] = "committed"
    /\ memory' = draft[r]
    /\ phase' = [phase EXCEPT ![r] = "answered"]
    /\ promised' = IF r \in overlapped THEN promised ELSE Promise(patch[r])
    /\ UNCHANGED <<up, table, lock, patch, draft, faults, overlapped, committed>>

-----------------------------------------------------------------------------
(* The process *)

Crash ==
    /\ up /\ Fault
    /\ up' = FALSE
    /\ lock' = None
    /\ phase' = [r \in Request |-> IF r \in InFlight THEN "failed" ELSE phase[r]]
    /\ UNCHANGED <<memory, table, patch, draft, overlapped, promised, committed>>

Start ==
    /\ ~up /\ up' = TRUE
    /\ memory' = table
    /\ UNCHANGED <<table, lock, request, faults, overlapped, promised, committed>>

\* "failed to load persisted config overrides; using env/default settings":
\* nothing that was answered before is in effect, and the next request will
\* overwrite the row with its patch alone.
StartWithoutOverrides ==
    /\ ~up /\ up' = TRUE /\ Fault
    /\ memory' = NoOverrides
    /\ promised' = NoOverrides
    /\ UNCHANGED <<table, lock, request, overlapped, committed>>

Next ==
    \/ \E r \in Request :
           \/ \E delta \in Overrides : Receive(r, delta)
           \/ Write(r) \/ Commit(r) \/ Fail(r) \/ Answer(r)
    \/ Crash \/ Start \/ StartWithoutOverrides

Spec == Init /\ [][Next]_vars

-----------------------------------------------------------------------------
(* What must hold *)

\* The types of all variables; the lock is held by the request that has written.
TypeOK ==
    /\ up \in BOOLEAN /\ faults \in 0..MaxFaults
    /\ {memory, table, promised} \cup committed \subseteq Overrides
    /\ patch \in [Request -> Overrides] /\ draft \in [Request -> Overrides]
    /\ phase \in [Request -> {"new", "merged", "written", "committed", "answered", "failed"}]
    /\ overlapped \subseteq Request
    /\ \A r \in Request : phase[r] = "written" <=> lock = r

\* A change that was answered stays in effect, and in the table, until a request
\* names its key again: other requests, failed ones, crashes and restarts leave
\* it alone.  Not so if it was handled together with another request (the later
\* one merges into what it read before the earlier one was done), nor after a
\* start that could not load the overrides.
AnsweredStays ==
    \A k \in Key :
        promised[k] # None =>
            table[k] = promised[k] /\ (up => memory[k] = promised[k])

\* The settings in effect are the defaults or have been committed: none are in
\* effect that a restart never could have brought back.
OnlyCommittedInEffect == memory \in committed
=============================================================================
