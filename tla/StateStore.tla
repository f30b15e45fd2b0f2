------------------------------ MODULE StateStore ------------------------------
(***************************************************************************)
(* script/builtins/state.go (set_state, del_state), the restoration in     *)
(* script/engine.go and the way main.go ends.                              *)
(*                                                                         *)
(* The state that all scripts share is a Go map under a read-write lock.   *)
(* set_state and del_state change the map under the lock and then, with    *)
(* the lock released, the "state:" entries of the database, whose errors   *)
(* they ignore.  A start of the process fills the map from the database.   *)
(*                                                                         *)
(* A value in the database is the value that decoding its JSON gives back. *)
(***************************************************************************)
EXTENDS Naturals, FiniteSets

CONSTANTS
    Handlers,   \* the goroutines that may run a script
    Keys,       \* the keys scripts use
    Volatile,   \* those that begin with "__": never persisted
    Vals,       \* the values scripts store
    Missing,    \* what a key that is not in the map has
    NotJson,    \* the values json.Marshal refuses: NaN and the infinities
    Mutable,    \* maps and arrays, which a script can change in place
    Json,       \* what encoding a value and decoding it again gives
    MaxCalls,   \* bound: calls of set_state and del_state, and mutations
    MaxFaults   \* bound: errors of the database

ASSUME KeysAssumption == Volatile \subseteq Keys /\ Missing \notin Keys
ASSUME ValsAssumption ==
    /\ Missing \notin Vals
    /\ NotJson \subseteq Vals
    /\ Mutable \subseteq Vals
    /\ Json \in [Vals -> Vals]
    /\ \A v \in Vals : Json[Json[v]] = Json[v]

VARIABLES
    phase,      \* "up", "closing" (the database is closed) or "down"
    mem,        \* Engine.state
    db,         \* the "state:" entries, decoded
    op,         \* what each handler still has to do to the database
    calls, faults,      \* (bounds)
    adrift,     \* ghost: keys whose entry may differ from the map, see below
    before,     \* ghost: the map when the process ended
    cut         \* ghost: the keys with a call in progress at that moment

counts == <<calls, faults>>
memory == <<before, cut>>
vars == <<phase, mem, db, op, calls, faults, adrift, before, cut>>

Persistent == Keys \ Volatile
Stored == Vals \cup {Missing}

\* What the database holds for a key whose value is v.
Encoded(v) == IF v = Missing THEN Missing ELSE Json[v]

Nothing == [key |-> Missing, val |-> Missing]
Ops == [key : Persistent, val : Stored] \cup {Nothing}

Busy(h) == op[h] # Nothing
Pending(k) == \E h \in Handlers : Busy(h) /\ op[h].key = k

Init ==
    /\ phase = "down"
    /\ mem = [k \in Keys |-> Missing]
    /\ db = [k \in Keys |-> Missing]
    /\ op = [h \in Handlers |-> Nothing]
    /\ calls = 0
    /\ faults = 0
    /\ adrift = {}
    /\ before = [k \in Keys |-> Missing]
    /\ cut = {}

-----------------------------------------------------------------------------
(* set_state and del_state.                                                *)

\* Seeded bug: no test for "__".
UpdateEveryKey(h, k, v) ==
    /\ phase # "down"
    /\ ~Busy(h)
    /\ calls < MaxCalls
    /\ calls' = calls + 1
    /\ mem' = [mem EXCEPT ![k] = v]
    /\ op' = [op EXCEPT ![h] = IF v \in NotJson THEN Nothing
                                               ELSE [key |-> k, val |-> v]]
    /\ adrift' = IF k \in Persistent /\ (v \in NotJson \/ Pending(k))
                 THEN adrift \cup {k}
                 ELSE adrift \ {k}
    /\ UNCHANGED <<phase, db, faults, memory>>

\* The first half, under the lock.  v = Missing is del_state.  A value that
\* has no JSON is kept in the map and nothing more is done about it.
Update(h, k, v) ==
    /\ phase # "down"
    /\ ~Busy(h)
    /\ calls < MaxCalls
    /\ calls' = calls + 1
    /\ mem' = [mem EXCEPT ![k] = v]
    /\ op' = [op EXCEPT ![h] = IF k \in Volatile \/ v \in NotJson
                               THEN Nothing
                               ELSE [key |-> k, val |-> v]]
    /\ adrift' = IF k \in Persistent /\ (v \in NotJson \/ Pending(k))
                 THEN adrift \cup {k}
                 ELSE adrift \ {k}
    /\ UNCHANGED <<phase, db, faults, memory>>

\* Seeded bug: del_state forgets the database.
PersistNoDelete(h) ==
    /\ phase = "up"
    /\ Busy(h)
    /\ db' = IF op[h].val = Missing THEN db
             ELSE [db EXCEPT ![op[h].key] = Encoded(op[h].val)]
    /\ op' = [op EXCEPT ![h] = Nothing]
    /\ UNCHANGED <<phase, mem, counts, adrift, memory>>

\* The second half, after the lock.
Persist(h) ==
    /\ phase = "up"
    /\ Busy(h)
    /\ db' = [db EXCEPT ![op[h].key] = Encoded(op[h].val)]
    /\ op' = [op EXCEPT ![h] = Nothing]
    /\ UNCHANGED <<phase, mem, counts, adrift, memory>>

\* The database refuses: it has a fault or is closed already.  The error of
\* Set and Delete is dropped, so the script does not learn of it.
PersistFails(h) ==
    /\ phase # "down"
    /\ Busy(h)
    /\ \/ phase = "closing" /\ UNCHANGED faults
       \/ phase = "up" /\ faults < MaxFaults /\ faults' = faults + 1
    /\ op' = [op EXCEPT ![h] = Nothing]
    /\ adrift' = adrift \cup {op[h].key}
    /\ UNCHANGED <<phase, mem, db, calls, memory>>

\* get_state hands out the object that is in the map: a script that changes
\* a map or an array it got has changed the state, not the database.
Mutate(h, k, v) ==
    /\ phase # "down"
    /\ ~Busy(h)
    /\ calls < MaxCalls
    /\ calls' = calls + 1
    /\ mem[k] \in Mutable
    /\ v \in Mutable
    /\ mem' = [mem EXCEPT ![k] = v]
    /\ adrift' = adrift \cup ({k} \cap Persistent)
    /\ UNCHANGED <<phase, db, op, faults, memory>>

-----------------------------------------------------------------------------
(* The process.                                                            *)

\* A signal made RunBLEManager return: the deferred database.Close runs, and no
\* callback of the BLE stack was stopped or waited for.
Close ==
    /\ phase = "up"
    /\ phase' = "closing"
    /\ UNCHANGED <<mem, db, op, counts, adrift, memory>>

\* main returns, or the process is killed at any moment.
Stop ==
    /\ phase # "down"
    /\ phase' = "down"
    /\ mem' = [k \in Keys |-> Missing]
    /\ op' = [h \in Handlers |-> Nothing]
    /\ before' = mem
    /\ cut' = {k \in Persistent : Pending(k)}
    /\ UNCHANGED <<db, counts, adrift>>

\* Seeded bug: the entries are restored under their prefixed names, where no
\* script looks for them.
StartWithPrefix ==
    /\ phase = "down"
    /\ phase' = "up"
    /\ adrift' = {}
    /\ UNCHANGED <<mem, db, op, counts, memory>>

\* db.Open and NewEngine.
Start ==
    /\ phase = "down"
    /\ phase' = "up"
    /\ mem' = db
    /\ adrift' = {}
    /\ UNCHANGED <<db, op, counts, memory>>

\* NewEngine goes on with an empty map when the scan of "state:" fails.
StartBlank ==
    /\ phase = "down"
    /\ faults < MaxFaults
    /\ faults' = faults + 1
    /\ phase' = "up"
    /\ adrift' = {k \in Persistent : db[k] # Missing}
    /\ UNCHANGED <<mem, db, op, calls, memory>>

Call(h) ==
    \/ \E k \in Keys, v \in Stored : Update(h, k, v)
    \/ \E k \in Keys, v \in Mutable : Mutate(h, k, v)

Next ==
    \/ \E h \in Handlers : Call(h) \/ Persist(h) \/ PersistFails(h)
    \/ Close
    \/ Stop
    \/ Start
    \/ StartBlank

Spec == Init /\ [][Next]_vars

-----------------------------------------------------------------------------
(* Correctness.                                                            *)

TypeOK ==
    /\ phase \in {"up", "closing", "down"}
    /\ mem \in [Keys -> Stored]
    /\ db \in [Keys -> Stored]
    /\ op \in [Handlers -> Ops]
    /\ faults \in Nat
    /\ adrift \subseteq Persistent
    /\ before \in [Keys -> Stored]
    /\ cut \subseteq Persistent

\* The map and the database agree on every key, except for a key that a call
\* is about to write, and a key that is adrift: its last change overlapped
\* with another one, had no JSON, was made in place, or was refused by the
\* database, or the process started without reading it.  Volatile keys have
\* no entry.
WrittenThrough ==
    /\ \A k \in Volatile : db[k] = Missing
    /\ phase # "down" =>
          \A k \in Persistent \ adrift :
              Pending(k) \/ db[k] = Encoded(mem[k])

\* A call in progress on a key that is not adrift is the only one on that
\* key, and is about to write what the map holds.
CallsCurrent ==
    \A h \in Handlers :
        Busy(h) /\ op[h].key \notin adrift =>
            /\ op[h].val = mem[op[h].key]
            /\ \A g \in Handlers \ {h} : Busy(g) => op[g].key # op[h].key

\* Encoding what was decoded changes nothing any more.
EntriesDecoded == \A k \in Keys : db[k] = Encoded(db[k])

\* A process that is down has left an empty map, no call, and the entries of
\* all keys but those adrift or cut short.
LeftBehind ==
    phase = "down" =>
        /\ \A h \in Handlers : ~Busy(h)
        /\ \A k \in Keys : mem[k] = Missing
        /\ \A k \in Persistent \ (adrift \cup cut) : db[k] = Encoded(before[k])

\* The inductive invariant.
IInv ==
    /\ TypeOK
    /\ WrittenThrough
    /\ CallsCurrent
    /\ EntriesDecoded
    /\ LeftBehind

\* What a restart brings back.
Restarts == phase = "down" /\ phase' = "up" /\ faults' = faults

\* A restart brings back every value (as JSON gives it back) that was not
\* adrift and on which no call was in progress when the process ended.
RestartKeepsSaved ==
    [][Restarts => \A k \in Persistent \ (adrift \cup cut) :
                       mem'[k] = Encoded(before[k])]_vars
=============================================================================
