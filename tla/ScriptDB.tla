------------------------------ MODULE ScriptDB ------------------------------
(***************************************************************************)
(* db/db.go and script/builtins/db.go: the entries that scripts keep in    *)
(* the database.                                                           *)
(*                                                                         *)
(* One ordered store holds three namespaces: "kv:", "config:" and "log:".  *)
(* A log entry has the wall clock in its key: db_log reads the clock and   *)
(* then writes, so that calls can overtake each other, read the same time, *)
(* or read a clock that was set back.  db_logs walks backwards from the    *)
(* end of a prefix.                                                        *)
(*                                                                         *)
(* A key is the sequence of its parts between colons; the first one is its *)
(* namespace, the last one of a log entry is its stamp, of 20 digits, so   *)
(* that stamps are in the order of numbers.  Other parts are numbers, too, *)
(* in the order of the texts they stand for.                               *)
(***************************************************************************)
EXTENDS Naturals, Sequences, FiniteSets, SequencesExt

CONSTANTS
    Handlers,   \* the goroutines that may run a script
    Topics,     \* the topics scripts log
    Paths,      \* the keys scripts use in "kv:" and "config:"
    Texts,      \* the texts they store there
    Empty,      \* the text of no characters
    Undefined,  \* tengo.UndefinedValue
    MaxTime,    \* bound: the largest clock reading
    MaxCalls,   \* bound: calls that write
    MaxJumps    \* bound: how often the clock is set back

ASSUME KeysAssumption == Topics \subseteq Seq(Nat) /\ Paths \subseteq Seq(Nat)
ASSUME TextsAssumption == Undefined \notin Texts
ASSUME BoundsAssumption == MaxTime \in Nat /\ MaxCalls \in Nat /\ MaxJumps \in Nat

VARIABLES
    store,      \* the database: a function from the keys that have a value
    clock,      \* time.Now().UnixNano()
    pending,    \* the key of each handler's db_log that has read the clock
    calls, jumps,   \* (bounds)
    read,       \* ghost: the clock reading of that db_log
    kv, config, \* ghost: what scripts set and did not delete since
    logged,     \* ghost: the entries of completed calls of db_log
    disorder    \* ghost: the clock was set back or calls of db_log overlapped

counts == <<calls, jumps>>
vars == <<store, clock, pending, calls, jumps, read, kv, config, logged, disorder>>

NoKey == <<>>

Init ==
    /\ store = <<>>
    /\ clock = 0
    /\ pending = [h \in Handlers |-> NoKey]
    /\ calls = 0
    /\ jumps = 0
    /\ read = [h \in Handlers |-> 0]
    /\ kv = <<>>
    /\ config = <<>>
    /\ logged = <<>>
    /\ disorder = FALSE

-----------------------------------------------------------------------------
(* DB.Get, DB.Set, DB.Delete and the scans.                                *)

Without(f, k) == [j \in DOMAIN f \ {k} |-> f[j]]
With(f, k, v) == [j \in DOMAIN f \cup {k} |-> IF j = k THEN v ELSE f[j]]
Set(k, v) == store' = With(store, k, v)
Delete(k) == store' = Without(store, k)

\* Found means not nil, and the copy of an empty value is nil.
Found(k) == k \in DOMAIN store /\ store[k] # Empty

\* The order of keys with the same namespace.
Below(j, k) ==
    \/ IsStrictPrefix(j, k)
    \/ \E i \in 2..Len(j) :
          /\ i <= Len(k)
          /\ SubSeq(j, 1, i - 1) = SubSeq(k, 1, i - 1)
          /\ j[i] < k[i]

ScanKeys(prefix) == {k \in DOMAIN store : IsPrefix(prefix, k)}

\* The keys that have a colon and more after a prefix, and the keys of a set
\* from the last one backwards.
Under(prefix) == {k \in DOMAIN store : IsStrictPrefix(prefix, k)}
Backwards(K) ==
    [i \in 1..Cardinality(K) |->
        CHOOSE k \in K : Cardinality({j \in K : Below(k, j)}) = i - 1]

\* Seeded bug: the limit is tested before the entry is added.
ScanReverseOneMore(prefix, limit) ==
    LET all == Backwards(Under(prefix))
    IN  IF limit > 0 /\ limit + 1 < Len(all) THEN SubSeq(all, 1, limit + 1)
                                             ELSE all

\* A limit that is not positive is none.
ScanReverse(prefix, limit) ==
    LET all == Backwards(Under(prefix))
    IN  IF limit > 0 /\ limit < Len(all) THEN SubSeq(all, 1, limit) ELSE all

-----------------------------------------------------------------------------
(* The builtins.                                                           *)

Key(namespace, path) == <<namespace>> \o path
LogKey(topic, stamp) == Key("log", Append(topic, stamp))

\* What encoding/json makes of a value is never empty.
Json(v) == <<"json", v>>
ASSUME JsonAssumption == \A v \in Texts : Json(v) # Empty

DbGet(p) == LET key == Key("kv", p)
            IN  IF Found(key) THEN store[key][2] ELSE Undefined

ConfigGet(p) == LET key == Key("config", p)
                IN  IF Found(key) THEN store[key] ELSE Undefined

DbKeys(path) == {Tail(k) : k \in ScanKeys(Key("kv", path))}

\* The entries that db_logs decodes.
DbLogs(topic, limit) ==
    LET ks == ScanReverse(Key("log", topic), limit)
    IN  [i \in 1..Len(ks) |-> store[ks[i]]]

Write ==
    /\ calls < MaxCalls
    /\ calls' = calls + 1
    /\ UNCHANGED <<clock, jumps>>

DbSet(p, v) ==
    /\ Write
    /\ Set(Key("kv", p), Json(v))
    /\ kv' = With(kv, p, v)
    /\ UNCHANGED <<pending, read, config, logged, disorder>>

DbDel(p) ==
    /\ Write
    /\ Delete(Key("kv", p))
    /\ kv' = Without(kv, p)
    /\ UNCHANGED <<pending, read, config, logged, disorder>>

ConfigSet(p, v) ==
    /\ Write
    /\ Set(Key("config", p), v)
    /\ config' = With(config, p, v)
    /\ UNCHANGED <<pending, read, kv, logged, disorder>>

\* Seeded bug: the prefix of db_del was copied.
ConfigDelFromKv(p) ==
    /\ Write
    /\ Delete(Key("kv", p))
    /\ config' = Without(config, p)
    /\ UNCHANGED <<pending, read, kv, logged, disorder>>

ConfigDel(p) ==
    /\ Write
    /\ Delete(Key("config", p))
    /\ config' = Without(config, p)
    /\ UNCHANGED <<pending, read, kv, logged, disorder>>

\* Seeded bug: the clock is read to half the precision.
LogStampCoarse(h, topic) ==
    /\ pending[h] = NoKey
    /\ Write
    /\ pending' = [pending EXCEPT ![h] =
                      LogKey(topic, 2 * (clock \div 2))]
    /\ read' = [read EXCEPT ![h] = clock]
    /\ disorder' = (disorder \/ \E g \in Handlers : pending[g] # NoKey)
    /\ UNCHANGED <<store, kv, config, logged>>

\* db_log up to the key, which has the time in it.
LogStamp(h, topic) ==
    /\ pending[h] = NoKey
    /\ Write
    /\ pending' = [pending EXCEPT ![h] = LogKey(topic, clock)]
    /\ read' = [read EXCEPT ![h] = clock]
    /\ disorder' = (disorder \/ \E g \in Handlers : pending[g] # NoKey)
    /\ UNCHANGED <<store, kv, config, logged>>

\* db_log writes: the entry is told apart by its number.
LogPut(h) ==
    /\ pending[h] # NoKey
    /\ LET k == pending[h]
           e == [topic |-> Front(Tail(k)), stamp |-> read[h],
                 id |-> Len(logged) + 1]
       IN  /\ Set(k, e.id)
           /\ logged' = Append(logged, e)
    /\ pending' = [pending EXCEPT ![h] = NoKey]
    /\ UNCHANGED <<clock, counts, read, kv, config, disorder>>

Tick ==
    /\ clock < MaxTime
    /\ clock' = clock + 1
    /\ UNCHANGED <<store, pending, counts, read, kv, config, logged, disorder>>

SetBack ==
    /\ jumps < MaxJumps
    /\ jumps' = jumps + 1
    /\ clock > 0
    /\ clock' = clock - 1
    /\ disorder' = TRUE
    /\ UNCHANGED <<store, pending, calls, read, kv, config, logged>>

Next ==
    \/ Tick
    \/ SetBack
    \/ \E p \in Paths :
          \/ \E v \in Texts : DbSet(p, v) \/ ConfigSet(p, v)
          \/ DbDel(p)
          \/ ConfigDel(p)
    \/ \E h \in Handlers :
          \/ \E t \in Topics : LogStamp(h, t)
          \/ LogPut(h)

Spec == Init /\ [][Next]_vars

-----------------------------------------------------------------------------
(* Correctness.                                                            *)

Partial == UNION {[P -> Texts] : P \in SUBSET Paths}
TypeOK ==
    /\ clock \in Nat /\ calls \in Nat /\ jumps \in Nat
    /\ read \in [Handlers -> Nat]
    /\ DOMAIN pending = Handlers
    /\ kv \in Partial
    /\ config \in Partial
    /\ logged \in Seq([topic : Topics, stamp : Nat, id : Nat])
    /\ disorder \in BOOLEAN

\* The completed calls for a topic, and those of them that no later call for
\* the same topic had the same clock reading as.
Own(t) == {i \in 1..Len(logged) : logged[i].topic = t}
Kept(t) == {i \in Own(t) : \A j \in Own(t) :
                              j > i => logged[j].stamp # logged[i].stamp}

\* What db_logs finds without a limit: each entry of the topic, and of every
\* topic that extends its name, once - unless a later entry of the same topic
\* read the same time, because calls overlapped or the clock was set back or
\* stood still.  The docs say that entries "never overwrite each other", and
\* that those "for topic" are returned: neither is so.
OnlyCollisionsLose ==
    \A t \in Topics :
        LET r == DbLogs(t, 0)
        IN  /\ ToSet(r) = UNION {Kept(u) : u \in {v \in Topics : IsPrefix(t, v)}}
            /\ \A i, j \in 1..Len(r) : r[i] = r[j] => i = j

\* A topic whose name does not begin that of another one at a colon.
Exclusive(t) == \A u \in Topics : ~IsStrictPrefix(t, u)

\* "the most recent log entries for topic, newest first": as long as the
\* calls come one by one and the clock is not set back, db_logs returns the
\* limit newest ones of the topic, newest first.  Where another topic
\* extends the name, db_logs returns its entries, too.
LogsNewestFirst ==
    ~disorder =>
        \A t \in Topics : Exclusive(t) =>
            \A limit \in 0..MaxCalls :
                LET r == DbLogs(t, limit)
                    n == Cardinality(Kept(t))
                IN  /\ Len(r) = IF limit \in 1..n THEN limit ELSE n
                    /\ \A i, j \in 1..Len(r) : i < j => r[i] > r[j]
                    /\ \A i \in Kept(t) \ ToSet(r) : \A j \in ToSet(r) : i < j

\* The three namespaces do not see each other, whatever their keys are
\* called: db_get and db_keys return what db_set set and db_del did not delete
\* since, and config_get what config_set set, "or undefined if not set" - and
\* also if it was set to the empty text.
NamespacesSeparate ==
    /\ \A prefix \in Paths \cup {<<>>} :
          DbKeys(prefix) = {p \in DOMAIN kv : IsPrefix(prefix, p)}
    /\ \A p \in Paths :
          /\ DbGet(p) = IF p \in DOMAIN kv THEN kv[p] ELSE Undefined
          /\ ConfigGet(p) = IF p \in DOMAIN config /\ config[p] # Empty
                            THEN config[p] ELSE Undefined

=============================================================================
