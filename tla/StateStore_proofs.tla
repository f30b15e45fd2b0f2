-------------------------- MODULE StateStore_proofs --------------------------
(***************************************************************************)
(* The map and the database of the scripts' state, for every set of        *)
(* handlers, keys and values.                                              *)
(***************************************************************************)
EXTENDS StateStore, TLAPS

USE KeysAssumption, ValsAssumption

LEMMA InitIInv == Init => IInv
<1> SUFFICES ASSUME Init
             PROVE  IInv
  OBVIOUS
<1>1. TypeOK
  BY DEF Init, TypeOK, Stored, Ops
<1>2. WrittenThrough /\ EntriesDecoded
  BY DEF Init, WrittenThrough, EntriesDecoded, Encoded, Persistent
<1>3. CallsCurrent
  BY DEF Init, CallsCurrent, Busy
<1>4. LeftBehind
  BY DEF Init, LeftBehind, Busy, Encoded, Persistent
<1> QED  BY <1>1, <1>2, <1>3, <1>4 DEF IInv

\* Encoding is idempotent.
LEMMA EncodedTwice ==
    ASSUME NEW v \in Stored
    PROVE  Encoded(v) \in Stored /\ Encoded(Encoded(v)) = Encoded(v)
BY DEF Encoded, Stored

\* What a handler is about to do, for a key it may do it to.
LEMMA OpTypes ==
    ASSUME TypeOK, NEW h \in Handlers, Busy(h)
    PROVE  op[h].key \in Persistent /\ op[h].val \in Stored
BY DEF TypeOK, Ops, Busy

LEMMA UpdateIInv ==
    ASSUME IInv, NEW h \in Handlers, NEW k \in Keys, NEW v \in Stored,
           Update(h, k, v)
    PROVE  IInv'
<1> USE DEF IInv
<1> DEFINE o == [key |-> k, val |-> v]
           last == k \in Volatile \/ v \in NotJson
<1>1. /\ phase # "down"
      /\ ~Busy(h)
      /\ mem' = [mem EXCEPT ![k] = v]
      /\ op' = [op EXCEPT ![h] = IF last THEN Nothing ELSE o]
      /\ adrift' = IF k \in Persistent /\ (v \in NotJson \/ Pending(k))
                   THEN adrift \cup {k} ELSE adrift \ {k}
      /\ UNCHANGED <<phase, db, faults, before, cut>>
  BY DEF Update, memory
<1>2. o # Nothing
  BY DEF Nothing
<1>3. /\ ~last => k \in Persistent
      /\ op'[h] = IF last THEN Nothing ELSE o
      /\ \A g \in Handlers \ {h} : op'[g] = op[g]
  BY <1>1 DEF TypeOK, Persistent
<1>4. /\ mem'[k] = v
      /\ \A j \in Keys \ {k} : mem'[j] = mem[j]
  BY <1>1 DEF TypeOK
<1>5. /\ Busy(h)' <=> ~last
      /\ \A g \in Handlers \ {h} : Busy(g)' <=> Busy(g)
  BY <1>2, <1>3 DEF Busy
<1>6. TypeOK'
  BY <1>1, <1>3 DEF TypeOK, Ops, Stored, Persistent
<1>7. \A j \in Keys \ {k} : Pending(j)' <=> Pending(j)
  BY <1>1, <1>3, <1>5 DEF Pending
<1>8. WrittenThrough'
  <2>1. ASSUME NEW j \in Persistent \ adrift'
        PROVE  Pending(j)' \/ db[j] = Encoded(mem'[j])
    <3>1. CASE j = k
      <4>1. ~last
        BY <1>1, <3>1 DEF Persistent
      <4>2. Busy(h)' /\ op'[h].key = k
        BY <1>3, <1>5, <4>1
      <4> QED  BY <3>1, <4>2 DEF Pending
    <3>2. CASE j # k
      BY <1>1, <1>4, <1>7, <3>2 DEF WrittenThrough, Persistent
    <3> QED  BY <3>1, <3>2
  <2> QED  BY <1>1, <2>1 DEF WrittenThrough
<1>9. CallsCurrent'
  <2> SUFFICES ASSUME NEW g \in Handlers, Busy(g)', op'[g].key \notin adrift'
               PROVE  /\ op'[g].val = mem'[op'[g].key]
                      /\ \A f \in Handlers \ {g} :
                            Busy(f)' => op'[f].key # op'[g].key
    BY DEF CallsCurrent
  <2>1. CASE g = h
    <3>1. ~last /\ op'[h] = o /\ k \in Persistent /\ k \notin adrift'
      BY <1>3, <1>5, <2>1
    <3>2. ~Pending(k)
      BY <1>1, <3>1
    <3>3. \A f \in Handlers \ {h} : Busy(f)' => op'[f].key # k
      BY <1>3, <1>5, <3>2 DEF Pending
    <3> QED  BY <1>4, <2>1, <3>1, <3>3
  <2>2. CASE g # h
    <3>1. op'[g] = op[g] /\ Busy(g)
      BY <1>3, <1>5, <2>2
    <3>2. op[g].key \in Persistent
      BY <3>1, OpTypes
    <3>3. op[g].key # k
      <4>1. op[g].key = k => Pending(k)
        BY <3>1 DEF Pending
      <4> QED  BY <1>1, <3>1, <3>2, <4>1
    <3>4. op[g].key \notin adrift
      BY <1>1, <3>1, <3>3
    <3>5. op'[g].val = mem'[op'[g].key]
      BY <1>4, <3>1, <3>2, <3>3, <3>4 DEF CallsCurrent, Persistent
    <3>6. \A f \in Handlers \ {g} : Busy(f)' => op'[f].key # op'[g].key
      BY <1>3, <1>5, <3>1, <3>3, <3>4 DEF CallsCurrent
    <3> QED  BY <3>5, <3>6
  <2> QED  BY <2>1, <2>2
<1>10. EntriesDecoded' /\ LeftBehind'
  BY <1>1 DEF EntriesDecoded, LeftBehind
<1> QED  BY <1>6, <1>8, <1>9, <1>10

\* A handler that is done with its call, whether the database took it or not.
LEMMA FinishIInv ==
    ASSUME IInv, NEW h \in Handlers, Busy(h), phase # "down",
           op' = [op EXCEPT ![h] = Nothing],
           UNCHANGED <<phase, mem, before, cut>>, faults' \in Nat,
           \/ /\ db' = [db EXCEPT ![op[h].key] = Encoded(op[h].val)]
              /\ adrift' = adrift
           \/ /\ db' = db
              /\ adrift' = adrift \cup {op[h].key}
    PROVE  IInv'
<1> USE DEF IInv
<1> DEFINE k == op[h].key
<1>1. k \in Persistent /\ k \in Keys /\ op[h].val \in Stored
  BY OpTypes DEF Persistent
<1>2. /\ op'[h] = Nothing
      /\ \A g \in Handlers \ {h} : op'[g] = op[g]
  BY DEF TypeOK
<1>3. /\ ~Busy(h)'
      /\ \A g \in Handlers \ {h} : Busy(g)' <=> Busy(g)
  BY <1>2 DEF Busy
<1>4. TypeOK'
  <2>1. db' \in [Keys -> Stored] /\ adrift' \subseteq Persistent
    BY <1>1, EncodedTwice DEF TypeOK
  <2>2. op' \in [Handlers -> Ops]
    BY DEF TypeOK, Ops
  <2> QED  BY <2>1, <2>2 DEF TypeOK
<1>5. /\ \A j \in Keys \ {k} : db'[j] = db[j]
      /\ db'[k] \in {db[k], Encoded(op[h].val)}
  BY <1>1 DEF TypeOK
<1>6. \A j \in Keys \ {k} : Pending(j)' <=> Pending(j)
  BY <1>2, <1>3 DEF Pending
<1>7. WrittenThrough'
  <2>1. ASSUME NEW j \in Persistent \ adrift'
        PROVE  Pending(j)' \/ db'[j] = Encoded(mem[j])
    <3>1. CASE j # k
      BY <1>5, <1>6, <3>1 DEF WrittenThrough, Persistent
    <3>2. CASE j = k
      <4>1. k \notin adrift /\ db'[k] = Encoded(op[h].val)
        BY <1>1, <3>2 DEF TypeOK
      <4>2. op[h].val = mem[k]
        BY <4>1 DEF CallsCurrent
      <4> QED  BY <3>2, <4>1, <4>2
    <3> QED  BY <3>1, <3>2
  <2>2. \A j \in Volatile : db'[j] = Missing
    BY <1>1, <1>5 DEF WrittenThrough, Persistent
  <2> QED  BY <2>1, <2>2 DEF WrittenThrough
<1>8. CallsCurrent'
  BY <1>2, <1>3 DEF CallsCurrent
<1>9. EntriesDecoded'
  BY <1>1, <1>5, EncodedTwice DEF EntriesDecoded
<1>10. LeftBehind'
  BY DEF LeftBehind
<1> QED  BY <1>4, <1>7, <1>8, <1>9, <1>10

LEMMA NextIInv == IInv /\ [Next]_vars => IInv'
<1> SUFFICES ASSUME IInv, [Next]_vars
             PROVE  IInv'
  OBVIOUS
<1> USE DEF IInv
<1>1. ASSUME NEW h \in Handlers, NEW k \in Keys, NEW v \in Stored,
             Update(h, k, v)
      PROVE  IInv'
  BY <1>1, UpdateIInv
<1>2. ASSUME NEW h \in Handlers, Persist(h)
      PROVE  IInv'
  <2>1. /\ Busy(h) /\ phase # "down"
        /\ op' = [op EXCEPT ![h] = Nothing]
        /\ UNCHANGED <<phase, mem, before, cut>>
        /\ faults' \in Nat
        /\ db' = [db EXCEPT ![op[h].key] = Encoded(op[h].val)]
        /\ adrift' = adrift
    BY <1>2 DEF Persist, memory, counts, TypeOK
  <2> QED  BY <2>1, FinishIInv
<1>3. ASSUME NEW h \in Handlers, PersistFails(h)
      PROVE  IInv'
  <2>1. /\ Busy(h) /\ phase # "down"
        /\ op' = [op EXCEPT ![h] = Nothing]
        /\ UNCHANGED <<phase, mem, before, cut>>
        /\ faults' \in Nat
        /\ db' = db
        /\ adrift' = adrift \cup {op[h].key}
    BY <1>3 DEF PersistFails, memory, TypeOK
  <2> QED  BY <2>1, FinishIInv
<1>4. ASSUME NEW h \in Handlers, NEW k \in Keys, NEW v \in Mutable,
             Mutate(h, k, v)
      PROVE  IInv'
  <2>1. /\ phase # "down"
        /\ mem' = [mem EXCEPT ![k] = v]
        /\ adrift' = adrift \cup ({k} \cap Persistent)
        /\ UNCHANGED <<phase, db, op, faults, before, cut>>
    BY <1>4 DEF Mutate, memory
  <2>2. \A j \in Keys \ {k} : mem'[j] = mem[j]
    BY <2>1 DEF TypeOK
  <2>3. TypeOK'
    BY <2>1 DEF TypeOK, Stored
  <2>4. WrittenThrough'
    <3>1. \A j \in Persistent \ adrift' : j \in (Keys \ {k}) /\ j \notin adrift
      BY <2>1 DEF Persistent
    <3>2. \A j \in Keys : Pending(j)' <=> Pending(j)
      BY <2>1 DEF Pending, Busy
    <3> QED  BY <2>1, <2>2, <3>1, <3>2 DEF WrittenThrough, Persistent
  <2>5. CallsCurrent'
    <3>1. ASSUME NEW g \in Handlers, Busy(g), op[g].key \notin adrift'
          PROVE  op[g].key \in Keys \ {k} /\ op[g].key \notin adrift
      BY <2>1, <3>1, OpTypes DEF Persistent
    <3> QED  BY <2>1, <2>2, <3>1 DEF CallsCurrent, Busy
  <2>6. EntriesDecoded' /\ LeftBehind'
    BY <2>1 DEF EntriesDecoded, LeftBehind
  <2> QED  BY <2>3, <2>4, <2>5, <2>6
<1>5. CASE Close
  <2>1. /\ phase = "up"
        /\ phase' = "closing"
        /\ UNCHANGED <<mem, db, op, faults, adrift, before, cut>>
    BY <1>5 DEF Close, counts, memory
  <2> QED
    BY <2>1 DEF TypeOK, WrittenThrough, CallsCurrent, EntriesDecoded,
       LeftBehind, Pending, Busy
<1>6. CASE Stop
  <2>1. /\ phase # "down"
        /\ phase' = "down"
        /\ mem' = [k \in Keys |-> Missing]
        /\ op' = [h \in Handlers |-> Nothing]
        /\ before' = mem
        /\ cut' = {k \in Persistent : Pending(k)}
        /\ UNCHANGED <<db, faults, adrift>>
    BY <1>6 DEF Stop, counts
  <2>2. TypeOK'
    BY <2>1 DEF TypeOK, Stored, Ops
  <2>3. WrittenThrough' /\ CallsCurrent' /\ EntriesDecoded'
    BY <2>1 DEF WrittenThrough, CallsCurrent, EntriesDecoded, Busy
  <2>4. \A k \in Persistent \ (adrift' \cup cut') : db'[k] = Encoded(before'[k])
    BY <2>1 DEF WrittenThrough
  <2>5. LeftBehind'
    BY <2>1, <2>4 DEF LeftBehind, Busy
  <2> QED  BY <2>2, <2>3, <2>5
<1>7. CASE Start
  <2>1. /\ phase = "down"
        /\ phase' = "up"
        /\ mem' = db
        /\ adrift' = {}
        /\ UNCHANGED <<db, op, faults, before, cut>>
    BY <1>7 DEF Start, counts, memory
  <2>2. TypeOK'
    BY <2>1 DEF TypeOK
  <2>3. WrittenThrough'
    BY <2>1 DEF WrittenThrough, EntriesDecoded, Persistent
  <2>4. CallsCurrent' /\ EntriesDecoded' /\ LeftBehind'
    BY <2>1 DEF LeftBehind, CallsCurrent, EntriesDecoded, Busy
  <2> QED  BY <2>2, <2>3, <2>4
<1>8. CASE StartBlank
  <2>1. /\ phase = "down"
        /\ phase' = "up"
        /\ adrift' = {k \in Persistent : db[k] # Missing}
        /\ faults' = faults + 1
        /\ UNCHANGED <<mem, db, op, before, cut>>
    BY <1>8 DEF StartBlank, memory
  <2>2. TypeOK'
    BY <2>1 DEF TypeOK
  <2>3. WrittenThrough'
    BY <2>1 DEF WrittenThrough, LeftBehind, Encoded, Persistent
  <2>4. CallsCurrent' /\ EntriesDecoded' /\ LeftBehind'
    BY <2>1 DEF LeftBehind, CallsCurrent, EntriesDecoded, Busy
  <2> QED  BY <2>2, <2>3, <2>4
<1>9. CASE UNCHANGED vars
  BY <1>9 DEF vars, TypeOK, WrittenThrough, CallsCurrent, EntriesDecoded,
     LeftBehind, Pending, Busy
<1> QED
  BY <1>1, <1>2, <1>3, <1>4, <1>5, <1>6, <1>7, <1>8, <1>9 DEF Next, Call

\* The inductive invariant holds in every reachable state.
THEOREM Invariance == Spec => []IInv
<1> QED  BY InitIInv, NextIInv, PTL DEF Spec

\* The map and the database agree on every key that is neither being written
\* nor adrift, whatever the scripts do, whenever the process ends.
THEOREM WriteThrough == Spec => []WrittenThrough
<1>1. IInv => WrittenThrough
  BY DEF IInv
<1> QED  BY <1>1, Invariance, PTL

\* A restart brings back all that was not adrift or being written.
THEOREM Durability == Spec => RestartKeepsSaved
<1>1. IInv /\ [Next]_vars =>
         [Restarts => \A k \in Persistent \ (adrift \cup cut) :
                          mem'[k] = Encoded(before[k])]_vars
  <2> SUFFICES ASSUME IInv, Next, Restarts,
                      NEW k \in Persistent \ (adrift \cup cut)
               PROVE  mem'[k] = Encoded(before[k])
    OBVIOUS
  <2>1. db[k] = Encoded(before[k])
    BY DEF IInv, LeftBehind, Restarts
  <2>2. mem' = db
    BY DEF Restarts, Next, Call, Update, Mutate, Persist, PersistFails, Close,
       Stop, Start, StartBlank, IInv, TypeOK, Busy, LeftBehind
  <2> QED  BY <2>1, <2>2
<1> QED  BY <1>1, Invariance, PTL DEF Spec, RestartKeepsSaved
=============================================================================
