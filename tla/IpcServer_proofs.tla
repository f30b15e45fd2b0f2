-------------------------- MODULE IpcServer_proofs --------------------------
(***************************************************************************)
(* The notify channel by itself: its invariant and its refinement of       *)
(* NotifyFeed, for every set of subscriptions and every capacity.  Then    *)
(* the server that uses it: what a frame is answered, and in which order,  *)
(* for every set of workers and scripts, too.                              *)
(***************************************************************************)
EXTENDS IpcServer, FiniteSetTheorems, TLAPS

-----------------------------------------------------------------------------
(* The inductive invariant.                                                *)

\* The log has an entry for every packet the channel accepted.
LogComplete == Len(log) = enq

\* A frame is in the hands of one worker, which is where the kind of the
\* frame, and the scripts there are, bring it.
WorkersApart ==
    /\ \A w \in Workers : at[w] = "idle" <=> cur[w] = 0
    /\ \A v, w \in Workers : v # w /\ cur[v] = cur[w] => cur[v] = 0
    /\ \A w \in Workers :
          /\ at[w] = "error" => kind[cur[w]] = "bad"
          /\ at[w] \in {"ack", "script", "switch"} => kind[cur[w]] # "bad"
          /\ at[w] = "script" => kind[cur[w]] \in scripts
          /\ at[w] = "switch" => kind[cur[w]] \notin scripts

\* Frame r has come and no worker is to do with it what it does at a place in
\* places.
Past(r, places) ==
    /\ r \in 1..Len(kind)
    /\ \A w \in Workers : cur[w] = r => at[w] \notin places

\* How often a frame was told something, at any moment: a reply was sent once
\* as soon as the place in handleFrame that sends it is past.
Replies(r) ==
    /\ Told("ipc.error", r) =
          IF Past(r, {"error"}) /\ kind[r] = "bad" THEN 1 ELSE 0
    /\ Told("ack", r) =
          IF Past(r, {"ack"}) /\ kind[r] # "bad" THEN 1 ELSE 0
    /\ Told("pong", r) =
          IF /\ Past(r, {"ack", "switch"})
             /\ kind[r] = "ping" /\ "ping" \notin scripts
          THEN 1 ELSE 0
    /\ (r \in 1..Len(kind) => kind[r] \notin scripts) => Told("script", r) = 0

RepliesCounted == \A r \in 1..MaxReqs : Replies(r)

\* An answer is behind the acknowledgement of the same frame in the order of
\* acceptance, unless a full channel dropped the acknowledgement.
AckBefore(n) ==
    \/ [topic |-> "ack", req |-> log[n].req] \in dropped
    \/ \E a \in 1..(n - 1) : log[a] = [topic |-> "ack", req |-> log[n].req]

AnswersBehindAcks ==
    \A n \in 1..Len(log) : log[n].topic \in {"pong", "script"} => AckBefore(n)

\* The inductive invariant, on top of that of the channel.
ServerInv ==
    /\ IInv
    /\ ServerTypeOK
    /\ LogComplete
    /\ WorkersApart
    /\ RepliesCounted
    /\ AnswersBehindAcks

-----------------------------------------------------------------------------
-----------------------------------------------------------------------------
(* The two ways the queue changes.                                         *)

\* After the non-blocking send every packet in the queue was there before, or
\* is the new one, numbered above all that were accepted before it.
LEMMA NotifyQueue ==
    ASSUME TypeOK, QueueOrder, Notify
    PROVE  /\ sendCh' \in Seq(Nat)
           /\ Len(sendCh') <= Cap
           /\ enq' \in Nat
           /\ enq <= enq'
           /\ \A i \in 1..Len(sendCh') :
                 \/ \E j \in 1..Len(sendCh) : sendCh'[i] = sendCh[j]
                 \/ sendCh'[i] = enq + 1 /\ enq' = enq + 1
           /\ QueueOrder'
<1>1. CASE Len(sendCh) >= Cap
  BY <1>1, CapAssumption DEF Notify, TypeOK, QueueOrder
<1>2. CASE Len(sendCh) < Cap
  <2>1. sendCh' = Append(sendCh, enq + 1) /\ enq' = enq + 1
    BY <1>2, CapAssumption DEF Notify, TypeOK
  <2>2. /\ sendCh' \in Seq(Nat)
        /\ Len(sendCh') = Len(sendCh) + 1
        /\ enq' \in Nat
    BY <2>1 DEF TypeOK
  <2>3. \A i \in 1..Len(sendCh') :
           sendCh'[i] = IF i <= Len(sendCh) THEN sendCh[i] ELSE enq + 1
    BY <2>1, <2>2 DEF TypeOK
  <2>4. QueueOrder'
    BY <2>1, <2>2, <2>3 DEF QueueOrder, TypeOK
  <2>5. \A i \in 1..Len(sendCh') :
           \/ \E j \in 1..Len(sendCh) : sendCh'[i] = sendCh[j]
           \/ sendCh'[i] = enq + 1 /\ enq' = enq + 1
    BY <2>1, <2>2, <2>3 DEF TypeOK
  <2> QED  BY <1>2, <2>1, <2>2, <2>4, <2>5, CapAssumption DEF TypeOK
<1> QED  BY <1>1, <1>2, CapAssumption DEF TypeOK

\* After a receive every packet in the queue was there before, and is newer
\* than the one received.
LEMMA ReceiveQueue ==
    ASSUME TypeOK, QueueOrder, sendCh # <<>>, sendCh' = Tail(sendCh),
           enq' = enq
    PROVE  /\ sendCh' \in Seq(Nat)
           /\ Len(sendCh') <= Cap
           /\ Head(sendCh) = sendCh[1]
           /\ 1 \in 1..Len(sendCh)
           /\ Head(sendCh) \in 1..enq
           /\ \A i \in 1..Len(sendCh') :
                 /\ Head(sendCh) < sendCh'[i]
                 /\ \E j \in 1..Len(sendCh) : sendCh'[i] = sendCh[j]
           /\ QueueOrder'
<1>1. /\ sendCh' \in Seq(Nat)
      /\ Len(sendCh') = Len(sendCh) - 1
      /\ Len(sendCh) \in Nat \ {0}
      /\ Head(sendCh) = sendCh[1]
  BY DEF TypeOK
<1>2. \A i \in 1..Len(sendCh') : sendCh'[i] = sendCh[i + 1]
  BY <1>1 DEF TypeOK
<1>3. QueueOrder'
  BY <1>1, <1>2 DEF QueueOrder, TypeOK
<1>4. \A i \in 1..Len(sendCh') : i + 1 \in 1..Len(sendCh) /\ 1 < i + 1
  BY <1>1
<1>5. 1 \in 1..Len(sendCh)
  BY <1>1
<1>6. \A i \in 1..Len(sendCh') : Head(sendCh) < sendCh'[i]
  BY <1>1, <1>2, <1>4, <1>5 DEF QueueOrder
<1>7. \A i \in 1..Len(sendCh') :
         \E j \in 1..Len(sendCh) : sendCh'[i] = sendCh[j]
  BY <1>2, <1>4
<1>8. Head(sendCh) \in 1..enq
  BY <1>1, <1>5 DEF QueueOrder
<1> QED  BY <1>1, <1>3, <1>5, <1>6, <1>7, <1>8, CapAssumption DEF TypeOK

-----------------------------------------------------------------------------
(* The inductive invariant.                                                *)

LEMMA InitIInv == Init => IInv
BY CapAssumption, MaxCallsAssumption
DEF Init, IInv, TypeOK, Locations, Joined, Holding, QueueOrder, OnlyAccepted,
    TakenBeforeQueued, HeldOnce, QueueAboveFloor, FreshForSubscriber,
    WrittenOnce

\* A non-blocking send leaves the invariant alone, whoever does it, as long as
\* the sender does not come to hold a packet or enter the feed by it.
LEMMA NotifyIInv ==
    ASSUME IInv, Notify,
           pc' \in [Subs -> Locations], calls' \in 0..MaxCalls,
           Joined' = Joined,
           \A s \in Subs : Holding(s)' <=> Holding(s),
           cancelled' = cancelled, hold' = hold, floor' = floor,
           got' = got, lost' = lost
    PROVE  IInv'
<1> USE DEF IInv
<1>1. /\ sendCh' \in Seq(Nat)
      /\ Len(sendCh') <= Cap
      /\ enq' \in Nat
      /\ enq <= enq'
      /\ \A i \in 1..Len(sendCh') :
            \/ \E j \in 1..Len(sendCh) : sendCh'[i] = sendCh[j]
            \/ sendCh'[i] = enq + 1 /\ enq' = enq + 1
      /\ QueueOrder'
  BY NotifyQueue
<1>2. TypeOK'
  BY <1>1 DEF TypeOK
<1>3. OnlyAccepted'
  BY <1>1 DEF OnlyAccepted, TypeOK
<1>4. TakenBeforeQueued'
  <2> SUFFICES ASSUME NEW i \in 1..Len(sendCh')
               PROVE  /\ \A s \in Subs : Holding(s) => hold[s] < sendCh'[i]
                      /\ \A s \in Subs : \A n \in got[s] : n < sendCh'[i]
                      /\ \A n \in lost : n < sendCh'[i]
    BY DEF TakenBeforeQueued
  <2>1. CASE \E j \in 1..Len(sendCh) : sendCh'[i] = sendCh[j]
    BY <2>1 DEF TakenBeforeQueued
  <2>2. CASE sendCh'[i] = enq + 1
    BY <2>2 DEF OnlyAccepted, HeldOnce, TypeOK
  <2> QED  BY <1>1, <2>1, <2>2
<1>5. HeldOnce'
  <2>1. \A n \in 1..enq : n \in 1..enq'
    BY <1>1 DEF TypeOK
  <2> QED  BY <2>1 DEF HeldOnce
<1>6. QueueAboveFloor'
  <2> SUFFICES ASSUME NEW s \in Joined
               PROVE  /\ floor[s] <= enq'
                      /\ \A i \in 1..Len(sendCh') : floor[s] < sendCh'[i]
    BY DEF QueueAboveFloor
  <2>1. /\ floor[s] \in Nat
        /\ floor[s] <= enq
        /\ \A i \in 1..Len(sendCh) : floor[s] < sendCh[i]
    BY DEF QueueAboveFloor, TypeOK, Joined
  <2>2. floor[s] <= enq'
    BY <1>1, <2>1 DEF TypeOK
  <2>3. ASSUME NEW i \in 1..Len(sendCh')
        PROVE  floor[s] < sendCh'[i]
    <3>1. CASE \E j \in 1..Len(sendCh) : sendCh'[i] = sendCh[j]
      BY <2>1, <3>1
    <3>2. CASE sendCh'[i] = enq + 1
      BY <2>1, <3>2 DEF TypeOK
    <3> QED  BY <1>1, <3>1, <3>2
  <2> QED  BY <2>2, <2>3
<1>7. FreshForSubscriber'
  BY DEF FreshForSubscriber
<1>8. WrittenOnce'
  BY DEF WrittenOnce
<1> QED  BY <1>1, <1>2, <1>3, <1>4, <1>5, <1>6, <1>7, <1>8

\* One step per action.  The two sends are NotifyIInv; a receive takes the
\* oldest packet away; everything else leaves the queue alone.
LEMMA NextIInv == IInv /\ [Next]_vars => IInv'
<1> SUFFICES ASSUME IInv, [Next]_vars
             PROVE  IInv'
  OBVIOUS
<1> USE DEF IInv
<1>1. CASE AppNotify
  <2>1. calls' \in 0..MaxCalls
    BY <1>1, MaxCallsAssumption DEF AppNotify, TypeOK
  <2> QED
    BY <1>1, <2>1, NotifyIInv DEF AppNotify, handler, ghosts, Joined, Holding,
       TypeOK
<1>2. ASSUME NEW s \in Subs, Subscribe(s)
      PROVE  IInv'
  <2>1. /\ pc' = [pc EXCEPT ![s] = "drain"]
        /\ pc[s] = "idle"
        /\ UNCHANGED <<sendCh, cancelled, hold, calls, enq, floor, got, lost>>
    BY <1>2 DEF Subscribe, ghosts
  <2>2. TypeOK'
    BY <2>1 DEF TypeOK, Locations
  <2>3. Joined' = Joined /\ \A t \in Subs : Holding(t)' <=> Holding(t)
    BY <2>1 DEF Joined, Holding, TypeOK
  <2> QED
    BY <2>1, <2>2, <2>3 DEF QueueOrder, OnlyAccepted, TakenBeforeQueued,
       HeldOnce, QueueAboveFloor, FreshForSubscriber, WrittenOnce
<1>3. ASSUME NEW s \in Subs, Unsubscribe(s)
      PROVE  IInv'
  BY <1>3 DEF Unsubscribe, ghosts, TypeOK, Joined, Holding, QueueOrder,
     OnlyAccepted, TakenBeforeQueued, HeldOnce, QueueAboveFloor,
     FreshForSubscriber, WrittenOnce
<1>4. ASSUME NEW s \in Subs, DrainCheck(s)
      PROVE  IInv'
  <2>1. UNCHANGED <<sendCh, cancelled, hold, calls, enq, got, lost>>
    BY <1>4 DEF DrainCheck
  <2>2. CASE sendCh # <<>> /\ pc' = [pc EXCEPT ![s] = "drainRecv"]
             /\ UNCHANGED floor
    <3>1. TypeOK'
      BY <2>1, <2>2 DEF TypeOK, Locations
    <3>2. Joined' = Joined /\ \A t \in Subs : Holding(t)' <=> Holding(t)
      BY <1>4, <2>2 DEF Joined, Holding, TypeOK, DrainCheck
    <3> QED
      BY <2>1, <2>2, <3>1, <3>2 DEF QueueOrder, OnlyAccepted,
         TakenBeforeQueued, HeldOnce, QueueAboveFloor, FreshForSubscriber,
         WrittenOnce
  <2>3. CASE sendCh = <<>> /\ pc' = [pc EXCEPT ![s] = "ready"]
             /\ floor' = [floor EXCEPT ![s] = enq]
    <3>1. TypeOK'
      BY <2>1, <2>3 DEF TypeOK, Locations
    <3>2. /\ Joined' = Joined \cup {s}
          /\ s \notin Joined
          /\ \A t \in Subs : Holding(t)' <=> Holding(t)
      BY <1>4, <2>3 DEF Joined, Holding, TypeOK, DrainCheck
    <3>3. got[s] = {} /\ ~Holding(s)
      BY <1>4, <3>2 DEF FreshForSubscriber, DrainCheck, Holding, TypeOK
    <3>4. \A t \in Subs : t # s => floor'[t] = floor[t]
      BY <2>3 DEF TypeOK
    <3>5. QueueOrder' /\ OnlyAccepted' /\ TakenBeforeQueued' /\ WrittenOnce'
      BY <2>1, <3>2 DEF QueueOrder, OnlyAccepted, TakenBeforeQueued,
         WrittenOnce
    <3>6. HeldOnce'
      BY <2>1, <3>2, <3>3, <3>4 DEF HeldOnce
    <3>7. QueueAboveFloor'
      BY <2>1, <2>3, <3>2, <3>4 DEF QueueAboveFloor, TypeOK, Joined
    <3>8. FreshForSubscriber'
      BY <2>1, <3>2, <3>3, <3>4 DEF FreshForSubscriber
    <3> QED  BY <3>1, <3>5, <3>6, <3>7, <3>8
  <2> QED  BY <1>4, <2>2, <2>3 DEF DrainCheck
<1>5. ASSUME NEW s \in Subs, DrainRecv(s)
      PROVE  IInv'
  <2>1. /\ pc' = [pc EXCEPT ![s] = "drain"]
        /\ pc[s] = "drainRecv"
        /\ sendCh # <<>>
        /\ sendCh' = Tail(sendCh)
        /\ UNCHANGED <<cancelled, hold, calls, enq, floor, got, lost>>
    BY <1>5 DEF DrainRecv, ghosts
  <2>2. /\ sendCh' \in Seq(Nat)
        /\ Len(sendCh') <= Cap
        /\ \A i \in 1..Len(sendCh') :
              \E j \in 1..Len(sendCh) : sendCh'[i] = sendCh[j]
        /\ QueueOrder'
    BY <2>1, ReceiveQueue
  <2>3. TypeOK'
    BY <2>1, <2>2 DEF TypeOK, Locations
  <2>4. Joined' = Joined /\ \A t \in Subs : Holding(t)' <=> Holding(t)
    BY <2>1 DEF Joined, Holding, TypeOK
  <2>5. TakenBeforeQueued'
    BY <2>1, <2>2, <2>4 DEF TakenBeforeQueued
  <2>6. QueueAboveFloor'
    BY <2>1, <2>2, <2>4 DEF QueueAboveFloor
  <2> QED
    BY <2>1, <2>2, <2>3, <2>4, <2>5, <2>6 DEF OnlyAccepted, HeldOnce,
       FreshForSubscriber, WrittenOnce
<1>6. ASSUME NEW s \in Subs, Ready(s)
      PROVE  IInv'
  <2>1. /\ pc' \in [Subs -> Locations]
        /\ Joined' = Joined
        /\ \A t \in Subs : Holding(t)' <=> Holding(t)
    BY <1>6 DEF Ready, Joined, Holding, TypeOK, Locations
  <2> QED
    BY <1>6, <2>1, NotifyIInv DEF Ready, ghosts, TypeOK
<1>7. ASSUME NEW s \in Subs, Take(s)
      PROVE  IInv'
  <2>1. /\ pc' = [pc EXCEPT ![s] = "write"]
        /\ pc[s] = "select"
        /\ sendCh # <<>>
        /\ sendCh' = Tail(sendCh)
        /\ hold' = [hold EXCEPT ![s] = Head(sendCh)]
        /\ UNCHANGED <<cancelled, calls, enq, floor, got, lost>>
    BY <1>7 DEF Take, ghosts
  <2>2. /\ sendCh' \in Seq(Nat)
        /\ Len(sendCh') <= Cap
        /\ Head(sendCh) = sendCh[1]
        /\ 1 \in 1..Len(sendCh)
        /\ Head(sendCh) \in 1..enq
        /\ \A i \in 1..Len(sendCh') :
              /\ Head(sendCh) < sendCh'[i]
              /\ \E j \in 1..Len(sendCh) : sendCh'[i] = sendCh[j]
        /\ QueueOrder'
    BY <2>1, ReceiveQueue
  <2>3. TypeOK'
    BY <2>1, <2>2 DEF TypeOK, Locations
  <2>4. /\ Joined' = Joined
        /\ s \in Joined
        /\ Holding(s)'
        /\ \A t \in Subs : t # s => (Holding(t)' <=> Holding(t))
        /\ hold'[s] = Head(sendCh)
        /\ \A t \in Subs : t # s => hold'[t] = hold[t]
    BY <2>1 DEF Joined, Holding, TypeOK
  <2>5. TakenBeforeQueued'
    <3> SUFFICES ASSUME NEW i \in 1..Len(sendCh')
                 PROVE  /\ \A t \in Subs : Holding(t)' => hold'[t] < sendCh'[i]
                        /\ \A t \in Subs : \A n \in got[t] : n < sendCh'[i]
                        /\ \A n \in lost : n < sendCh'[i]
      BY <2>1 DEF TakenBeforeQueued
    <3>1. PICK j \in 1..Len(sendCh) : sendCh'[i] = sendCh[j]
      BY <2>2
    <3>2. /\ \A t \in Subs : Holding(t) => hold[t] < sendCh'[i]
          /\ \A t \in Subs : \A n \in got[t] : n < sendCh'[i]
          /\ \A n \in lost : n < sendCh'[i]
      BY <3>1 DEF TakenBeforeQueued
    <3>3. hold'[s] < sendCh'[i]
      BY <2>2, <2>4
    <3> QED  BY <2>4, <3>2, <3>3
  <2>6. QueueAboveFloor'
    BY <2>1, <2>2, <2>4 DEF QueueAboveFloor
  <2>7. HeldOnce'
    <3>1. /\ floor[s] < Head(sendCh)
          /\ \A t \in Subs : Holding(t) => hold[t] < Head(sendCh)
          /\ \A t \in Subs : \A n \in got[t] : n < Head(sendCh)
          /\ \A n \in lost : n < Head(sendCh)
      BY <2>2, <2>4 DEF TakenBeforeQueued, QueueAboveFloor
    <3>2. /\ \A t \in Subs : Holding(t) => hold[t] # Head(sendCh)
          /\ \A t \in Subs : Head(sendCh) \notin got[t]
          /\ Head(sendCh) \notin lost
      BY <2>2, <3>1 DEF TypeOK
    <3> QED  BY <2>1, <2>2, <2>4, <3>1, <3>2 DEF HeldOnce
  <2> QED
    BY <2>1, <2>2, <2>3, <2>4, <2>5, <2>6, <2>7 DEF OnlyAccepted,
       FreshForSubscriber, WrittenOnce
<1>8. ASSUME NEW s \in Subs, Done(s)
      PROVE  IInv'
  <2>1. /\ pc' = [pc EXCEPT ![s] = "returned"]
        /\ pc[s] = "select"
        /\ UNCHANGED <<sendCh, cancelled, hold, calls, enq, floor, got, lost>>
    BY <1>8 DEF Done, ghosts
  <2>2. TypeOK'
    BY <2>1 DEF TypeOK, Locations
  <2>3. Joined' = Joined /\ \A t \in Subs : Holding(t)' <=> Holding(t)
    BY <2>1 DEF Joined, Holding, TypeOK
  <2> QED
    BY <2>1, <2>2, <2>3 DEF QueueOrder, OnlyAccepted, TakenBeforeQueued,
       HeldOnce, QueueAboveFloor, FreshForSubscriber, WrittenOnce
<1>9. ASSUME NEW s \in Subs, Write(s)
      PROVE  IInv'
  <2>1. /\ pc' = [pc EXCEPT ![s] = "sleep"]
        /\ pc[s] = "write"
        /\ hold' = [hold EXCEPT ![s] = 0]
        /\ UNCHANGED <<sendCh, cancelled, calls, enq, floor>>
    BY <1>9 DEF Write
  <2>2. /\ Joined' = Joined
        /\ s \in Joined
        /\ Holding(s)
        /\ ~Holding(s)'
        /\ \A t \in Subs : t # s => (Holding(t)' <=> Holding(t))
        /\ \A t \in Subs : t # s => hold'[t] = hold[t]
    BY <2>1 DEF Joined, Holding, TypeOK
  <2>3. /\ hold[s] \in 1..enq
        /\ hold[s] \in Nat
        /\ floor[s] < hold[s]
        /\ \A t \in Subs : t # s /\ Holding(t) => hold[t] # hold[s]
        /\ \A t \in Subs : hold[s] \notin got[t]
        /\ hold[s] \notin lost
        /\ \A i \in 1..Len(sendCh) : hold[s] < sendCh[i]
    BY <2>2 DEF HeldOnce, TakenBeforeQueued, TypeOK
  <2>4. QueueOrder' /\ QueueAboveFloor'
    BY <2>1, <2>2 DEF QueueOrder, QueueAboveFloor
  <2>5. CASE got' = [got EXCEPT ![s] = @ \cup {hold[s]}] /\ UNCHANGED lost
    <3>1. /\ got'[s] = got[s] \cup {hold[s]}
          /\ \A t \in Subs : t # s => got'[t] = got[t]
          /\ lost' = lost
      BY <2>5 DEF TypeOK
    <3>2. TypeOK'
      BY <2>1, <2>3, <2>5 DEF TypeOK, Locations
    <3>3. OnlyAccepted' /\ TakenBeforeQueued'
      BY <2>1, <2>2, <2>3, <3>1 DEF OnlyAccepted, TakenBeforeQueued
    <3>4. HeldOnce'
      BY <2>1, <2>2, <2>3, <3>1 DEF HeldOnce
    <3>5. FreshForSubscriber' /\ WrittenOnce'
      BY <2>1, <2>2, <2>3, <3>1 DEF FreshForSubscriber, WrittenOnce
    <3> QED  BY <2>4, <3>2, <3>3, <3>4, <3>5
  <2>6. CASE lost' = lost \cup {hold[s]} /\ UNCHANGED got
    <3>1. TypeOK'
      BY <2>1, <2>3, <2>6 DEF TypeOK, Locations
    <3>2. OnlyAccepted' /\ TakenBeforeQueued'
      BY <2>1, <2>2, <2>3, <2>6 DEF OnlyAccepted, TakenBeforeQueued
    <3>3. HeldOnce'
      BY <2>1, <2>2, <2>3, <2>6 DEF HeldOnce
    <3>4. FreshForSubscriber' /\ WrittenOnce'
      BY <2>1, <2>2, <2>3, <2>6 DEF FreshForSubscriber, WrittenOnce
    <3> QED  BY <2>4, <3>1, <3>2, <3>3, <3>4
  <2> QED  BY <1>9, <2>5, <2>6 DEF Write
<1>10. ASSUME NEW s \in Subs, Wake(s)
       PROVE  IInv'
  <2>1. /\ pc' = [pc EXCEPT ![s] = "select"]
        /\ pc[s] = "sleep"
        /\ UNCHANGED <<sendCh, cancelled, hold, calls, enq, floor, got, lost>>
    BY <1>10 DEF Wake, ghosts
  <2>2. TypeOK'
    BY <2>1 DEF TypeOK, Locations
  <2>3. Joined' = Joined /\ \A t \in Subs : Holding(t)' <=> Holding(t)
    BY <2>1 DEF Joined, Holding, TypeOK
  <2> QED
    BY <2>1, <2>2, <2>3 DEF QueueOrder, OnlyAccepted, TakenBeforeQueued,
       HeldOnce, QueueAboveFloor, FreshForSubscriber, WrittenOnce
<1>11. CASE UNCHANGED vars
  BY <1>11 DEF vars, TypeOK, Joined, Holding, QueueOrder, OnlyAccepted,
     TakenBeforeQueued, HeldOnce, QueueAboveFloor, FreshForSubscriber,
     WrittenOnce
<1> QED
  BY <1>1, <1>2, <1>3, <1>4, <1>5, <1>6, <1>7, <1>8, <1>9, <1>10, <1>11
  DEF Next, Handler

\* The inductive invariant holds in every reachable state.
THEOREM Invariance == Spec => []IInv
<1>1. Init => IInv
  BY InitIInv
<1>2. IInv /\ [Next]_vars => IInv'
  BY NextIInv
<1> QED  BY <1>1, <1>2, PTL DEF Spec

\* Every variable keeps its type, and the queue never outgrows its capacity.
THEOREM TypeCorrect == Spec => []TypeOK
<1>1. IInv => TypeOK
  BY DEF IInv
<1> QED  BY <1>1, Invariance, PTL

\* No subscriber is ever written a packet that was queued before its handler
\* began to serve it.
THEOREM Freshness == Spec => []FreshForSubscriber
<1>1. IInv => FreshForSubscriber
  BY DEF IInv
<1> QED  BY <1>1, Invariance, PTL

\* No packet is written twice, to whichever subscriptions.
THEOREM AtMostOnce == Spec => []WrittenOnce
<1>1. IInv => WrittenOnce
  BY DEF IInv
<1> QED  BY <1>1, Invariance, PTL

-----------------------------------------------------------------------------
(* The refinement.                                                         *)

LEMMA InitFeed == Init => Feed!Init
BY DEF Init, Feed!Init, Joined

\* A send is Accept or a stutter, the end of the drain loop is Join, a
\* successful write is Deliver; nothing else shows in the feed.
LEMMA NextFeed == IInv /\ [Next]_vars => [Feed!Next]_(Feed!vars)
<1> SUFFICES ASSUME IInv, [Next]_vars
             PROVE  Feed!Next \/ UNCHANGED <<enq, Joined, floor, got>>
  BY DEF Feed!vars
<1> USE DEF IInv
<1>1. ASSUME Notify, Joined' = Joined, floor' = floor, got' = got
      PROVE  Feed!Next \/ UNCHANGED <<enq, Joined, floor, got>>
  BY <1>1 DEF Notify, Feed!Next, Feed!Accept
<1>2. CASE AppNotify
  BY <1>1, <1>2 DEF AppNotify, handler, ghosts, Joined
<1>3. ASSUME NEW s \in Subs, Subscribe(s)
      PROVE  UNCHANGED <<enq, Joined, floor, got>>
  BY <1>3 DEF Subscribe, ghosts, Joined, TypeOK
<1>4. ASSUME NEW s \in Subs, Unsubscribe(s)
      PROVE  UNCHANGED <<enq, Joined, floor, got>>
  BY <1>4 DEF Unsubscribe, ghosts, Joined
<1>5. ASSUME NEW s \in Subs, DrainCheck(s)
      PROVE  Feed!Next \/ UNCHANGED <<enq, Joined, floor, got>>
  <2>1. CASE pc' = [pc EXCEPT ![s] = "drainRecv"] /\ UNCHANGED floor
    BY <1>5, <2>1 DEF DrainCheck, Joined, TypeOK
  <2>2. CASE pc' = [pc EXCEPT ![s] = "ready"]
             /\ floor' = [floor EXCEPT ![s] = enq]
    <3>1. s \notin Joined /\ Joined' = Joined \cup {s}
      BY <1>5, <2>2 DEF DrainCheck, Joined, TypeOK
    <3>2. Feed!Join(s)
      BY <1>5, <2>2, <3>1 DEF DrainCheck, Feed!Join
    <3> QED  BY <3>2 DEF Feed!Next
  <2> QED  BY <1>5, <2>1, <2>2 DEF DrainCheck
<1>6. ASSUME NEW s \in Subs, DrainRecv(s)
      PROVE  UNCHANGED <<enq, Joined, floor, got>>
  BY <1>6 DEF DrainRecv, ghosts, Joined, TypeOK
<1>7. ASSUME NEW s \in Subs, Ready(s)
      PROVE  Feed!Next \/ UNCHANGED <<enq, Joined, floor, got>>
  <2>1. Joined' = Joined
    BY <1>7 DEF Ready, Joined, TypeOK
  <2> QED  BY <1>1, <1>7, <2>1 DEF Ready, ghosts
<1>8. ASSUME NEW s \in Subs, Take(s)
      PROVE  UNCHANGED <<enq, Joined, floor, got>>
  BY <1>8 DEF Take, ghosts, Joined, TypeOK
<1>9. ASSUME NEW s \in Subs, Done(s)
      PROVE  UNCHANGED <<enq, Joined, floor, got>>
  BY <1>9 DEF Done, ghosts, Joined, TypeOK
<1>10. ASSUME NEW s \in Subs, Write(s)
       PROVE  Feed!Next \/ UNCHANGED <<enq, Joined, floor, got>>
  <2>1. /\ Joined' = Joined
        /\ s \in Joined
        /\ Holding(s)
        /\ UNCHANGED <<enq, floor>>
    BY <1>10 DEF Write, Joined, Holding, TypeOK
  <2>2. CASE got' = [got EXCEPT ![s] = @ \cup {hold[s]}]
    <3>1. hold[s] \in 1..enq /\ Feed!Deliver(s, hold[s])
      BY <2>1, <2>2 DEF HeldOnce, Feed!Deliver
    <3> QED  BY <3>1 DEF Feed!Next
  <2>3. CASE UNCHANGED got
    BY <2>1, <2>3
  <2> QED  BY <1>10, <2>2, <2>3 DEF Write
<1>11. ASSUME NEW s \in Subs, Wake(s)
       PROVE  UNCHANGED <<enq, Joined, floor, got>>
  BY <1>11 DEF Wake, ghosts, Joined, TypeOK
<1>12. CASE UNCHANGED vars
  BY <1>12 DEF vars, Joined
<1> QED
  BY <1>2, <1>3, <1>4, <1>5, <1>6, <1>7, <1>8, <1>9, <1>10, <1>11, <1>12
  DEF Next, Handler

\* The channel and its handlers implement the at-most-once, in-order feed.
THEOREM Refinement == Spec => FeedSpec
<1>1. Init => Feed!Init
  BY InitFeed
<1>2. IInv /\ [Next]_vars => [Feed!Next]_(Feed!vars)
  BY NextFeed
<1> QED  BY <1>1, <1>2, Invariance, PTL DEF Spec, FeedSpec, Feed!Spec

-----------------------------------------------------------------------------
(* The frames and the scripts.                                             *)

USE MaxReqsAssumption

-----------------------------------------------------------------------------
(* Counting the packets of the log.                                        *)

\* The places at which a sequence has e are finitely many, and one more when e
\* is appended.
LEMMA PlacesFinite ==
    ASSUME NEW T, NEW q \in Seq(T), NEW e
    PROVE  /\ IsFiniteSet(Places(q, e))
           /\ Cardinality(Places(q, e)) \in Nat
           /\ Cardinality(Places(q, e)) = 0
                 <=> \A n \in 1..Len(q) : q[n] # e
<1>1. IsFiniteSet(1..Len(q))
  BY FS_Interval
<1>2. Places(q, e) \subseteq 1..Len(q)
  BY DEF Places
<1>3. IsFiniteSet(Places(q, e))
  BY <1>1, <1>2, FS_Subset
<1>4. /\ Cardinality(Places(q, e)) \in Nat
      /\ Cardinality(Places(q, e)) = 0 <=> Places(q, e) = {}
  BY <1>3, FS_CardinalityType, FS_EmptySet
<1>5. Places(q, e) = {} <=> \A n \in 1..Len(q) : q[n] # e
  BY DEF Places
<1> QED  BY <1>3, <1>4, <1>5

LEMMA PlacesAppend ==
    ASSUME NEW T, NEW q \in Seq(T), NEW e, NEW d \in T
    PROVE  Cardinality(Places(Append(q, d), e))
             = Cardinality(Places(q, e)) + IF d = e THEN 1 ELSE 0
<1>1. IsFiniteSet(Places(q, e)) /\ Cardinality(Places(q, e)) \in Nat
  BY PlacesFinite
<1>2. /\ Len(q) \in Nat
      /\ Len(Append(q, d)) = Len(q) + 1
      /\ \A n \in 1..(Len(q) + 1) :
            Append(q, d)[n] = IF n <= Len(q) THEN q[n] ELSE d
  OBVIOUS
<1>3. CASE d = e
  <2>1. /\ Places(Append(q, d), e) = Places(q, e) \cup {Len(q) + 1}
        /\ Len(q) + 1 \notin Places(q, e)
    BY <1>2, <1>3 DEF Places
  <2>2. Cardinality(Places(q, e) \cup {Len(q) + 1})
          = Cardinality(Places(q, e)) + 1
    BY <1>1, <2>1, FS_AddElement
  <2> QED  BY <1>3, <2>1, <2>2
<1>4. CASE d # e
  <2>1. Places(Append(q, d), e) = Places(q, e)
    BY <1>2, <1>4 DEF Places
  <2> QED  BY <1>1, <1>4, <2>1
<1> QED  BY <1>3, <1>4

-----------------------------------------------------------------------------
(* One packet.                                                             *)

LEMMA ToldNothing ==
    ASSUME ServerTypeOK, NEW topic, NEW r
    PROVE  /\ Told(topic, r) \in Nat
           /\ Told(topic, r) = 0
                <=> /\ [topic |-> topic, req |-> r] \notin dropped
                    /\ \A n \in 1..Len(log) :
                          log[n] # [topic |-> topic, req |-> r]
<1> DEFINE packet == [topic |-> topic, req |-> r]
<1>1. /\ Cardinality(Places(log, packet)) \in Nat
      /\ Cardinality(Places(log, packet)) = 0
            <=> \A n \in 1..Len(log) : log[n] # packet
  BY PlacesFinite DEF ServerTypeOK
<1>2. Told(topic, r) = Cardinality(Places(log, packet))
                         + IF packet \in dropped THEN 1 ELSE 0
  BY DEF Told
<1> HIDE DEF packet
<1>3. /\ Told(topic, r) \in Nat
      /\ Told(topic, r) = 0 <=> /\ packet \notin dropped
                                /\ Cardinality(Places(log, packet)) = 0
  BY <1>1, <1>2
<1> QED  BY <1>1, <1>3 DEF packet

\* A call of notify adds one packet at the end of the log or to what was
\* dropped.
LEMMA TellContent ==
    ASSUME IInv, ServerTypeOK, LogComplete,
           NEW topic \in PacketTopics, NEW r \in Nat, Tell(topic, r)
    PROVE  /\ log' \in Seq(PacketSet)
           /\ dropped' \subseteq PacketSet
           /\ LogComplete'
           /\ dropped \subseteq dropped'
           /\ Len(log) <= Len(log')
           /\ \A n \in 1..Len(log) : log'[n] = log[n]
           /\ \A n \in 1..Len(log') :
                 \/ n \in 1..Len(log)
                 \/ n = Len(log) + 1 /\ log'[n] = [topic |-> topic, req |-> r]
<1> DEFINE packet == [topic |-> topic, req |-> r]
<1>1. packet \in PacketSet
  BY DEF PacketSet
<1>2. Len(log) \in Nat /\ log \in Seq(PacketSet) /\ dropped \subseteq PacketSet
  BY DEF ServerTypeOK
<1>3. CASE enq' = enq
  <2>1. dropped' = dropped \cup {packet} /\ log' = log
    BY <1>3 DEF Tell
  <2> QED  BY <1>1, <1>2, <1>3, <2>1 DEF LogComplete
<1>4. CASE enq' # enq
  <2>1. log' = Append(log, packet) /\ dropped' = dropped
    BY <1>4 DEF Tell
  <2>2. enq' = enq + 1
    BY <1>4 DEF Tell, Notify
  <2>3. /\ log' \in Seq(PacketSet)
        /\ Len(log') = Len(log) + 1
        /\ \A n \in 1..Len(log) : log'[n] = log[n]
        /\ log'[Len(log) + 1] = packet
    BY <1>1, <1>2, <2>1
  <2> QED  BY <1>2, <2>1, <2>2, <2>3 DEF LogComplete
<1> QED  BY <1>3, <1>4

\* It counts for its frame and topic, and for no other.
LEMMA TellCounts ==
    ASSUME ServerTypeOK,
           NEW topic \in PacketTopics, NEW r \in Nat, Tell(topic, r)
    PROVE  /\ Told(topic, r) = 0 => Told(topic, r)' = 1
           /\ \A t, f : t # topic \/ f # r => Told(t, f)' = Told(t, f)
<1> DEFINE packet == [topic |-> topic, req |-> r]
<1>1. packet \in PacketSet /\ log \in Seq(PacketSet)
  BY DEF PacketSet, ServerTypeOK
<1>2. ASSUME NEW t, NEW f, NEW p, p = [topic |-> t, req |-> f]
      PROVE  /\ p # packet => Told(t, f)' = Told(t, f)
             /\ p = packet /\ Told(t, f) = 0 => Told(t, f)' = 1
  <2>1. /\ Told(t, f) = Cardinality(Places(log, p))
                           + IF p \in dropped THEN 1 ELSE 0
        /\ Told(t, f)' = Cardinality(Places(log', p))
                            + IF p \in dropped' THEN 1 ELSE 0
    BY <1>2 DEF Told
  <2>2. Cardinality(Places(log, p)) \in Nat
    BY <1>1, PlacesFinite
  <2>3. CASE enq' = enq
    <3>1. dropped' = dropped \cup {packet} /\ log' = log
      BY <2>3 DEF Tell
    <3> HIDE DEF packet
    <3> QED  BY <2>1, <2>2, <3>1
  <2>4. CASE enq' # enq
    <3>1. log' = Append(log, packet) /\ dropped' = dropped
      BY <2>4 DEF Tell
    <3>2. Cardinality(Places(log', p))
            = Cardinality(Places(log, p)) + IF packet = p THEN 1 ELSE 0
      BY <1>1, <3>1, PlacesAppend
    <3> HIDE DEF packet
    <3> QED  BY <2>1, <2>2, <3>1, <3>2
  <2> QED  BY <2>3, <2>4
<1>3. Told(topic, r) = 0 => Told(topic, r)' = 1
  BY <1>2
<1>4. \A t, f : t # topic \/ f # r => [topic |-> t, req |-> f] # packet
  OBVIOUS
<1> QED  BY <1>2, <1>3, <1>4

-----------------------------------------------------------------------------
(* The steps.                                                              *)

LEMMA InitServerInv == ServerInit => ServerInv
<1> SUFFICES ASSUME ServerInit
             PROVE  ServerInv
  OBVIOUS
<1>1. IInv
  BY InitIInv DEF ServerInit
<1>2. kind = <<>> /\ log = <<>> /\ dropped = {} /\ enq = 0
  BY DEF ServerInit, Init
<1>3. ServerTypeOK
  BY <1>2, ScriptDirsAssumption DEF ServerInit, ServerTypeOK
<1>4. LogComplete /\ WorkersApart /\ AnswersBehindAcks
  BY <1>2 DEF ServerInit, LogComplete, WorkersApart, AnswersBehindAcks
<1>5. \A topic, r : Told(topic, r) = 0
  BY <1>2, <1>3, ToldNothing
<1>6. RepliesCounted
  BY <1>2, <1>5 DEF RepliesCounted, Replies, Past
<1> QED  BY <1>1, <1>3, <1>4, <1>6 DEF ServerInv

\* A send of a worker is one of those the channel knows.
LEMMA SendIInv ==
    ASSUME IInv, Notify, UNCHANGED <<handler, ghosts, calls>>
    PROVE  IInv'
BY NotifyIInv DEF IInv, TypeOK, handler, ghosts, Joined, Holding

\* What is not said or done about a frame does not change what is counted.
LEMMA RepliesKept ==
    ASSUME NEW r, Replies(r),
           \A topic : Told(topic, r)' = Told(topic, r),
           r \in 1..Len(kind') <=> r \in 1..Len(kind),
           r \in 1..Len(kind) => kind'[r] = kind[r],
           scripts' = scripts,
           \A w \in Workers : /\ cur'[w] = r <=> cur[w] = r
                              /\ cur[w] = r => at'[w] = at[w]
    PROVE  Replies(r)'
<1>1. ASSUME NEW places
      PROVE  Past(r, places)' <=> Past(r, places)
  <2>1. (\A w \in Workers : cur'[w] = r => at'[w] \notin places)
          <=> (\A w \in Workers : cur[w] = r => at[w] \notin places)
    OBVIOUS
  <2> QED  BY <2>1 DEF Past
<1> QED  BY <1>1 DEF Replies, Past

\* Once the log has a packet in front of another one, it has.
LEMMA AckBeforeKept ==
    ASSUME ServerTypeOK, NEW n \in 1..Len(log), AckBefore(n),
           dropped \subseteq dropped',
           \A m \in 1..Len(log) : log'[m] = log[m]
    PROVE  AckBefore(n)'
<1>1. Len(log) \in Nat
  BY DEF ServerTypeOK
<1>2. \A a \in 1..(n - 1) : a \in 1..Len(log)
  BY <1>1
<1> QED  BY <1>2 DEF AckBefore

LEMMA ReceiveInv ==
    ASSUME ServerInv, NEW w \in Workers, NEW k \in Kinds, Receive(w, k)
    PROVE  ServerInv'
<1> USE DEF ServerInv
<1> DEFINE r == Len(kind) + 1
<1>1. /\ at[w] = "idle"
      /\ Len(kind) < MaxReqs
      /\ kind' = Append(kind, k)
      /\ cur' = [cur EXCEPT ![w] = r]
      /\ at' = [at EXCEPT ![w] = IF k = "bad" THEN "error" ELSE "ack"]
      /\ UNCHANGED <<scripts, said, log, dropped, enq>>
      /\ UNCHANGED vars
  BY DEF Receive, content, vars
<1>2. /\ kind' \in Seq(Kinds)
      /\ Len(kind) \in Nat
      /\ Len(kind') = r
      /\ kind'[r] = k
      /\ \A f \in 1..Len(kind) : kind'[f] = kind[f]
  BY <1>1 DEF ServerTypeOK
<1>3. /\ cur'[w] = r
      /\ at'[w] = IF k = "bad" THEN "error" ELSE "ack"
      /\ cur[w] = 0
      /\ \A v \in Workers \ {w} : cur'[v] = cur[v] /\ at'[v] = at[v]
      /\ \A v \in Workers : cur[v] \in 0..Len(kind) /\ cur[v] # r
  BY <1>1, <1>2 DEF ServerTypeOK, WorkersApart
<1>4. IInv'
  BY <1>1, NextIInv
<1>5. ServerTypeOK'
  BY <1>1, <1>2 DEF ServerTypeOK
<1>6. LogComplete'
  BY <1>1 DEF LogComplete
<1>7. WorkersApart'
  <2>1. \A v \in Workers : at'[v] = "idle" <=> cur'[v] = 0
    BY <1>2, <1>3 DEF WorkersApart
  <2>2. \A u, v \in Workers : u # v /\ cur'[u] = cur'[v] => cur'[u] = 0
    BY <1>2, <1>3 DEF WorkersApart
  <2>3. ASSUME NEW v \in Workers
        PROVE  /\ at'[v] = "error" => kind'[cur'[v]] = "bad"
               /\ at'[v] \in {"ack", "script", "switch"} =>
                     kind'[cur'[v]] # "bad"
               /\ at'[v] = "script" => kind'[cur'[v]] \in scripts'
               /\ at'[v] = "switch" => kind'[cur'[v]] \notin scripts'
    <3>1. CASE v = w
      BY <1>2, <1>3, <3>1
    <3>2. CASE v # w /\ cur[v] = 0
      BY <1>3, <3>2 DEF WorkersApart
    <3>3. CASE v # w /\ cur[v] # 0
      <4>1. cur[v] \in 1..Len(kind)
        BY <1>2, <1>3, <3>3
      <4> QED  BY <1>1, <1>2, <1>3, <3>3, <4>1 DEF WorkersApart
    <3> QED  BY <3>1, <3>2, <3>3
  <2> QED  BY <2>1, <2>2, <2>3 DEF WorkersApart
<1>8. RepliesCounted'
  <2> SUFFICES ASSUME NEW f \in 1..MaxReqs
               PROVE  Replies(f)'
    BY DEF RepliesCounted
  <2>1. Replies(f)
    BY DEF RepliesCounted
  <2>2. \A topic : Told(topic, f)' = Told(topic, f)
    BY <1>1 DEF Told
  <2>3. CASE f = r
    <3>1. f \notin 1..Len(kind)
      BY <1>2, <2>3
    <3>2. \A topic \in {"ipc.error", "ack", "pong", "script"} :
             Told(topic, f)' = 0
      BY <2>1, <2>2, <3>1 DEF Replies, Past
    <3>3. /\ k = "bad" => ~Past(f, {"error"})'
          /\ k # "bad" => ~Past(f, {"ack"})' /\ ~Past(f, {"ack", "switch"})'
      BY <1>3, <2>3 DEF Past
    <3>4. kind'[f] = k
      BY <1>2, <2>3
    <3> QED  BY <3>2, <3>3, <3>4 DEF Replies
  <2>4. CASE f # r
    <3>1. f \in 1..Len(kind') <=> f \in 1..Len(kind)
      BY <1>2, <2>4
    <3>2. \A v \in Workers : /\ cur'[v] = f <=> cur[v] = f
                             /\ cur[v] = f => at'[v] = at[v]
      BY <1>3, <2>4
    <3> QED  BY <1>1, <1>2, <2>1, <2>2, <3>1, <3>2, RepliesKept
  <2> QED  BY <2>3, <2>4
<1>9. AnswersBehindAcks'
  BY <1>1 DEF AnswersBehindAcks, AckBefore
<1> QED  BY <1>4, <1>5, <1>6, <1>7, <1>8, <1>9

\* Frame cur[w] is a frame that came, and no other worker has it.
LEMMA OwnFrame ==
    ASSUME ServerInv, NEW w \in Workers, at[w] # "idle"
    PROVE  /\ cur[w] \in 1..Len(kind)
           /\ cur[w] \in 1..MaxReqs
           /\ kind[cur[w]] \in Kinds
           /\ \A v \in Workers \ {w} : cur[v] # cur[w]
<1>1. cur[w] \in 0..Len(kind) /\ cur[w] # 0 /\ Len(kind) \in Nat
  BY DEF ServerInv, ServerTypeOK, WorkersApart
<1>2. cur[w] \in 1..Len(kind)
  BY <1>1
<1> QED  BY <1>1, <1>2 DEF ServerInv, ServerTypeOK, WorkersApart

\* A worker goes on to another place, or is done with its frame.
LEMMA WorkerMoves ==
    ASSUME ServerInv, NEW w \in Workers, at[w] # "idle",
           NEW r, r = cur[w],
           NEW p \in {"idle", "script", "switch"},
           at' = [at EXCEPT ![w] = p],
           cur' = [cur EXCEPT ![w] = IF p = "idle" THEN 0 ELSE @],
           scripts' = scripts, kind' = kind,
           p # "idle" => kind[cur[w]] # "bad",
           p = "script" => kind[cur[w]] \in scripts,
           p = "switch" => kind[cur[w]] \notin scripts,
           \A topic, f : f # r => Told(topic, f)' = Told(topic, f),
           Replies(r)'
    PROVE  /\ at' \in [Workers -> {"idle", "error", "ack", "script", "switch"}]
           /\ cur' \in [Workers -> 0..Len(kind')]
           /\ WorkersApart'
           /\ RepliesCounted'
<1> USE DEF ServerInv
<1>1. /\ at'[w] = p
      /\ cur'[w] = IF p = "idle" THEN 0 ELSE cur[w]
      /\ \A v \in Workers \ {w} : at'[v] = at[v] /\ cur'[v] = cur[v]
  BY DEF ServerTypeOK
<1>2. /\ cur[w] \in 1..MaxReqs
      /\ cur[w] \in 0..Len(kind)
      /\ \A v \in Workers \ {w} : cur[v] # cur[w]
  BY OwnFrame DEF ServerTypeOK
<1>3. WorkersApart'
  BY <1>1, <1>2 DEF WorkersApart
<1>4. ASSUME NEW f \in 1..MaxReqs
      PROVE  Replies(f)'
  <2>1. CASE f = r
    BY <2>1
  <2>2. CASE f # r
    <3>1. \A v \in Workers : /\ cur'[v] = f <=> cur[v] = f
                             /\ cur[v] = f => at'[v] = at[v]
      BY <1>1, <2>2
    <3>2. Replies(f) /\ \A topic : Told(topic, f)' = Told(topic, f)
      BY <2>2 DEF RepliesCounted
    <3> QED  BY <3>1, <3>2, RepliesKept
  <2> QED  BY <2>1, <2>2
<1>5. /\ at' \in [Workers -> {"idle", "error", "ack", "script", "switch"}]
      /\ cur' \in [Workers -> 0..Len(kind')]
  BY <1>2 DEF ServerTypeOK
<1> QED  BY <1>3, <1>4, <1>5 DEF RepliesCounted

\* A worker that says something keeps the answers behind the acknowledgements,
\* as long as it acknowledged before it answered.
LEMMA TellAnswers ==
    ASSUME ServerInv, NEW topic \in PacketTopics, NEW r \in Nat,
           Tell(topic, r),
           topic \in {"pong", "script"} => Told("ack", r) # 0
    PROVE  AnswersBehindAcks'
<1> USE DEF ServerInv
<1> DEFINE ack == [topic |-> "ack", req |-> r]
<1>1. /\ dropped \subseteq dropped'
      /\ \A m \in 1..Len(log) : log'[m] = log[m]
      /\ \A m \in 1..Len(log') :
            \/ m \in 1..Len(log)
            \/ m = Len(log) + 1 /\ log'[m] = [topic |-> topic, req |-> r]
  BY TellContent
<1> SUFFICES ASSUME NEW n \in 1..Len(log'),
                    log'[n].topic \in {"pong", "script"}
             PROVE  AckBefore(n)'
  BY DEF AnswersBehindAcks
<1>2. CASE n \in 1..Len(log)
  <2>1. AckBefore(n)
    BY <1>1, <1>2 DEF AnswersBehindAcks
  <2> QED  BY <1>1, <1>2, <2>1, AckBeforeKept
<1>3. CASE n = Len(log) + 1 /\ log'[n] = [topic |-> topic, req |-> r]
  <2>1. Len(log) \in Nat
    BY DEF ServerTypeOK
  <2>2. ack \in dropped \/ \E a \in 1..Len(log) : log[a] = ack
    BY <1>3, ToldNothing
  <2>3. log'[n].req = r /\ n - 1 = Len(log)
    BY <1>3, <2>1
  <2>4. ack \in dropped' \/ \E a \in 1..(n - 1) : log'[a] = ack
    BY <1>1, <2>2, <2>3
  <2> QED  BY <2>3, <2>4 DEF AckBefore
<1> QED  BY <1>1, <1>2, <1>3

\* What a worker does when it says something about its frame r.
LEMMA WorkerTells ==
    ASSUME ServerInv, NEW w \in Workers, at[w] # "idle",
           NEW r \in 1..MaxReqs, r = cur[w],
           NEW topic \in PacketTopics, Tell(topic, r),
           NEW p \in {"idle", "script", "switch"},
           at' = [at EXCEPT ![w] = p],
           cur' = [cur EXCEPT ![w] = IF p = "idle" THEN 0 ELSE @],
           said' \in [Workers -> Nat],
           UNCHANGED <<scripts, kind, handler, ghosts, calls>>,
           p # "idle" => kind[cur[w]] # "bad",
           p = "script" => kind[cur[w]] \in scripts,
           p = "switch" => kind[cur[w]] \notin scripts,
           topic \in {"pong", "script"} => Told("ack", r) # 0,
           Replies(r)'
    PROVE  ServerInv'
<1> USE DEF ServerInv
<1>0. r \in Nat
  OBVIOUS
<1>1. IInv'
  BY SendIInv DEF Tell
<1>2. /\ log' \in Seq(PacketSet)
      /\ dropped' \subseteq PacketSet
      /\ LogComplete'
  BY <1>0, TellContent
<1>3. \A t, f : f # r => Told(t, f)' = Told(t, f)
  BY <1>0, TellCounts
<1>4. /\ at' \in [Workers -> {"idle", "error", "ack", "script", "switch"}]
      /\ cur' \in [Workers -> 0..Len(kind')]
      /\ WorkersApart'
      /\ RepliesCounted'
  BY <1>3, WorkerMoves
<1>5. ServerTypeOK'
  BY <1>2, <1>4 DEF ServerTypeOK
<1>6. AnswersBehindAcks'
  BY <1>0, TellAnswers
<1> QED  BY <1>1, <1>2, <1>4, <1>5, <1>6

LEMMA ReportErrorInv ==
    ASSUME ServerInv, NEW w \in Workers, ReportError(w)
    PROVE  ServerInv'
<1> USE DEF ServerInv
<1>1. /\ at[w] = "error"
      /\ Tell("ipc.error", cur[w])
      /\ at' = [at EXCEPT ![w] = "idle"]
      /\ cur' = [cur EXCEPT ![w] = 0]
      /\ UNCHANGED <<scripts, said, kind, handler, ghosts, calls>>
  BY DEF ReportError, Rest
<1>2. PICK r \in 1..MaxReqs : r = cur[w]
  BY <1>1, OwnFrame
<1>3. /\ r \in 1..Len(kind)
      /\ kind[r] = "bad"
      /\ kind[r] \notin scripts
      /\ \A v \in Workers \ {w} : cur[v] # r
  BY <1>1, <1>2, OwnFrame DEF WorkersApart, ServerTypeOK, Topics
<1>4. /\ Told("ipc.error", r) = 0 => Told("ipc.error", r)' = 1
      /\ \A t : t # "ipc.error" => Told(t, r)' = Told(t, r)
  BY <1>1, <1>2, TellCounts DEF PacketTopics
<1>5. Replies(r)'
  <2>1. Replies(r) /\ ~Past(r, {"error"})
    BY <1>1, <1>2 DEF RepliesCounted, Past
  <2>2. Past(r, {"error"})'
    BY <1>1, <1>2, <1>3 DEF Past, ServerTypeOK
  <2> QED  BY <1>1, <1>3, <1>4, <2>1, <2>2 DEF Replies
<1>6. said' \in [Workers -> Nat]
  BY <1>1 DEF ServerTypeOK
<1> QED  BY <1>1, <1>2, <1>5, <1>6, WorkerTells DEF PacketTopics

LEMMA AckInv ==
    ASSUME ServerInv, NEW w \in Workers, Ack(w)
    PROVE  ServerInv'
<1> USE DEF ServerInv
<1>1. PICK p \in {"script", "switch"} :
         /\ at[w] = "ack"
         /\ Tell("ack", cur[w])
         /\ p = IF kind[cur[w]] \in scripts THEN "script" ELSE "switch"
         /\ at' = [at EXCEPT ![w] = p]
         /\ said' = [said EXCEPT ![w] = 0]
         /\ UNCHANGED <<scripts, cur, kind, handler, ghosts, calls>>
  BY DEF Ack
<1>2. PICK r \in 1..MaxReqs : r = cur[w]
  BY <1>1, OwnFrame
<1>3. /\ r \in 1..Len(kind)
      /\ kind[r] # "bad"
      /\ \A v \in Workers \ {w} : cur[v] # r
  BY <1>1, <1>2, OwnFrame DEF WorkersApart
<1>4. /\ Told("ack", r) = 0 => Told("ack", r)' = 1
      /\ \A t : t # "ack" => Told(t, r)' = Told(t, r)
  BY <1>1, <1>2, TellCounts DEF PacketTopics
<1>5. Replies(r)'
  <2>1. Replies(r) /\ ~Past(r, {"ack"}) /\ ~Past(r, {"ack", "switch"})
    BY <1>1, <1>2 DEF RepliesCounted, Past
  <2>2. at'[w] = p
    BY <1>1 DEF ServerTypeOK
  <2>3. Past(r, {"ack"})'
    BY <1>1, <1>2, <1>3, <2>2 DEF Past
  <2>4. Past(r, {"ack", "switch"})' => kind[r] \in scripts
    BY <1>1, <1>2, <2>2 DEF Past
  <2> QED  BY <1>1, <1>3, <1>4, <2>1, <2>3, <2>4 DEF Replies
<1>6. said' \in [Workers -> Nat] /\ cur' = [cur EXCEPT ![w] = @]
  BY <1>1 DEF ServerTypeOK
<1> QED  BY <1>1, <1>2, <1>3, <1>5, <1>6, WorkerTells DEF PacketTopics

LEMMA ScriptNotifyInv ==
    ASSUME ServerInv, NEW w \in Workers, ScriptNotify(w)
    PROVE  ServerInv'
<1> USE DEF ServerInv
<1>1. /\ at[w] = "script"
      /\ Tell("script", cur[w])
      /\ said' = [said EXCEPT ![w] = @ + 1]
      /\ UNCHANGED <<scripts, at, cur, kind, handler, ghosts, calls>>
  BY DEF ScriptNotify
<1>2. PICK r \in 1..MaxReqs : r = cur[w]
  BY <1>1, OwnFrame
<1>3. /\ r \in 1..Len(kind)
      /\ kind[r] # "bad"
      /\ kind[r] \in scripts
      /\ \A v \in Workers \ {w} : cur[v] # r
  BY <1>1, <1>2, OwnFrame DEF WorkersApart
<1>4. \A t : t # "script" => Told(t, r)' = Told(t, r)
  BY <1>1, <1>2, TellCounts DEF PacketTopics
<1>5. Replies(r) /\ Past(r, {"ack"})
  BY <1>1, <1>2, <1>3 DEF RepliesCounted, Past
<1>6. \A places : Past(r, places)' <=> Past(r, places)
  BY <1>1 DEF Past
<1>7. Replies(r)'
  BY <1>1, <1>3, <1>4, <1>5, <1>6 DEF Replies
<1>8. Told("ack", r) # 0
  BY <1>3, <1>5 DEF Replies
<1>9. /\ said' \in [Workers -> Nat]
      /\ cur' = [cur EXCEPT ![w] = @]
      /\ at' = [at EXCEPT ![w] = "script"]
  BY <1>1 DEF ServerTypeOK
<1> QED
  BY <1>1, <1>2, <1>3, <1>7, <1>8, <1>9, WorkerTells DEF PacketTopics

\* A worker that is done without a word.
LEMMA SilentInv ==
    ASSUME ServerInv, NEW w \in Workers, at[w] \in {"script", "switch"},
           at[w] = "switch" => kind[cur[w]] # "ping",
           at' = [at EXCEPT ![w] = "idle"],
           cur' = [cur EXCEPT ![w] = 0],
           said' \in [Workers -> Nat],
           UNCHANGED <<scripts, kind, vars, log, dropped>>
    PROVE  ServerInv'
<1> USE DEF ServerInv
<1>1. PICK r \in 1..MaxReqs : r = cur[w]
  BY OwnFrame
<1>2. /\ r \in 1..Len(kind)
      /\ kind[r] # "bad"
      /\ at[w] = "script" => kind[r] \in scripts
      /\ \A v \in Workers \ {w} : cur[v] # r
  BY <1>1, OwnFrame DEF WorkersApart
<1>3. \A t, f : Told(t, f)' = Told(t, f)
  BY DEF Told
<1>4. Replies(r)'
  <2>1. Replies(r) /\ Past(r, {"ack"})
    BY <1>1, <1>2 DEF RepliesCounted, Past
  <2>2. Past(r, {"ack"})'
    BY <1>1, <1>2 DEF Past, ServerTypeOK
  <2>3. ~(kind[r] = "ping" /\ "ping" \notin scripts)
    BY <1>1, <1>2
  <2> QED  BY <1>2, <1>3, <2>1, <2>2, <2>3 DEF Replies
<1>5. /\ at' \in [Workers -> {"idle", "error", "ack", "script", "switch"}]
      /\ cur' \in [Workers -> 0..Len(kind')]
      /\ WorkersApart'
      /\ RepliesCounted'
  BY <1>1, <1>3, <1>4, WorkerMoves
<1>6. ServerTypeOK'
  BY <1>5 DEF ServerTypeOK
<1>7. IInv'
  BY NextIInv
<1>8. LogComplete' /\ AnswersBehindAcks'
  BY DEF LogComplete, AnswersBehindAcks, AckBefore, vars
<1> QED  BY <1>5, <1>6, <1>7, <1>8

LEMMA SwitchInv ==
    ASSUME ServerInv, NEW w \in Workers, Switch(w)
    PROVE  ServerInv'
<1> USE DEF ServerInv
<1>1. /\ at[w] = "switch"
      /\ at' = [at EXCEPT ![w] = "idle"]
      /\ cur' = [cur EXCEPT ![w] = 0]
      /\ UNCHANGED <<scripts, said, kind, handler, ghosts, calls>>
  BY DEF Switch, Rest
<1>2. said' \in [Workers -> Nat]
  BY <1>1 DEF ServerTypeOK
<1>3. CASE kind[cur[w]] = "ping" /\ Tell("pong", cur[w])
  <2>1. PICK r \in 1..MaxReqs : r = cur[w]
    BY <1>1, OwnFrame
  <2>2. /\ r \in 1..Len(kind)
        /\ kind[r] = "ping"
        /\ kind[r] \notin scripts
        /\ \A v \in Workers \ {w} : cur[v] # r
    BY <1>1, <1>3, <2>1, OwnFrame DEF WorkersApart
  <2>3. /\ Told("pong", r) = 0 => Told("pong", r)' = 1
        /\ \A t : t # "pong" => Told(t, r)' = Told(t, r)
    BY <1>3, <2>1, TellCounts DEF PacketTopics
  <2>4. /\ Replies(r)
        /\ Past(r, {"ack"})
        /\ ~Past(r, {"ack", "switch"})
    BY <1>1, <2>1, <2>2 DEF RepliesCounted, Past
  <2>5. Past(r, {"ack"})' /\ Past(r, {"ack", "switch"})'
    BY <1>1, <2>1, <2>2 DEF Past, ServerTypeOK
  <2>6. Replies(r)'
    BY <1>1, <2>2, <2>3, <2>4, <2>5 DEF Replies
  <2>7. Told("ack", r) # 0
    BY <2>2, <2>4 DEF Replies
  <2> QED
    BY <1>1, <1>2, <1>3, <2>1, <2>6, <2>7, WorkerTells DEF PacketTopics
<1>4. CASE kind[cur[w]] # "ping" /\ UNCHANGED <<channel, content>>
  <2>1. UNCHANGED <<vars, log, dropped>>
    BY <1>1, <1>4 DEF vars, channel, content, handler, ghosts
  <2> QED  BY <1>1, <1>2, <1>4, <2>1, SilentInv
<1> QED  BY <1>3, <1>4 DEF Switch

LEMMA ScriptEndInv ==
    ASSUME ServerInv, NEW w \in Workers, ScriptEnd(w)
    PROVE  ServerInv'
<1>1. /\ at[w] = "script"
      /\ at' = [at EXCEPT ![w] = "idle"]
      /\ cur' = [cur EXCEPT ![w] = 0]
      /\ said' = [said EXCEPT ![w] = 0]
      /\ UNCHANGED <<scripts, vars, kind, log, dropped>>
  BY DEF ScriptEnd, Rest, content
<1>2. said' \in [Workers -> Nat]
  BY <1>1 DEF ServerInv, ServerTypeOK
<1> QED  BY <1>1, <1>2, SilentInv

\* A handler's "sim.ready" is about no frame.
LEMMA GreetInv ==
    ASSUME ServerInv, NEW s \in Subs, Greet(s)
    PROVE  ServerInv'
<1> USE DEF ServerInv
<1>1. /\ Ready(s)
      /\ Tell("sim.ready", 0)
      /\ UNCHANGED <<scripts, at, cur, said, kind>>
  BY DEF Greet, worker
<1>2. IInv'
  BY <1>1, NextIInv DEF Next, Handler
<1>3. /\ log' \in Seq(PacketSet)
      /\ dropped' \subseteq PacketSet
      /\ LogComplete'
  BY <1>1, TellContent DEF PacketTopics
<1>4. ServerTypeOK' /\ WorkersApart'
  BY <1>1, <1>3 DEF ServerTypeOK, WorkersApart
<1>5. ASSUME NEW r \in 1..MaxReqs
      PROVE  Replies(r)'
  <2>1. \A t : Told(t, r)' = Told(t, r)
    BY <1>1, TellCounts DEF PacketTopics
  <2> QED  BY <1>1, <2>1, RepliesKept DEF RepliesCounted
<1>6. AnswersBehindAcks'
  BY <1>1, TellAnswers DEF PacketTopics
<1> QED  BY <1>2, <1>3, <1>4, <1>5, <1>6 DEF RepliesCounted

\* What happens to the channel and its handlers otherwise leaves the frames
\* alone.
LEMMA NotifySideInv ==
    ASSUME ServerInv, [Next]_vars, enq' = enq, UNCHANGED <<worker, content>>
    PROVE  ServerInv'
<1> USE DEF ServerInv
<1>1. UNCHANGED <<scripts, at, cur, said, kind, log, dropped>>
  BY DEF worker, content
<1>2. IInv'
  BY NextIInv
<1>3. ServerTypeOK' /\ WorkersApart' /\ LogComplete'
  BY <1>1 DEF ServerTypeOK, WorkersApart, LogComplete
<1>4. ASSUME NEW r \in 1..MaxReqs
      PROVE  Replies(r)'
  <2>1. \A t : Told(t, r)' = Told(t, r)
    BY <1>1 DEF Told
  <2> QED  BY <1>1, <2>1, RepliesKept DEF RepliesCounted
<1>5. AnswersBehindAcks'
  BY <1>1 DEF AnswersBehindAcks, AckBefore
<1> QED  BY <1>2, <1>3, <1>4, <1>5 DEF RepliesCounted

\* Every step of the notify side is one of the channel's own.
LEMMA NotifySideStep ==
    ASSUME NEW s \in Subs, NotifySide(s)
    PROVE  Next /\ enq' = enq /\ UNCHANGED <<worker, content>>
<1>1. \/ Subscribe(s) \/ Unsubscribe(s) \/ DrainCheck(s) \/ DrainRecv(s)
      \/ Take(s) \/ Done(s) \/ Write(s) \/ Wake(s)
  BY DEF NotifySide
<1>2. enq' = enq
  BY <1>1 DEF Subscribe, Unsubscribe, DrainCheck, DrainRecv, Take, Done, Write,
              Wake
<1> QED  BY <1>1, <1>2 DEF NotifySide, Next, Handler

LEMMA NextServerInv == ServerInv /\ [ServerNext]_allVars => ServerInv'
<1> SUFFICES ASSUME ServerInv, [ServerNext]_allVars
             PROVE  ServerInv'
  OBVIOUS
<1>1. ASSUME NEW w \in Workers, NEW k \in Kinds, Receive(w, k)
      PROVE  ServerInv'
  BY <1>1, ReceiveInv
<1>2. ASSUME NEW w \in Workers, HandleFrame(w)
      PROVE  ServerInv'
  BY <1>2, ReportErrorInv, AckInv, ScriptNotifyInv, ScriptEndInv, SwitchInv
  DEF HandleFrame
<1>3. ASSUME NEW s \in Subs, Greet(s)
      PROVE  ServerInv'
  BY <1>3, GreetInv
<1>4. ASSUME NEW s \in Subs, NotifySide(s)
      PROVE  ServerInv'
  BY <1>4, NotifySideStep, NotifySideInv
<1>5. CASE UNCHANGED allVars
  BY <1>5, NotifySideInv DEF allVars, vars
<1> QED  BY <1>1, <1>2, <1>3, <1>4, <1>5 DEF ServerNext

-----------------------------------------------------------------------------
(* The theorems.                                                           *)

\* Each frame has been told what the place of its worker says, and the channel
\* keeps its invariant, whoever sends.
THEOREM ServerInvariance == ServerSpec => []ServerInv
<1>1. ServerSpec => ServerInit /\ [][ServerNext]_allVars
  BY PTL DEF ServerSpec
<1> QED  BY <1>1, InitServerInv, NextServerInv, PTL

\* A frame that is handled was answered as the protocol says, exactly once.
THEOREM RepliesOnce == ServerSpec => []OneReply
<1>1. ASSUME ServerInv
      PROVE  OneReply
  <2> SUFFICES ASSUME NEW r \in 1..Len(kind), Handled(r)
               PROVE  /\ Told("ipc.error", r) = IF kind[r] = "bad" THEN 1 ELSE 0
                      /\ Told("ack", r) = IF kind[r] = "bad" THEN 0 ELSE 1
                      /\ Told("pong", r) =
                            IF kind[r] = "ping" /\ "ping" \notin scripts
                            THEN 1 ELSE 0
                      /\ kind[r] \notin scripts => Told("script", r) = 0
    BY DEF OneReply
  <2>1. r \in 1..MaxReqs
    BY <1>1 DEF ServerInv, ServerTypeOK
  <2>2. Replies(r)
    BY <1>1, <2>1 DEF ServerInv, RepliesCounted
  <2>3. \A places : Past(r, places)
    BY DEF Handled, Past
  <2> QED  BY <2>2, <2>3 DEF Replies
<1> QED  BY <1>1, ServerInvariance, PTL

\* Whoever is written an answer was written the acknowledgement before, or
\* never will be: it is not in the queue any more.
THEOREM AcksFirst == ServerSpec => []AckFirst
<1>1. ASSUME ServerInv
      PROVE  AckFirst
  <2> USE <1>1 DEF ServerInv, IInv
  <2> SUFFICES ASSUME NEW s \in Subs, NEW n \in got[s],
                      log[n].topic \in {"pong", "script"}
               PROVE  \/ [topic |-> "ack", req |-> log[n].req] \in dropped
                      \/ \E a \in 1..(n - 1) :
                            /\ log[a] = [topic |-> "ack", req |-> log[n].req]
                            /\ \/ a \in got[s]
                               \/ \A i \in 1..Len(sendCh) : sendCh[i] # a
    BY DEF AckFirst
  <2>1. n \in 1..Len(log)
    BY DEF OnlyAccepted, LogComplete
  <2>2. AckBefore(n)
    BY <2>1 DEF AnswersBehindAcks
  <2>3. ASSUME NEW a \in 1..(n - 1), NEW i \in 1..Len(sendCh)
        PROVE  sendCh[i] # a
    <3>1. n < sendCh[i] /\ sendCh[i] \in Nat
      BY DEF TakenBeforeQueued, TypeOK
    <3> QED  BY <2>1, <3>1
  <2> QED  BY <2>2, <2>3 DEF AckBefore
<1> QED  BY <1>1, ServerInvariance, PTL

\* With frames and scripts as its callers, too, the channel is the in-order,
\* at-most-once feed.
THEOREM ServerFeed == ServerSpec => FeedSpec
<1>1. ServerInit => Feed!Init
  BY InitFeed DEF ServerInit
<1>2. ServerInv /\ [ServerNext]_allVars => [Feed!Next]_(Feed!vars)
  <2> SUFFICES ASSUME ServerInv, [ServerNext]_allVars
               PROVE  [Feed!Next]_(Feed!vars)
    OBVIOUS
  <2>1. IInv
    BY DEF ServerInv
  <2>2. ASSUME Notify, UNCHANGED <<handler, ghosts, calls>>
        PROVE  [Feed!Next]_(Feed!vars)
    BY <2>2 DEF Notify, handler, ghosts, Joined, Feed!Next, Feed!Accept,
                Feed!vars
  <2>3. ASSUME [Next]_vars
        PROVE  [Feed!Next]_(Feed!vars)
    BY <2>1, <2>3, NextFeed
  <2>4. ASSUME NEW w \in Workers, HandleFrame(w)
        PROVE  [Feed!Next]_(Feed!vars)
    <3>1. CASE UNCHANGED vars
      BY <2>3, <3>1
    <3>2. CASE Notify /\ UNCHANGED <<handler, ghosts, calls>>
      BY <2>2, <3>2
    <3>3. CASE ScriptEnd(w)
      BY <3>1, <3>3 DEF ScriptEnd
    <3>4. CASE Switch(w)
      BY <3>1, <3>2, <3>4
      DEF Switch, Tell, channel, handler, ghosts, vars
    <3>5. CASE ReportError(w) \/ Ack(w) \/ ScriptNotify(w)
      BY <3>2, <3>5 DEF ReportError, Ack, ScriptNotify, Tell
    <3> QED  BY <2>4, <3>3, <3>4, <3>5 DEF HandleFrame
  <2>5. ASSUME NEW w \in Workers, NEW k \in Kinds, Receive(w, k)
        PROVE  [Feed!Next]_(Feed!vars)
    BY <2>3, <2>5 DEF Receive
  <2>6. ASSUME NEW s \in Subs, Greet(s) \/ NotifySide(s)
        PROVE  [Feed!Next]_(Feed!vars)
    BY <2>3, <2>6, NotifySideStep DEF Greet, Next, Handler
  <2>7. CASE UNCHANGED allVars
    BY <2>3, <2>7 DEF allVars
  <2> QED  BY <2>4, <2>5, <2>6, <2>7 DEF ServerNext
<1>3. ServerSpec => ServerInit /\ [][ServerNext]_allVars
  BY PTL DEF ServerSpec
<1> QED  BY <1>1, <1>2, <1>3, ServerInvariance, PTL DEF FeedSpec, Feed!Spec
=============================================================================
