---------------------------- MODULE NotifyChannel ----------------------------
(***************************************************************************)
(* ble/characteristics.go: NotifyCharacteristic.                           *)
(*                                                                         *)
(* One buffered Go channel, sendCh, is shared by every caller of Notify    *)
(* and by one handler goroutine per subscription: go-ble runs the handler  *)
(* in a goroutine of its own each time a central enables notifications and *)
(* cancels its context when the central disables them or disconnects.      *)
(* Nothing waits for an old handler to return before a new one starts.     *)
(*                                                                         *)
(* A packet is represented by its number: the n-th packet that entered     *)
(* sendCh is n.  What is in the packet does not matter here.               *)
(***************************************************************************)
EXTENDS Naturals, Sequences, FiniteSets

CONSTANTS
    Subs,       \* the subscriptions that ever happen
    Cap,        \* config.NotifyChannelBuffer
    MaxCalls    \* bound: how often the application calls Notify

ASSUME CapAssumption == Cap \in Nat \ {0}
ASSUME MaxCallsAssumption == MaxCalls \in Nat

VARIABLES
    sendCh,     \* the buffered channel
    pc,         \* where each subscription's handler is
    cancelled,  \* the subscriptions whose n.Context() is done
    hold,       \* the packet a handler took and has not written yet, or 0
    calls,      \* calls of Notify by the application so far (bound)
    enq,        \* ghost: packets that entered sendCh so far
    floor,      \* ghost: enq when the handler found sendCh empty
    got,        \* ghost: packets written to each subscription
    lost        \* ghost: packets whose n.Write failed

handler == <<pc, cancelled, hold>>
ghosts == <<floor, got, lost>>
vars == <<sendCh, pc, cancelled, hold, calls, enq, floor, got, lost>>

Locations == {"idle", "drain", "drainRecv", "ready", "select", "write",
              "sleep", "returned"}

\* The handlers that are past their drain loop.
Joined == {s \in Subs : pc[s] \notin {"idle", "drain", "drainRecv"}}

Init ==
    /\ sendCh = <<>>
    /\ pc = [s \in Subs |-> "idle"]
    /\ cancelled = [s \in Subs |-> FALSE]
    /\ hold = [s \in Subs |-> 0]
    /\ calls = 0
    /\ enq = 0
    /\ floor = [s \in Subs |-> 0]
    /\ got = [s \in Subs |-> {}]
    /\ lost = {}

-----------------------------------------------------------------------------
(* The non-blocking send: a full channel drops the new packet.             *)

\* Seeded bug: a send without the default case waits for room.
NotifyBlocks ==
    /\ Len(sendCh) < Cap
    /\ sendCh' = Append(sendCh, enq + 1)
    /\ enq' = enq + 1

Notify ==
    \/ /\ Len(sendCh) < Cap
       /\ sendCh' = Append(sendCh, enq + 1)
       /\ enq' = enq + 1
    \/ /\ Len(sendCh) >= Cap
       /\ UNCHANGED <<sendCh, enq>>

\* A call from the dispatcher or from a script, at any time: there need be
\* no subscription.
AppNotify ==
    /\ calls < MaxCalls
    /\ calls' = calls + 1
    /\ Notify
    /\ UNCHANGED <<handler, ghosts>>

-----------------------------------------------------------------------------
(* The central and go-ble.                                                 *)

Subscribe(s) ==
    /\ pc[s] = "idle"
    /\ pc' = [pc EXCEPT ![s] = "drain"]
    /\ UNCHANGED <<sendCh, cancelled, hold, calls, enq, ghosts>>

Unsubscribe(s) ==
    /\ pc[s] # "idle"
    /\ ~cancelled[s]
    /\ cancelled' = [cancelled EXCEPT ![s] = TRUE]
    /\ UNCHANGED <<sendCh, pc, hold, calls, enq, ghosts>>

-----------------------------------------------------------------------------
(* The handler.                                                            *)

\* Seeded bug: no drain loop.
DrainNothing(s) ==
    /\ pc[s] = "drain"
    /\ pc' = [pc EXCEPT ![s] = "ready"]
    /\ floor' = [floor EXCEPT ![s] = enq]
    /\ UNCHANGED <<sendCh, cancelled, hold, calls, enq, got, lost>>

\* for len(nc.sendCh) > 0: reading the length and receiving are two steps.
DrainCheck(s) ==
    /\ pc[s] = "drain"
    /\ \/ /\ sendCh # <<>>
          /\ pc' = [pc EXCEPT ![s] = "drainRecv"]
          /\ UNCHANGED floor
       \/ /\ sendCh = <<>>
          /\ pc' = [pc EXCEPT ![s] = "ready"]
          /\ floor' = [floor EXCEPT ![s] = enq]
    /\ UNCHANGED <<sendCh, cancelled, hold, calls, enq, got, lost>>

\* <-nc.sendCh blocks while the channel is empty, cancelled or not.
DrainRecv(s) ==
    /\ pc[s] = "drainRecv"
    /\ sendCh # <<>>
    /\ sendCh' = Tail(sendCh)
    /\ pc' = [pc EXCEPT ![s] = "drain"]
    /\ UNCHANGED <<cancelled, hold, calls, enq, ghosts>>

\* The "sim.ready" packet, queued like any other.
Ready(s) ==
    /\ pc[s] = "ready"
    /\ Notify
    /\ pc' = [pc EXCEPT ![s] = "select"]
    /\ UNCHANGED <<cancelled, hold, calls, ghosts>>

\* Seeded bug: the newest packet first.
TakeNewest(s) ==
    /\ pc[s] = "select"
    /\ sendCh # <<>>
    /\ hold' = [hold EXCEPT ![s] = sendCh[Len(sendCh)]]
    /\ sendCh' = SubSeq(sendCh, 1, Len(sendCh) - 1)
    /\ pc' = [pc EXCEPT ![s] = "write"]
    /\ UNCHANGED <<cancelled, calls, enq, ghosts>>

\* Seeded bug: handlers copy the packet instead of taking it.
TakeCopies(s) ==
    /\ pc[s] = "select"
    /\ sendCh # <<>>
    /\ hold' = [hold EXCEPT ![s] = Head(sendCh)]
    /\ pc' = [pc EXCEPT ![s] = "write"]
    /\ UNCHANGED <<sendCh, cancelled, calls, enq, ghosts>>

\* The two cases of the select.  Go picks at random when both are ready, so
\* a cancelled handler may still take packets.
Take(s) ==
    /\ pc[s] = "select"
    /\ sendCh # <<>>
    /\ hold' = [hold EXCEPT ![s] = Head(sendCh)]
    /\ sendCh' = Tail(sendCh)
    /\ pc' = [pc EXCEPT ![s] = "write"]
    /\ UNCHANGED <<cancelled, calls, enq, ghosts>>

\* Seeded bug: no case for n.Context().Done().
DoneNever(s) ==
    /\ pc[s] = "select"
    /\ FALSE
    /\ UNCHANGED vars

Done(s) ==
    /\ pc[s] = "select"
    /\ cancelled[s]
    /\ pc' = [pc EXCEPT ![s] = "returned"]
    /\ UNCHANGED <<sendCh, cancelled, hold, calls, enq, ghosts>>

\* Seeded bug: a handler that returns when a write fails.
WriteGivesUp(s) ==
    /\ pc[s] = "write"
    /\ \/ /\ got' = [got EXCEPT ![s] = @ \cup {hold[s]}]
          /\ pc' = [pc EXCEPT ![s] = "sleep"]
          /\ UNCHANGED lost
       \/ /\ lost' = lost \cup {hold[s]}
          /\ pc' = [pc EXCEPT ![s] = "returned"]
          /\ UNCHANGED got
    /\ hold' = [hold EXCEPT ![s] = 0]
    /\ UNCHANGED <<sendCh, cancelled, calls, enq, floor>>

\* Seeded bug: a packet that could not be written goes back into the queue.
WriteRequeues(s) ==
    /\ pc[s] = "write"
    /\ pc' = [pc EXCEPT ![s] = "sleep"]
    /\ \/ /\ got' = [got EXCEPT ![s] = @ \cup {hold[s]}]
          /\ UNCHANGED sendCh
       \/ /\ Len(sendCh) < Cap
          /\ sendCh' = Append(sendCh, hold[s])
          /\ UNCHANGED got
    /\ hold' = [hold EXCEPT ![s] = 0]
    /\ UNCHANGED <<cancelled, calls, enq, floor, lost>>

\* n.Write reaches the central, or fails and is only logged.  The handler does
\* not look at the context before, and a central that gave up its subscription
\* may be written once more.
Write(s) ==
    /\ pc[s] = "write"
    /\ pc' = [pc EXCEPT ![s] = "sleep"]
    /\ \/ /\ got' = [got EXCEPT ![s] = @ \cup {hold[s]}]
          /\ UNCHANGED lost
       \/ /\ lost' = lost \cup {hold[s]}
          /\ UNCHANGED got
    /\ hold' = [hold EXCEPT ![s] = 0]
    /\ UNCHANGED <<sendCh, cancelled, calls, enq, floor>>

\* time.Sleep(config.NotifyWriteInterval) is over.
Wake(s) ==
    /\ pc[s] = "sleep"
    /\ pc' = [pc EXCEPT ![s] = "select"]
    /\ UNCHANGED <<sendCh, cancelled, hold, calls, enq, ghosts>>

\* What the goroutine of s does when the scheduler runs it.
Handler(s) ==
    \/ DrainCheck(s)
    \/ DrainRecv(s)
    \/ Ready(s)
    \/ Take(s)
    \/ Done(s)
    \/ Write(s)
    \/ Wake(s)

\* Nobody has to subscribe or to call Notify, so the system may rest.
Next ==
    \/ AppNotify
    \/ \E s \in Subs :
          \/ Subscribe(s)
          \/ Unsubscribe(s)
          \/ Handler(s)

Spec == Init /\ [][Next]_vars

\* The Go scheduler runs every goroutine that can run; the random choice of
\* select does not starve a case that stays ready; callers and the central
\* owe nothing.
FairSpec ==
    /\ Spec
    /\ \A s \in Subs :
          /\ WF_vars(Handler(s))
          /\ SF_vars(Done(s))
          /\ SF_vars(DrainRecv(s))

-----------------------------------------------------------------------------
(* Correctness.                                                            *)

TypeOK ==
    /\ sendCh \in Seq(Nat)
    /\ Len(sendCh) <= Cap
    /\ pc \in [Subs -> Locations]
    /\ cancelled \in [Subs -> BOOLEAN]
    /\ hold \in [Subs -> Nat]
    /\ calls \in 0..MaxCalls
    /\ enq \in Nat
    /\ floor \in [Subs -> Nat]
    /\ got \in [Subs -> SUBSET Nat]
    /\ lost \in SUBSET Nat

\* A subscriber never sees what was queued before its handler started to
\* serve it: the drain loop of the handler (and nothing else) protects a new
\* central from the previous one's packets, although other handlers and
\* callers work on the channel while it runs.
FreshForSubscriber ==
    \A s \in Subs : \A n \in got[s] : s \in Joined /\ floor[s] < n

\* No packet is written to two subscriptions, nor both written and lost:
\* handlers that overlap split the packets between them.
WrittenOnce ==
    /\ \A s, t \in Subs : s # t => got[s] \cap got[t] = {}
    /\ \A s \in Subs : got[s] \cap lost = {}

\* The packets a handler may still write or queue behind.
Holding(s) == pc[s] = "write"

\* The queue is in the order of acceptance.
QueueOrder ==
    /\ \A i \in 1..Len(sendCh) : sendCh[i] \in 1..enq
    /\ \A i, j \in 1..Len(sendCh) : i < j => sendCh[i] < sendCh[j]

\* Only accepted packets are written or lost.
OnlyAccepted ==
    /\ \A s \in Subs : got[s] \subseteq 1..enq
    /\ lost \subseteq 1..enq

\* Whatever left the queue is older than all that is still in it, and each
\* packet that left is in one place.
TakenBeforeQueued ==
    \A i \in 1..Len(sendCh) :
        /\ \A s \in Subs : Holding(s) => hold[s] < sendCh[i]
        /\ \A s \in Subs : \A n \in got[s] : n < sendCh[i]
        /\ \A n \in lost : n < sendCh[i]

HeldOnce ==
    \A s \in Subs : Holding(s) =>
        /\ hold[s] \in 1..enq
        /\ floor[s] < hold[s]
        /\ \A t \in Subs : t # s /\ Holding(t) => hold[t] # hold[s]
        /\ \A t \in Subs : hold[s] \notin got[t]
        /\ hold[s] \notin lost
        /\ \A n \in got[s] : n < hold[s]

\* All that a handler past its drain loop can still take is above its floor.
QueueAboveFloor ==
    \A s \in Joined : floor[s] <= enq
                      /\ \A i \in 1..Len(sendCh) : floor[s] < sendCh[i]

\* The inductive invariant: freshness and single delivery hold because of
\* the order in the queue.
IInv ==
    /\ TypeOK
    /\ QueueOrder
    /\ OnlyAccepted
    /\ TakenBeforeQueued
    /\ HeldOnce
    /\ QueueAboveFloor
    /\ FreshForSubscriber
    /\ WrittenOnce

\* The channel and its handlers implement the feed.
Feed == INSTANCE NotifyFeed WITH
            accepted <- enq, joined <- Joined, floor <- floor, delivered <- got

FeedSpec == Feed!Spec

\* The numbers a packet can have: each handler queues one "sim.ready".
Packets == 1..(MaxCalls + Cardinality(Subs))

Queued(n) == \E i \in 1..Len(sendCh) : sendCh[i] = n

\* A packet does not stay in the queue while somebody serves a subscription:
\* some handler takes it, or the subscription ends.
QueueMoves ==
    \A s \in Subs : \A n \in Packets :
        (pc[s] = "select" /\ Queued(n)) ~> (cancelled[s] \/ ~Queued(n))

Alone(s) == \A t \in Subs \ {s} : pc[t] \in {"idle", "returned"}

\* A subscription that is alone, and stays so, is written every packet
\* accepted since its handler joined, unless it ends or a write fails.  (With
\* other handlers at work this is false: they take a share of the packets.)
SoleSubscriberServed ==
    \A s \in Subs : \A n \in Packets :
        (Alone(s) /\ s \in Joined /\ floor[s] < n /\ Queued(n))
            ~> (cancelled[s] \/ n \in got[s] \cup lost \/ ~Alone(s))

\* A handler whose subscription ended returns, once it is past its drain
\* loop: neither its sleep nor a queue that is never empty keeps it.
CancelledReturns ==
    \A s \in Subs : (s \in Joined /\ cancelled[s]) ~> pc[s] = "returned"

\* "A helper goroutine drains the channel and writes notifications": the
\* handler of a subscription comes to serve it.
HelperStarts ==
    \A s \in Subs : pc[s] = "drain" ~> (s \in Joined \/ cancelled[s])
=============================================================================
