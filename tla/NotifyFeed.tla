----------------------------- MODULE NotifyFeed -----------------------------
(***************************************************************************)
(* What the notify characteristic promises its subscribers, with no queue, *)
(* no goroutine and no program counter.                                    *)
(*                                                                         *)
(* Packets accepted by Notify are numbered 1, 2, 3, ... in the order of    *)
(* acceptance.  A subscription joins the feed at some point of that order  *)
(* (its floor) and from there on is written packets above its floor, in    *)
(* increasing order, none of which any subscription has been written       *)
(* before.  Packets may be missed: the feed is at-most-once.               *)
(***************************************************************************)
EXTENDS Naturals

CONSTANT Subs

VARIABLES
    accepted,   \* number of packets accepted so far
    joined,     \* the subscriptions that take part in the feed
    floor,      \* the last packet accepted before the subscription joined
    delivered   \* the packets written to each subscription

vars == <<accepted, joined, floor, delivered>>

Init ==
    /\ accepted = 0
    /\ joined = {}
    /\ floor = [s \in Subs |-> 0]
    /\ delivered = [s \in Subs |-> {}]

Accept ==
    /\ accepted' = accepted + 1
    /\ UNCHANGED <<joined, floor, delivered>>

Join(s) ==
    /\ s \notin joined
    /\ joined' = joined \cup {s}
    /\ floor' = [floor EXCEPT ![s] = accepted]
    /\ UNCHANGED <<accepted, delivered>>

Deliver(s, n) ==
    /\ s \in joined
    /\ floor[s] < n
    /\ \A m \in delivered[s] : m < n
    /\ \A t \in Subs : n \notin delivered[t]
    /\ delivered' = [delivered EXCEPT ![s] = @ \cup {n}]
    /\ UNCHANGED <<accepted, joined, floor>>

Next ==
    \/ Accept
    \/ \E s \in Subs :
          \/ Join(s)
          \/ \E n \in 1..accepted : Deliver(s, n)

Spec == Init /\ [][Next]_vars
=============================================================================
