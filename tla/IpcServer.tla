------------------------------ MODULE IpcServer ------------------------------
(***************************************************************************)
(* handler.go and script/engine.go (HandleEvent, notify) on top of the     *)
(* notify channel: how a frame becomes packets for the subscriber.         *)
(*                                                                         *)
(* handleFrame runs in the goroutine that called the write handler.  It    *)
(* reports a frame that does not decode; it acknowledges any other, then   *)
(* runs the script of the topic if there is one, and otherwise the         *)
(* built-in switch, which answers "ping".  Each of these sends is a        *)
(* Notify, so it never waits and may be dropped.                           *)
(***************************************************************************)
EXTENDS NotifyChannel

CONSTANTS
    Workers,    \* the goroutines that may run handleFrame
    ScriptDirs, \* the sets of topics that may have a script
    MaxReqs,    \* bound: frames received
    MaxScript   \* bound: calls of notify in one run of a script

\* What handleFrame tells apart: a frame that does not decode, the topic
\* "ping", and any other topic.
Topics == {"ping", "other"}
Kinds == Topics \cup {"bad"}

ASSUME MaxReqsAssumption == MaxReqs \in Nat
ASSUME ScriptDirsAssumption == ScriptDirs \subseteq SUBSET Topics

VARIABLES
    scripts,   \* the topics in Engine.scripts
    at,         \* where each worker is in handleFrame
    cur,        \* the number of the frame each worker handles, 0 if none
    said,       \* what the running script notified so far
    kind,       \* the frames received so far: the kind of each
    log,        \* ghost: what packet n is, for every n up to enq
    dropped     \* ghost: what a full channel dropped

worker == <<scripts, at, cur, said, kind>>
content == <<log, dropped>>
channel == <<sendCh, enq>>
allVars == <<vars, worker, content>>

ServerInit ==
    /\ Init
    /\ scripts \in ScriptDirs
    /\ at = [w \in Workers |-> "idle"]
    /\ cur = [w \in Workers |-> 0]
    /\ said = [w \in Workers |-> 0]
    /\ kind = <<>>
    /\ log = <<>>
    /\ dropped = {}

\* nc.Notify(topic, ...) in answer to frame r.
Tell(topic, r) ==
    /\ Notify
    /\ LET packet == [topic |-> topic, req |-> r]
       IN  IF enq' = enq
           THEN dropped' = dropped \cup {packet} /\ UNCHANGED log
           ELSE log' = Append(log, packet) /\ UNCHANGED dropped

Rest(w) ==
    /\ at' = [at EXCEPT ![w] = "idle"]
    /\ cur' = [cur EXCEPT ![w] = 0]

\* Seeded bug: no acknowledgement.
ReceiveNoAck(w, k) ==
    /\ at[w] = "idle"
    /\ Len(kind) < MaxReqs
    /\ kind' = Append(kind, k)
    /\ cur' = [cur EXCEPT ![w] = Len(kind) + 1]
    /\ at' = [at EXCEPT ![w] = IF k = "bad" THEN "error"
                               ELSE IF k \in scripts THEN "script"
                               ELSE "switch"]
    /\ UNCHANGED <<scripts, vars, said, content>>

\* onFrame is called with a frame.
Receive(w, k) ==
    /\ at[w] = "idle"
    /\ Len(kind) < MaxReqs
    /\ kind' = Append(kind, k)
    /\ cur' = [cur EXCEPT ![w] = Len(kind) + 1]
    /\ at' = [at EXCEPT ![w] = IF k = "bad" THEN "error" ELSE "ack"]
    /\ UNCHANGED <<scripts, vars, said, content>>

\* f.Err != nil: report and return.
ReportError(w) ==
    /\ at[w] = "error"
    /\ Tell("ipc.error", cur[w])
    /\ Rest(w)
    /\ UNCHANGED <<scripts, said, kind, handler, ghosts, calls>>

\* Acknowledge, then look for a script.
Ack(w) ==
    /\ at[w] = "ack"
    /\ Tell("ack", cur[w])
    /\ at' = [at EXCEPT ![w] = IF kind[cur[w]] \in scripts
                               THEN "script" ELSE "switch"]
    /\ said' = [said EXCEPT ![w] = 0]
    /\ UNCHANGED <<scripts, cur, kind, handler, ghosts, calls>>

\* The script calls notify.
ScriptNotify(w) ==
    /\ at[w] = "script"
    /\ said[w] < MaxScript
    /\ Tell("script", cur[w])
    /\ said' = [said EXCEPT ![w] = @ + 1]
    /\ UNCHANGED <<scripts, at, cur, kind, handler, ghosts, calls>>

\* Seeded bug: HandleEvent returns false when the script fails.
ScriptFailureIsNoScript(w) ==
    /\ at[w] = "script"
    /\ \/ Rest(w)
       \/ at' = [at EXCEPT ![w] = "switch"] /\ UNCHANGED cur
    /\ said' = [said EXCEPT ![w] = 0]
    /\ UNCHANGED <<scripts, vars, kind, content>>

\* The script ends, or fails and is only logged: HandleEvent returns true.
ScriptEnd(w) ==
    /\ at[w] = "script"
    /\ Rest(w)
    /\ said' = [said EXCEPT ![w] = 0]
    /\ UNCHANGED <<scripts, vars, kind, content>>

\* HandleEvent returned false: the built-in topics.
Switch(w) ==
    /\ at[w] = "switch"
    /\ \/ kind[cur[w]] = "ping" /\ Tell("pong", cur[w])
       \/ kind[cur[w]] # "ping" /\ UNCHANGED <<channel, content>>
    /\ Rest(w)
    /\ UNCHANGED <<scripts, said, kind, handler, ghosts, calls>>

HandleFrame(w) ==
    \/ ReportError(w)
    \/ Ack(w)
    \/ ScriptNotify(w)
    \/ ScriptEnd(w)
    \/ Switch(w)

\* The "sim.ready" of a handler is a packet that answers no frame.
Greet(s) ==
    /\ Ready(s)
    /\ Tell("sim.ready", 0)
    /\ UNCHANGED worker

\* The other steps of the notify side.
NotifySide(s) ==
    /\ \/ Subscribe(s) \/ Unsubscribe(s) \/ DrainCheck(s) \/ DrainRecv(s)
       \/ Take(s) \/ Done(s) \/ Write(s) \/ Wake(s)
    /\ UNCHANGED <<worker, content>>

ServerNext ==
    \/ \E w \in Workers :
          \/ \E k \in Kinds : Receive(w, k)
          \/ HandleFrame(w)
    \/ \E s \in Subs : Greet(s) \/ NotifySide(s)

\* Only the goroutines that handle frames are assumed to run: nothing is
\* asked of subscribers and of the goroutines that serve them.
ServerSpec ==
    /\ ServerInit
    /\ [][ServerNext]_allVars
    /\ \A w \in Workers : WF_allVars(HandleFrame(w))

-----------------------------------------------------------------------------
(* Correctness.                                                            *)

\* Where a sequence has an element.
Places(q, e) == {n \in 1..Len(q) : q[n] = e}

\* How often frame r was told something on a topic, dropped or not.
Told(topic, r) ==
    LET packet == [topic |-> topic, req |-> r]
    IN  Cardinality(Places(log, packet))
            + IF packet \in dropped THEN 1 ELSE 0

Handled(r) == r \in 1..Len(kind) /\ \A w \in Workers : cur[w] # r

\* Every frame gets exactly one reply of the protocol, whatever else runs:
\* an error report and nothing more, or an acknowledgement; and a ping that
\* no script handles gets one pong.
OneReply ==
    \A r \in 1..Len(kind) : Handled(r) =>
        /\ Told("ipc.error", r) = IF kind[r] = "bad" THEN 1 ELSE 0
        /\ Told("ack", r) = IF kind[r] = "bad" THEN 0 ELSE 1
        /\ Told("pong", r) =
              IF kind[r] = "ping" /\ "ping" \notin scripts THEN 1 ELSE 0
        /\ kind[r] \notin scripts => Told("script", r) = 0

\* A subscriber that is written an answer was written the acknowledgement of
\* the same frame before, or will never be written it: the acknowledgement
\* went to somebody else, was drained, was lost or was dropped.
AckFirst ==
    \A s \in Subs : \A n \in got[s] :
        log[n].topic \in {"pong", "script"} =>
            \/ [topic |-> "ack", req |-> log[n].req] \in dropped
            \/ \E a \in 1..(n - 1) :
                  /\ log[a] = [topic |-> "ack", req |-> log[n].req]
                  /\ a \in got[s] \/ \A i \in 1..Len(sendCh) : sendCh[i] # a

PacketTopics == {"ipc.error", "ack", "script", "pong", "sim.ready"}
PacketSet == [topic : PacketTopics, req : Nat]

ServerTypeOK ==
    /\ scripts \subseteq Topics
    /\ at \in [Workers -> {"idle", "error", "ack", "script", "switch"}]
    /\ cur \in [Workers -> 0..Len(kind)]
    /\ said \in [Workers -> Nat]
    /\ kind \in Seq(Kinds)
    /\ Len(kind) <= MaxReqs
    /\ log \in Seq(PacketSet)
    /\ dropped \subseteq PacketSet

\* Frames are handled to the end even when nobody reads the channel: the
\* write path never waits for the notify path.
FramesHandled == \A r \in 1..MaxReqs : r \in 1..Len(kind) ~> Handled(r)
=============================================================================
