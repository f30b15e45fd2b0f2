------------------------------ MODULE IpcSession ------------------------------
(***************************************************************************)
(* Centrals that talk to the LineFramer.                                   *)
(*                                                                         *)
(* One central after the other writes its messages, each closed by a       *)
(* newline, in chunks of at most an MTU that begin and end anywhere.  A    *)
(* central may disconnect in the middle of a message; the next one begins  *)
(* with the next message, and the framer is not told: it keeps the partial *)
(* line.  The k-th byte of message m is <<m, k>>, and a message of length  *)
(* zero is an empty line.  A line decodes exactly when it is one whole     *)
(* message.  The calls of the write handler may overlap.                   *)
(***************************************************************************)
EXTENDS LineFramer

CONSTANTS
    Size,   \* the length of each message
    MTU     \* bound: the longest chunk

ASSUME SizeAssumption == Size \in Seq(Nat)

VARIABLES
    at,     \* how much of Wire was written or given up
    broken, \* the messages a disconnect cut short
    unended,    \* those of them that lack only their newline
    overlap,    \* ghost: a call began while another one was running
    mixed       \* ghost: and that one had not appended its chunk yet

session == <<at, broken, unended, overlap, mixed>>

Messages == {m \in 1..Len(Size) : Size[m] > 0}
Message(m) == [k \in 1..Size[m] |-> <<m, k>>]
MessageLines == {Message(m) : m \in Messages}

\* JSON has no newline inside, and no part of a packet is a packet.
ASSUME PacketsAssumption ==
    /\ Packets = MessageLines
    /\ \A m \in Messages : \A k \in 1..Size[m] : <<m, k>> # NL

\* All that the centrals mean to write, of which every piece is a chunk, and
\* where each message ends in it.
End[m \in 0..Len(Size)] == IF m = 0 THEN 0 ELSE End[m - 1] + Size[m] + 1
Wire == [p \in 1..End[Len(Size)] |->
            LET m == CHOOSE m \in 1..Len(Size) : End[m - 1] < p /\ p <= End[m]
            IN  IF p = End[m] THEN NL ELSE <<m, p - End[m - 1]>>]
ASSUME WireAssumption ==
    /\ Wire \in Seq(Bytes)
    /\ MTU \in Nat
    /\ \A i, j \in 1..Len(Wire) : j - i < MTU => SubSeq(Wire, i, j) \in Chunks

\* The messages that were written up to their newline.
Whole == {m \in Messages : End[m] <= at /\ m \notin broken}

SessionInit ==
    /\ Init
    /\ at = 0
    /\ broken = {}
    /\ unended = {}
    /\ overlap = FALSE
    /\ mixed = FALSE

\* The central writes the next chunk: one call of the write handler.
Send(w) ==
    /\ \E n \in 1..MTU :
          /\ at + n <= Len(Wire)
          /\ Call(w, SubSeq(Wire, at + 1, at + n))
          /\ at' = at + n
    /\ overlap' = (overlap \/ \E v \in Writers : pc[v] # "idle")
    /\ mixed' = (mixed \/ \E v \in Writers : pc[v] = "append")
    /\ UNCHANGED <<broken, unended>>

\* The central disconnects inside a message.
Disconnect ==
    /\ \E m \in Messages : \E rest \in 1..Size[m] :
          /\ at + rest = End[m]
          /\ at' = at + rest
          /\ broken' = broken \cup {m}
          /\ unended' = IF rest = 1 THEN unended \cup {m} ELSE unended
    /\ UNCHANGED <<vars, overlap, mixed>>

SessionNext ==
    \/ \E w \in Writers : Send(w)
    \/ Disconnect
    \/ \E w \in Writers : Step(w) /\ UNCHANGED session

SessionSpec ==
    /\ SessionInit
    /\ [][SessionNext]_<<vars, session>>
    /\ \A w \in Writers : WF_<<vars, session>>(Step(w) /\ UNCHANGED session)

-----------------------------------------------------------------------------
(* Correctness.  A chunk that is not appended before the next one arrives  *)
(* may end up behind it, and then nothing can be said of messages.         *)

Accepted == {m \in Messages : \E i \in 1..Len(out) :
                                 out[i].ok /\ out[i].line = Message(m)}
Errors == {i \in 1..Len(out) : ~out[i].ok}

\* Everything written has been worked off.
Quiet == \A w \in Writers : pc[w] = "idle"

\* What is dispatched as a packet is a message some central wrote, if perhaps
\* not its newline, and it is dispatched once, in the order of writing unless
\* calls overlap: no chunking, disconnect or reset makes the framer put a
\* packet together that nobody sent.
PacketsAreMessages ==
    ~mixed =>
        /\ Accepted \subseteq Whole \cup unended
        /\ \A i, j \in 1..Len(out) :
              (i < j /\ out[i].ok /\ out[j].ok) =>
                  \/ out[i].line[1][1] < out[j].line[1][1]
                  \/ overlap /\ out[i].line # out[j].line

\* Every decoding error the server reports has a cause: at most one for each
\* disconnect inside a message and one for each reset of the buffer.
ErrorsExplained ==
    ~mixed => Cardinality(Errors) <= Cardinality(broken) + Len(resets)

\* A partial line costs at most the message after it: without resets, no more
\* messages are lost than were cut short, and none if none was.
LossExplained ==
    (Quiet /\ ~mixed /\ resets = <<>>) =>
        Cardinality(Whole \ Accepted) <= Cardinality(broken)

\* A message written in peace is dispatched in the end.
MessagesDispatched ==
    \A m \in Messages :
        m \in Whole ~>
            (m \in Accepted \/ broken # {} \/ resets # <<>> \/ mixed)

=============================================================================
