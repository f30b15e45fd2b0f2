------------------------------ MODULE LineFramer ------------------------------
(***************************************************************************)
(* ble/framer.go and the write handler of ble/characteristics.go.          *)
(*                                                                         *)
(* Each write of a central is one call of the handler with one chunk of    *)
(* bytes.  All calls share one LineFramer: a buffer under a mutex that     *)
(* outlives chunks, connections and centrals.  A call appends its chunk,   *)
(* cuts the complete lines off the buffer, gives up the mutex and only     *)
(* then decodes the lines it cut and passes them on, one by one.           *)
(*                                                                         *)
(* The mutex is held from the append to the end of the split loop, so it   *)
(* is held by the one writer that is in the loop.                          *)
(***************************************************************************)
EXTENDS Naturals, Sequences, FiniteSets

CONSTANTS
    Writers,    \* the goroutines that may run the write handler
    Bytes,      \* what a chunk is made of
    NL,         \* '\n'
    MaxFrameBufferBytes,    \* of config
    Packets,    \* the lines json.Unmarshal decodes into an ipc.Packet
    Chunks      \* the chunks a central may write

ASSUME BytesAssumption == NL \in Bytes
ASSUME MaxAssumption == MaxFrameBufferBytes \in Nat
ASSUME ChunksAssumption == Chunks \subseteq Seq(Bytes)

VARIABLES
    buf,        \* LineFramer.buf
    pc,         \* where each writer is
    chunk,      \* req.Data() of each writer's call
    frames,     \* the lines a call cut and has not dispatched yet
    out,        \* the frames passed to onFrame, in order
    stream,     \* ghost: the bytes appended since the buffer was last reset
    echo,       \* ghost: the bytes cut off the buffer since then
    lines,      \* ghost: the non-empty lines cut so far
    resets      \* ghost: what the buffer and a chunk held at each reset

ghosts == <<stream, echo, lines, resets>>
vars == <<buf, pc, chunk, frames, out, stream, echo, lines, resets>>

Init ==
    /\ buf = <<>>
    /\ pc = [w \in Writers |-> "idle"]
    /\ chunk = [w \in Writers |-> <<>>]
    /\ frames = [w \in Writers |-> <<>>]
    /\ out = <<>>
    /\ stream = <<>>
    /\ echo = <<>>
    /\ lines = <<>>
    /\ resets = <<>>

HasNewline(b) == \E i \in 1..Len(b) : b[i] = NL

\* i = bytes.IndexByte(b, '\n') + 1
FirstNewline(b, i) ==
    /\ i \in 1..Len(b)
    /\ b[i] = NL
    /\ \A j \in 1..(i - 1) : b[j] # NL

\* go-ble calls the handler with a chunk.
Call(w, c) ==
    /\ pc[w] = "idle"
    /\ pc' = [pc EXCEPT ![w] = "append"]
    /\ chunk' = [chunk EXCEPT ![w] = c]
    /\ UNCHANGED <<buf, frames, out, ghosts>>

\* Seeded bug: without the mutex, the split loop of another call may write
\* back the buffer it had before the append.
AppendUnlocked(w) ==
    /\ pc[w] = "append"
    /\ Len(buf) + Len(chunk[w]) <= MaxFrameBufferBytes
    /\ \/ buf' = buf \o chunk[w]
       \/ (\E v \in Writers : pc[v] = "split") /\ buf' = buf
    /\ pc' = [pc EXCEPT ![w] = "split"]
    /\ stream' = stream \o chunk[w]
    /\ chunk' = [chunk EXCEPT ![w] = <<>>]
    /\ UNCHANGED <<frames, out, echo, lines, resets>>

\* mu.Lock(), append, and the size check, which comes before any line is cut.
AppendChunk(w) ==
    /\ pc[w] = "append"
    /\ \A v \in Writers : pc[v] # "split"
    /\ \/ /\ Len(buf) + Len(chunk[w]) > MaxFrameBufferBytes
          /\ buf' = <<>>
          /\ pc' = [pc EXCEPT ![w] = "idle"]
          /\ stream' = <<>>
          /\ echo' = <<>>
          /\ resets' = Append(resets, buf \o chunk[w])
       \/ /\ Len(buf) + Len(chunk[w]) <= MaxFrameBufferBytes
          /\ buf' = buf \o chunk[w]
          /\ pc' = [pc EXCEPT ![w] = "split"]
          /\ stream' = stream \o chunk[w]
          /\ UNCHANGED <<echo, resets>>
    /\ chunk' = [chunk EXCEPT ![w] = <<>>]
    /\ UNCHANGED <<frames, out, lines>>

\* Seeded bug: the line's own newline and one byte more are cut off.
CutTooMuch(w) ==
    /\ pc[w] = "split"
    /\ \E i \in 1..Len(buf) :
          /\ FirstNewline(buf, i)
          /\ LET line == SubSeq(buf, 1, i - 1)
             IN  /\ frames' = [frames EXCEPT ![w] = Append(@, line)]
                 /\ lines' = IF line = <<>> THEN lines
                                            ELSE Append(lines, line)
          /\ buf' = SubSeq(buf, i + 2, Len(buf))
          /\ echo' = echo \o SubSeq(buf, 1, i)
    /\ UNCHANGED <<pc, chunk, out, stream, resets>>

\* One turn of the split loop.
CutLine(w) ==
    /\ pc[w] = "split"
    /\ \E i \in 1..Len(buf) :
          /\ FirstNewline(buf, i)
          /\ LET line == SubSeq(buf, 1, i - 1)
             IN  /\ frames' = [frames EXCEPT ![w] = Append(@, line)]
                 /\ lines' = IF line = <<>> THEN lines
                                            ELSE Append(lines, line)
          /\ buf' = SubSeq(buf, i + 1, Len(buf))
          /\ echo' = echo \o SubSeq(buf, 1, i)
    /\ UNCHANGED <<pc, chunk, out, stream, resets>>

\* Seeded bug: an if in the place of the loop.
ReleaseEarly(w) ==
    /\ pc[w] = "split"
    /\ ~HasNewline(buf) \/ frames[w] # <<>>
    /\ pc' = [pc EXCEPT ![w] = "dispatch"]
    /\ UNCHANGED <<buf, chunk, frames, out, ghosts>>

\* No newline is left: Append returns and the mutex is free.
Release(w) ==
    /\ pc[w] = "split"
    /\ ~HasNewline(buf)
    /\ pc' = [pc EXCEPT ![w] = "dispatch"]
    /\ UNCHANGED <<buf, chunk, frames, out, ghosts>>

\* Seeded bug: the lines of a call are dispatched in reverse.
DispatchLast(w) ==
    /\ pc[w] = "dispatch"
    /\ frames[w] # <<>>
    /\ LET raw == frames[w][Len(frames[w])]
       IN  out' = IF raw = <<>> THEN out
                  ELSE Append(out, [line |-> raw, ok |-> raw \in Packets])
    /\ frames' = [frames EXCEPT ![w] = SubSeq(@, 1, Len(@) - 1)]
    /\ UNCHANGED <<buf, pc, chunk, ghosts>>

\* One turn of the handler's loop: an empty line is skipped, any other is
\* passed on as a packet or as a decoding error.
Dispatch(w) ==
    /\ pc[w] = "dispatch"
    /\ frames[w] # <<>>
    /\ LET raw == Head(frames[w])
       IN  out' = IF raw = <<>> THEN out
                  ELSE Append(out, [line |-> raw, ok |-> raw \in Packets])
    /\ frames' = [frames EXCEPT ![w] = Tail(@)]
    /\ UNCHANGED <<buf, pc, chunk, ghosts>>

\* Seeded bug: the handler returns after the first line.
ReturnEarly(w) ==
    /\ pc[w] = "dispatch"
    /\ pc' = [pc EXCEPT ![w] = "idle"]
    /\ frames' = [frames EXCEPT ![w] = <<>>]
    /\ UNCHANGED <<buf, chunk, out, ghosts>>

Return(w) ==
    /\ pc[w] = "dispatch"
    /\ frames[w] = <<>>
    /\ pc' = [pc EXCEPT ![w] = "idle"]
    /\ UNCHANGED <<buf, chunk, frames, out, ghosts>>

\* What a running call does next.
Step(w) ==
    \/ AppendChunk(w)
    \/ CutLine(w)
    \/ Release(w)
    \/ Dispatch(w)
    \/ Return(w)

\* Any chunk, from any writer.
Arrive(w) == \E c \in Chunks : Call(w, c)

Next == \E w \in Writers : Arrive(w) \/ Step(w)

Spec == Init /\ [][Next]_vars

-----------------------------------------------------------------------------
(* Correctness.                                                            *)

TypeOK ==
    /\ buf \in Seq(Bytes)
    /\ pc \in [Writers -> {"idle", "append", "split", "dispatch"}]
    /\ chunk \in [Writers -> Seq(Bytes)]
    /\ frames \in [Writers -> Seq(Seq(Bytes))]
    /\ out \in Seq([line : Seq(Bytes), ok : BOOLEAN])
    /\ stream \in Seq(Bytes)
    /\ echo \in Seq(Bytes)
    /\ lines \in Seq(Seq(Bytes))
    /\ resets \in Seq(Seq(Bytes))

\* The mutex: one call at a time is between its append and the end of its
\* split loop.
MutualExclusion ==
    \A v, w \in Writers : pc[v] = "split" /\ pc[w] = "split" => v = w

\* Framing loses, repeats and reorders nothing between two resets: the lines
\* cut, each with its newline, followed by what is left in the buffer, are
\* the bytes received, however the bytes were chunked and whoever called.
Lossless == echo \o buf = stream

\* A line has no newline inside, and a call leaves only the beginning of an
\* unfinished line behind.
LinesAreLines ==
    /\ \A w \in Writers : \A i \in 1..Len(frames[w]) :
          ~HasNewline(frames[w][i])
    /\ (\A w \in Writers : pc[w] # "split") => ~HasNewline(buf)

\* "framer buffer exceeded %d bytes": no call leaves or splits more.
Bounded == Len(buf) <= MaxFrameBufferBytes

FramerInv ==
    /\ TypeOK
    /\ MutualExclusion
    /\ Lossless
    /\ LinesAreLines
    /\ Bounded

\* The lines of a set that were cut, and that were dispatched, each with its
\* place.
Cut(set) == {i \in 1..Len(lines) : lines[i] \in set}
Dispatched(set) == {i \in 1..Len(out) : out[i].line \in set}
\* Every non-empty line is dispatched exactly once, although it is dispatched
\* after the mutex was given up: seen whenever no call is running.
DispatchedOnce ==
    (\A w \in Writers : pc[w] = "idle") =>
        /\ Len(out) = Len(lines)
        /\ \A i \in 1..Len(lines) :
              Cardinality(Cut({lines[i]})) = Cardinality(Dispatched({lines[i]}))
=============================================================================
