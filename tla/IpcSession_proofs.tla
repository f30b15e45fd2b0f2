-------------------------- MODULE IpcSession_proofs --------------------------
(***************************************************************************)
(* The framer neither loses nor reorders bytes between resets, for every   *)
(* set of writers, every limit and all chunks.  Centrals that write        *)
(* messages are centrals that write chunks: what holds of the framer holds *)
(* for every session, whatever the messages, their chunks, the disconnects *)
(* and the overlapping calls.  And what the server takes for a packet is a *)
(* message that was sent; every error and every loss has its cause.        *)
(***************************************************************************)
EXTENDS IpcSession, SequenceTheorems, FiniteSetTheorems, FunctionTheorems,
        NaturalsInduction, WellFoundedInduction, TLAPS

-----------------------------------------------------------------------------
(* The framer.                                                             *)

\* The lines of a set that a call still has to dispatch, each with its place.
Held(w, set) == {w} \X {i \in 1..Len(frames[w]) : frames[w][i] \in set}
Waiting(set) == UNION {Held(w, set) : w \in Writers}

NonEmpty == Seq(Bytes) \ {<<>>}

\* At any moment: of any set of lines, as many were cut as were dispatched or
\* wait in a call.
Balanced(set) ==
    /\ IsFiniteSet(Waiting(set))
    /\ Cardinality(Cut(set))
         = Cardinality(Dispatched(set)) + Cardinality(Waiting(set))

\* The inductive invariant of the dispatch, on top of that of the framer.
DispatchInv ==
    /\ FramerInv
    /\ \A w \in Writers : pc[w] \in {"idle", "append"} => frames[w] = <<>>
    /\ \A i \in 1..Len(lines) : lines[i] \in NonEmpty
    /\ \A i \in 1..Len(out) : out[i].line \in NonEmpty
    /\ \A set \in SUBSET NonEmpty : Balanced(set)

\* Cutting at position i splits the buffer in two.
LEMMA CutBuffer ==
    ASSUME buf \in Seq(Bytes), NEW i \in 1..Len(buf)
    PROVE  /\ SubSeq(buf, 1, i) \in Seq(Bytes)
           /\ SubSeq(buf, 1, i - 1) \in Seq(Bytes)
           /\ SubSeq(buf, i + 1, Len(buf)) \in Seq(Bytes)
           /\ Len(SubSeq(buf, i + 1, Len(buf))) = Len(buf) - i
           /\ \A j \in 1..Len(SubSeq(buf, 1, i - 1)) :
                 j \in 1..(i - 1) /\ SubSeq(buf, 1, i - 1)[j] = buf[j]
           /\ SubSeq(buf, 1, i) \o SubSeq(buf, i + 1, Len(buf)) = buf
<1>1. \A j \in 1..Len(buf) : buf[j] \in Bytes
  OBVIOUS
<1>2. SubSeq(buf, 1, i) \in Seq(Bytes)
  BY <1>1, SubSeqProperties
<1>3. /\ SubSeq(buf, 1, i - 1) \in Seq(Bytes)
      /\ \A j \in 1..Len(SubSeq(buf, 1, i - 1)) :
            j \in 1..(i - 1) /\ SubSeq(buf, 1, i - 1)[j] = buf[j]
  OBVIOUS
<1>4. /\ SubSeq(buf, i + 1, Len(buf)) \in Seq(Bytes)
      /\ Len(SubSeq(buf, i + 1, Len(buf))) = Len(buf) - i
  OBVIOUS
<1>5. SubSeq(buf, 1, i) \o SubSeq(buf, i + 1, Len(buf))
        = SubSeq(buf, 1, Len(buf))
  <2>1. 1 \in 1..(Len(buf) + 1) /\ i \in 0..Len(buf) /\ Len(buf) \in i..Len(buf)
    OBVIOUS
  <2> QED  BY <2>1, ConcatAdjacentSubSeq
<1>6. SubSeq(buf, 1, Len(buf)) = buf
  BY SubSeqFull
<1> QED  BY <1>2, <1>3, <1>4, <1>5, <1>6

\* Concatenation, for the byte strings of the framer.
LEMMA Associative ==
    ASSUME NEW r \in Seq(Bytes), NEW s \in Seq(Bytes), NEW t \in Seq(Bytes)
    PROVE  (r \o s) \o t = r \o (s \o t)
OBVIOUS

LEMMA InitFramerInv == Init => FramerInv
<1> SUFFICES ASSUME Init
             PROVE  FramerInv
  OBVIOUS
<1>1. <<>> \in Seq(Bytes) /\ Len(<<>>) = 0 /\ <<>> \o <<>> = <<>>
  OBVIOUS
<1>2. TypeOK
  BY <1>1 DEF Init, TypeOK
<1>3. MutualExclusion /\ Lossless /\ LinesAreLines /\ Bounded
  BY <1>1, MaxAssumption
  DEF Init, MutualExclusion, Lossless, LinesAreLines, Bounded, HasNewline
<1> QED  BY <1>2, <1>3 DEF FramerInv

LEMMA NextFramerInv == FramerInv /\ [Next]_vars => FramerInv'
<1> SUFFICES ASSUME FramerInv, [Next]_vars
             PROVE  FramerInv'
  OBVIOUS
<1> USE DEF FramerInv
<1>1. ASSUME NEW w \in Writers, Arrive(w)
      PROVE  FramerInv'
  <2>1. PICK c \in Chunks : Call(w, c)
    BY <1>1 DEF Arrive
  <2>2. c \in Seq(Bytes)
    BY ChunksAssumption
  <2>3. TypeOK'
    BY <2>1, <2>2 DEF Call, TypeOK, ghosts
  <2>4. \A v \in Writers : pc'[v] = "split" <=> pc[v] = "split"
    BY <2>1 DEF Call, TypeOK
  <2> QED
    BY <2>1, <2>3, <2>4 DEF Call, ghosts, MutualExclusion, Lossless,
       LinesAreLines, Bounded
<1>2. ASSUME NEW w \in Writers, AppendChunk(w)
      PROVE  FramerInv'
  <2>1. /\ pc[w] = "append"
        /\ \A v \in Writers : pc[v] # "split"
        /\ chunk' = [chunk EXCEPT ![w] = <<>>]
        /\ UNCHANGED <<frames, out, lines>>
        /\ chunk[w] \in Seq(Bytes)
    BY <1>2 DEF AppendChunk, TypeOK
  <2>2. CASE /\ buf' = <<>>
             /\ pc' = [pc EXCEPT ![w] = "idle"]
             /\ stream' = <<>>
             /\ echo' = <<>>
             /\ resets' = Append(resets, buf \o chunk[w])
    <3>1. buf \o chunk[w] \in Seq(Bytes)
      BY <2>1, ConcatProperties DEF TypeOK
    <3>2. resets' \in Seq(Seq(Bytes))
      BY <2>2, <3>1, AppendProperties DEF TypeOK
    <3>3. TypeOK'
      BY <2>1, <2>2, <3>2 DEF TypeOK
    <3>4. \A v \in Writers : pc'[v] # "split"
      BY <2>1, <2>2 DEF TypeOK
    <3>5. MutualExclusion' /\ Lossless'
      BY <2>2, <3>4 DEF MutualExclusion, Lossless
    <3>6. LinesAreLines' /\ Bounded'
      <4>1. Len(buf') = 0 /\ ~HasNewline(buf')
        BY <2>2 DEF HasNewline
      <4> QED  BY <2>1, <4>1, MaxAssumption DEF LinesAreLines, Bounded
    <3> QED  BY <3>3, <3>5, <3>6
  <2>3. CASE /\ Len(buf) + Len(chunk[w]) <= MaxFrameBufferBytes
             /\ buf' = buf \o chunk[w]
             /\ pc' = [pc EXCEPT ![w] = "split"]
             /\ stream' = stream \o chunk[w]
             /\ UNCHANGED <<echo, resets>>
    <3>1. /\ buf' \in Seq(Bytes)
          /\ stream' \in Seq(Bytes)
          /\ Len(buf') = Len(buf) + Len(chunk[w])
      BY <2>1, <2>3, ConcatProperties DEF TypeOK
    <3>2. TypeOK'
      BY <2>1, <2>3, <3>1 DEF TypeOK
    <3>3. \A v \in Writers : pc'[v] = "split" <=> v = w
      BY <2>1, <2>3 DEF TypeOK
    <3>4. Lossless'
      <4>1. /\ echo \in Seq(Bytes)
            /\ buf \in Seq(Bytes)
            /\ chunk[w] \in Seq(Bytes)
        BY <2>1 DEF TypeOK
      <4>2. (echo \o buf) \o chunk[w] = echo \o (buf \o chunk[w])
        BY <4>1, Associative, Zenon
      <4>3. (echo \o buf) \o chunk[w] = stream'
        BY <2>3 DEF Lossless
      <4>4. echo' \o buf' = echo \o (buf \o chunk[w])
        BY <2>3
      <4> QED  BY <4>2, <4>3, <4>4 DEF Lossless
    <3>5. MutualExclusion' /\ LinesAreLines' /\ Bounded'
      BY <2>1, <2>3, <3>1, <3>3 DEF MutualExclusion, LinesAreLines, Bounded
    <3> QED  BY <3>2, <3>4, <3>5
  <2> QED  BY <1>2, <2>2, <2>3 DEF AppendChunk
<1>3. ASSUME NEW w \in Writers, CutLine(w)
      PROVE  FramerInv'
  <2>1. PICK i \in 1..Len(buf) :
           /\ FirstNewline(buf, i)
           /\ frames' = [frames EXCEPT ![w] = Append(@, SubSeq(buf, 1, i - 1))]
           /\ lines' = IF SubSeq(buf, 1, i - 1) = <<>> THEN lines
                       ELSE Append(lines, SubSeq(buf, 1, i - 1))
           /\ buf' = SubSeq(buf, i + 1, Len(buf))
           /\ echo' = echo \o SubSeq(buf, 1, i)
    BY <1>3 DEF CutLine
  <2>2. /\ pc[w] = "split"
        /\ UNCHANGED <<pc, chunk, out, stream, resets>>
    BY <1>3 DEF CutLine
  <2> DEFINE line == SubSeq(buf, 1, i - 1)
  <2>3. /\ SubSeq(buf, 1, i) \in Seq(Bytes)
        /\ line \in Seq(Bytes)
        /\ buf' \in Seq(Bytes)
        /\ Len(buf') = Len(buf) - i
        /\ \A j \in 1..Len(line) : j \in 1..(i - 1) /\ line[j] = buf[j]
        /\ SubSeq(buf, 1, i) \o buf' = buf
    BY <2>1, CutBuffer DEF TypeOK
  <2>4. ~HasNewline(line)
    BY <2>1, <2>3 DEF HasNewline, FirstNewline
  <2> HIDE DEF line
  <2>5. /\ frames' = [frames EXCEPT ![w] = Append(@, line)]
        /\ lines' \in {lines, Append(lines, line)}
    BY <2>1 DEF line
  <2>6. TypeOK'
    <3>1. echo' \in Seq(Bytes)
      BY <2>1, <2>3, ConcatProperties DEF TypeOK
    <3>2. Append(frames[w], line) \in Seq(Seq(Bytes))
      BY <2>3, AppendProperties DEF TypeOK
    <3>3. lines' \in Seq(Seq(Bytes))
      <4>1. lines \in Seq(Seq(Bytes))
        BY DEF TypeOK
      <4>2. Append(lines, line) \in Seq(Seq(Bytes))
        BY <2>3, <4>1, AppendProperties
      <4> QED  BY <2>5, <4>1, <4>2
    <3> QED  BY <2>2, <2>3, <2>5, <3>1, <3>2, <3>3 DEF TypeOK
  <2>7. Lossless'
    <3> DEFINE cut == SubSeq(buf, 1, i)
    <3>1. cut \in Seq(Bytes) /\ cut \o buf' = buf /\ echo' = echo \o cut
      BY <2>1, <2>3
    <3>2. echo \in Seq(Bytes)
      BY DEF TypeOK
    <3> HIDE DEF cut
    <3>3. (echo \o cut) \o buf' = echo \o (cut \o buf')
      BY <2>3, <3>1, <3>2, Associative, Zenon
    <3>4. (echo \o cut) \o buf' = stream
      BY <3>1, <3>3 DEF Lossless
    <3> QED  BY <2>2, <3>1, <3>4 DEF Lossless
  <2>8. LinesAreLines'
    <3>1. ASSUME NEW v \in Writers, NEW k \in 1..Len(frames'[v])
          PROVE  ~HasNewline(frames'[v][k])
      <4>1. CASE v # w
        BY <2>5, <3>1, <4>1 DEF TypeOK, LinesAreLines
      <4>2. CASE v = w
        <5>1. /\ frames'[w] = Append(frames[w], line)
              /\ frames[w] \in Seq(Seq(Bytes))
          BY <2>5 DEF TypeOK
        <5>2. frames'[w][k] = IF k <= Len(frames[w]) THEN frames[w][k]
                                                     ELSE line
          BY <2>3, <3>1, <4>2, <5>1, AppendProperties
        <5>3. k <= Len(frames[w]) => k \in 1..Len(frames[w])
          BY <3>1, <4>2, <5>1, AppendProperties
        <5> QED  BY <2>4, <4>2, <5>2, <5>3 DEF LinesAreLines
      <4> QED  BY <4>1, <4>2
    <3> QED  BY <2>2, <3>1 DEF LinesAreLines
  <2>9. MutualExclusion' /\ Bounded'
    BY <2>2, <2>3, MaxAssumption DEF MutualExclusion, Bounded, TypeOK
  <2> QED  BY <2>6, <2>7, <2>8, <2>9
<1>4. ASSUME NEW w \in Writers, Release(w)
      PROVE  FramerInv'
  <2>1. /\ ~HasNewline(buf)
        /\ pc' = [pc EXCEPT ![w] = "dispatch"]
        /\ UNCHANGED <<buf, chunk, frames, out, stream, echo, lines,
                       resets>>
    BY <1>4 DEF Release, ghosts
  <2>2. TypeOK'
    BY <2>1 DEF TypeOK
  <2>3. \A v \in Writers : pc'[v] = "split" => pc[v] = "split"
    BY <2>1 DEF TypeOK
  <2> QED
    BY <2>1, <2>2, <2>3 DEF MutualExclusion, Lossless, LinesAreLines, Bounded
<1>5. ASSUME NEW w \in Writers, Dispatch(w)
      PROVE  FramerInv'
  <2> DEFINE raw == Head(frames[w])
             frame == [line |-> raw, ok |-> raw \in Packets]
  <2>1. /\ frames[w] # <<>>
        /\ out' = IF raw = <<>> THEN out ELSE Append(out, frame)
        /\ frames' = [frames EXCEPT ![w] = Tail(@)]
        /\ UNCHANGED <<buf, pc, chunk, stream, echo, lines, resets>>
    BY <1>5 DEF Dispatch, ghosts
  <2>2. /\ frames[w] \in Seq(Seq(Bytes))
        /\ raw \in Seq(Bytes)
        /\ Tail(frames[w]) \in Seq(Seq(Bytes))
        /\ \A k \in 1..Len(Tail(frames[w])) :
              /\ k + 1 \in 1..Len(frames[w])
              /\ Tail(frames[w])[k] = frames[w][k + 1]
    BY <2>1, HeadTailProperties DEF TypeOK
  <2>3. frame \in [line : Seq(Bytes), ok : BOOLEAN]
    BY <2>2
  <2>4. out' \in Seq([line : Seq(Bytes), ok : BOOLEAN])
    <3> DEFINE Frames == [line : Seq(Bytes), ok : BOOLEAN]
    <3>1. out \in Seq(Frames) /\ frame \in Frames
      BY <2>3 DEF TypeOK
    <3>2. out' \in {out, Append(out, frame)}
      BY <2>1
    <3> HIDE DEF frame, Frames
    <3>3. Append(out, frame) \in Seq(Frames)
      BY <3>1, AppendProperties
    <3>4. out' \in Seq(Frames)
      BY <3>1, <3>2, <3>3
    <3> QED  BY <3>4 DEF Frames
  <2>5. TypeOK'
    BY <2>1, <2>2, <2>4 DEF TypeOK
  <2>6. LinesAreLines'
    <3>1. \A v \in Writers : v # w => frames'[v] = frames[v]
      BY <2>1 DEF TypeOK
    <3>2. frames'[w] = Tail(frames[w])
      BY <2>1 DEF TypeOK
    <3> QED  BY <2>1, <2>2, <3>1, <3>2 DEF LinesAreLines
  <2> QED
    BY <2>1, <2>5, <2>6 DEF MutualExclusion, Lossless, Bounded
<1>6. ASSUME NEW w \in Writers, Return(w)
      PROVE  FramerInv'
  <2>1. /\ pc[w] = "dispatch"
        /\ pc' = [pc EXCEPT ![w] = "idle"]
        /\ UNCHANGED <<buf, chunk, frames, out, stream, echo, lines,
                       resets>>
    BY <1>6 DEF Return, ghosts
  <2>2. TypeOK'
    BY <2>1 DEF TypeOK
  <2>3. \A v \in Writers : pc'[v] = "split" <=> pc[v] = "split"
    BY <2>1 DEF TypeOK
  <2> QED
    BY <2>1, <2>2, <2>3 DEF MutualExclusion, Lossless, LinesAreLines, Bounded
<1>7. CASE UNCHANGED vars
  BY <1>7 DEF vars, TypeOK, MutualExclusion, Lossless, LinesAreLines, Bounded
<1> QED  BY <1>1, <1>2, <1>3, <1>4, <1>5, <1>6, <1>7 DEF Next, Step

\* The framer's invariant holds in every reachable state.
THEOREM FramerInvariance == Spec => []FramerInv
<1> QED  BY InitFramerInv, NextFramerInv, PTL DEF Spec

\* Between two resets the lines cut and the rest in the buffer are exactly
\* the bytes received, in their order.
THEOREM LosslessFraming == Spec => []Lossless
<1>1. FramerInv => Lossless
  BY DEF FramerInv
<1> QED  BY <1>1, FramerInvariance, PTL

\* No line contains a newline and no complete line waits in the buffer
\* between two calls.
THEOREM LineFraming == Spec => []LinesAreLines
<1>1. FramerInv => LinesAreLines
  BY DEF FramerInv
<1> QED  BY <1>1, FramerInvariance, PTL

-----------------------------------------------------------------------------
(* Every line is dispatched once.                                          *)

LEMMA HeldFacts ==
    ASSUME NEW set, NEW w \in Writers
    PROVE  \A p : p \in Held(w, set) <=>
                     \E i \in 1..Len(frames[w]) :
                        p = <<w, i>> /\ frames[w][i] \in set
BY DEF Held

LEMMA WaitingFacts ==
    ASSUME NEW set
    PROVE  /\ \A p \in Waiting(set) :
                 \E w \in Writers : \E i \in 1..Len(frames[w]) : p = <<w, i>>
           /\ \A w \in Writers : \A i :
                 <<w, i>> \in Waiting(set) <=>
                    i \in 1..Len(frames[w]) /\ frames[w][i] \in set
<1>1. \A p : p \in Waiting(set) <=> \E v \in Writers : p \in Held(v, set)
  BY DEF Waiting
<1>2. \A p \in Waiting(set) :
         \E w \in Writers : \E i \in 1..Len(frames[w]) : p = <<w, i>>
  BY <1>1, HeldFacts
<1>3. ASSUME NEW w \in Writers, NEW i
      PROVE  <<w, i>> \in Waiting(set) <=>
                i \in 1..Len(frames[w]) /\ frames[w][i] \in set
  <2>1. \A v, j : <<w, i>> = <<v, j>> => v = w /\ j = i
    OBVIOUS
  <2>2. <<w, i>> \in Waiting(set) <=> <<w, i>> \in Held(w, set)
    BY <1>1, <2>1, HeldFacts
  <2> QED  BY <2>1, <2>2, HeldFacts
<1> QED  BY <1>2, <1>3

LEMMA PlacesFinite ==
    ASSUME TypeOK, NEW set
    PROVE  /\ IsFiniteSet(Cut(set)) /\ Cardinality(Cut(set)) \in Nat
           /\ IsFiniteSet(Dispatched(set))
           /\ Cardinality(Dispatched(set)) \in Nat
<1>1. IsFiniteSet(1..Len(lines)) /\ Cut(set) \subseteq 1..Len(lines)
  BY FS_Interval DEF TypeOK, Cut
<1>2. IsFiniteSet(1..Len(out)) /\ Dispatched(set) \subseteq 1..Len(out)
  BY FS_Interval DEF TypeOK, Dispatched
<1> QED  BY <1>1, <1>2, FS_Subset, FS_CardinalityType

\* A line that is cut.
LEMMA CutOneMore ==
    ASSUME TypeOK, NEW set, NEW line \in Seq(Bytes),
           lines' = Append(lines, line)
    PROVE  Cardinality(Cut(set)') =
             Cardinality(Cut(set)) + IF line \in set THEN 1 ELSE 0
<1>1. /\ Len(lines) \in Nat
      /\ Len(lines') = Len(lines) + 1
      /\ \A i \in 1..(Len(lines) + 1) :
            lines'[i] = IF i <= Len(lines) THEN lines[i] ELSE line
  BY DEF TypeOK
<1>2. IsFiniteSet(Cut(set)) /\ Cardinality(Cut(set)) \in Nat
  BY PlacesFinite
<1>3. Len(lines) + 1 \notin Cut(set)
  BY <1>1 DEF Cut
<1>4. CASE line \in set
  <2>1. Cut(set)' = Cut(set) \cup {Len(lines) + 1}
    BY <1>1, <1>4 DEF Cut
  <2> QED  BY <1>2, <1>3, <1>4, <2>1, FS_AddElement
<1>5. CASE line \notin set
  <2>1. Cut(set)' = Cut(set)
    BY <1>1, <1>5 DEF Cut
  <2> QED  BY <1>2, <1>5, <2>1
<1> QED  BY <1>4, <1>5

\* A line that is dispatched.
LEMMA DispatchedOneMore ==
    ASSUME TypeOK, NEW set, NEW f \in [line : Seq(Bytes), ok : BOOLEAN],
           out' = Append(out, f)
    PROVE  Cardinality(Dispatched(set)') =
             Cardinality(Dispatched(set)) + IF f.line \in set THEN 1 ELSE 0
<1>1. /\ Len(out) \in Nat
      /\ Len(out') = Len(out) + 1
      /\ \A i \in 1..(Len(out) + 1) :
            out'[i] = IF i <= Len(out) THEN out[i] ELSE f
  BY DEF TypeOK
<1>2. IsFiniteSet(Dispatched(set)) /\ Cardinality(Dispatched(set)) \in Nat
  BY PlacesFinite
<1>3. Len(out) + 1 \notin Dispatched(set)
  BY <1>1 DEF Dispatched
<1>4. CASE f.line \in set
  <2>1. Dispatched(set)' = Dispatched(set) \cup {Len(out) + 1}
    BY <1>1, <1>4 DEF Dispatched
  <2> QED  BY <1>2, <1>3, <1>4, <2>1, FS_AddElement
<1>5. CASE f.line \notin set
  <2>1. Dispatched(set)' = Dispatched(set)
    BY <1>1, <1>5 DEF Dispatched
  <2> QED  BY <1>2, <1>5, <2>1
<1> QED  BY <1>4, <1>5

\* A line that joins those of a call.
LEMMA WaitingOneMore ==
    ASSUME TypeOK, NEW set, NEW w \in Writers, NEW line \in Seq(Bytes),
           IsFiniteSet(Waiting(set)),
           frames' = [frames EXCEPT ![w] = Append(@, line)]
    PROVE  /\ IsFiniteSet(Waiting(set)')
           /\ Cardinality(Waiting(set)') =
                Cardinality(Waiting(set)) + IF line \in set THEN 1 ELSE 0
<1> DEFINE p == <<w, Len(frames[w]) + 1>>
<1>1. /\ Len(frames[w]) \in Nat
      /\ Len(frames'[w]) = Len(frames[w]) + 1
      /\ \A i \in 1..(Len(frames[w]) + 1) :
            frames'[w][i] = IF i <= Len(frames[w]) THEN frames[w][i] ELSE line
      /\ \A v \in Writers \ {w} : frames'[v] = frames[v]
  BY DEF TypeOK
<1>2. p \notin Waiting(set)
  BY <1>1, WaitingFacts
<1>3. \A v \in Writers : \A i :
         /\ <<v, i>> \in Waiting(set) <=>
               i \in 1..Len(frames[v]) /\ frames[v][i] \in set
         /\ <<v, i>> \in Waiting(set)' <=>
               i \in 1..Len(frames'[v]) /\ frames'[v][i] \in set
  BY WaitingFacts DEF Waiting, Held
<1>4. \A q \in Waiting(set)' :
         \E v \in Writers : \E i \in 1..Len(frames'[v]) : q = <<v, i>>
  BY DEF Waiting, Held
<1>5. CASE line \in set
  <2>1. ASSUME NEW q
        PROVE  q \in Waiting(set)' <=> q \in Waiting(set) \/ q = p
    <3>1. ASSUME NEW v \in Writers, NEW i, q = <<v, i>>
          PROVE  q \in Waiting(set)' <=> q \in Waiting(set) \/ q = p
      <4>1. CASE v = w
        <5>1. /\ q \in Waiting(set) <=>
                    i \in 1..Len(frames[w]) /\ frames[w][i] \in set
              /\ q \in Waiting(set)' <=>
                    i \in 1..Len(frames'[w]) /\ frames'[w][i] \in set
          BY <1>3, <3>1, <4>1
        <5>2. q = p <=> i = Len(frames[w]) + 1
          BY <3>1, <4>1
        <5> QED  BY <1>1, <1>5, <5>1, <5>2
      <4>2. CASE v # w
        BY <1>1, <1>3, <3>1, <4>2
      <4> QED  BY <4>1, <4>2
    <3>2. CASE ~\E v \in Writers : \E i : q = <<v, i>>
      BY <1>4, <3>2, WaitingFacts
    <3> QED  BY <3>1, <3>2
  <2>2. Waiting(set)' = Waiting(set) \cup {p}
    BY <2>1
  <2> QED  BY <1>2, <1>5, <2>2, FS_AddElement
<1>6. CASE line \notin set
  <2>1. ASSUME NEW q
        PROVE  q \in Waiting(set)' <=> q \in Waiting(set)
    <3>1. ASSUME NEW v \in Writers, NEW i, q = <<v, i>>
          PROVE  q \in Waiting(set)' <=> q \in Waiting(set)
      <4>1. CASE v = w
        BY <1>1, <1>3, <1>6, <3>1, <4>1
      <4>2. CASE v # w
        BY <1>1, <1>3, <3>1, <4>2
      <4> QED  BY <4>1, <4>2
    <3>2. CASE ~\E v \in Writers : \E i : q = <<v, i>>
      BY <1>4, <3>2, WaitingFacts
    <3> QED  BY <3>1, <3>2
  <2>2. Waiting(set)' = Waiting(set)
    BY <2>1
  <2> QED  BY <1>6, <2>2, FS_CardinalityType
<1> QED  BY <1>5, <1>6

\* The first line leaves a call, and the others move up.
LEMMA WaitingOneLess ==
    ASSUME TypeOK, NEW set, NEW w \in Writers, frames[w] # <<>>,
           IsFiniteSet(Waiting(set)),
           frames' = [frames EXCEPT ![w] = Tail(@)]
    PROVE  /\ IsFiniteSet(Waiting(set)')
           /\ Cardinality(Waiting(set)) =
                Cardinality(Waiting(set)')
                  + IF Head(frames[w]) \in set THEN 1 ELSE 0
<1> DEFINE first == <<w, 1>>
           old == Waiting(set) \ {first}
           new == Waiting(set)'
           f == [p \in old |-> IF p[1] = w THEN <<w, p[2] - 1>> ELSE p]
<1>1. /\ Len(frames[w]) \in Nat \ {0}
      /\ Head(frames[w]) = frames[w][1]
      /\ Len(frames'[w]) = Len(frames[w]) - 1
      /\ \A i \in 1..Len(frames'[w]) : frames'[w][i] = frames[w][i + 1]
      /\ \A v \in Writers \ {w} : frames'[v] = frames[v]
  BY DEF TypeOK
<1>2. \A v \in Writers : \A i :
         /\ <<v, i>> \in Waiting(set) <=>
               i \in 1..Len(frames[v]) /\ frames[v][i] \in set
         /\ <<v, i>> \in new <=>
               i \in 1..Len(frames'[v]) /\ frames'[v][i] \in set
  BY WaitingFacts DEF Waiting, Held
<1>3. /\ \A q \in new :
            \E v \in Writers : \E i \in 1..Len(frames'[v]) : q = <<v, i>>
      /\ \A q \in Waiting(set) :
            \E v \in Writers : \E i \in 1..Len(frames[v]) : q = <<v, i>>
  BY WaitingFacts DEF Waiting, Held
<1>4. \A v \in Writers : Len(frames[v]) \in Nat
  BY DEF TypeOK
<1> HIDE DEF new
<1>5. ASSUME NEW p \in old
      PROVE  /\ f[p] \in new
             /\ p = IF f[p][1] = w THEN <<w, f[p][2] + 1>> ELSE f[p]
  <2>0. PICK v \in Writers : \E i \in 1..Len(frames[v]) : p = <<v, i>>
    BY <1>3
  <2>1. PICK i \in 1..Len(frames[v]) : p = <<v, i>>
    BY <2>0
  <2>2. CASE v = w
    <3>1. /\ i \in 1..Len(frames[w]) /\ i # 1
          /\ frames[w][i] \in set
          /\ f[p] = <<w, i - 1>>
      BY <1>2, <2>1, <2>2
    <3>2. i - 1 \in 1..Len(frames'[w]) /\ frames'[w][i - 1] = frames[w][i]
      BY <1>1, <3>1
    <3>3. (i - 1) + 1 = i
      BY <3>1, <1>1
    <3> QED  BY <1>2, <2>1, <2>2, <3>1, <3>2, <3>3
  <2>3. CASE v # w
    BY <1>1, <1>2, <2>1, <2>3
  <2> QED  BY <2>2, <2>3
<1>6. ASSUME NEW q \in new
      PROVE  \E p \in old : f[p] = q
  <2>0. PICK v \in Writers : \E i \in 1..Len(frames'[v]) : q = <<v, i>>
    BY <1>3
  <2>1. PICK i \in 1..Len(frames'[v]) : q = <<v, i>>
    BY <2>0
  <2>2. CASE v = w
    <3>1. /\ i \in 1..Len(frames'[w])
          /\ frames'[w][i] \in set
      BY <1>2, <2>1, <2>2
    <3>2. /\ i + 1 \in 1..Len(frames[w])
          /\ frames[w][i + 1] \in set
          /\ i + 1 # 1
          /\ (i + 1) - 1 = i
      BY <1>1, <3>1
    <3>3. <<w, i + 1>> \in old
      BY <1>2, <3>2
    <3>4. f[<<w, i + 1>>] = <<w, i>>
      BY <3>2, <3>3
    <3> QED  BY <2>1, <2>2, <3>3, <3>4
  <2>3. CASE v # w
    <3>1. q \in old /\ f[q] = q
      BY <1>1, <1>2, <2>1, <2>3
    <3> QED  BY <3>1
  <2> QED  BY <2>2, <2>3
<1>7. ExistsBijection(old, new)
  <2>1. f \in [old -> new]
    BY <1>5
  <2>2. \A a, b \in old : f[a] = f[b] => a = b
    BY <1>5
  <2> HIDE DEF f, old
  <2>3. f \in Bijection(old, new)
    BY <1>6, <2>1, <2>2
    DEF Bijection, Injection, Surjection, IsInjective
  <2> QED  BY <2>3 DEF ExistsBijection
<1>8. /\ IsFiniteSet(old)
      /\ Cardinality(old) = IF first \in Waiting(set)
                            THEN Cardinality(Waiting(set)) - 1
                            ELSE Cardinality(Waiting(set))
  BY FS_RemoveElement
<1>9. IsFiniteSet(new) /\ Cardinality(new) = Cardinality(old)
  BY <1>7, <1>8, FS_Bijection
<1>10. first \in Waiting(set) <=> Head(frames[w]) \in set
  BY <1>1, <1>2
<1>11. Cardinality(Waiting(set)) \in Nat
  BY FS_CardinalityType
<1> HIDE DEF old
<1> QED  BY <1>8, <1>9, <1>10, <1>11 DEF new

\* The parts of DispatchInv that are not about numbers.
FramesIdle ==
    \A w \in Writers : pc[w] \in {"idle", "append"} => frames[w] = <<>>
LinesNonEmpty ==
    /\ \A i \in 1..Len(lines) : lines[i] \in NonEmpty
    /\ \A i \in 1..Len(out) : out[i].line \in NonEmpty

LEMMA DispatchInvParts ==
    DispatchInv <=> /\ FramerInv
                    /\ FramesIdle
                    /\ LinesNonEmpty
                    /\ \A set \in SUBSET NonEmpty : Balanced(set)
BY DEF DispatchInv, FramesIdle, LinesNonEmpty

LEMMA InitDispatchInv == Init => DispatchInv
<1> SUFFICES ASSUME Init
             PROVE  DispatchInv
  OBVIOUS
<1>1. /\ lines = <<>> /\ out = <<>>
      /\ \A w \in Writers : frames[w] = <<>>
  BY DEF Init
<1>2. FramesIdle /\ LinesNonEmpty
  BY <1>1 DEF FramesIdle, LinesNonEmpty
<1>3. ASSUME NEW set \in SUBSET NonEmpty
      PROVE  Balanced(set)
  <2>1. Waiting(set) = {}
    BY <1>1, WaitingFacts
  <2>2. Cut(set) = {} /\ Dispatched(set) = {}
    BY <1>1 DEF Cut, Dispatched
  <2> QED  BY <2>1, <2>2, FS_EmptySet DEF Balanced
<1> QED  BY <1>2, <1>3, InitFramerInv, DispatchInvParts

\* Where no line moves, nothing is out of balance.
LEMMA BalanceKept ==
    ASSUME NEW set, Balanced(set), UNCHANGED <<lines, out, frames>>
    PROVE  Balanced(set)'
BY DEF Balanced, Cut, Dispatched, Waiting, Held

LEMMA CutLineDispatch ==
    ASSUME DispatchInv, NEW w \in Writers, CutLine(w)
    PROVE  /\ FramesIdle'
           /\ LinesNonEmpty'
           /\ \A set \in SUBSET NonEmpty : Balanced(set)'
<1> USE DispatchInvParts DEF FramerInv
<1>1. PICK i \in 1..Len(buf) :
         LET line == SubSeq(buf, 1, i - 1)
         IN  /\ frames' = [frames EXCEPT ![w] = Append(@, line)]
             /\ lines' = IF line = <<>> THEN lines ELSE Append(lines, line)
  BY DEF CutLine
<1>2. PICK line \in Seq(Bytes) :
         /\ frames' = [frames EXCEPT ![w] = Append(@, line)]
         /\ lines' = IF line = <<>> THEN lines ELSE Append(lines, line)
  <2>1. SubSeq(buf, 1, i - 1) \in Seq(Bytes)
    BY CutBuffer DEF TypeOK
  <2> QED  BY <1>1, <2>1
<1>3. pc[w] = "split" /\ pc' = pc /\ out' = out
  BY DEF CutLine
<1>4. FramesIdle'
  BY <1>2, <1>3 DEF FramesIdle, TypeOK
<1>5. LinesNonEmpty'
  <2>1. CASE line = <<>>
    BY <1>2, <1>3, <2>1 DEF LinesNonEmpty
  <2>2. CASE line # <<>>
    <3>1. lines' = Append(lines, line) /\ line \in NonEmpty
      BY <1>2, <2>2 DEF NonEmpty
    <3>2. \A j \in 1..Len(lines') : lines'[j] \in NonEmpty
      BY <3>1 DEF LinesNonEmpty, TypeOK
    <3> QED  BY <1>3, <3>2 DEF LinesNonEmpty
  <2> QED  BY <2>1, <2>2
<1>6. ASSUME NEW set \in SUBSET NonEmpty
      PROVE  Balanced(set)'
  <2>1. /\ IsFiniteSet(Waiting(set))
        /\ Cardinality(Cut(set))
             = Cardinality(Dispatched(set)) + Cardinality(Waiting(set))
    BY DEF Balanced
  <2>2. /\ IsFiniteSet(Waiting(set)')
        /\ Cardinality(Waiting(set)') =
             Cardinality(Waiting(set)) + IF line \in set THEN 1 ELSE 0
    BY <1>2, <2>1, WaitingOneMore
  <2>3. Dispatched(set)' = Dispatched(set)
    BY <1>3 DEF Dispatched
  <2>4. Cardinality(Cut(set)') =
          Cardinality(Cut(set)) + IF line \in set THEN 1 ELSE 0
    <3>1. CASE line = <<>>
      <4>1. Cut(set)' = Cut(set) /\ line \notin set
        BY <1>2, <3>1 DEF Cut, NonEmpty
      <4> QED  BY <4>1, PlacesFinite
    <3>2. CASE line # <<>>
      BY <1>2, <3>2, CutOneMore
    <3> QED  BY <3>1, <3>2
  <2>5. /\ Cardinality(Waiting(set)) \in Nat
        /\ Cardinality(Dispatched(set)) \in Nat
    BY <2>1, PlacesFinite, FS_CardinalityType
  <2> QED  BY <2>1, <2>2, <2>3, <2>4, <2>5 DEF Balanced
<1> QED  BY <1>4, <1>5, <1>6

LEMMA DispatchDispatch ==
    ASSUME DispatchInv, NEW w \in Writers, Dispatch(w)
    PROVE  /\ FramesIdle'
           /\ LinesNonEmpty'
           /\ \A set \in SUBSET NonEmpty : Balanced(set)'
<1> USE DispatchInvParts DEF FramerInv
<1> DEFINE raw == Head(frames[w])
           frame == [line |-> raw, ok |-> raw \in Packets]
<1>1. /\ pc[w] = "dispatch"
      /\ frames[w] # <<>>
      /\ out' = IF raw = <<>> THEN out ELSE Append(out, frame)
      /\ frames' = [frames EXCEPT ![w] = Tail(@)]
      /\ pc' = pc /\ lines' = lines
  BY DEF Dispatch, ghosts
<1>2. raw \in Seq(Bytes)
  BY <1>1 DEF TypeOK
<1>3. frame \in [line : Seq(Bytes), ok : BOOLEAN] /\ frame.line = raw
  BY <1>2
<1> HIDE DEF frame
<1>4. FramesIdle'
  BY <1>1 DEF FramesIdle, TypeOK
<1>5. LinesNonEmpty'
  <2>1. CASE raw = <<>>
    BY <1>1, <2>1 DEF LinesNonEmpty
  <2>2. CASE raw # <<>>
    <3>1. out' = Append(out, frame) /\ raw \in NonEmpty
      BY <1>1, <1>2, <2>2 DEF NonEmpty
    <3>2. /\ Len(out) \in Nat
          /\ Len(out') = Len(out) + 1
          /\ \A j \in 1..(Len(out) + 1) :
                out'[j] = IF j <= Len(out) THEN out[j] ELSE frame
      BY <3>1 DEF TypeOK
    <3>3. \A j \in 1..Len(out') : out'[j].line \in NonEmpty
      BY <1>3, <3>1, <3>2 DEF LinesNonEmpty
    <3> QED  BY <1>1, <3>3 DEF LinesNonEmpty
  <2> QED  BY <2>1, <2>2
<1>6. ASSUME NEW set \in SUBSET NonEmpty
      PROVE  Balanced(set)'
  <2>1. /\ IsFiniteSet(Waiting(set))
        /\ Cardinality(Cut(set))
             = Cardinality(Dispatched(set)) + Cardinality(Waiting(set))
    BY DEF Balanced
  <2>2. /\ IsFiniteSet(Waiting(set)')
        /\ Cardinality(Waiting(set)) =
             Cardinality(Waiting(set)') + IF raw \in set THEN 1 ELSE 0
    BY <1>1, <2>1, WaitingOneLess
  <2>3. Cut(set)' = Cut(set)
    BY <1>1 DEF Cut
  <2>4. Cardinality(Dispatched(set)') =
          Cardinality(Dispatched(set)) + IF raw \in set THEN 1 ELSE 0
    <3>1. CASE raw = <<>>
      <4>1. Dispatched(set)' = Dispatched(set) /\ raw \notin set
        BY <1>1, <3>1 DEF Dispatched, NonEmpty
      <4> QED  BY <4>1, PlacesFinite
    <3>2. CASE raw # <<>>
      <4>1. out' = Append(out, frame)
        BY <1>1, <3>2
      <4>2. Cardinality(Dispatched(set)') =
              Cardinality(Dispatched(set))
                + IF frame.line \in set THEN 1 ELSE 0
        BY <1>3, <4>1, DispatchedOneMore
      <4> QED  BY <1>3, <4>2
    <3> QED  BY <3>1, <3>2
  <2>5. /\ Cardinality(Waiting(set)') \in Nat
        /\ Cardinality(Dispatched(set)) \in Nat
    BY <2>2, PlacesFinite, FS_CardinalityType
  <2> QED  BY <2>1, <2>2, <2>3, <2>4, <2>5 DEF Balanced
<1> QED  BY <1>4, <1>5, <1>6

LEMMA NextDispatchInv == DispatchInv /\ [Next]_vars => DispatchInv'
<1> SUFFICES ASSUME DispatchInv, [Next]_vars
             PROVE  /\ FramesIdle'
                    /\ LinesNonEmpty'
                    /\ \A set \in SUBSET NonEmpty : Balanced(set)'
  BY NextFramerInv, DispatchInvParts DEF DispatchInv, FramesIdle, LinesNonEmpty
<1> USE DispatchInvParts DEF FramerInv
<1>1. ASSUME UNCHANGED <<lines, out, frames>>, FramesIdle'
      PROVE  /\ LinesNonEmpty'
             /\ \A set \in SUBSET NonEmpty : Balanced(set)'
  BY <1>1, BalanceKept DEF LinesNonEmpty
<1>2. ASSUME NEW w \in Writers, Arrive(w)
      PROVE  UNCHANGED <<lines, out, frames>> /\ FramesIdle'
  BY <1>2 DEF Arrive, Call, ghosts, FramesIdle, TypeOK
<1>3. ASSUME NEW w \in Writers, AppendChunk(w)
      PROVE  UNCHANGED <<lines, out, frames>> /\ FramesIdle'
  BY <1>3 DEF AppendChunk, FramesIdle, TypeOK
<1>4. ASSUME NEW w \in Writers, Release(w)
      PROVE  UNCHANGED <<lines, out, frames>> /\ FramesIdle'
  BY <1>4 DEF Release, ghosts, FramesIdle, TypeOK
<1>5. ASSUME NEW w \in Writers, Return(w)
      PROVE  UNCHANGED <<lines, out, frames>> /\ FramesIdle'
  BY <1>5 DEF Return, ghosts, FramesIdle, TypeOK
<1>6. CASE UNCHANGED vars
  BY <1>1, <1>6 DEF vars, FramesIdle
<1>7. ASSUME NEW w \in Writers, Step(w)
      PROVE  /\ FramesIdle'
             /\ LinesNonEmpty'
             /\ \A set \in SUBSET NonEmpty : Balanced(set)'
  BY <1>1, <1>3, <1>4, <1>5, <1>7, CutLineDispatch, DispatchDispatch DEF Step
<1> QED  BY <1>1, <1>2, <1>6, <1>7 DEF Next

\* No line is lost or doubled between the mutex and the dispatch, at any moment
\* and however calls overlap.
THEOREM DispatchInvariance == Spec => []DispatchInv
<1> QED  BY InitDispatchInv, NextDispatchInv, PTL DEF Spec

\* When no call is running, every line cut was dispatched, and exactly once.
THEOREM EveryLineOnce == Spec => []DispatchedOnce
<1>1. ASSUME DispatchInv
      PROVE  DispatchedOnce
  <2> SUFFICES ASSUME \A w \in Writers : pc[w] = "idle"
               PROVE  /\ Len(out) = Len(lines)
                      /\ \A i \in 1..Len(lines) :
                            Cardinality(Cut({lines[i]}))
                              = Cardinality(Dispatched({lines[i]}))
    BY DEF DispatchedOnce
  <2>1. TypeOK /\ FramesIdle /\ LinesNonEmpty
    BY <1>1, DispatchInvParts DEF FramerInv
  <2>2. ASSUME NEW set \in SUBSET NonEmpty
        PROVE  Cardinality(Cut(set)) = Cardinality(Dispatched(set))
    <3>1. Waiting(set) = {}
      BY <2>1, WaitingFacts DEF FramesIdle
    <3>2. Cardinality(Waiting(set)) = 0
      BY <3>1, FS_EmptySet
    <3> QED  BY <1>1, <2>1, <3>2, PlacesFinite DEF DispatchInv, Balanced
  <2>3. Len(out) = Len(lines)
    <3>1. Cut(NonEmpty) = 1..Len(lines) /\ Dispatched(NonEmpty) = 1..Len(out)
      BY <2>1 DEF LinesNonEmpty, Cut, Dispatched
    <3>2. Len(lines) \in Nat /\ Len(out) \in Nat
      BY <2>1 DEF TypeOK
    <3>3. \A n \in Nat : Cardinality(1..n) = n
      BY FS_Interval
    <3>4. /\ Cardinality(1..Len(lines)) = Len(lines)
          /\ Cardinality(1..Len(out)) = Len(out)
      BY <3>2, <3>3
    <3> QED  BY <2>2, <3>1, <3>4
  <2> QED  BY <2>1, <2>2, <2>3 DEF LinesNonEmpty
<1> QED  BY <1>1, DispatchInvariance, PTL

-----------------------------------------------------------------------------
(* The inductive invariant of sessions.                                    *)

\* Received and not yet cut into lines: the buffer, and the chunk that a call
\* is about to append.
Input ==
    LET calls == {w \in Writers : pc[w] = "append"}
    IN  IF calls = {} THEN buf ELSE buf \o chunk[CHOOSE w \in calls : TRUE]

\* A byte of a message, at most the n-th of the wire; of the messages in gone
\* the last byte was never written.
Written(b, n, gone) ==
    \E m \in Messages : \E k \in 1..Size[m] :
        /\ b = <<m, k>>
        /\ End[m - 1] + k <= n
        /\ k = Size[m] => m \notin gone

\* All the messages in q are before all of those in r.
Before(q, r) ==
    \A x \in 1..Len(q), y \in 1..Len(r) :
        q[x] # NL /\ r[y] # NL => q[x][1] < r[y][1]

\* A byte of a message that is over, and a line of such bytes.
Over(b, n) == b # NL /\ b[1] \in Messages /\ End[b[1]] <= n
Settled(q, n) == \A x \in 1..Len(q) : Over(q[x], n)

\* When a newline comes the messages before it are over, and others follow.
Separated(q, n) ==
    \A x, z \in 1..Len(q) :
        (x < z /\ q[x] # NL /\ q[z] = NL) =>
            /\ Over(q[x], n)
            /\ \A y \in 1..Len(q) :
                  z < y /\ q[y] # NL => q[x][1] < q[y][1]

Starts(b) == b = NL \/ b[2] = 1
Ends(b, cut) == b = NL \/ b[1] \in cut
Final(q) == q[Len(q)]

\* c comes right after b: it does on the wire, or a message was cut short.
Joins(b, c, cut) ==
    \/ Starts(c) /\ Ends(b, cut)
    \/ b # NL /\ c = IF b[2] = Size[b[1]] THEN NL ELSE <<b[1], b[2] + 1>>

\* A line begins with a message, or with what a reset left of one.
Begins(b, rs) ==
    Starts(b) \/ \E r \in 1..Len(rs) : Final(rs[r]) = <<b[1], b[2] - 1>>

Joined(q, cut) == \A x \in 1..(Len(q) - 1) : Joins(q[x], q[x + 1], cut)

\* What a disconnect makes impossible to write.
Gone == broken \ unended

AtEnd == \E m \in 0..Len(Size) : at = End[m]

SessionTypeOK ==
    /\ at \in 0..End[Len(Size)]
    /\ broken \subseteq {m \in Messages : End[m] <= at}
    /\ unended \subseteq broken
    /\ overlap \in BOOLEAN
    /\ mixed \in BOOLEAN

\* The calls that have not appended their chunk, and those that run.
Single ==
    /\ mixed => overlap
    /\ ~mixed =>
          \A v, w \in Writers : pc[v] = "append" /\ pc[w] = "append" => v = w
    /\ ~overlap =>
          \A v, w \in Writers : pc[v] # "idle" /\ pc[w] # "idle" => v = w

\* The lines and the input hold what was written, message after message.
LinesInOrder ==
    ~mixed =>
        /\ \A x \in 1..Len(Input) :
              Input[x] # NL => Written(Input[x], at, Gone)
        /\ Separated(Input, at)
        /\ \A i \in 1..Len(lines) :
              /\ \A x \in 1..Len(lines[i]) : Written(lines[i][x], at, Gone)
              /\ Settled(lines[i], at)
              /\ Before(lines[i], Input)
              /\ \A j \in 1..Len(lines) : i < j => Before(lines[i], lines[j])

\* Unless calls overlap lines are dispatched in that order, too.
DispatchInOrder ==
    ~overlap =>
        /\ \A w \in Writers : \A i \in 1..Len(frames[w]) :
              /\ Settled(frames[w][i], at)
              /\ Before(frames[w][i], Input)
              /\ \A j \in 1..Len(frames[w]) :
                    i < j => Before(frames[w][i], frames[w][j])
        /\ \A i \in 1..Len(out) :
              /\ Settled(out[i].line, at)
              /\ Before(out[i].line, Input)
              /\ \A j \in 1..Len(out) : i < j => Before(out[i].line, out[j].line)
              /\ \A w \in Writers : \A j \in 1..Len(frames[w]) :
                    Before(out[i].line, frames[w][j])

\* Nothing is missing inside a line, but for disconnects.
Contiguous ==
    ~mixed =>
        /\ Joined(Input, broken)
        /\ Input # <<>> => Begins(Input[1], resets)
        /\ \A i \in 1..Len(lines) :
              /\ Joined(lines[i], broken)
              /\ Begins(lines[i][1], resets)
              /\ Joins(Final(lines[i]), NL, broken)

\* What the next chunk comes after.
UpToDate ==
    ~mixed =>
        \/ at > 0 /\ Input # <<>> /\ Final(Input) = Wire[at]
        \/ AtEnd /\ (Input # <<>> => Ends(Final(Input), broken))
        \/ /\ at > 0 /\ Input = <<>>
           /\ \E r \in 1..Len(resets) : Final(resets[r]) = Wire[at]

\* Without resets, whole messages are in a line or will be.
Received ==
    ~mixed /\ resets = <<>> =>
        \A m \in Whole :
            \/ \E i \in 1..Len(lines) : Final(lines[i]) = <<m, Size[m]>>
            \/ \E x \in 1..(Len(Input) - 1) :
                  Input[x] = <<m, Size[m]>> /\ Input[x + 1] = NL

Decoded == \A i \in 1..Len(out) : out[i].ok <=> out[i].line \in Packets

SessionInv ==
    /\ DispatchInv
    /\ SessionTypeOK
    /\ Single
    /\ LinesInOrder
    /\ DispatchInOrder
    /\ Contiguous
    /\ UpToDate
    /\ Received
    /\ Decoded

-----------------------------------------------------------------------------
(* Sessions.                                                               *)

LEMMA SessionInitFramer == SessionInit => Init /\ at \in Nat
BY DEF SessionInit

\* A step of a session is a call of the handler with a piece of the wire, a
\* step of a call, or of no concern to the framer.
LEMMA SessionNextFramer ==
    ASSUME at \in Nat, [SessionNext]_<<vars, session>>
    PROVE  [Next]_vars /\ at' \in Nat
<1>1. ASSUME NEW w \in Writers, Send(w)
      PROVE  Arrive(w) /\ at' \in Nat
  <2>1. PICK n \in 1..MTU :
          /\ at + n <= Len(Wire)
          /\ Call(w, SubSeq(Wire, at + 1, at + n))
          /\ at' = at + n
    BY <1>1 DEF Send
  <2>2. Len(Wire) \in Nat /\ n \in Nat /\ 1 <= n /\ n <= MTU
    BY WireAssumption
  <2>3. /\ at + 1 \in 1..Len(Wire)
        /\ at + n \in 1..Len(Wire)
        /\ (at + n) - (at + 1) < MTU
    BY <2>1, <2>2, WireAssumption
  <2>4. SubSeq(Wire, at + 1, at + n) \in Chunks
    BY <2>3, WireAssumption
  <2> QED  BY <2>1, <2>2, <2>4 DEF Arrive
<1>2. CASE Disconnect
  BY <1>2, SizeAssumption DEF Disconnect
<1>3. ASSUME NEW w \in Writers, Step(w), UNCHANGED session
      PROVE  at' \in Nat
  BY <1>3 DEF session
<1>4. CASE UNCHANGED <<vars, session>>
  BY <1>4 DEF session
<1> QED  BY <1>1, <1>2, <1>3, <1>4 DEF SessionNext, Next

\* Every session is a behaviour of the framer under calls with any chunks.
THEOREM SessionImplementsFramer == SessionSpec => Spec
<1>1. SessionInit => at \in Nat
  BY SessionInitFramer
<1>2. at \in Nat /\ [SessionNext]_<<vars, session>> => (at \in Nat)'
  BY SessionNextFramer
<1>3. at \in Nat /\ [SessionNext]_<<vars, session>> => [Next]_vars
  BY SessionNextFramer
<1>4. SessionInit => Init
  BY SessionInitFramer
<1> QED  BY <1>1, <1>2, <1>3, <1>4, PTL DEF Spec, SessionSpec

\* However centrals cut their messages into chunks, and wherever they
\* disconnect, the framer loses and reorders nothing, holds no complete line
\* between two calls, and never holds more than the limit.
THEOREM SessionFraming == SessionSpec => []FramerInv
BY SessionImplementsFramer, FramerInvariance, PTL

\* Whatever the centrals write, and however their calls overlap, each line they
\* complete is dispatched once.
THEOREM SessionDispatch == SessionSpec => []DispatchedOnce
BY SessionImplementsFramer, EveryLineOnce, PTL

-----------------------------------------------------------------------------
(* The wire.                                                               *)

\* Of the natural numbers in a set one is the least.
LEMMA Least ==
    ASSUME NEW T \in SUBSET Nat, T # {}
    PROVE  \E n \in T : \A m \in T : n <= m
<1>1. IsWellFoundedOn(OpToRel(<, Nat), Nat)
  BY NatLessThanWellFounded
<1>2. PICK n \in T : \A m \in T : ~(<<m, n>> \in OpToRel(<, Nat))
  BY <1>1, WFMin
<1>3. ASSUME NEW m \in T PROVE ~(m < n)
  <2>1. m \in Nat /\ n \in Nat /\ (m < n => <<m, n>> \in OpToRel(<, Nat))
    BY DEF OpToRel
  <2> QED  BY <1>2, <2>1
<1> QED  BY <1>3

\* Where the first n messages end.
Sums(f, n) ==
    f = [m \in 0..n |-> IF m = 0 THEN 0 ELSE f[m - 1] + Size[m] + 1]

LEMMA EndsExist == \A n \in 0..Len(Size) : \E f : Sums(f, n)
<1>0. Len(Size) \in Nat
  BY SizeAssumption
<1> DEFINE T == {n \in 0..Len(Size) : ~\E f : Sums(f, n)}
<1>1. T \in SUBSET Nat
  BY <1>0
<1>2. SUFFICES ASSUME T # {} PROVE FALSE
  OBVIOUS
<1>3. PICK n \in T : \A m \in T : n <= m
  <2> HIDE DEF T
  <2> QED  BY <1>1, <1>2, Least
<1>4. n # 0
  <2> DEFINE z == [m \in 0..0 |-> 0]
  <2>1. Sums(z, 0)
    BY DEF Sums
  <2> QED  BY <2>1
<1>5. n - 1 \in 0..Len(Size) /\ n \in 1..Len(Size) /\ n - 1 \notin T
  BY <1>0, <1>3, <1>4
<1>6. PICK f : Sums(f, n - 1)
  BY <1>5
<1> DEFINE g == [m \in 0..n |->
                    IF m = n THEN f[n - 1] + Size[n] + 1 ELSE f[m]]
<1>7. Sums(g, n)
  <2>1. ASSUME NEW m \in 0..n
        PROVE  g[m] = IF m = 0 THEN 0 ELSE g[m - 1] + Size[m] + 1
    <3>1. CASE m = n
      BY <1>0, <1>5, <3>1
    <3>2. CASE m # n
      <4>1. m \in 0..(n - 1) /\ (m # 0 => m - 1 \in 0..(n - 1))
        BY <1>0, <1>5, <3>2
      <4>2. f[m] = IF m = 0 THEN 0 ELSE f[m - 1] + Size[m] + 1
        BY <1>6, <4>1 DEF Sums
      <4> QED  BY <1>0, <1>5, <4>1, <4>2, <3>2
    <3> QED  BY <3>1, <3>2
  <2> QED  BY <2>1 DEF Sums
<1> QED  BY <1>3, <1>7

\* Where the messages end on the wire.
LEMMA EndFacts ==
    /\ Len(Size) \in Nat
    /\ End[0] = 0
    /\ \A m \in 1..Len(Size) :
          /\ Size[m] \in Nat
          /\ End[m - 1] \in Nat
          /\ End[m] \in Nat
          /\ End[m] = End[m - 1] + Size[m] + 1
    /\ End[Len(Size)] \in Nat
<1>1. Len(Size) \in Nat /\ \A m \in 1..Len(Size) : Size[m] \in Nat
  BY SizeAssumption
<1>2. Sums(End, Len(Size))
  <2>1. PICK f : Sums(f, Len(Size))
    BY <1>1, EndsExist
  <2>2. End = CHOOSE g : Sums(g, Len(Size))
    BY DEF End, Sums
  <2> QED  BY <2>1, <2>2
<1>3. /\ End[0] = 0
      /\ \A m \in 1..Len(Size) : End[m] = End[m - 1] + Size[m] + 1
  <2>1. \A m \in 0..Len(Size) :
           End[m] = IF m = 0 THEN 0 ELSE End[m - 1] + Size[m] + 1
    BY <1>2 DEF Sums
  <2> QED  BY <1>1, <2>1
<1>4. \A m \in 0..Len(Size) : End[m] \in Nat
  <2> DEFINE T == {m \in 0..Len(Size) : End[m] \notin Nat}
  <2>1. T \in SUBSET Nat
    BY <1>1
  <2>2. SUFFICES ASSUME T # {} PROVE FALSE
    OBVIOUS
  <2>3. PICK m \in T : \A l \in T : m <= l
    <3> HIDE DEF T
    <3> QED  BY <2>1, <2>2, Least
  <2>4. m \in 1..Len(Size) /\ m - 1 \in 0..Len(Size) /\ m - 1 \notin T
    BY <1>1, <1>3, <2>3
  <2> QED  BY <1>1, <1>3, <2>3, <2>4
<1> QED  BY <1>1, <1>3, <1>4

LEMMA EndIncreasing ==
    ASSUME NEW m \in 0..Len(Size), NEW l \in 0..Len(Size), m < l
    PROVE  End[m] < End[l]
<1>1. Len(Size) \in Nat
  BY EndFacts
<1> DEFINE T == {k \in (m + 1)..Len(Size) : ~(End[m] < End[k])}
<1>2. T \in SUBSET Nat
  BY <1>1
<1>3. SUFFICES ASSUME T # {} PROVE FALSE
  BY <1>1
<1>4. PICK k \in T : \A j \in T : k <= j
  <2> HIDE DEF T
  <2> QED  BY <1>2, <1>3, Least
<1>5. k \in 1..Len(Size) /\ (k - 1 = m \/ k - 1 \in (m + 1)..Len(Size))
  BY <1>1, <1>4
<1>6. /\ End[k] = End[k - 1] + Size[k] + 1
      /\ End[k] \in Nat /\ End[k - 1] \in Nat /\ Size[k] \in Nat
  BY <1>5, EndFacts
<1>7. End[m] \in Nat
  <2>1. m = 0 \/ m \in 1..Len(Size)
    BY <1>1
  <2> QED  BY <2>1, EndFacts
<1>8. k - 1 = m \/ End[m] < End[k - 1]
  BY <1>1, <1>4, <1>5
<1> QED  BY <1>4, <1>6, <1>7, <1>8

LEMMA EndOrder ==
    ASSUME NEW m \in 0..Len(Size), NEW l \in 0..Len(Size)
    PROVE  /\ End[m] \in Nat
           /\ End[m] < End[l] <=> m < l
           /\ End[m] = End[l] <=> m = l
<1>1. \A k \in 0..Len(Size) : End[k] \in Nat
  <2>1. Len(Size) \in Nat /\ End[0] = 0
    BY EndFacts
  <2>2. \A k \in 0..Len(Size) : k = 0 \/ k \in 1..Len(Size)
    BY <2>1
  <2> QED  BY <2>1, <2>2, EndFacts
<1>2. m < l \/ m = l \/ l < m
  BY EndFacts
<1>3. (m < l => End[m] < End[l]) /\ (l < m => End[l] < End[m])
  BY EndIncreasing
<1>4. m \in Int /\ l \in Int
  BY EndFacts
<1> QED  BY <1>1, <1>2, <1>3, <1>4

\* Every place of the wire is in one message.
LEMMA WirePlace ==
    /\ Len(Wire) = End[Len(Size)]
    /\ \A p \in 1..Len(Wire) :
          \E m \in 1..Len(Size) : End[m - 1] < p /\ p <= End[m]
    /\ \A p \in 1..Len(Wire) : \A m \in 1..Len(Size) :
          End[m - 1] < p /\ p <= End[m] =>
             Wire[p] = IF p = End[m] THEN NL ELSE <<m, p - End[m - 1]>>
<1>1. Len(Size) \in Nat /\ End[Len(Size)] \in Nat /\ End[0] = 0
  BY EndFacts
<1> DEFINE At(p, m) == End[m - 1] < p /\ p <= End[m]
           byte(p) == LET m == CHOOSE m \in 1..Len(Size) : At(p, m)
                      IN  IF p = End[m] THEN NL ELSE <<m, p - End[m - 1]>>
<1>2. Wire = [p \in 1..End[Len(Size)] |-> byte(p)]
  BY DEF Wire
<1>3. Len(Wire) = End[Len(Size)]
  <2>1. DOMAIN Wire = 1..End[Len(Size)]
    BY <1>2
  <2> QED  BY <1>1, <2>1, WireAssumption
<1>4. ASSUME NEW p \in 1..Len(Wire)
      PROVE  \E m \in 1..Len(Size) : At(p, m)
  <2> DEFINE T == {m \in 1..Len(Size) : p <= End[m]}
  <2>1. T \in SUBSET Nat
    BY <1>1
  <2>2. Len(Size) \in T
    <3>1. Len(Size) # 0
      BY <1>1, <1>3
    <3> QED  BY <1>1, <1>3, <3>1
  <2>3. PICK m \in T : \A l \in T : m <= l
    <3> HIDE DEF T
    <3> QED  BY <2>1, <2>2, Least
  <2>4. End[m - 1] \in Nat
    BY <2>3, EndFacts
  <2>5. End[m - 1] < p
    <3>1. CASE m = 1
      BY <1>1, <1>3, <3>1
    <3>2. CASE m # 1
      <4>1. m - 1 \in 1..Len(Size) /\ m - 1 \notin T
        BY <1>1, <2>3, <3>2
      <4> QED  BY <1>1, <1>3, <2>4, <4>1
    <3> QED  BY <3>1, <3>2
  <2> QED  BY <2>3, <2>5
<1>5. ASSUME NEW p \in 1..Len(Wire), NEW l \in 1..Len(Size), At(p, l)
      PROVE  Wire[p] = IF p = End[l] THEN NL ELSE <<l, p - End[l - 1]>>
  <2> DEFINE m == CHOOSE m \in 1..Len(Size) : At(p, m)
  <2>1. m \in 1..Len(Size) /\ At(p, m)
    <3> HIDE DEF At
    <3> QED  BY <1>5
  <2>2. Wire[p] = IF p = End[m] THEN NL ELSE <<m, p - End[m - 1]>>
    BY <1>2, <1>3
  <2> HIDE DEF m
  <2>3. m = l
    <3>1. /\ m \in 0..Len(Size) /\ m - 1 \in 0..Len(Size)
          /\ l \in 0..Len(Size) /\ l - 1 \in 0..Len(Size)
      BY <1>1, <2>1
    <3>2. /\ End[m] \in Nat /\ End[m - 1] \in Nat
          /\ End[l] \in Nat /\ End[l - 1] \in Nat
          /\ End[m - 1] < End[l] <=> m - 1 < l
          /\ End[l - 1] < End[m] <=> l - 1 < m
      BY <3>1, EndOrder
    <3>3. p \in Nat
      BY <1>1, <1>3
    <3>4. End[m - 1] < End[l] /\ End[l - 1] < End[m]
      BY <1>5, <2>1, <3>2, <3>3
    <3> QED  BY <1>1, <3>1, <3>2, <3>4
  <2> QED  BY <2>2, <2>3
<1> QED  BY <1>3, <1>4, <1>5

\* The byte of a message, or the newline of one, that is at a place.
LEMMA WireByte ==
    ASSUME NEW p \in 1..Len(Wire)
    PROVE  \/ Wire[p] = NL /\ \E m \in 1..Len(Size) : p = End[m]
           \/ \E m \in Messages : \E k \in 1..Size[m] :
                 /\ Wire[p] = <<m, k>>
                 /\ Wire[p] # NL
                 /\ End[m - 1] + k = p
<1>1. PICK m \in 1..Len(Size) : End[m - 1] < p /\ p <= End[m]
  BY WirePlace
<1>2. /\ Size[m] \in Nat /\ End[m - 1] \in Nat /\ End[m] \in Nat
      /\ End[m] = End[m - 1] + Size[m] + 1
      /\ p \in Nat
  BY EndFacts, WireAssumption
<1>3. Wire[p] = IF p = End[m] THEN NL ELSE <<m, p - End[m - 1]>>
  BY <1>1, WirePlace
<1>4. CASE p = End[m]
  BY <1>3, <1>4
<1>5. CASE p # End[m]
  <2> DEFINE k == p - End[m - 1]
  <2>1. k \in 1..Size[m] /\ End[m - 1] + k = p
    BY <1>1, <1>2, <1>5
  <2>2. m \in Messages
    BY <1>2, <2>1 DEF Messages
  <2>3. Wire[p] = <<m, k>>
    BY <1>3, <1>5
  <2> HIDE DEF k
  <2>4. <<m, k>> # NL
    BY <2>1, <2>2, PacketsAssumption
  <2> QED  BY <2>1, <2>2, <2>3, <2>4
<1> QED  BY <1>4, <1>5

\* What follows the end of a message, and what follows a byte of one.
LEMMA WireNext ==
    ASSUME NEW p \in 1..Len(Wire)
    PROVE  /\ \A m \in 0..Len(Size) : p = End[m] + 1 => Starts(Wire[p])
           /\ \A m \in Messages : \A k \in 1..Size[m] :
                 p = End[m - 1] + k + 1 =>
                    Wire[p] = IF k = Size[m] THEN NL ELSE <<m, k + 1>>
<1>1. p \in Nat
  BY WireAssumption
<1>2. PICK l \in 1..Len(Size) : End[l - 1] < p /\ p <= End[l]
  BY WirePlace
<1>3. Wire[p] = IF p = End[l] THEN NL ELSE <<l, p - End[l - 1]>>
  BY <1>2, WirePlace
<1>4. /\ l \in 0..Len(Size) /\ l - 1 \in 0..Len(Size) /\ Len(Size) \in Nat
      /\ End[l - 1] \in Nat /\ End[l] \in Nat
  BY EndFacts
<1>5. ASSUME NEW m \in 0..Len(Size), p = End[m] + 1
      PROVE  Starts(Wire[p])
  <2>1. /\ End[m] \in Nat
        /\ End[m] < End[l] <=> m < l
        /\ End[m] = End[l - 1] <=> m = l - 1
        /\ End[m] < End[l - 1] <=> m < l - 1
    BY <1>4, EndOrder
  <2>2. End[m] < End[l] /\ ~(End[m] < End[l - 1])
    BY <1>2, <1>4, <1>5, <2>1
  <2>3. End[l - 1] = End[m]
    BY <1>4, <2>1, <2>2
  <2>4. p - End[l - 1] = 1
    BY <1>5, <2>1, <2>3
  <2> QED  BY <1>3, <2>4 DEF Starts
<1>6. ASSUME NEW m \in Messages, NEW k \in 1..Size[m], p = End[m - 1] + k + 1
      PROVE  Wire[p] = IF k = Size[m] THEN NL ELSE <<m, k + 1>>
  <2>1. /\ m \in 1..Len(Size) /\ Size[m] \in Nat /\ k \in Nat /\ k <= Size[m]
        /\ End[m - 1] \in Nat /\ End[m] \in Nat
        /\ End[m] = End[m - 1] + Size[m] + 1
    BY EndFacts DEF Messages
  <2>2. End[m - 1] < p /\ p <= End[m]
    <3>1. \A a, e, i, u, v \in Nat :
             i <= u /\ e = a + u + 1 /\ v = a + i + 1 => a < v /\ v <= e
      OBVIOUS
    <3> QED  BY <1>1, <1>6, <2>1, <3>1
  <2>3. Wire[p] = IF p = End[m] THEN NL ELSE <<m, p - End[m - 1]>>
    BY <2>1, <2>2, WirePlace
  <2>4. p - End[m - 1] = k + 1 /\ (p = End[m] <=> k = Size[m])
    <3>1. \A a, e, i, u, v \in Nat :
             e = a + u + 1 /\ v = a + i + 1 =>
                v - a = i + 1 /\ (v = e <=> i = u)
      OBVIOUS
    <3> QED  BY <1>1, <1>6, <2>1, <3>1
  <2> QED  BY <2>3, <2>4
<1> QED  BY <1>5, <1>6

-----------------------------------------------------------------------------
(* A chunk behind what was received, and a line cut off it.                *)

LEMMA MessageEnds ==
    ASSUME NEW m \in Messages
    PROVE  /\ m \in 1..Len(Size) /\ m \in 0..Len(Size)
           /\ m - 1 \in 0..Len(Size) /\ m \in Nat
           /\ Size[m] \in Nat \ {0}
           /\ End[m - 1] \in Nat /\ End[m] \in Nat
           /\ End[m] = End[m - 1] + Size[m] + 1
           /\ \A k \in 1..Size[m] :
                 /\ k \in Nat
                 /\ End[m - 1] + k \in Nat
                 /\ End[m - 1] + k < End[m]
<1>1. m \in 1..Len(Size) /\ Size[m] > 0 /\ Len(Size) \in Nat
  BY EndFacts DEF Messages
<1>2. /\ Size[m] \in Nat /\ End[m - 1] \in Nat /\ End[m] \in Nat
      /\ End[m] = End[m - 1] + Size[m] + 1
  BY <1>1, EndFacts
<1>3. \A k \in 1..Size[m] : /\ k \in Nat
                            /\ End[m - 1] + k \in Nat
                            /\ End[m - 1] + k < End[m]
  BY <1>2
<1> QED  BY <1>1, <1>2, <1>3

\* What was written stays written, and what is over stays over.
LEMMA Later ==
    ASSUME NEW n \in Nat, NEW n2 \in Nat, n <= n2, NEW gone
    PROVE  /\ \A b : Written(b, n, gone) => Written(b, n2, gone)
           /\ \A b : Over(b, n) => Over(b, n2)
           /\ \A q : Settled(q, n) => Settled(q, n2)
           /\ \A q : Separated(q, n) => Separated(q, n2)
<1>1. ASSUME NEW b, Written(b, n, gone)
      PROVE  Written(b, n2, gone)
  <2>1. PICK m \in Messages : \E k \in 1..Size[m] :
           /\ b = <<m, k>>
           /\ End[m - 1] + k <= n
           /\ k = Size[m] => m \notin gone
    BY <1>1 DEF Written
  <2>2. PICK k \in 1..Size[m] :
           /\ b = <<m, k>>
           /\ End[m - 1] + k <= n
           /\ k = Size[m] => m \notin gone
    BY <2>1
  <2>3. End[m - 1] \in Nat /\ k \in Nat
    BY MessageEnds
  <2>4. End[m - 1] + k <= n2
    BY <2>2, <2>3
  <2> QED  BY <2>2, <2>4 DEF Written
<1>2. ASSUME NEW b, Over(b, n)
      PROVE  Over(b, n2)
  <2>1. b # NL /\ b[1] \in Messages /\ End[b[1]] <= n
    BY <1>2 DEF Over
  <2>2. End[b[1]] \in Nat
    BY <2>1, MessageEnds
  <2>3. End[b[1]] <= n2
    BY <2>1, <2>2
  <2> QED  BY <2>1, <2>3 DEF Over
<1>3. \A q : Settled(q, n) => Settled(q, n2)
  BY <1>2 DEF Settled
<1>4. \A q : Separated(q, n) => Separated(q, n2)
  BY <1>2 DEF Separated
<1> QED  BY <1>1, <1>2, <1>3, <1>4

\* The chunk with the k bytes behind the n-th of the wire.
Chunk(c, n, k) ==
    /\ c \in Seq(Bytes)
    /\ Len(c) = k
    /\ \A y \in 1..k : n + y \in 1..Len(Wire) /\ c[y] = Wire[n + y]
    /\ \A y \in 1..k :
          \/ c[y] = NL /\ \E m \in 1..Len(Size) : n + y = End[m]
          \/ \E m \in Messages : \E j \in 1..Size[m] :
                /\ c[y] = <<m, j>>
                /\ c[y] # NL
                /\ End[m - 1] + j = n + y

LEMMA ChunkBytes ==
    ASSUME NEW n \in Nat, NEW k \in Nat \ {0}, n + k <= Len(Wire)
    PROVE  Chunk(SubSeq(Wire, n + 1, n + k), n, k)
<1>1. Len(Wire) \in Nat /\ Wire \in Seq(Bytes)
  BY WireAssumption
<1> DEFINE c == SubSeq(Wire, n + 1, n + k)
<1>2. /\ c \in Seq(Bytes)
      /\ Len(c) = k
      /\ \A y \in 1..k : n + y \in 1..Len(Wire) /\ c[y] = Wire[n + y]
  BY <1>1
<1> HIDE DEF c
<1>3. ASSUME NEW y \in 1..k
      PROVE  \/ c[y] = NL /\ \E m \in 1..Len(Size) : n + y = End[m]
             \/ \E m \in Messages : \E j \in 1..Size[m] :
                   /\ c[y] = <<m, j>>
                   /\ c[y] # NL
                   /\ End[m - 1] + j = n + y
  <2>1. PICK p \in 1..Len(Wire) : p = n + y /\ c[y] = Wire[p]
    BY <1>2
  <2> QED  BY <2>1, WireByte
<1>4. Chunk(c, n, k)
  BY <1>2, <1>3 DEF Chunk
<1> QED  BY <1>4 DEF c

\* A byte at some place, and what is written behind it.
LEMMA ChunkBehind ==
    ASSUME NEW m \in Messages, NEW j \in 1..Size[m],
           NEW p \in Nat, End[m - 1] + j < p
    PROVE  /\ \A l \in 1..Len(Size) : p = End[l] => End[m] <= p
           /\ \A l \in Messages : \A i \in 1..Size[l] :
                 End[m] <= p /\ p = End[l - 1] + i => m < l
<1>1. /\ m \in 0..Len(Size) /\ m - 1 \in 0..Len(Size) /\ m \in Nat /\ j \in Nat
      /\ j >= 1
      /\ End[m - 1] \in Nat /\ End[m] \in Nat
  BY MessageEnds
<1>2. ASSUME NEW l \in 1..Len(Size), p = End[l]
      PROVE  End[m] <= p
  <2>1. l \in 0..Len(Size) /\ l \in Nat
    BY EndFacts
  <2>2. /\ End[l] \in Nat
        /\ End[m - 1] < End[l] <=> m - 1 < l
        /\ End[m] < End[l] <=> m < l
        /\ End[m] = End[l] <=> m = l
    BY <1>1, <2>1, EndOrder
  <2>3. End[m - 1] < End[l]
    BY <1>1, <1>2
  <2>4. m < l \/ m = l
    BY <1>1, <2>1, <2>2, <2>3
  <2> QED  BY <1>1, <1>2, <2>2, <2>4
<1>3. ASSUME NEW l \in Messages, NEW i \in 1..Size[l], End[m] <= p,
             p = End[l - 1] + i
      PROVE  m < l
  <2>1. l \in 0..Len(Size) /\ End[l] \in Nat /\ End[l - 1] + i < End[l]
    BY MessageEnds
  <2>2. End[m] <= p /\ p < End[l]
    BY <1>3, <2>1
  <2>3. End[m] < End[l]
    BY <1>1, <2>1, <2>2
  <2> QED  BY <1>1, <2>1, <2>3, EndOrder
<1> QED  BY <1>2, <1>3

LEMMA SettledBefore ==
    ASSUME NEW n \in Nat, NEW k \in Nat \ {0}, NEW c, Chunk(c, n, k)
    PROVE  /\ \A b, y : Over(b, n) /\ y \in 1..k /\ c[y] # NL
                           => b[1] < c[y][1]
           /\ \A q : Settled(q, n) => Before(q, c)
<1>1. ASSUME NEW b, Over(b, n), NEW y \in 1..k, c[y] # NL
      PROVE  b[1] < c[y][1]
  <2>1. PICK l \in Messages : \E j \in 1..Size[l] :
           c[y] = <<l, j>> /\ End[l - 1] + j = n + y
    BY <1>1 DEF Chunk
  <2>2. PICK j \in 1..Size[l] : c[y] = <<l, j>> /\ End[l - 1] + j = n + y
    BY <2>1
  <2>3. PICK m \in Messages : b[1] = m /\ End[m] <= n
    BY <1>1 DEF Over
  <2>4. /\ m \in 0..Len(Size) /\ l \in 0..Len(Size)
        /\ End[m] \in Nat /\ End[l] \in Nat /\ End[l - 1] + j < End[l]
    BY MessageEnds
  <2>5. n + y \in Nat /\ n < n + y
    OBVIOUS
  <2>6. End[m] < End[l]
    BY <2>2, <2>3, <2>4, <2>5
  <2> QED  BY <2>2, <2>3, <2>4, <2>6, EndOrder
<1>2. Len(c) = k
  BY DEF Chunk
<1>3. ASSUME NEW q, Settled(q, n)
      PROVE  Before(q, c)
  BY <1>1, <1>2, <1>3 DEF Settled, Before
<1> QED  BY <1>1, <1>3

LEMMA ConcatAt ==
    ASSUME NEW q \in Seq(Bytes), NEW c \in Seq(Bytes)
    PROVE  /\ q \o c \in Seq(Bytes)
           /\ Len(q) \in Nat /\ Len(q \o c) = Len(q) + Len(c)
           /\ \A x \in 1..Len(q) : (q \o c)[x] = q[x]
           /\ \A x \in 1..Len(q \o c) : x > Len(q) =>
                 x - Len(q) \in 1..Len(c) /\ (q \o c)[x] = c[x - Len(q)]
OBVIOUS

\* The next chunk behind what was received.
LEMMA Extended ==
    ASSUME NEW n \in Nat, NEW k \in Nat \ {0}, NEW c, Chunk(c, n, k),
           NEW gone, \A m \in gone : m \in Messages /\ End[m] <= n,
           NEW q \in Seq(Bytes), Separated(q, n),
           \A x \in 1..Len(q) : q[x] # NL => Written(q[x], n, gone)
    PROVE  /\ \A x \in 1..Len(q \o c) :
                 (q \o c)[x] # NL => Written((q \o c)[x], n + k, gone)
           /\ Separated(q \o c, n + k)
<1>1. PICK t : t = q \o c
  OBVIOUS
<1>2. /\ c \in Seq(Bytes) /\ Len(c) = k
      /\ \A y \in 1..k :
            \/ c[y] = NL /\ \E m \in 1..Len(Size) : n + y = End[m]
            \/ \E m \in Messages : \E j \in 1..Size[m] :
                  /\ c[y] = <<m, j>>
                  /\ c[y] # NL
                  /\ End[m - 1] + j = n + y
  BY DEF Chunk
<1>3. /\ Len(q) \in Nat /\ Len(t) = Len(q) + k
      /\ \A x \in 1..Len(q) : t[x] = q[x]
      /\ \A x \in 1..Len(t) : x > Len(q) =>
            x - Len(q) \in 1..k /\ t[x] = c[x - Len(q)]
  BY <1>1, <1>2, ConcatAt
<1>4. ASSUME NEW y \in 1..k, c[y] # NL
      PROVE  Written(c[y], n + y, gone) /\ Written(c[y], n + k, gone)
  <2>1. PICK m \in Messages : \E j \in 1..Size[m] :
           c[y] = <<m, j>> /\ End[m - 1] + j = n + y
    BY <1>2, <1>4
  <2>2. PICK j \in 1..Size[m] : c[y] = <<m, j>> /\ End[m - 1] + j = n + y
    BY <2>1
  <2>3. m \notin gone
    <3>1. End[m] \in Nat /\ n + y < End[m]
      BY <2>2, MessageEnds
    <3> QED  BY <3>1
  <2>4. n + y <= n + k /\ n + y <= n + y
    OBVIOUS
  <2> QED  BY <2>2, <2>3, <2>4 DEF Written
<1>5. ASSUME NEW x \in 1..Len(t), t[x] # NL
      PROVE  Written(t[x], n + k, gone)
  <2>1. CASE x <= Len(q)
    <3>1. x \in 1..Len(q) /\ t[x] = q[x]
      BY <1>3, <2>1
    <3>2. n + k \in Nat /\ n <= n + k
      OBVIOUS
    <3> QED  BY <1>5, <3>1, <3>2, Later
  <2>2. CASE x > Len(q)
    BY <1>3, <1>4, <1>5, <2>2
  <2> QED  BY <1>3, <2>1, <2>2
<1>6. ASSUME NEW x \in 1..Len(t), NEW z \in 1..Len(t), x < z,
             t[x] # NL, t[z] = NL
      PROVE  /\ Over(t[x], n + k)
             /\ \A y \in 1..Len(t) : z < y /\ t[y] # NL => t[x][1] < t[y][1]
  <2>1. CASE z <= Len(q)
    <3>1. /\ x \in 1..Len(q) /\ t[x] = q[x]
          /\ z \in 1..Len(q) /\ t[z] = q[z]
      BY <1>3, <1>6, <2>1
    <3>2. Over(q[x], n)
      BY <1>6, <3>1 DEF Separated
    <3>3. Over(q[x], n + k)
      <4>1. n + k \in Nat /\ n <= n + k
        OBVIOUS
      <4> QED  BY <3>2, <4>1, Later
    <3>4. ASSUME NEW y \in 1..Len(t), z < y, t[y] # NL
          PROVE  t[x][1] < t[y][1]
      <4>1. CASE y <= Len(q)
        <5>1. y \in 1..Len(q) /\ t[y] = q[y]
          BY <1>3, <4>1
        <5> QED  BY <1>6, <3>1, <3>4, <5>1 DEF Separated
      <4>2. CASE y > Len(q)
        <5>1. y - Len(q) \in 1..k /\ t[y] = c[y - Len(q)]
          BY <1>3, <4>2
        <5> QED  BY <3>1, <3>2, <3>4, <5>1, SettledBefore
      <4> QED  BY <1>3, <4>1, <4>2
    <3> QED  BY <3>1, <3>3, <3>4
  <2>2. CASE z > Len(q)
    <3>1. PICK i \in 1..k : i = z - Len(q) /\ t[z] = c[i]
      BY <1>3, <2>2
    <3>2. PICK l \in 1..Len(Size) : n + i = End[l]
      BY <1>2, <1>6, <3>1
    <3>3. PICK p \in Nat : p < n + i /\ Written(t[x], p, gone)
      <4>1. CASE x <= Len(q)
        <5>1. x \in 1..Len(q) /\ t[x] = q[x] /\ n < n + i
          BY <1>3, <4>1
        <5> QED  BY <1>6, <5>1
      <4>2. CASE x > Len(q)
        <5>1. /\ x - Len(q) \in 1..k /\ t[x] = c[x - Len(q)]
              /\ n + (x - Len(q)) < n + i
              /\ n + (x - Len(q)) \in Nat
          BY <1>3, <1>6, <3>1, <4>2
        <5> QED  BY <1>4, <1>6, <5>1
      <4> QED  BY <1>3, <4>1, <4>2
    <3>4. PICK m \in Messages : \E j \in 1..Size[m] :
             t[x] = <<m, j>> /\ End[m - 1] + j <= p
      BY <3>3 DEF Written
    <3>5. PICK j \in 1..Size[m] :
             t[x] = <<m, j>> /\ End[m - 1] + j <= p
      BY <3>4
    <3>6. End[m - 1] + j < n + i /\ n + i \in Nat
      <4>1. End[m - 1] + j \in Nat /\ n + i \in Nat
        BY MessageEnds
      <4>2. \A a, u, v \in Nat : a <= u /\ u < v => a < v
        OBVIOUS
      <4> QED  BY <3>3, <3>5, <4>1, <4>2
    <3>7. End[m] <= n + i
      BY <3>2, <3>6, ChunkBehind
    <3>8. Over(t[x], n + k)
      <4>1. End[m] <= n + k
        <5>1. End[m] \in Nat
          BY MessageEnds
        <5> QED  BY <3>7, <5>1
      <4> QED  BY <1>6, <3>5, <4>1 DEF Over
    <3>9. ASSUME NEW y \in 1..Len(t), z < y, t[y] # NL
          PROVE  t[x][1] < t[y][1]
      <4>0. y \in Nat /\ z \in Nat /\ y > Len(q)
        BY <1>3, <2>2, <3>9
      <4>1. PICK h \in 1..k : h = y - Len(q) /\ t[y] = c[h]
        BY <1>3, <4>0
      <4>2. PICK l2 \in Messages : \E j2 \in 1..Size[l2] :
               c[h] = <<l2, j2>> /\ End[l2 - 1] + j2 = n + h
        <5>1. c[h] # NL
          BY <3>9, <4>1
        <5> QED  BY <1>2, <5>1
      <4>3. PICK j2 \in 1..Size[l2] :
               t[y] = <<l2, j2>> /\ End[l2 - 1] + j2 = n + h
        BY <4>1, <4>2
      <4>4. n + h \in Nat /\ n + i < n + h
        <5>1. i < h
          BY <1>3, <3>1, <3>9, <4>0, <4>1
        <5> QED  BY <5>1
      <4>5. End[m - 1] + j < n + h /\ End[m] <= n + h
        <5>1. End[m] \in Nat /\ End[m - 1] + j \in Nat
          BY MessageEnds
        <5>2. \A a, e, u, v \in Nat :
                 a < u /\ e <= u /\ u < v => a < v /\ e <= v
          OBVIOUS
        <5> QED  BY <3>6, <3>7, <4>4, <5>1, <5>2
      <4>6. m < l2
        BY <4>3, <4>4, <4>5, ChunkBehind
      <4> QED  BY <3>5, <4>3, <4>6
    <3> QED  BY <3>8, <3>9
  <2> QED  BY <1>3, <2>1, <2>2
<1>7. Separated(t, n + k)
  BY <1>6 DEF Separated
<1> QED  BY <1>1, <1>5, <1>7

\* What is before and behind the i-th byte.
Pieces(q, i, line, rest) ==
    /\ line \in Seq(Bytes) /\ rest \in Seq(Bytes)
    /\ Len(line) = i - 1
    /\ \A x \in 1..Len(line) : x \in 1..Len(q) /\ x < i /\ line[x] = q[x]
    /\ Len(rest) = Len(q) - i
    /\ \A x \in 1..Len(rest) :
          x + i \in 1..Len(q) /\ x + i > i /\ rest[x] = q[x + i]

LEMMA CutPieces ==
    ASSUME NEW q \in Seq(Bytes), NEW i \in 1..Len(q)
    PROVE  Pieces(q, i, SubSeq(q, 1, i - 1), SubSeq(q, i + 1, Len(q)))
<1> DEFINE line == SubSeq(q, 1, i - 1)
           rest == SubSeq(q, i + 1, Len(q))
<1>1. /\ Len(line) = i - 1
      /\ \A x \in 1..Len(line) : x \in 1..Len(q) /\ x < i /\ line[x] = q[x]
  OBVIOUS
<1>2. /\ Len(rest) = Len(q) - i
      /\ \A x \in 1..Len(rest) :
            x + i \in 1..Len(q) /\ x + i > i /\ rest[x] = q[x + i]
  OBVIOUS
<1>3. line \in Seq(Bytes) /\ rest \in Seq(Bytes)
  OBVIOUS
<1> HIDE DEF line, rest
<1>4. Pieces(q, i, line, rest)
  BY <1>1, <1>2, <1>3 DEF Pieces
<1> QED  BY <1>4 DEF line, rest

LEMMA PiecesWith ==
    ASSUME NEW q \in Seq(Bytes), NEW i \in 1..Len(q), FirstNewline(q, i),
           NEW line, NEW rest, Pieces(q, i, line, rest), NEW c \in Seq(Bytes)
    PROVE  /\ i \in 1..Len(q \o c)
           /\ FirstNewline(q \o c, i)
           /\ Pieces(q \o c, i, line, rest \o c)
<1>1. PICK t : t = q \o c
  OBVIOUS
<1>2. PICK s : s = rest \o c
  OBVIOUS
<1>3. /\ Len(q) \in Nat /\ Len(c) \in Nat /\ Len(t) = Len(q) + Len(c)
      /\ \A x \in 1..Len(q) : t[x] = q[x]
      /\ \A x \in 1..Len(t) : x > Len(q) =>
            x - Len(q) \in 1..Len(c) /\ t[x] = c[x - Len(q)]
  BY <1>1, ConcatAt
<1>4. /\ line \in Seq(Bytes) /\ rest \in Seq(Bytes)
      /\ Len(line) = i - 1
      /\ \A x \in 1..Len(line) : x \in 1..Len(q) /\ x < i /\ line[x] = q[x]
      /\ Len(rest) = Len(q) - i
      /\ \A x \in 1..Len(rest) :
            x + i \in 1..Len(q) /\ x + i > i /\ rest[x] = q[x + i]
  BY DEF Pieces
<1>5. /\ s \in Seq(Bytes) /\ Len(s) = Len(rest) + Len(c)
      /\ \A x \in 1..Len(rest) : s[x] = rest[x]
      /\ \A x \in 1..Len(s) : x > Len(rest) =>
            x - Len(rest) \in 1..Len(c) /\ s[x] = c[x - Len(rest)]
  <2>1. rest \in Seq(Bytes)
    BY <1>4
  <2> QED  BY <1>2, <2>1, ConcatAt
<1>6. i \in 1..Len(t) /\ \A x \in 1..i : t[x] = q[x]
  BY <1>3
<1>7. FirstNewline(t, i)
  BY <1>6 DEF FirstNewline
<1>8. ASSUME NEW x \in 1..Len(s)
      PROVE  x + i \in 1..Len(t) /\ x + i > i /\ s[x] = t[x + i]
  <2>1. Len(s) = Len(t) - i
    BY <1>3, <1>4, <1>5
  <2>2. x + i \in 1..Len(t) /\ x + i > i
    BY <1>3, <2>1
  <2>3. CASE x \in 1..Len(rest)
    BY <1>3, <1>4, <1>5, <2>2, <2>3
  <2>4. CASE x > Len(rest)
    <3>1. /\ x + i > Len(q) /\ (x + i) - Len(q) = x - Len(rest)
      BY <1>3, <1>4, <1>5, <2>4
    <3> QED  BY <1>3, <1>5, <2>2, <2>4, <3>1
  <2> QED  BY <1>4, <2>2, <2>3, <2>4
<1>9. Pieces(t, i, line, s)
  <2>1. Len(s) = Len(t) - i
    BY <1>3, <1>4, <1>5
  <2>2. \A x \in 1..Len(line) : x \in 1..Len(t) /\ x < i /\ line[x] = t[x]
    BY <1>3, <1>4
  <2> QED  BY <1>4, <1>5, <1>8, <2>1, <2>2 DEF Pieces
<1> QED  BY <1>1, <1>2, <1>6, <1>7, <1>9

\* A line that is cut off, and the rest.
LEMMA Parted ==
    ASSUME NEW q \in Seq(Bytes), NEW i \in 1..Len(q), FirstNewline(q, i),
           NEW n, Separated(q, n),
           NEW line, NEW rest, Pieces(q, i, line, rest)
    PROVE  /\ Settled(line, n)
           /\ Before(line, rest)
           /\ Separated(rest, n)
           /\ \A l : Before(l, q) => Before(l, line) /\ Before(l, rest)
           /\ \A x \in 1..Len(line) : \E z \in 1..Len(q) : line[x] = q[z]
           /\ \A x \in 1..Len(rest) : \E z \in 1..Len(q) : rest[x] = q[z]
<1>1. /\ Len(q) \in Nat
      /\ \A x \in 1..Len(line) : x \in 1..Len(q) /\ x < i /\ line[x] = q[x]
      /\ \A x \in 1..Len(rest) :
            x + i \in 1..Len(q) /\ x + i > i /\ rest[x] = q[x + i]
      /\ Len(line) \in Nat /\ Len(rest) \in Nat
  BY DEF Pieces
<1>3. q[i] = NL /\ \A x \in 1..Len(line) : line[x] # NL
  BY <1>1 DEF FirstNewline
<1>4. Settled(line, n)
  BY <1>1, <1>3 DEF Separated, Settled
<1>5. Before(line, rest)
  <2>1. ASSUME NEW x \in 1..Len(line)
        PROVE  \A y \in 1..Len(q) :
                  i < y /\ q[y] # NL => line[x][1] < q[y][1]
    <3>1. x \in 1..Len(q) /\ x < i /\ line[x] = q[x] /\ q[x] # NL
      BY <1>1, <1>3
    <3> QED  BY <1>3, <3>1 DEF Separated
  <2> QED  BY <1>1, <2>1 DEF Before
<1>6. Separated(rest, n)
  <2>1. \A x, y \in 1..Len(rest) : x < y => x + i < y + i
    BY <1>1
  <2>2. ASSUME NEW x \in 1..Len(rest), NEW z \in 1..Len(rest), x < z,
               rest[x] # NL, rest[z] = NL
        PROVE  /\ Over(rest[x], n)
               /\ \A y \in 1..Len(rest) :
                     z < y /\ rest[y] # NL => rest[x][1] < rest[y][1]
    <3>1. /\ x + i \in 1..Len(q) /\ rest[x] = q[x + i]
          /\ z + i \in 1..Len(q) /\ rest[z] = q[z + i]
          /\ x + i < z + i
      BY <1>1, <2>1, <2>2
    <3>2. /\ Over(q[x + i], n)
          /\ \A y \in 1..Len(q) :
                z + i < y /\ q[y] # NL => q[x + i][1] < q[y][1]
      BY <2>2, <3>1 DEF Separated
    <3> QED  BY <1>1, <2>1, <3>1, <3>2
  <2> QED  BY <2>2 DEF Separated
<1>7. \A l : Before(l, q) => Before(l, line) /\ Before(l, rest)
  BY <1>1 DEF Before
<1> QED  BY <1>1, <1>4, <1>5, <1>6, <1>7

\* Two places of the wire, one after the other.
LEMMA WireJoins ==
    ASSUME NEW p \in Nat \ {0}, p + 1 <= Len(Wire), NEW cut
    PROVE  /\ Joins(Wire[p], Wire[p + 1], cut)
           /\ \A rs : \A r \in 1..Len(rs) :
                 Final(rs[r]) = Wire[p] => Begins(Wire[p + 1], rs)
<1>1. p \in 1..Len(Wire) /\ p + 1 \in 1..Len(Wire)
  BY WireAssumption
<1>2. CASE Wire[p] = NL /\ \E m \in 1..Len(Size) : p = End[m]
  <2>1. PICK m \in 0..Len(Size) : p + 1 = End[m] + 1
    BY <1>2, EndFacts
  <2>2. Starts(Wire[p + 1])
    BY <1>1, <2>1, WireNext
  <2> QED  BY <1>2, <2>2 DEF Joins, Ends, Begins
<1>3. CASE \E m \in Messages : \E k \in 1..Size[m] :
             Wire[p] = <<m, k>> /\ Wire[p] # NL /\ End[m - 1] + k = p
  <2>1. PICK m \in Messages : \E k \in 1..Size[m] :
             Wire[p] = <<m, k>> /\ Wire[p] # NL /\ End[m - 1] + k = p
    BY <1>3
  <2>2. PICK k \in 1..Size[m] :
             Wire[p] = <<m, k>> /\ Wire[p] # NL /\ End[m - 1] + k = p
    BY <2>1
  <2>3. k \in Nat
    BY MessageEnds
  <2>4. Wire[p + 1] = IF k = Size[m] THEN NL ELSE <<m, k + 1>>
    <3>1. p + 1 = End[m - 1] + k + 1
      BY <2>2
    <3> QED  BY <1>1, <3>1, WireNext
  <2>5. Joins(Wire[p], Wire[p + 1], cut)
    BY <2>2, <2>4 DEF Joins
  <2>6. ASSUME NEW rs, NEW r \in 1..Len(rs), Final(rs[r]) = Wire[p]
        PROVE  Begins(Wire[p + 1], rs)
    <3>1. CASE k = Size[m]
      BY <2>4, <3>1 DEF Begins, Starts
    <3>2. CASE k # Size[m]
      <4>1. Wire[p + 1][1] = m /\ Wire[p + 1][2] - 1 = k
        BY <2>3, <2>4, <3>2
      <4> QED  BY <2>2, <2>6, <4>1 DEF Begins
    <3> QED  BY <3>1, <3>2
  <2> QED  BY <2>5, <2>6
<1> QED  BY <1>1, <1>2, <1>3, WireByte

\* What a chunk looks like from where it comes.
LEMMA ChunkJoins ==
    ASSUME NEW n \in Nat, NEW k \in Nat \ {0}, NEW c, Chunk(c, n, k), NEW cut
    PROVE  /\ Joined(c, cut)
           /\ Final(c) = Wire[n + k]
           /\ n > 0 => Joins(Wire[n], c[1], cut)
           /\ (\E m \in 0..Len(Size) : n = End[m]) => Starts(c[1])
           /\ n > 0 => \A rs : \A r \in 1..Len(rs) :
                          Final(rs[r]) = Wire[n] => Begins(c[1], rs)
<1>1. /\ Len(c) = k /\ Len(Wire) \in Nat
      /\ \A y \in 1..k : n + y \in 1..Len(Wire) /\ c[y] = Wire[n + y]
  BY WireAssumption DEF Chunk
<1>2. /\ n + 1 \in 1..Len(Wire) /\ c[1] = Wire[n + 1]
      /\ n + k \in 1..Len(Wire) /\ c[k] = Wire[n + k]
  BY <1>1
<1>3. ASSUME NEW y \in 1..(k - 1)
      PROVE  Joins(c[y], c[y + 1], cut)
  <2>1. /\ y \in 1..k /\ y + 1 \in 1..k
        /\ n + y \in Nat \ {0} /\ (n + y) + 1 = n + (y + 1)
    OBVIOUS
  <2>2. /\ c[y] = Wire[n + y] /\ c[y + 1] = Wire[(n + y) + 1]
        /\ (n + y) + 1 \in 1..Len(Wire)
    BY <1>1, <2>1
  <2>3. (n + y) + 1 <= Len(Wire)
    BY <1>1, <2>2
  <2> QED  BY <2>1, <2>2, <2>3, WireJoins
<1>4. Joined(c, cut) /\ Final(c) = Wire[n + k]
  BY <1>1, <1>2, <1>3 DEF Joined, Final
<1>5. ASSUME n > 0
      PROVE  /\ Joins(Wire[n], c[1], cut)
             /\ \A rs : \A r \in 1..Len(rs) :
                   Final(rs[r]) = Wire[n] => Begins(c[1], rs)
  <2>1. n \in Nat \ {0} /\ n + 1 <= Len(Wire)
    BY <1>1, <1>2, <1>5
  <2> QED  BY <1>2, <2>1, WireJoins
<1>6. ASSUME NEW m \in 0..Len(Size), n = End[m]
      PROVE  Starts(c[1])
  BY <1>2, <1>6, WireNext
<1> QED  BY <1>4, <1>5, <1>6

LEMMA ExtendedJoined ==
    ASSUME NEW q \in Seq(Bytes), NEW c \in Seq(Bytes), NEW cut, c # <<>>,
           Joined(q, cut), Joined(c, cut),
           q # <<>> => Joins(Final(q), c[1], cut)
    PROVE  /\ Joined(q \o c, cut)
           /\ q \o c # <<>> /\ Final(q \o c) = Final(c)
           /\ (q \o c)[1] = IF q = <<>> THEN c[1] ELSE q[1]
<1>1. PICK t : t = q \o c
  OBVIOUS
<1>2. /\ Len(q) \in Nat /\ Len(c) \in Nat \ {0} /\ Len(t) = Len(q) + Len(c)
      /\ \A x \in 1..Len(q) : t[x] = q[x]
      /\ \A x \in 1..Len(t) : x > Len(q) =>
            x - Len(q) \in 1..Len(c) /\ t[x] = c[x - Len(q)]
  BY <1>1, ConcatAt
<1>3. q = <<>> <=> Len(q) = 0
  OBVIOUS
<1>4. ASSUME NEW x \in 1..(Len(t) - 1)
      PROVE  Joins(t[x], t[x + 1], cut)
  <2>1. x \in 1..Len(t) /\ x + 1 \in 1..Len(t)
    BY <1>2
  <2>2. CASE x < Len(q)
    <3>1. /\ x \in 1..(Len(q) - 1)
          /\ t[x] = q[x] /\ t[x + 1] = q[x + 1]
      BY <1>2, <2>2
    <3> QED  BY <3>1 DEF Joined
  <2>3. CASE x = Len(q)
    <3>1. t[x] = q[Len(q)] /\ t[x + 1] = c[1] /\ q # <<>>
      BY <1>2, <1>3, <2>1, <2>3
    <3> QED  BY <3>1 DEF Final
  <2>4. CASE x > Len(q)
    <3>1. /\ x - Len(q) \in 1..(Len(c) - 1)
          /\ t[x] = c[x - Len(q)]
          /\ x + 1 > Len(q) /\ (x + 1) - Len(q) = (x - Len(q)) + 1
      BY <1>2, <2>1, <2>4
    <3>2. t[x + 1] = c[(x - Len(q)) + 1]
      BY <1>2, <2>1, <3>1
    <3> QED  BY <3>1, <3>2 DEF Joined
  <2> QED  BY <1>2, <2>2, <2>3, <2>4
<1>5. Joined(t, cut)
  BY <1>4 DEF Joined
<1>6. Len(t) \in 1..Len(t) /\ Len(t) > Len(q) /\ Len(t) - Len(q) = Len(c)
  BY <1>2
<1>7. t # <<>> /\ Final(t) = Final(c)
  BY <1>2, <1>6 DEF Final
<1>8. t[1] = IF q = <<>> THEN c[1] ELSE q[1]
  BY <1>2, <1>3
<1> QED  BY <1>1, <1>5, <1>7, <1>8

LEMMA PartedJoined ==
    ASSUME NEW q \in Seq(Bytes), NEW i \in 1..Len(q), FirstNewline(q, i),
           NEW cut, Joined(q, cut),
           NEW line, NEW rest, Pieces(q, i, line, rest)
    PROVE  /\ Joined(line, cut) /\ Joined(rest, cut)
           /\ line # <<>> => line[1] = q[1] /\ Joins(Final(line), NL, cut)
           /\ rest # <<>> => Starts(rest[1]) /\ Final(rest) = Final(q)
           /\ rest = <<>> => Final(q) = NL
<1>1. /\ Len(q) \in Nat
      /\ Len(line) = i - 1
      /\ \A x \in 1..Len(line) : x \in 1..Len(q) /\ x < i /\ line[x] = q[x]
      /\ Len(rest) = Len(q) - i
      /\ \A x \in 1..Len(rest) :
            x + i \in 1..Len(q) /\ x + i > i /\ rest[x] = q[x + i]
      /\ line \in Seq(Bytes) /\ rest \in Seq(Bytes)
  BY DEF Pieces
<1>2. q[i] = NL
  BY DEF FirstNewline
<1>3. (line = <<>> <=> Len(line) = 0) /\ (rest = <<>> <=> Len(rest) = 0)
  BY <1>1
<1>4. \A x \in 1..(Len(q) - 1) : Joins(q[x], q[x + 1], cut)
  BY DEF Joined
<1>5. Joined(line, cut)
  <2>1. ASSUME NEW x \in 1..(Len(line) - 1)
        PROVE  Joins(line[x], line[x + 1], cut)
    <3>1. /\ x \in 1..(Len(q) - 1)
          /\ line[x] = q[x] /\ line[x + 1] = q[x + 1]
      BY <1>1
    <3> QED  BY <1>4, <3>1
  <2> QED  BY <2>1 DEF Joined
<1>6. Joined(rest, cut)
  <2>1. ASSUME NEW x \in 1..(Len(rest) - 1)
        PROVE  Joins(rest[x], rest[x + 1], cut)
    <3>1. /\ x + i \in 1..(Len(q) - 1)
          /\ rest[x] = q[x + i] /\ rest[x + 1] = q[(x + i) + 1]
      <4>1. x \in 1..Len(rest) /\ x + 1 \in 1..Len(rest)
        BY <1>1
      <4>2. (x + 1) + i = (x + i) + 1
        BY <1>1
      <4> QED  BY <1>1, <4>1, <4>2
    <3> QED  BY <1>4, <3>1
  <2> QED  BY <2>1 DEF Joined
<1>7. ASSUME line # <<>>
      PROVE  line[1] = q[1] /\ Joins(Final(line), NL, cut)
  <2>1. /\ 1 \in 1..Len(line) /\ i - 1 \in 1..Len(line)
        /\ i - 1 \in 1..(Len(q) - 1) /\ (i - 1) + 1 = i
    BY <1>1, <1>3, <1>7
  <2>2. line[1] = q[1] /\ Final(line) = q[i - 1]
    BY <1>1, <2>1 DEF Final
  <2>3. Joins(q[i - 1], q[i], cut)
    BY <1>4, <2>1
  <2> QED  BY <1>2, <2>2, <2>3
<1>8. ASSUME rest # <<>>
      PROVE  Starts(rest[1]) /\ Final(rest) = Final(q)
  <2>1. /\ 1 \in 1..Len(rest) /\ Len(rest) \in 1..Len(rest)
        /\ 1 + i = i + 1 /\ Len(rest) + i = Len(q) /\ i \in 1..(Len(q) - 1)
    BY <1>1, <1>3, <1>8
  <2>2. rest[1] = q[i + 1] /\ Final(rest) = Final(q)
    BY <1>1, <2>1 DEF Final
  <2>3. Joins(NL, q[i + 1], cut)
    BY <1>2, <1>4, <2>1
  <2> QED  BY <2>2, <2>3 DEF Joins
<1>9. ASSUME rest = <<>>
      PROVE  Final(q) = NL
  <2>1. i = Len(q)
    BY <1>1, <1>3, <1>9
  <2> QED  BY <1>2, <2>1 DEF Final
<1> QED  BY <1>5, <1>6, <1>7, <1>8, <1>9

-----------------------------------------------------------------------------
(* The input.                                                              *)

LEMMA SessionFacts ==
    ASSUME SessionInv
    PROVE  /\ TypeOK /\ FramesIdle /\ LinesNonEmpty
           /\ at \in Nat
           /\ Len(resets) \in Nat
           /\ \A m \in broken : m \in Messages /\ End[m] <= at
           /\ \A m \in Gone : m \in Messages /\ End[m] <= at
           /\ ~overlap => ~mixed
           /\ ~mixed => \A v, w \in Writers :
                           pc[v] = "append" /\ pc[w] = "append" => v = w
           /\ ~overlap => \A v, w \in Writers :
                             pc[v] # "idle" /\ pc[w] # "idle" => v = w
<1>1. TypeOK /\ FramesIdle /\ LinesNonEmpty
  BY DispatchInvParts DEF SessionInv, FramerInv
<1>2. at \in Nat /\ Len(resets) \in Nat
  <2>1. resets \in Seq(Seq(Bytes))
    BY <1>1 DEF TypeOK
  <2> QED  BY <2>1, EndFacts DEF SessionInv, SessionTypeOK
<1>3. /\ \A m \in broken : m \in Messages /\ End[m] <= at
      /\ \A m \in Gone : m \in Messages /\ End[m] <= at
  BY DEF SessionInv, SessionTypeOK, Gone
<1>4. /\ ~overlap => ~mixed
      /\ ~mixed => \A v, w \in Writers :
                      pc[v] = "append" /\ pc[w] = "append" => v = w
      /\ ~overlap => \A v, w \in Writers :
                        pc[v] # "idle" /\ pc[w] # "idle" => v = w
  BY DEF SessionInv, Single
<1> QED  BY <1>1, <1>2, <1>3, <1>4

\* Input, of any state of the calls.
InputOf(p, b, c) ==
    LET calls == {w \in Writers : p[w] = "append"}
    IN  IF calls = {} THEN b ELSE b \o c[CHOOSE w \in calls : TRUE]

LEMMA InputIs == Input = InputOf(pc, buf, chunk)
BY DEF Input, InputOf

LEMMA InputWith ==
    ASSUME NEW p, NEW b, NEW c,
           \A v, w \in Writers : p[v] = "append" /\ p[w] = "append" => v = w
    PROVE  /\ (\A w \in Writers : p[w] # "append") => InputOf(p, b, c) = b
           /\ \A w \in Writers : p[w] = "append" =>
                 InputOf(p, b, c) = b \o c[w]
<1>1. ASSUME \A w \in Writers : p[w] # "append"
      PROVE  InputOf(p, b, c) = b
  BY <1>1 DEF InputOf
<1>2. ASSUME NEW w \in Writers, p[w] = "append"
      PROVE  InputOf(p, b, c) = b \o c[w]
  <2> DEFINE calls == {v \in Writers : p[v] = "append"}
  <2>1. w \in calls
    BY <1>2
  <2>2. (CHOOSE v \in calls : TRUE) \in calls
    BY <2>1
  <2>3. (CHOOSE v \in calls : TRUE) = w
    BY <1>2, <2>2
  <2> QED  BY <2>1, <2>3 DEF InputOf
<1> QED  BY <1>1, <1>2

LEMMA InputType ==
    ASSUME SessionInv, ~mixed
    PROVE  /\ Input \in Seq(Bytes)
           /\ (\A w \in Writers : pc[w] # "append") => Input = buf
           /\ \A w \in Writers : pc[w] = "append" => Input = buf \o chunk[w]
<1>1. /\ (\A w \in Writers : pc[w] # "append") => Input = buf
      /\ \A w \in Writers : pc[w] = "append" => Input = buf \o chunk[w]
  BY SessionFacts, InputIs, InputWith
<1>2. buf \in Seq(Bytes) /\ \A w \in Writers : chunk[w] \in Seq(Bytes)
  BY SessionFacts DEF TypeOK
<1>3. \A w \in Writers : buf \o chunk[w] \in Seq(Bytes)
  BY <1>2, ConcatAt
<1> QED  BY <1>1, <1>2, <1>3

-----------------------------------------------------------------------------
(* What the steps do to the input.                                         *)

\* All that a step of a call may leave as it is.
Untouched ==
    /\ at' = at
    /\ broken' = broken
    /\ unended' = unended
    /\ overlap' = overlap
    /\ mixed' = mixed

LEMMA AppendInput ==
    ASSUME SessionInv, NEW w \in Writers, AppendChunk(w), UNCHANGED session
    PROVE  /\ UNCHANGED <<lines, frames, out>> /\ Untouched
           /\ Single'
           /\ ~mixed => \/ Input' = Input /\ resets' = resets
                        \/ Input' = <<>> /\ resets' = Append(resets, Input)
<1> USE SessionFacts
<1>1. Untouched /\ UNCHANGED <<lines, frames, out>>
  BY DEF session, Untouched, AppendChunk
<1>2. pc[w] = "append"
  BY DEF AppendChunk
<1>3. /\ \A v \in Writers : v # w => pc'[v] = pc[v]
      /\ pc'[w] \in {"idle", "split"}
  <2>1. pc' \in {[pc EXCEPT ![w] = "idle"], [pc EXCEPT ![w] = "split"]}
    BY DEF AppendChunk
  <2> QED  BY <2>1 DEF TypeOK
<1>4. Single'
  BY <1>1, <1>2, <1>3 DEF Untouched, SessionInv, Single
<1>5. ASSUME ~mixed
      PROVE  \/ Input' = Input /\ resets' = resets
             \/ Input' = <<>> /\ resets' = Append(resets, Input)
  <2>1. \A v \in Writers : pc'[v] # "append"
    BY <1>2, <1>3, <1>5
  <2>2. InputOf(pc', buf', chunk') = buf'
    BY <2>1, InputWith
  <2>3. Input' = buf'
    BY <2>2 DEF Input, InputOf
  <2>4. Input = buf \o chunk[w]
    BY <1>2, <1>5, InputType
  <2>5. \/ buf' = buf \o chunk[w] /\ resets' = resets
        \/ buf' = <<>> /\ resets' = Append(resets, buf \o chunk[w])
    BY DEF AppendChunk
  <2> QED  BY <2>3, <2>4, <2>5
<1> QED  BY <1>1, <1>4, <1>5

LEMMA CutInput ==
    ASSUME SessionInv, NEW w \in Writers, CutLine(w), UNCHANGED session
    PROVE  /\ UNCHANGED <<pc, out, resets>> /\ Untouched
           /\ \E line \in Seq(Bytes) :
                 /\ frames' = [frames EXCEPT ![w] = Append(@, line)]
                 /\ lines' = IF line = <<>> THEN lines ELSE Append(lines, line)
                 /\ ~mixed => \E i \in 1..Len(Input) :
                       FirstNewline(Input, i) /\ Pieces(Input, i, line, Input')
<1> USE SessionFacts
<1>1. UNCHANGED <<pc, chunk, out, resets>> /\ Untouched
  BY DEF session, Untouched, CutLine
<1>2. PICK i \in 1..Len(buf) :
         /\ FirstNewline(buf, i)
         /\ LET line == SubSeq(buf, 1, i - 1)
            IN  /\ frames' = [frames EXCEPT ![w] = Append(@, line)]
                /\ lines' = IF line = <<>> THEN lines ELSE Append(lines, line)
         /\ buf' = SubSeq(buf, i + 1, Len(buf))
  BY DEF CutLine
<1>3. buf \in Seq(Bytes) /\ \A v \in Writers : chunk[v] \in Seq(Bytes)
  BY DEF TypeOK
<1>4. PICK line :
         /\ frames' = [frames EXCEPT ![w] = Append(@, line)]
         /\ lines' = IF line = <<>> THEN lines ELSE Append(lines, line)
         /\ Pieces(buf, i, line, buf')
  BY <1>2, <1>3, CutPieces
<1>5. line \in Seq(Bytes)
  BY <1>4 DEF Pieces
<1>6. ASSUME ~mixed
      PROVE  \E j \in 1..Len(Input) :
                FirstNewline(Input, j) /\ Pieces(Input, j, line, Input')
  <2>1. CASE \A v \in Writers : pc[v] # "append"
    <3>1. Input = buf
      BY <1>6, <2>1, InputType
    <3>2. \A v \in Writers : pc'[v] # "append"
      BY <1>1, <2>1
    <3>3. InputOf(pc', buf', chunk') = buf'
      BY <3>2, InputWith
    <3>4. Input' = buf'
      BY <3>3 DEF Input, InputOf
    <3> QED  BY <1>2, <1>4, <3>1, <3>4
  <2>2. CASE \E v \in Writers : pc[v] = "append"
    <3>1. PICK v \in Writers : pc[v] = "append"
      BY <2>2
    <3>2. Input = buf \o chunk[v]
      BY <1>6, <3>1, InputType
    <3>3. /\ pc'[v] = "append"
          /\ \A u, x \in Writers :
                pc'[u] = "append" /\ pc'[x] = "append" => u = x
      BY <1>1, <1>6, <3>1
    <3>4. Input' = buf' \o chunk[v]
      <4>1. InputOf(pc', buf', chunk') = buf' \o chunk'[v]
        BY <3>3, InputWith
      <4> QED  BY <1>1, <4>1 DEF Input, InputOf
    <3>5. /\ i \in 1..Len(buf \o chunk[v])
          /\ FirstNewline(buf \o chunk[v], i)
          /\ Pieces(buf \o chunk[v], i, line, buf' \o chunk[v])
      BY <1>2, <1>3, <1>4, PiecesWith
    <3> QED  BY <3>2, <3>4, <3>5
  <2> QED  BY <2>1, <2>2
<1> QED  BY <1>1, <1>4, <1>5, <1>6

LEMMA QuietInput ==
    ASSUME SessionInv, NEW w \in Writers,
           Release(w) \/ Dispatch(w) \/ Return(w), UNCHANGED session
    PROVE  /\ UNCHANGED <<lines, resets>> /\ Untouched
           /\ Single'
           /\ ~mixed => Input' = Input
<1> USE SessionFacts
<1>1. /\ UNCHANGED <<buf, chunk, lines, resets>> /\ Untouched
      /\ pc[w] \in {"split", "dispatch"}
      /\ \A v \in Writers : v # w => pc'[v] = pc[v]
      /\ pc'[w] \in {"idle", "dispatch"}
  BY DEF session, Untouched, Release, Dispatch, Return, ghosts, TypeOK
<1>2. \A v \in Writers : /\ pc'[v] = "append" <=> pc[v] = "append"
                         /\ pc'[v] # "idle" => pc[v] # "idle"
  BY <1>1
<1>3. Single'
  BY <1>1, <1>2 DEF Untouched, SessionInv, Single
<1>4. ASSUME ~mixed
      PROVE  Input' = Input
  <2>1. buf' = buf /\ chunk' = chunk
    BY <1>1
  <2>2. CASE \A v \in Writers : pc[v] # "append"
    <3>1. \A v \in Writers : pc'[v] # "append"
      BY <1>2, <2>2
    <3>2. Input = buf
      BY <1>4, <2>2, InputType
    <3>3. InputOf(pc', buf', chunk') = buf'
      BY <3>1, InputWith
    <3> QED  BY <2>1, <3>2, <3>3 DEF Input, InputOf
  <2>3. CASE \E v \in Writers : pc[v] = "append"
    <3>1. PICK v \in Writers : pc[v] = "append"
      BY <2>3
    <3>2. /\ pc'[v] = "append"
          /\ \A u, x \in Writers :
                pc'[u] = "append" /\ pc'[x] = "append" => u = x
      BY <1>2, <1>4, <3>1
    <3>3. Input = buf \o chunk[v]
      BY <1>4, <3>1, InputType
    <3>4. InputOf(pc', buf', chunk') = buf' \o chunk'[v]
      BY <3>2, InputWith
    <3> QED  BY <2>1, <3>3, <3>4 DEF Input, InputOf
  <2> QED  BY <2>2, <2>3
<1> QED  BY <1>1, <1>3, <1>4

LEMMA SendInput ==
    ASSUME SessionInv, NEW w \in Writers, Send(w)
    PROVE  /\ UNCHANGED <<lines, frames, out, resets, broken, unended>>
           /\ at' \in Nat /\ at' > at /\ at' <= Len(Wire)
           /\ overlap' \in BOOLEAN /\ mixed' \in BOOLEAN
           /\ Single'
           /\ ~overlap' => ~overlap /\ \A v \in Writers : pc[v] = "idle"
           /\ ~mixed' => ~mixed /\ \E k \in Nat \ {0}, c \in Seq(Bytes) :
                 /\ Chunk(c, at, k) /\ c # <<>>
                 /\ at' = at + k
                 /\ Input' = Input \o c
<1> USE SessionFacts
<1>1. PICK k \in 1..MTU :
         /\ at + k <= Len(Wire)
         /\ Call(w, SubSeq(Wire, at + 1, at + k))
         /\ at' = at + k
  BY DEF Send
<1>2. k \in Nat \ {0}
  BY <1>1, WireAssumption
<1>3. PICK c : c = SubSeq(Wire, at + 1, at + k) /\ Chunk(c, at, k)
  BY <1>1, <1>2, ChunkBytes
<1>4. c \in Seq(Bytes) /\ c # <<>>
  BY <1>2, <1>3 DEF Chunk
<1>5. /\ pc[w] = "idle"
      /\ \A v \in Writers : pc'[v] = IF v = w THEN "append" ELSE pc[v]
      /\ chunk'[w] = c
      /\ UNCHANGED <<buf, frames, out, lines, resets, broken, unended>>
  BY <1>1, <1>3 DEF Send, Call, ghosts, TypeOK
<1>6. /\ overlap' \in BOOLEAN /\ mixed' \in BOOLEAN
      /\ ~mixed' <=> ~mixed /\ \A v \in Writers : pc[v] # "append"
      /\ ~overlap' <=> ~overlap /\ \A v \in Writers : pc[v] = "idle"
  BY Zenon DEF Send, SessionInv, SessionTypeOK
<1>7. Single'
  <2>1. mixed' => overlap'
    BY <1>6, Zenon
  <2>2. ASSUME ~mixed', NEW u \in Writers, NEW v \in Writers,
               pc'[u] = "append", pc'[v] = "append"
        PROVE  u = v
    BY <1>5, <1>6, <2>2
  <2>3. ASSUME ~overlap', NEW u \in Writers, NEW v \in Writers,
               pc'[u] # "idle", pc'[v] # "idle"
        PROVE  u = v
    BY <1>5, <1>6, <2>3
  <2> QED  BY <2>1, <2>2, <2>3 DEF Single
<1>8. ASSUME ~mixed'
      PROVE  Input' = Input \o c
  <2>1. Input = buf
    BY <1>6, <1>8, InputType
  <2>2. /\ pc'[w] = "append"
        /\ \A u, v \in Writers :
              pc'[u] = "append" /\ pc'[v] = "append" => u = v
    BY <1>5, <1>6, <1>8
  <2>3. InputOf(pc', buf', chunk') = buf' \o chunk'[w]
    BY <2>2, InputWith
  <2> QED  BY <1>5, <2>1, <2>3 DEF Input, InputOf
<1>9. at' \in Nat /\ at' > at /\ at' <= Len(Wire)
  BY <1>1, <1>2
<1> QED  BY <1>1, <1>2, <1>3, <1>4, <1>5, <1>6, <1>7, <1>8, <1>9

LEMMA DisconnectInput ==
    ASSUME SessionInv, Disconnect
    PROVE  /\ UNCHANGED <<lines, frames, out, resets, overlap, mixed>>
           /\ Input' = Input
           /\ Single'
           /\ \E m \in Messages \ broken : \E rest \in 1..Size[m] :
                 /\ at + rest = End[m]
                 /\ at' = End[m] /\ at' \in Nat /\ at < at'
                 /\ broken' = broken \cup {m}
                 /\ Gone' = IF rest = 1 THEN Gone ELSE Gone \cup {m}
                 /\ unended' \in {unended, unended \cup {m}}
<1> USE SessionFacts
<1>1. UNCHANGED <<vars, overlap, mixed>>
  BY DEF Disconnect
<1>2. PICK m \in Messages : \E rest \in 1..Size[m] :
         /\ at + rest = End[m]
         /\ at' = at + rest
         /\ broken' = broken \cup {m}
         /\ unended' = IF rest = 1 THEN unended \cup {m} ELSE unended
  BY DEF Disconnect
<1>3. PICK rest \in 1..Size[m] :
         /\ at + rest = End[m]
         /\ at' = at + rest
         /\ broken' = broken \cup {m}
         /\ unended' = IF rest = 1 THEN unended \cup {m} ELSE unended
  BY <1>2
<1>4. rest \in Nat /\ rest >= 1 /\ End[m] \in Nat
  BY MessageEnds
<1>5. at' = End[m] /\ at' \in Nat /\ at < at'
  BY <1>3, <1>4
<1>6. m \notin broken /\ m \notin unended
  <2>1. m \notin broken
    BY <1>4, <1>5
  <2> QED  BY <2>1 DEF SessionInv, SessionTypeOK
<1>7. Gone' = IF rest = 1 THEN Gone ELSE Gone \cup {m}
  <2>1. CASE rest = 1
    BY <1>3, <1>6, <2>1 DEF Gone
  <2>2. CASE rest # 1
    BY <1>3, <1>6, <2>2 DEF Gone
  <2> QED  BY <2>1, <2>2
<1>8. UNCHANGED <<lines, frames, out, resets>> /\ Input' = Input
  BY <1>1 DEF vars, Input
<1>9. Single'
  BY <1>1 DEF vars, SessionInv, Single
<1> QED  BY <1>1, <1>3, <1>5, <1>6, <1>7, <1>8, <1>9

-----------------------------------------------------------------------------
(* What the steps preserve.                                                *)

\* What a step has to preserve, besides what the framer keeps and who runs.
OrderInv ==
    /\ SessionTypeOK
    /\ LinesInOrder
    /\ DispatchInOrder
    /\ Contiguous
    /\ UpToDate
    /\ Received
    /\ Decoded

LEMMA Appended ==
    ASSUME NEW S, NEW s \in Seq(S), NEW e \in S
    PROVE  /\ \A j \in 1..Len(s) :
                 j \in 1..Len(Append(s, e)) /\ Append(s, e)[j] = s[j]
           /\ \A j \in 1..Len(Append(s, e)) :
                 \/ j \in 1..Len(s) /\ Append(s, e)[j] = s[j]
                 \/ /\ Append(s, e)[j] = e
                    /\ \A k \in 1..Len(Append(s, e)) : ~(j < k)
           /\ Len(s) + 1 \in 1..Len(Append(s, e))
           /\ Append(s, e)[Len(s) + 1] = e
<1>1. /\ Len(s) \in Nat /\ Len(Append(s, e)) = Len(s) + 1
      /\ \A j \in 1..Len(s) : Append(s, e)[j] = s[j]
      /\ Append(s, e)[Len(s) + 1] = e
  OBVIOUS
<1>2. \A j \in 1..(Len(s) + 1) :
         j \in 1..Len(s) \/ j = Len(s) + 1
  BY <1>1
<1> QED  BY <1>1, <1>2

\* What depends on the lines and the input only.
LEMMA QuietKeeps ==
    ASSUME SessionInv, UNCHANGED <<lines, resets>>, Untouched,
           ~mixed => Input' = Input
    PROVE  /\ SessionTypeOK' /\ LinesInOrder' /\ Contiguous' /\ UpToDate'
           /\ Received'
<1>1. /\ UNCHANGED <<at, broken, unended, overlap, mixed>>
      /\ Gone' = Gone /\ Whole' = Whole
  BY DEF Untouched, Gone, Whole
<1>2. SessionTypeOK'
  BY <1>1 DEF SessionInv, SessionTypeOK
<1>3. LinesInOrder'
  BY <1>1 DEF SessionInv, LinesInOrder
<1>4. Contiguous'
  BY <1>1 DEF SessionInv, Contiguous
<1>5. UpToDate'
  BY <1>1 DEF SessionInv, UpToDate, AtEnd
<1>6. Received'
  BY <1>1 DEF SessionInv, Received
<1> QED  BY <1>2, <1>3, <1>4, <1>5, <1>6

LEMMA ReleaseOrder ==
    ASSUME SessionInv, NEW w \in Writers, Release(w) \/ Return(w),
           UNCHANGED session
    PROVE  OrderInv' /\ Single'
<1>1. /\ UNCHANGED <<lines, resets>> /\ Untouched
      /\ Single'
      /\ ~mixed => Input' = Input
  BY QuietInput
<1>2. UNCHANGED <<frames, out>>
  BY DEF Release, Return
<1>3. /\ SessionTypeOK' /\ LinesInOrder' /\ Contiguous' /\ UpToDate'
      /\ Received'
  BY <1>1, QuietKeeps
<1>4. DispatchInOrder'
  BY <1>1, <1>2, SessionFacts DEF SessionInv, DispatchInOrder, Untouched
<1>5. Decoded'
  BY <1>2 DEF SessionInv, Decoded
<1> QED  BY <1>1, <1>3, <1>4, <1>5 DEF OrderInv

LEMMA DispatchOrder ==
    ASSUME SessionInv, NEW w \in Writers, Dispatch(w), UNCHANGED session
    PROVE  OrderInv' /\ Single'
<1> USE SessionFacts
<1>0. /\ UNCHANGED <<lines, resets>> /\ Untouched
      /\ Single'
      /\ ~mixed => Input' = Input
  BY QuietInput
<1>1. PICK raw :
         /\ raw = Head(frames[w])
         /\ out' = IF raw = <<>> THEN out
                   ELSE Append(out, [line |-> raw, ok |-> raw \in Packets])
  BY DEF Dispatch
<1>2. /\ pc[w] = "dispatch"
      /\ frames[w] # <<>>
      /\ frames' = [frames EXCEPT ![w] = Tail(@)]
  BY DEF Dispatch
<1>3. /\ SessionTypeOK' /\ LinesInOrder' /\ Contiguous' /\ UpToDate'
      /\ Received'
  BY <1>0, QuietKeeps
<1>4. /\ Len(frames[w]) \in Nat \ {0}
      /\ raw = frames[w][1]
      /\ raw \in Seq(Bytes)
      /\ \A k \in 1..Len(frames'[w]) :
            /\ k + 1 \in 1..Len(frames[w]) /\ 1 < k + 1
            /\ frames'[w][k] = frames[w][k + 1]
      /\ \A v \in Writers : v # w => frames'[v] = frames[v]
  <2>1. frames[w] \in Seq(Seq(Bytes)) /\ frames[w] # <<>>
    BY <1>2 DEF TypeOK
  <2>2. /\ frames'[w] = Tail(frames[w])
        /\ \A v \in Writers : v # w => frames'[v] = frames[v]
    BY <1>2 DEF TypeOK
  <2>3. Len(frames[w]) \in Nat \ {0}
    BY <2>1
  <2>4. raw = frames[w][1] /\ raw \in Seq(Bytes)
    BY <1>1, <2>1
  <2>5. \A k \in 1..Len(frames'[w]) :
           /\ k + 1 \in 1..Len(frames[w]) /\ 1 < k + 1
           /\ frames'[w][k] = frames[w][k + 1]
    BY <2>1, <2>2
  <2> QED  BY <2>2, <2>3, <2>4, <2>5
<1>5. ASSUME NEW j \in 1..Len(out')
      PROVE  \/ j \in 1..Len(out) /\ out'[j] = out[j]
             \/ /\ out'[j].line = raw
                /\ out'[j].ok <=> raw \in Packets
                /\ \A k \in 1..Len(out') : ~(j < k)
  <2> DEFINE f == [line |-> raw, ok |-> raw \in Packets]
  <2>1. f.line = raw /\ (f.ok <=> raw \in Packets)
    OBVIOUS
  <2>2. f \in [line : Seq(Bytes), ok : BOOLEAN]
    BY <1>4
  <2>3. out' = out \/ out' = Append(out, f)
    BY <1>1
  <2> HIDE DEF f
  <2>4. \/ j \in 1..Len(out) /\ out'[j] = out[j]
        \/ out'[j] = f /\ \A k \in 1..Len(out') : ~(j < k)
    <3>1. out \in Seq([line : Seq(Bytes), ok : BOOLEAN])
      BY DEF TypeOK
    <3>2. CASE out' = out
      BY <1>5, <3>2
    <3>3. CASE out' = Append(out, f)
      <4> DEFINE Frame == [line : Seq(Bytes), ok : BOOLEAN]
      <4>1. f \in Frame /\ out \in Seq(Frame)
        BY <2>2, <3>1
      <4> HIDE DEF Frame
      <4> QED  BY <1>5, <3>3, <4>1, Appended
    <3> QED  BY <2>3, <3>2, <3>3
  <2> QED  BY <2>1, <2>4
<1>8. DispatchInOrder'
  <2> SUFFICES ASSUME ~overlap
               PROVE  DispatchInOrder'
    BY <1>0, Zenon DEF DispatchInOrder, Untouched
  <2>0. Input' = Input /\ at' = at
    BY <1>0 DEF Untouched
  <2>1. \A v \in Writers : v # w => pc[v] = "idle" /\ frames'[v] = <<>>
    BY <1>2, <1>4 DEF FramesIdle
  <2>2. ASSUME NEW v \in Writers, NEW j \in 1..Len(frames'[v])
        PROVE  v = w
    BY <2>1
  <2>3. /\ \A j \in 1..Len(frames[w]) :
              /\ Settled(frames[w][j], at)
              /\ Before(frames[w][j], Input)
              /\ \A k \in 1..Len(frames[w]) :
                    j < k => Before(frames[w][j], frames[w][k])
        /\ \A j \in 1..Len(out) :
              /\ Settled(out[j].line, at)
              /\ Before(out[j].line, Input)
              /\ \A k \in 1..Len(out) :
                    j < k => Before(out[j].line, out[k].line)
              /\ \A k \in 1..Len(frames[w]) :
                    Before(out[j].line, frames[w][k])
    BY DEF SessionInv, DispatchInOrder
  <2>4. ASSUME NEW j \in 1..Len(frames'[w])
        PROVE  /\ Settled(frames'[w][j], at)
               /\ Before(frames'[w][j], Input)
               /\ Before(raw, frames'[w][j])
    <3>1. /\ 1 \in 1..Len(frames[w]) /\ raw = frames[w][1]
          /\ j + 1 \in 1..Len(frames[w]) /\ 1 < j + 1
          /\ frames'[w][j] = frames[w][j + 1]
      BY <1>4, <2>4
    <3> QED  BY <2>3, <3>1
  <2>5. ASSUME NEW j \in 1..Len(frames'[w]), NEW k \in 1..Len(frames'[w]),
               j < k
        PROVE  Before(frames'[w][j], frames'[w][k])
    <3>1. j + 1 < k + 1
      BY <2>5
    <3> QED  BY <1>4, <2>3, <3>1
  <2>6. /\ Settled(raw, at)
        /\ Before(raw, Input)
        /\ \A j \in 1..Len(out) : Before(out[j].line, raw)
    BY <1>4, <2>3
  <2>7. ASSUME NEW j \in 1..Len(out')
        PROVE  /\ Settled(out'[j].line, at)
               /\ Before(out'[j].line, Input)
               /\ \A k \in 1..Len(out') :
                    j < k => Before(out'[j].line, out'[k].line)
    <3>1. CASE j \in 1..Len(out) /\ out'[j] = out[j]
      BY <1>5, <2>3, <2>6, <3>1
    <3>2. CASE out'[j].line = raw /\ \A k \in 1..Len(out') : ~(j < k)
      BY <2>6, <3>2
    <3> QED  BY <1>5, <3>1, <3>2
  <2>8. ASSUME NEW j \in 1..Len(out'), NEW k \in 1..Len(frames'[w])
        PROVE  Before(out'[j].line, frames'[w][k])
    <3>1. k + 1 \in 1..Len(frames[w]) /\ frames'[w][k] = frames[w][k + 1]
      BY <1>4, <2>8
    <3>2. CASE j \in 1..Len(out) /\ out'[j] = out[j]
      BY <2>3, <3>1, <3>2
    <3>3. CASE out'[j].line = raw
      BY <2>4, <2>8, <3>3
    <3> QED  BY <1>5, <2>8, <3>2, <3>3
  <2>10. \A v \in Writers : \A j \in 1..Len(frames'[v]) :
            /\ Settled(frames'[v][j], at)
            /\ Before(frames'[v][j], Input)
            /\ \A k \in 1..Len(frames'[v]) :
                 j < k => Before(frames'[v][j], frames'[v][k])
    BY <2>2, <2>4, <2>5
  <2>11. \A j \in 1..Len(out') : \A v \in Writers :
            \A k \in 1..Len(frames'[v]) :
               Before(out'[j].line, frames'[v][k])
    BY <2>2, <2>8
  <2> QED  BY <2>0, <2>7, <2>10, <2>11 DEF DispatchInOrder
<1>9. Decoded'
  BY <1>5 DEF SessionInv, Decoded
<1> QED  BY <1>0, <1>3, <1>8, <1>9 DEF OrderInv

\* A reset more.
LEMMA ResetsGrow ==
    ASSUME NEW rs \in Seq(Seq(Bytes)), NEW q \in Seq(Bytes)
    PROVE  /\ \A b : Begins(b, rs) => Begins(b, Append(rs, q))
           /\ \A r \in 1..Len(rs) :
                 \E s \in 1..Len(Append(rs, q)) : Append(rs, q)[s] = rs[r]
           /\ \E s \in 1..Len(Append(rs, q)) : Append(rs, q)[s] = q
           /\ Append(rs, q) # <<>>
<1>1. /\ \A r \in 1..Len(rs) :
            r \in 1..Len(Append(rs, q)) /\ Append(rs, q)[r] = rs[r]
      /\ \E s \in 1..Len(Append(rs, q)) : Append(rs, q)[s] = q
  BY Appended
<1>2. \A b : Begins(b, rs) => Begins(b, Append(rs, q))
  BY <1>1 DEF Begins
<1>3. Append(rs, q) # <<>>
  <2>1. \A t : t = <<>> => ~\E s \in 1..Len(t) : t[s] = q
    OBVIOUS
  <2> QED  BY <1>1, <2>1
<1> QED  BY <1>1, <1>2, <1>3

LEMMA EmptyInput ==
    /\ \A n : Separated(<<>>, n)
    /\ \A q : Before(q, <<>>)
    /\ \A cut : Joined(<<>>, cut)
BY DEF Separated, Before, Joined

LEMMA AppendOrder ==
    ASSUME SessionInv, NEW w \in Writers, AppendChunk(w), UNCHANGED session
    PROVE  OrderInv' /\ Single'
<1> USE SessionFacts
<1>1. /\ UNCHANGED <<lines, frames, out>> /\ Untouched
      /\ Single'
      /\ ~mixed => \/ Input' = Input /\ resets' = resets
                   \/ Input' = <<>> /\ resets' = Append(resets, Input)
  BY AppendInput
<1>2. Decoded'
  BY <1>1 DEF SessionInv, Decoded
<1>3. SessionTypeOK'
  BY <1>1 DEF SessionInv, SessionTypeOK, Untouched
<1>4. CASE mixed
  <2>1. overlap /\ mixed' /\ overlap'
    BY <1>1, <1>4, Zenon DEF SessionInv, Single, Untouched
  <2> QED  BY <1>1, <1>2, <1>3, <2>1
           DEF OrderInv, LinesInOrder, DispatchInOrder, Contiguous, UpToDate,
               Received
<1>5. CASE ~mixed /\ Input' = Input /\ resets' = resets
  <2>1. /\ LinesInOrder' /\ Contiguous' /\ UpToDate' /\ Received'
    BY <1>1, <1>5, QuietKeeps
  <2>2. DispatchInOrder'
    BY <1>1, <1>5 DEF SessionInv, DispatchInOrder, Untouched
  <2> QED  BY <1>1, <1>2, <1>3, <2>1, <2>2 DEF OrderInv
<1>6. CASE ~mixed /\ Input' = <<>> /\ resets' = Append(resets, Input)
  <2>1. /\ resets \in Seq(Seq(Bytes)) /\ Input \in Seq(Bytes)
        /\ at' = at /\ broken' = broken /\ Gone' = Gone
    BY <1>1, <1>6, InputType DEF TypeOK, Untouched, Gone
  <2>2. LinesInOrder'
    BY <1>1, <1>6, <2>1, EmptyInput DEF SessionInv, LinesInOrder
  <2>3. DispatchInOrder'
    BY <1>1, <1>6, <2>1, EmptyInput
    DEF SessionInv, DispatchInOrder, Untouched
  <2>4. Contiguous'
    BY <1>1, <1>6, <2>1, EmptyInput, ResetsGrow DEF SessionInv, Contiguous
  <2>5. UpToDate'
    <3>1. \/ at > 0 /\ Final(Input) = Wire[at]
          \/ AtEnd
          \/ at > 0 /\ \E r \in 1..Len(resets) : Final(resets[r]) = Wire[at]
      BY <1>6 DEF SessionInv, UpToDate
    <3>2. AtEnd => AtEnd'
      BY <2>1 DEF AtEnd
    <3>3. CASE AtEnd
      BY <1>6, <3>2, <3>3 DEF UpToDate
    <3>4. CASE /\ at > 0
               /\ \/ Final(Input) = Wire[at]
                  \/ \E r \in 1..Len(resets) : Final(resets[r]) = Wire[at]
      <4>1. \E s \in 1..Len(resets') : Final(resets'[s]) = Wire[at]
        <5>1. \A r \in 1..Len(resets) :
                 \E s \in 1..Len(resets') : resets'[s] = resets[r]
          BY <1>6, <2>1, ResetsGrow
        <5>2. \E s \in 1..Len(resets') : resets'[s] = Input
          BY <1>6, <2>1, ResetsGrow
        <5> QED  BY <3>4, <5>1, <5>2
      <4> QED  BY <1>6, <2>1, <3>4, <4>1 DEF UpToDate
    <3> QED  BY <3>1, <3>3, <3>4
  <2>6. Received'
    BY <1>6, <2>1, ResetsGrow DEF Received
  <2> QED  BY <1>1, <1>2, <1>3, <2>2, <2>3, <2>4, <2>5, <2>6 DEF OrderInv
<1> QED  BY <1>1, <1>4, <1>5, <1>6

LEMMA CutOrder ==
    ASSUME SessionInv, NEW w \in Writers, CutLine(w), UNCHANGED session
    PROVE  OrderInv' /\ Single'
<1> USE SessionFacts
<1>1. UNCHANGED <<pc, out, resets>> /\ Untouched
  BY CutInput
<1>2. PICK line \in Seq(Bytes) :
         /\ frames' = [frames EXCEPT ![w] = Append(@, line)]
         /\ lines' = IF line = <<>> THEN lines ELSE Append(lines, line)
         /\ ~mixed => \E i \in 1..Len(Input) :
               FirstNewline(Input, i) /\ Pieces(Input, i, line, Input')
  BY CutInput
<1>3. /\ UNCHANGED <<at, broken, overlap, mixed>>
      /\ Gone' = Gone /\ Whole' = Whole
  BY <1>1 DEF Untouched, Gone, Whole
<1>4. SessionTypeOK' /\ Single' /\ Decoded'
  BY <1>1 DEF Untouched, SessionInv, SessionTypeOK, Single, Decoded
<1>5. CASE mixed
  <2>1. overlap /\ mixed' /\ overlap'
    BY <1>3, <1>5, Zenon DEF SessionInv, Single
  <2> QED  BY <1>4, <2>1
           DEF OrderInv, LinesInOrder, DispatchInOrder, Contiguous, UpToDate,
               Received
<1>6. CASE ~mixed
  <2>1. PICK i \in 1..Len(Input) :
           FirstNewline(Input, i) /\ Pieces(Input, i, line, Input')
    BY <1>2, <1>6
  <2>2. /\ Input \in Seq(Bytes)
        /\ \A x \in 1..Len(Input) :
              Input[x] # NL => Written(Input[x], at, Gone)
        /\ Separated(Input, at)
        /\ \A j \in 1..Len(lines) :
              /\ \A x \in 1..Len(lines[j]) : Written(lines[j][x], at, Gone)
              /\ Settled(lines[j], at)
              /\ Before(lines[j], Input)
              /\ \A k \in 1..Len(lines) :
                    j < k => Before(lines[j], lines[k])
    BY <1>6, InputType DEF SessionInv, LinesInOrder
  <2>3. /\ Settled(line, at)
        /\ Before(line, Input')
        /\ Separated(Input', at)
        /\ \A l : Before(l, Input) => Before(l, line) /\ Before(l, Input')
        /\ \A x \in 1..Len(Input') : \E z \in 1..Len(Input) :
              Input'[x] = Input[z]
    BY <2>1, <2>2, Parted
  <2>4. \A x \in 1..Len(line) : Written(line[x], at, Gone)
    <3>1. \A x \in 1..Len(line) : x \in 1..Len(Input) /\ line[x] = Input[x]
      BY <2>1 DEF Pieces
    <3>2. \A x \in 1..Len(line) : line[x] # NL
      BY <2>3 DEF Settled, Over
    <3> QED  BY <2>2, <3>1, <3>2
  <2>5. ASSUME NEW j \in 1..Len(lines')
        PROVE  \/ j \in 1..Len(lines) /\ lines'[j] = lines[j]
               \/ /\ line # <<>> /\ lines'[j] = line
                  /\ \A k \in 1..Len(lines') : ~(j < k)
    <3>1. lines \in Seq(Seq(Bytes))
      BY DEF TypeOK
    <3>2. CASE line = <<>>
      BY <1>2, <2>5, <3>2
    <3>3. CASE line # <<>>
      <4>1. lines' = Append(lines, line)
        BY <1>2, <3>3
      <4> DEFINE L == Seq(Bytes)
      <4>2. lines \in Seq(L) /\ line \in L
        BY <3>1
      <4> HIDE DEF L
      <4>3. \A k \in 1..Len(Append(lines, line)) :
               \/ k \in 1..Len(lines) /\ Append(lines, line)[k] = lines[k]
               \/ /\ Append(lines, line)[k] = line
                  /\ \A h \in 1..Len(Append(lines, line)) : ~(k < h)
        BY <4>2, Appended
      <4> QED  BY <2>5, <3>3, <4>1, <4>3
    <3> QED  BY <3>2, <3>3
  <2>6. LinesInOrder'
    <3>1. \A x \in 1..Len(Input') :
             Input'[x] # NL => Written(Input'[x], at, Gone)
      BY <2>2, <2>3
    <3>2. ASSUME NEW j \in 1..Len(lines')
          PROVE  /\ \A x \in 1..Len(lines'[j]) :
                       Written(lines'[j][x], at, Gone)
                 /\ Settled(lines'[j], at)
                 /\ Before(lines'[j], Input')
                 /\ \A k \in 1..Len(lines') :
                       j < k => Before(lines'[j], lines'[k])
      BY <2>2, <2>3, <2>4, <2>5
    <3> QED  BY <1>3, <2>3, <3>1, <3>2 DEF LinesInOrder
  <2>7. DispatchInOrder'
    <3> SUFFICES ASSUME ~overlap
                 PROVE  DispatchInOrder'
      BY <1>3, Zenon DEF DispatchInOrder
    <3>1. \A v \in Writers : v # w => pc[v] = "idle" /\ frames'[v] = <<>>
      <4>1. pc[w] = "split"
        BY DEF CutLine
      <4> QED  BY <1>2, <4>1 DEF FramesIdle, TypeOK
    <3>2. ASSUME NEW v \in Writers, NEW j \in 1..Len(frames'[v])
          PROVE  v = w
      BY <3>1
    <3>3. /\ \A j \in 1..Len(frames[w]) :
                /\ Settled(frames[w][j], at)
                /\ Before(frames[w][j], Input)
                /\ \A k \in 1..Len(frames[w]) :
                      j < k => Before(frames[w][j], frames[w][k])
          /\ \A j \in 1..Len(out) :
                /\ Settled(out[j].line, at)
                /\ Before(out[j].line, Input)
                /\ \A k \in 1..Len(out) :
                      j < k => Before(out[j].line, out[k].line)
                /\ \A k \in 1..Len(frames[w]) :
                      Before(out[j].line, frames[w][k])
      BY DEF SessionInv, DispatchInOrder
    <3>4. ASSUME NEW j \in 1..Len(frames'[w])
          PROVE  \/ j \in 1..Len(frames[w]) /\ frames'[w][j] = frames[w][j]
                 \/ /\ frames'[w][j] = line
                    /\ \A k \in 1..Len(frames'[w]) : ~(j < k)
      <4>1. frames[w] \in Seq(Seq(Bytes))
        BY DEF TypeOK
      <4>2. frames'[w] = Append(frames[w], line)
        BY <1>2 DEF TypeOK
      <4> QED  BY <3>4, <4>1, <4>2, Appended
    <3>5. ASSUME NEW j \in 1..Len(frames'[w])
          PROVE  /\ Settled(frames'[w][j], at)
                 /\ Before(frames'[w][j], Input')
                 /\ \A k \in 1..Len(frames'[w]) :
                      j < k => Before(frames'[w][j], frames'[w][k])
      BY <2>3, <3>3, <3>4
    <3>6. ASSUME NEW j \in 1..Len(out)
          PROVE  /\ Before(out[j].line, Input')
                 /\ \A k \in 1..Len(frames'[w]) :
                      Before(out[j].line, frames'[w][k])
      BY <2>3, <3>3, <3>4
    <3>7. \A v \in Writers : \A j \in 1..Len(frames'[v]) :
             /\ Settled(frames'[v][j], at)
             /\ Before(frames'[v][j], Input')
             /\ \A k \in 1..Len(frames'[v]) :
                  j < k => Before(frames'[v][j], frames'[v][k])
      BY <3>2, <3>5
    <3>8. \A j \in 1..Len(out) : \A v \in Writers :
             \A k \in 1..Len(frames'[v]) :
                Before(out[j].line, frames'[v][k])
      BY <3>2, <3>6
    <3> QED  BY <1>1, <1>3, <3>3, <3>6, <3>7, <3>8 DEF DispatchInOrder
  <2>8. /\ Joined(line, broken) /\ Joined(Input', broken)
        /\ line # <<>> => line[1] = Input[1] /\ Joins(Final(line), NL, broken)
        /\ Input' # <<>> => Starts(Input'[1]) /\ Final(Input') = Final(Input)
        /\ Input' = <<>> => Final(Input) = NL
        /\ Input # <<>>
    <3>1. Joined(Input, broken)
      BY <1>6 DEF SessionInv, Contiguous
    <3>2. Input # <<>>
      OBVIOUS
    <3> QED  BY <2>1, <2>2, <3>1, <3>2, PartedJoined
  <2>9. Contiguous'
    <3>1. /\ Begins(Input[1], resets)
          /\ \A j \in 1..Len(lines) :
                /\ Joined(lines[j], broken)
                /\ Begins(lines[j][1], resets)
                /\ Joins(Final(lines[j]), NL, broken)
      BY <1>6, <2>8 DEF SessionInv, Contiguous
    <3>2. Input' # <<>> => Begins(Input'[1], resets)
      BY <2>8 DEF Begins
    <3>3. ASSUME NEW j \in 1..Len(lines')
          PROVE  /\ Joined(lines'[j], broken)
                 /\ Begins(lines'[j][1], resets)
                 /\ Joins(Final(lines'[j]), NL, broken)
      BY <2>5, <2>8, <3>1
    <3> QED  BY <1>1, <1>3, <2>8, <3>2, <3>3 DEF Contiguous
  <2>10. UpToDate'
    <3>1. \/ at > 0 /\ Final(Input) = Wire[at]
          \/ AtEnd /\ Ends(Final(Input), broken)
      BY <1>6, <2>8 DEF SessionInv, UpToDate
    <3>2. AtEnd => AtEnd'
      BY <1>3 DEF AtEnd
    <3>3. CASE Input' # <<>>
      BY <1>3, <2>8, <3>1, <3>2, <3>3 DEF UpToDate
    <3>4. CASE Input' = <<>>
      <4>1. ASSUME at > 0, Wire[at] = NL
            PROVE  AtEnd
        <5>1. at \in 1..Len(Wire)
          BY <4>1, WirePlace DEF SessionInv, SessionTypeOK
        <5>2. \E m \in 1..Len(Size) : at = End[m]
          BY <4>1, <5>1, WireByte
        <5> QED  BY <5>2, EndFacts DEF AtEnd
      <4> QED  BY <2>8, <3>1, <3>2, <3>4, <4>1 DEF UpToDate
    <3> QED  BY <3>3, <3>4
  <2>11. Received'
    <3> SUFFICES ASSUME resets = <<>>, NEW m \in Whole
                 PROVE  \/ \E j \in 1..Len(lines') :
                              Final(lines'[j]) = <<m, Size[m]>>
                        \/ \E x \in 1..(Len(Input') - 1) :
                              /\ Input'[x] = <<m, Size[m]>>
                              /\ Input'[x + 1] = NL
      BY <1>1, <1>3 DEF Received
    <3>1. ASSUME line # <<>>
          PROVE  \E j \in 1..Len(lines') : lines'[j] = line
      <4> DEFINE L == Seq(Bytes)
      <4>1. lines' = Append(lines, line)
        BY <1>2, <3>1
      <4>2. lines \in Seq(L) /\ line \in L
        BY DEF TypeOK
      <4> HIDE DEF L
      <4>3. \E j \in 1..Len(Append(lines, line)) :
               Append(lines, line)[j] = line
        BY <4>2, Appended
      <4> QED  BY <4>1, <4>3
    <3>2. \A j \in 1..Len(lines) : j \in 1..Len(lines') /\ lines'[j] = lines[j]
      <4>1. lines \in Seq(Seq(Bytes))
        BY DEF TypeOK
      <4>2. CASE line = <<>>
        BY <1>2, <4>2
      <4>3. CASE line # <<>>
        BY <1>2, <4>1, <4>3, Appended
      <4> QED  BY <4>2, <4>3
    <3>3. CASE \E j \in 1..Len(lines) : Final(lines[j]) = <<m, Size[m]>>
      BY <3>2, <3>3
    <3>4. CASE \E x \in 1..(Len(Input) - 1) :
                  Input[x] = <<m, Size[m]>> /\ Input[x + 1] = NL
      <4>1. PICK x \in 1..(Len(Input) - 1) :
                  Input[x] = <<m, Size[m]>> /\ Input[x + 1] = NL
        BY <3>4
      <4>2. Input[x] # NL
        <5>1. m \in Messages
          BY DEF Whole
        <5>2. Size[m] \in 1..Size[m]
          BY <5>1, MessageEnds
        <5> QED  BY <4>1, <5>1, <5>2, PacketsAssumption
      <4>3. /\ Input[i] = NL /\ \A z \in 1..(i - 1) : Input[z] # NL
            /\ Len(Input) \in Nat /\ Len(line) = i - 1
            /\ Len(Input') = Len(Input) - i
        BY <2>1, <2>2 DEF FirstNewline, Pieces
      <4>4. CASE x + 1 = i
        <5>1. Len(line) = x /\ x \in 1..Len(line)
          BY <4>3, <4>4
        <5>2. Final(line) = <<m, Size[m]>>
          BY <2>1, <4>1, <5>1 DEF Pieces, Final
        <5>3. line # <<>>
          BY <5>1
        <5> QED  BY <3>1, <5>2, <5>3
      <4>5. CASE x + 1 # i
        <5>1. x > i
          <6>1. x # i
            BY <4>2, <4>3
          <6>2. x + 1 \notin 1..(i - 1)
            BY <4>1, <4>3
          <6> QED  BY <4>3, <4>5, <6>1, <6>2
        <5>2. /\ x - i \in 1..(Len(Input') - 1)
              /\ (x - i) + i = x /\ ((x - i) + 1) + i = x + 1
          BY <4>3, <5>1
        <5>3. x - i \in 1..Len(Input') /\ (x - i) + 1 \in 1..Len(Input')
          BY <4>3, <5>2
        <5>4. Input'[x - i] = Input[x] /\ Input'[(x - i) + 1] = Input[x + 1]
          BY <2>1, <5>2, <5>3 DEF Pieces
        <5> QED  BY <4>1, <5>2, <5>4
      <4> QED  BY <4>4, <4>5
    <3> QED  BY <1>6, <3>3, <3>4 DEF SessionInv, Received
  <2> QED  BY <1>4, <2>6, <2>7, <2>9, <2>10, <2>11 DEF OrderInv
<1> QED  BY <1>5, <1>6

LEMMA Behind ==
    ASSUME NEW q \in Seq(Bytes), NEW c \in Seq(Bytes), NEW k, Len(c) = k,
           NEW t, t = q \o c
    PROVE  /\ Len(q) \in Nat /\ Len(t) = Len(q) + k
           /\ \A x \in 1..Len(q) : t[x] = q[x]
           /\ \A x \in 1..Len(t) : x > Len(q) =>
                 x - Len(q) \in 1..k /\ t[x] = c[x - Len(q)]
BY ConcatAt

LEMMA BeforeBoth ==
    ASSUME NEW q, NEW r \in Seq(Bytes), NEW c \in Seq(Bytes),
           Before(q, r), Before(q, c)
    PROVE  Before(q, r \o c)
<1>1. PICK t : t = r \o c
  OBVIOUS
<1>2. /\ Len(r) \in Nat
      /\ \A x \in 1..Len(r) : t[x] = r[x]
      /\ \A x \in 1..Len(t) : x > Len(r) =>
            x - Len(r) \in 1..Len(c) /\ t[x] = c[x - Len(r)]
      /\ Len(t) \in Nat
  BY <1>1, ConcatAt
<1>3. \A y \in 1..Len(t) : \/ \E x \in 1..Len(r) : t[y] = r[x]
                           \/ \E x \in 1..Len(c) : t[y] = c[x]
  <2>1. ASSUME NEW y \in 1..Len(t)
        PROVE  y \in 1..Len(r) \/ y > Len(r)
    BY <1>2
  <2> QED  BY <1>2, <2>1
<1>4. Before(q, t)
  BY <1>3 DEF Before
<1> QED  BY <1>1, <1>4

\* The last byte of a message, and the newline behind it.
LEMMA LastByte ==
    ASSUME NEW m \in Messages, End[m] <= Len(Wire)
    PROVE  /\ End[m] - 1 \in 1..Len(Wire) /\ End[m] \in 1..Len(Wire)
           /\ Wire[End[m]] = NL
           /\ Wire[End[m] - 1] = <<m, Size[m]>>
           /\ \A l \in 0..Len(Size) : End[l] # End[m] - 1
<1>1. /\ m \in 1..Len(Size) /\ m \in 0..Len(Size) /\ m - 1 \in 0..Len(Size)
      /\ m \in Nat
      /\ Size[m] \in Nat \ {0} /\ End[m - 1] \in Nat /\ End[m] \in Nat
      /\ End[m] = End[m - 1] + Size[m] + 1
  BY MessageEnds
<1>2. Len(Wire) \in Nat
  BY WirePlace, EndFacts
<1>3. End[m] - 1 \in 1..Len(Wire) /\ End[m] \in 1..Len(Wire)
  <2>1. \A a, e, u, v \in Nat :
           u # 0 /\ e = a + u + 1 /\ e <= v => e - 1 \in 1..v /\ e \in 1..v
    OBVIOUS
  <2> QED  BY <1>1, <1>2, <2>1
<1>4. Wire[End[m]] = NL
  <2>1. End[m - 1] < End[m] /\ End[m] <= End[m]
    BY <1>1
  <2> QED  BY <1>1, <1>3, <2>1, WirePlace
<1>5. Wire[End[m] - 1] = <<m, Size[m]>>
  <2>1. /\ End[m - 1] < End[m] - 1 /\ End[m] - 1 <= End[m]
        /\ End[m] - 1 # End[m] /\ (End[m] - 1) - End[m - 1] = Size[m]
    BY <1>1
  <2>2. Wire[End[m] - 1] = IF End[m] - 1 = End[m] THEN NL
                           ELSE <<m, (End[m] - 1) - End[m - 1]>>
    BY <1>1, <1>3, <2>1, WirePlace
  <2> QED  BY <2>1, <2>2
<1>6. ASSUME NEW l \in 0..Len(Size), End[l] = End[m] - 1
      PROVE  FALSE
  <2>1. /\ End[l] \in Nat
        /\ End[m - 1] < End[l] <=> m - 1 < l
        /\ End[l] < End[m] <=> l < m
    BY <1>1, EndOrder
  <2>2. End[m - 1] < End[l] /\ End[l] < End[m]
    <3>1. \A a, e, u, v \in Nat :
             u # 0 /\ e = a + u + 1 /\ v = e - 1 => a < v /\ v < e
      OBVIOUS
    <3> QED  BY <1>1, <1>6, <2>1, <3>1
  <2>3. l \in Nat
    BY EndFacts
  <2> QED  BY <1>1, <2>1, <2>2, <2>3
<1> QED  BY <1>3, <1>4, <1>5, <1>6

LEMMA SendOrder ==
    ASSUME SessionInv, NEW w \in Writers, Send(w)
    PROVE  OrderInv' /\ Single'
<1> USE SessionFacts
<1>1. /\ UNCHANGED <<lines, frames, out, resets, broken, unended>>
      /\ at' \in Nat /\ at' > at /\ at' <= Len(Wire)
      /\ overlap' \in BOOLEAN /\ mixed' \in BOOLEAN
      /\ Single'
      /\ ~overlap' => ~overlap /\ \A v \in Writers : pc[v] = "idle"
  BY SendInput
<1>2. Gone' = Gone
  BY <1>1 DEF Gone
<1>3. Decoded'
  BY <1>1 DEF SessionInv, Decoded
<1>4. SessionTypeOK'
  <2>1. at' \in 0..End[Len(Size)]
    BY <1>1, WirePlace, EndFacts
  <2>2. ASSUME NEW m \in broken
        PROVE  m \in Messages /\ End[m] <= at'
    <3>1. m \in Messages /\ End[m] <= at
      OBVIOUS
    <3>2. End[m] \in Nat
      BY <3>1, MessageEnds
    <3> QED  BY <1>1, <3>1, <3>2
  <2>3. unended' \subseteq broken'
    BY <1>1 DEF SessionInv, SessionTypeOK
  <2> QED  BY <1>1, <2>1, <2>2, <2>3 DEF SessionTypeOK
<1>5. /\ \A b : Written(b, at, Gone) => Written(b, at', Gone)
      /\ \A q : Settled(q, at) => Settled(q, at')
  <2>1. at \in Nat /\ at' \in Nat /\ at <= at'
    BY <1>1
  <2> QED  BY <2>1, Later
<1>6. CASE mixed'
  <2>1. overlap'
    BY <1>1, <1>6, Zenon DEF Single
  <2> QED  BY <1>1, <1>3, <1>4, <1>6, <2>1
           DEF OrderInv, LinesInOrder, DispatchInOrder, Contiguous, UpToDate,
               Received
<1>7. CASE ~mixed'
  <2>0. ~mixed
    BY <1>7, SendInput
  <2>1. PICK k \in Nat \ {0}, c \in Seq(Bytes) :
           /\ Chunk(c, at, k) /\ c # <<>>
           /\ at' = at + k
           /\ Input' = Input \o c
    BY <1>7, SendInput
  <2>2. /\ Input \in Seq(Bytes)
        /\ \A x \in 1..Len(Input) :
              Input[x] # NL => Written(Input[x], at, Gone)
        /\ Separated(Input, at)
        /\ \A i \in 1..Len(lines) :
              /\ \A x \in 1..Len(lines[i]) : Written(lines[i][x], at, Gone)
              /\ Settled(lines[i], at)
              /\ Before(lines[i], Input)
              /\ \A j \in 1..Len(lines) : i < j => Before(lines[i], lines[j])
    BY <2>0, InputType DEF SessionInv, LinesInOrder
  <2>3. \A q : Settled(q, at) /\ Before(q, Input) => Before(q, Input')
    <3>1. \A q : Settled(q, at) => Before(q, c)
      BY <2>1, SettledBefore
    <3> QED  BY <2>1, <2>2, <3>1, BeforeBoth
  <2>4. LinesInOrder'
    <3>1. /\ \A x \in 1..Len(Input') :
                Input'[x] # NL => Written(Input'[x], at', Gone)
          /\ Separated(Input', at')
      BY <2>1, <2>2, Extended
    <3>2. ASSUME NEW i \in 1..Len(lines)
          PROVE  /\ \A x \in 1..Len(lines[i]) :
                       Written(lines[i][x], at', Gone)
                 /\ Settled(lines[i], at')
                 /\ Before(lines[i], Input')
                 /\ \A j \in 1..Len(lines) :
                       i < j => Before(lines[i], lines[j])
      BY <1>5, <2>2, <2>3
    <3> QED  BY <1>1, <1>2, <3>1, <3>2 DEF LinesInOrder
  <2>5. DispatchInOrder'
    <3> SUFFICES ASSUME ~overlap'
                 PROVE  DispatchInOrder'
      BY Zenon DEF DispatchInOrder
    <3>1. \A v \in Writers : frames'[v] = <<>>
      BY <1>1 DEF FramesIdle
    <3>2. ASSUME NEW i \in 1..Len(out)
          PROVE  /\ Settled(out[i].line, at')
                 /\ Before(out[i].line, Input')
                 /\ \A j \in 1..Len(out) :
                       i < j => Before(out[i].line, out[j].line)
      BY <1>1, <1>5, <2>3 DEF SessionInv, DispatchInOrder
    <3> QED  BY <1>1, <3>1, <3>2 DEF DispatchInOrder
  <2>6. /\ Joined(c, broken)
        /\ Final(c) = Wire[at']
        /\ at > 0 => Joins(Wire[at], c[1], broken)
        /\ AtEnd => Starts(c[1])
        /\ at > 0 => \A r \in 1..Len(resets) :
                        Final(resets[r]) = Wire[at] => Begins(c[1], resets)
    BY <2>1, ChunkJoins DEF AtEnd
  <2>7. /\ Input # <<>> => Joins(Final(Input), c[1], broken)
        /\ Input = <<>> => Begins(c[1], resets)
    <3>1. \/ at > 0 /\ Input # <<>> /\ Final(Input) = Wire[at]
          \/ AtEnd /\ (Input # <<>> => Ends(Final(Input), broken))
          \/ /\ at > 0 /\ Input = <<>>
             /\ \E r \in 1..Len(resets) : Final(resets[r]) = Wire[at]
      BY <2>0 DEF SessionInv, UpToDate
    <3> QED  BY <2>6, <3>1 DEF Joins, Begins
  <2>8. /\ Joined(Input', broken)
        /\ Input' # <<>> /\ Final(Input') = Final(c)
        /\ Input'[1] = IF Input = <<>> THEN c[1] ELSE Input[1]
    <3>1. Joined(Input, broken)
      BY <2>0 DEF SessionInv, Contiguous
    <3> QED  BY <2>1, <2>2, <2>6, <2>7, <3>1, ExtendedJoined
  <2>9. Contiguous'
    <3>1. Begins(Input'[1], resets)
      BY <2>0, <2>7, <2>8 DEF SessionInv, Contiguous
    <3> QED  BY <1>1, <2>0, <2>8, <3>1 DEF SessionInv, Contiguous
  <2>10. UpToDate'
    <3>1. at' > 0
      BY <1>1
    <3> QED  BY <2>6, <2>8, <3>1 DEF UpToDate
  <2>11. Received'
    <3> SUFFICES ASSUME resets = <<>>, NEW m \in Whole'
                 PROVE  \/ \E i \in 1..Len(lines) :
                              Final(lines[i]) = <<m, Size[m]>>
                        \/ \E x \in 1..(Len(Input') - 1) :
                              /\ Input'[x] = <<m, Size[m]>>
                              /\ Input'[x + 1] = NL
      BY <1>1 DEF Received
    <3>1. PICK t : t = Input'
      OBVIOUS
    <3>2. /\ Len(Input) \in Nat /\ Len(t) = Len(Input) + k
          /\ \A x \in 1..Len(Input) : t[x] = Input[x]
          /\ \A x \in 1..Len(t) : x > Len(Input) =>
                x - Len(Input) \in 1..k /\ t[x] = c[x - Len(Input)]
      <4>1. Len(c) = k /\ t = Input \o c
        BY <2>1, <3>1 DEF Chunk
      <4>2. PICK q \in Seq(Bytes) : q = Input
        BY <2>2
      <4>3. t = q \o c
        BY <4>1, <4>2
      <4>4. /\ Len(q) \in Nat /\ Len(t) = Len(q) + k
            /\ \A x \in 1..Len(q) : t[x] = q[x]
            /\ \A x \in 1..Len(t) : x > Len(q) =>
                  x - Len(q) \in 1..k /\ t[x] = c[x - Len(q)]
        BY <4>1, <4>3, Behind
      <4> QED  BY <4>2, <4>4
    <3>3. m \in Messages /\ End[m] <= at' /\ m \notin broken /\ End[m] \in Nat
      BY <1>1, MessageEnds DEF Whole
    <3>4. CASE End[m] <= at
      <4>1. m \in Whole
        BY <3>3, <3>4 DEF Whole
      <4>2. \/ \E i \in 1..Len(lines) : Final(lines[i]) = <<m, Size[m]>>
            \/ \E x \in 1..(Len(Input) - 1) :
                  Input[x] = <<m, Size[m]>> /\ Input[x + 1] = NL
        BY <2>0, <4>1 DEF SessionInv, Received
      <4>3. ASSUME NEW x \in 1..(Len(Input) - 1)
            PROVE  /\ x \in 1..(Len(t) - 1)
                   /\ t[x] = Input[x] /\ t[x + 1] = Input[x + 1]
        <5>1. x \in 1..Len(Input) /\ x + 1 \in 1..Len(Input)
          BY <3>2
        <5>2. x \in 1..(Len(t) - 1)
          BY <3>2
        <5> QED  BY <3>2, <5>1, <5>2
      <4> QED  BY <3>1, <4>2, <4>3
    <3>5. CASE ~(End[m] <= at)
      <4>1. PICK y \in 1..k : at + y = End[m]
        <5>1. End[m] - at \in 1..k /\ at + (End[m] - at) = End[m]
          BY <2>1, <3>3, <3>5
        <5> QED  BY <5>1
      <4>2. /\ Wire[End[m]] = NL
            /\ Wire[End[m] - 1] = <<m, Size[m]>>
            /\ End[m] - 1 \in 1..Len(Wire)
            /\ \A l \in 0..Len(Size) : End[l] # End[m] - 1
        <5>1. End[m] <= Len(Wire)
          BY <1>1, <3>3, WireAssumption
        <5> QED  BY <3>3, <5>1, LastByte
      <4>3. \A z \in 1..k : c[z] = Wire[at + z]
        BY <2>1 DEF Chunk
      <4>4. /\ Len(Input) + y \in 1..Len(t) /\ Len(Input) + y > Len(Input)
            /\ (Len(Input) + y) - Len(Input) = y
        BY <3>2
      <4>5. t[Len(Input) + y] = NL
        <5>1. t[Len(Input) + y] = c[y]
          BY <3>2, <4>4
        <5> QED  BY <4>1, <4>2, <4>3, <5>1
      <4>6. CASE y = 1
        <5>1. at = End[m] - 1 /\ at > 0
          BY <3>3, <4>1, <4>2, <4>6
        <5>2. ~AtEnd /\ ~\E r \in 1..Len(resets) : TRUE
          BY <4>2, <5>1 DEF AtEnd
        <5>3. Input # <<>> /\ Final(Input) = <<m, Size[m]>>
          <6>1. \/ Input # <<>> /\ Final(Input) = Wire[at]
                \/ AtEnd
                \/ \E r \in 1..Len(resets) : Final(resets[r]) = Wire[at]
            BY <2>0 DEF SessionInv, UpToDate
          <6> QED  BY <4>2, <5>1, <5>2, <6>1
        <5>4. Len(Input) # 0
          BY <2>2, <5>3
        <5>5. Len(Input) \in 1..(Len(t) - 1) /\ Len(Input) \in 1..Len(Input)
          BY <3>2, <5>4
        <5>6. t[Len(Input)] = <<m, Size[m]>>
          BY <3>2, <5>3, <5>5 DEF Final
        <5> QED  BY <3>1, <4>5, <4>6, <5>5, <5>6
      <4>7. CASE y # 1
        <5>1. /\ y - 1 \in 1..k /\ at + (y - 1) = End[m] - 1
          BY <4>1, <4>7
        <5>2. c[y - 1] = <<m, Size[m]>>
          BY <4>2, <4>3, <5>1
        <5> DEFINE x == Len(Input) + (y - 1)
        <5>3. /\ x \in 1..(Len(t) - 1) /\ x \in 1..Len(t)
              /\ x > Len(Input) /\ x - Len(Input) = y - 1
              /\ x + 1 = Len(Input) + y
          BY <3>2, <4>7
        <5> HIDE DEF x
        <5>4. t[x] = <<m, Size[m]>>
          BY <3>2, <5>2, <5>3
        <5> QED  BY <3>1, <4>5, <5>3, <5>4
      <4> QED  BY <4>6, <4>7
    <3> QED  BY <3>4, <3>5
  <2> QED  BY <1>1, <1>3, <1>4, <2>4, <2>5, <2>9, <2>10, <2>11 DEF OrderInv
<1> QED  BY <1>6, <1>7

\* Where a message was cut short another one begins.
LEMMA CutGrows ==
    ASSUME NEW cut, NEW cut2, cut \subseteq cut2
    PROVE  /\ \A b : Ends(b, cut) => Ends(b, cut2)
           /\ \A b, c : Joins(b, c, cut) => Joins(b, c, cut2)
           /\ \A q : Joined(q, cut) => Joined(q, cut2)
<1>1. \A b : Ends(b, cut) => Ends(b, cut2)
  BY DEF Ends
<1>2. \A b, c : Joins(b, c, cut) => Joins(b, c, cut2)
  BY <1>1 DEF Joins
<1>3. \A q : Joined(q, cut) => Joined(q, cut2)
  BY <1>2 DEF Joined
<1> QED  BY <1>1, <1>2, <1>3

LEMMA DisconnectOrder ==
    ASSUME SessionInv, Disconnect
    PROVE  OrderInv' /\ Single'
<1> USE SessionFacts
<1>1. /\ UNCHANGED <<lines, frames, out, resets, overlap, mixed>>
      /\ Input' = Input
      /\ Single'
  BY DisconnectInput
<1>2. PICK m \in Messages \ broken : \E rest \in 1..Size[m] :
         /\ at + rest = End[m]
         /\ at' = End[m] /\ at' \in Nat /\ at < at'
         /\ broken' = broken \cup {m}
         /\ Gone' = IF rest = 1 THEN Gone ELSE Gone \cup {m}
         /\ unended' \in {unended, unended \cup {m}}
  BY DisconnectInput
<1>3. PICK rest \in 1..Size[m] :
         /\ at + rest = End[m]
         /\ at' = End[m] /\ at' \in Nat /\ at < at'
         /\ broken' = broken \cup {m}
         /\ Gone' = IF rest = 1 THEN Gone ELSE Gone \cup {m}
         /\ unended' \in {unended, unended \cup {m}}
  BY <1>2
<1>4. /\ m \in 1..Len(Size) /\ m \in 0..Len(Size) /\ m - 1 \in 0..Len(Size)
      /\ m \in Nat /\ Len(Size) \in Nat
      /\ Size[m] \in Nat \ {0} /\ End[m - 1] \in Nat /\ End[m] \in Nat
      /\ End[m] = End[m - 1] + Size[m] + 1
      /\ rest \in Nat /\ 1 <= rest /\ rest <= Size[m]
  BY MessageEnds, EndFacts
<1>5. End[m - 1] < at /\ at > 0 /\ at \in 1..Len(Wire)
  <2>1. at \in 0..Len(Wire)
    BY WirePlace DEF SessionInv, SessionTypeOK
  <2>2. \A a, e, i, u, v \in Nat :
           i <= u /\ e = a + u + 1 /\ v + i = e => a < v /\ v > 0
    OBVIOUS
  <2>3. End[m - 1] < at /\ at > 0
    BY <1>3, <1>4, <2>2
  <2> QED  BY <2>1, <2>3
<1>6. SessionTypeOK'
  <2>1. at' \in 0..End[Len(Size)]
    <3>1. m = Len(Size) \/ End[m] < End[Len(Size)]
      BY <1>4, EndIncreasing
    <3> QED  BY <1>3, <1>4, <3>1, EndFacts
  <2>2. ASSUME NEW l \in broken'
        PROVE  l \in Messages /\ End[l] <= at'
    <3>1. CASE l = m
      BY <1>3, <1>4, <3>1
    <3>2. CASE l \in broken
      <4>1. l \in Messages /\ End[l] <= at /\ End[l] \in Nat
        BY <3>2, MessageEnds
      <4> QED  BY <1>3, <4>1
    <3> QED  BY <1>3, <2>2, <3>1, <3>2
  <2>3. unended' \subseteq broken'
    BY <1>3 DEF SessionInv, SessionTypeOK
  <2>4. overlap' \in BOOLEAN /\ mixed' \in BOOLEAN
    BY <1>1, Zenon DEF SessionInv, SessionTypeOK
  <2> QED  BY <2>1, <2>2, <2>3, <2>4 DEF SessionTypeOK
<1>7. ASSUME NEW b, Written(b, at, Gone)
      PROVE  Written(b, at', Gone')
  <2>1. PICK l \in Messages : \E k \in 1..Size[l] :
           /\ b = <<l, k>>
           /\ End[l - 1] + k <= at
           /\ k = Size[l] => l \notin Gone
    BY <1>7 DEF Written
  <2>2. PICK k \in 1..Size[l] :
           /\ b = <<l, k>>
           /\ End[l - 1] + k <= at
           /\ k = Size[l] => l \notin Gone
    BY <2>1
  <2>3. End[l - 1] \in Nat /\ k \in Nat
    BY MessageEnds
  <2>4. End[l - 1] + k <= at'
    BY <1>3, <2>2, <2>3
  <2>5. ASSUME k = Size[l], l \in Gone'
        PROVE  FALSE
    <3>1. l = m /\ rest # 1
      BY <1>3, <2>2, <2>5
    <3>2. End[m - 1] + Size[m] <= at
      BY <2>2, <2>5, <3>1
    <3> QED  BY <1>3, <1>4, <3>1, <3>2
  <2> QED  BY <2>2, <2>4, <2>5 DEF Written
<1>8. /\ \A q : Settled(q, at) => Settled(q, at')
      /\ \A q : Separated(q, at) => Separated(q, at')
  <2>1. at \in Nat /\ at' \in Nat /\ at <= at'
    BY <1>3
  <2> QED  BY <2>1, Later
<1>9. LinesInOrder'
  BY <1>1, <1>7, <1>8 DEF SessionInv, LinesInOrder
<1>10. DispatchInOrder'
  BY <1>1, <1>8 DEF SessionInv, DispatchInOrder
<1>11. /\ \A b : Ends(b, broken) => Ends(b, broken')
       /\ \A b, c : Joins(b, c, broken) => Joins(b, c, broken')
       /\ \A q : Joined(q, broken) => Joined(q, broken')
  <2>1. broken \subseteq broken'
    BY <1>3
  <2> QED  BY <2>1, CutGrows
<1>12. Contiguous'
  BY <1>1, <1>11 DEF SessionInv, Contiguous
<1>13. UpToDate'
  <2> SUFFICES ASSUME ~mixed
               PROVE  AtEnd' /\ (Input # <<>> => Ends(Final(Input), broken'))
    BY <1>1 DEF UpToDate
  <2>1. AtEnd'
    BY <1>3, <1>4 DEF AtEnd
  <2>2. Ends(Wire[at], broken')
    <3>1. at <= End[m] /\ at # End[m]
      BY <1>3, <1>4
    <3>2. Wire[at] = <<m, at - End[m - 1]>>
      BY <1>4, <1>5, <3>1, WirePlace
    <3> QED  BY <1>3, <3>2 DEF Ends
  <2> QED  BY <1>11, <2>1, <2>2 DEF SessionInv, UpToDate
<1>14. Received'
  <2>1. ASSUME NEW l \in Whole'
        PROVE  l \in Whole
    <3>1. /\ l \in Messages /\ End[l] <= End[m] /\ l \notin broken /\ l # m
      BY <1>3, <2>1 DEF Whole
    <3>2. /\ l \in 0..Len(Size) /\ l \in Nat /\ End[l] \in Nat
          /\ End[m] < End[l] <=> m < l
          /\ End[m - 1] < End[l] <=> m - 1 < l
      BY <1>4, <3>1, MessageEnds, EndOrder
    <3>3. ~(m - 1 < l)
      BY <1>4, <3>1, <3>2
    <3>4. End[l] <= at
      BY <1>4, <1>5, <3>2, <3>3
    <3> QED  BY <3>1, <3>4 DEF Whole
  <2> QED  BY <1>1, <2>1 DEF SessionInv, Received
<1>15. Decoded'
  BY <1>1 DEF SessionInv, Decoded
<1> QED  BY <1>1, <1>6, <1>9, <1>10, <1>12, <1>13, <1>14, <1>15 DEF OrderInv

-----------------------------------------------------------------------------
(* The theorems.                                                           *)

LEMMA SessionInitInv == SessionInit => SessionInv
<1> SUFFICES ASSUME SessionInit
             PROVE  SessionInv
  OBVIOUS
<1>1. Init /\ DispatchInv
  BY SessionInitFramer, InitDispatchInv
<1>2. /\ at = 0 /\ broken = {} /\ unended = {}
      /\ overlap = FALSE /\ mixed = FALSE
  BY DEF SessionInit
<1>3. /\ buf = <<>> /\ out = <<>> /\ lines = <<>> /\ resets = <<>>
      /\ \A w \in Writers : pc[w] = "idle" /\ frames[w] = <<>>
  BY <1>1 DEF Init
<1>4. Input = <<>>
  <2>1. InputOf(pc, buf, chunk) = buf
    BY <1>3, InputWith
  <2> QED  BY <1>3, <2>1, InputIs
<1>5. SessionTypeOK
  <2>1. at \in 0..End[Len(Size)]
    BY <1>2, EndFacts
  <2>2. overlap \in BOOLEAN /\ mixed \in BOOLEAN
    BY <1>2, Zenon
  <2> QED  BY <1>2, <2>1, <2>2 DEF SessionTypeOK
<1>6. Single
  BY <1>2, <1>3 DEF Single
<1>7. LinesInOrder
  BY <1>3, <1>4, EmptyInput DEF LinesInOrder
<1>8. DispatchInOrder
  BY <1>3 DEF DispatchInOrder
<1>9. Contiguous
  BY <1>3, <1>4, EmptyInput DEF Contiguous
<1>10. UpToDate
  BY <1>2, <1>4, EndFacts DEF UpToDate, AtEnd
<1>11. Received
  <2>1. ASSUME NEW m \in Whole
        PROVE  FALSE
    <3>1. m \in Messages /\ End[m] <= 0
      BY <1>2 DEF Whole
    <3> QED  BY <3>1, MessageEnds
  <2> QED  BY <2>1 DEF Received
<1>12. Decoded
  BY <1>3 DEF Decoded
<1> QED  BY <1>1, <1>5, <1>6, <1>7, <1>8, <1>9, <1>10, <1>11, <1>12
         DEF SessionInv

LEMMA SessionNextInv ==
    SessionInv /\ [SessionNext]_<<vars, session>> => SessionInv'
<1> SUFFICES ASSUME SessionInv, [SessionNext]_<<vars, session>>
             PROVE  DispatchInv' /\ OrderInv' /\ Single'
  BY DEF SessionInv, OrderInv
<1>1. DispatchInv'
  BY SessionFacts, SessionNextFramer, NextDispatchInv DEF SessionInv
<1>2. ASSUME NEW w \in Writers, Step(w), UNCHANGED session
      PROVE  OrderInv' /\ Single'
  BY <1>2, AppendOrder, CutOrder, ReleaseOrder, DispatchOrder DEF Step
<1>3. ASSUME UNCHANGED <<vars, session>>
      PROVE  OrderInv' /\ Single'
  <2>1. /\ UNCHANGED <<buf, pc, chunk, frames, out, lines, resets>>
        /\ Untouched
    BY <1>3 DEF vars, ghosts, session, Untouched
  <2>2. Input' = Input
    BY <2>1 DEF Input
  <2>3. /\ SessionTypeOK' /\ LinesInOrder' /\ Contiguous' /\ UpToDate'
        /\ Received'
    BY <2>1, <2>2, QuietKeeps
  <2>4. DispatchInOrder' /\ Decoded' /\ Single'
    BY <2>1, <2>2
    DEF SessionInv, DispatchInOrder, Decoded, Single, Untouched
  <2> QED  BY <2>3, <2>4 DEF OrderInv
<1>4. ASSUME SessionNext
      PROVE  OrderInv' /\ Single'
  <2>1. CASE \E w \in Writers : Send(w)
    BY <2>1, SendOrder
  <2>2. CASE Disconnect
    BY <2>2, DisconnectOrder
  <2>3. CASE \E w \in Writers : Step(w) /\ UNCHANGED session
    BY <1>2, <2>3
  <2> QED  BY <1>4, <2>1, <2>2, <2>3 DEF SessionNext
<1> QED  BY <1>1, <1>3, <1>4

\* The lines are made of what the centrals wrote, message after message, and
\* without a gap but for disconnects and resets.
THEOREM SessionInvariance == SessionSpec => []SessionInv
<1> QED  BY SessionInitInv, SessionNextInv, PTL DEF SessionSpec

LEMMA MessageFacts ==
    ASSUME NEW m \in Messages
    PROVE  /\ m \in 1..Len(Size)
           /\ Size[m] \in Nat \ {0}
           /\ Len(Message(m)) = Size[m]
           /\ \A k \in 1..Size[m] :
                 Message(m)[k] = <<m, k>> /\ Message(m)[k] # NL
<1>1. m \in 1..Len(Size) /\ Size[m] \in Nat \ {0}
  BY MessageEnds
<1>2. \A k \in 1..Size[m] : Message(m)[k] = <<m, k>>
  BY DEF Message
<1>3. Len(Message(m)) = Size[m]
  BY <1>1 DEF Message
<1> QED  BY <1>1, <1>2, <1>3, PacketsAssumption

\* Two lines that are messages, one before the other.
LEMMA MessagesInOrder ==
    ASSUME NEW m \in Messages, NEW l \in Messages,
           Before(Message(m), Message(l))
    PROVE  m < l
<1>1. /\ 1 \in 1..Len(Message(m)) /\ 1 \in 1..Size[m]
      /\ 1 \in 1..Len(Message(l)) /\ 1 \in 1..Size[l]
  BY MessageFacts
<1>2. /\ Message(m)[1] = <<m, 1>> /\ Message(m)[1] # NL
      /\ Message(l)[1] = <<l, 1>> /\ Message(l)[1] # NL
  BY <1>1, MessageFacts
<1>3. Message(m)[1][1] < Message(l)[1][1]
  <2> HIDE DEF Message
  <2> QED  BY <1>1, <1>2 DEF Before
<1> QED  BY <1>2, <1>3

LEMMA LinesOrdered ==
    ASSUME SessionInv, ~mixed
    PROVE  /\ Len(lines) \in Nat
           /\ \A i \in 1..Len(lines) :
                 /\ lines[i] \in Seq(Bytes) /\ lines[i] # <<>>
                 /\ \A x \in 1..Len(lines[i]) :
                       /\ Written(lines[i][x], at, Gone)
                       /\ Over(lines[i][x], at)
                 /\ \A j \in 1..Len(lines) :
                       i < j => Before(lines[i], lines[j])
<1>1. \A i \in 1..Len(lines) :
         lines[i] \in Seq(Bytes) /\ lines[i] # <<>>
  BY SessionFacts DEF LinesNonEmpty, NonEmpty
<1>2. lines \in Seq(Seq(Bytes))
  BY SessionFacts DEF TypeOK
<1>3. Len(lines) \in Nat
  BY <1>2
<1> QED  BY <1>1, <1>3 DEF SessionInv, LinesInOrder, Settled

\* The bytes of a message are all in one line.
LEMMA OneLine ==
    ASSUME SessionInv, ~mixed,
           NEW i \in 1..Len(lines), NEW x \in 1..Len(lines[i]),
           NEW j \in 1..Len(lines), NEW y \in 1..Len(lines[j]),
           lines[i][x][1] = lines[j][y][1]
    PROVE  i = j
<1>1. /\ lines[i][x] # NL /\ lines[j][y] # NL
      /\ lines[i][x][1] \in Nat /\ lines[j][y][1] \in Nat
  BY LinesOrdered, MessageEnds DEF Over
<1>2. ~(i < j)
  <2>1. i < j => lines[i][x][1] < lines[j][y][1]
    BY <1>1, LinesOrdered DEF Before
  <2> QED  BY <1>1, <2>1
<1>3. ~(j < i)
  <2>1. j < i => lines[j][y][1] < lines[i][x][1]
    BY <1>1, LinesOrdered DEF Before
  <2> QED  BY <1>1, <2>1
<1> QED  BY <1>2, <1>3, LinesOrdered

\* A message that was cut off the buffer was written, and it was cut once.
LEMMA MessageCut ==
    ASSUME SessionInv, ~mixed, NEW m \in Messages
    PROVE  /\ Cut({Message(m)}) # {} => m \in Whole \cup unended
           /\ \A i, j \in Cut({Message(m)}) : i = j
<1>1. \A i \in Cut({Message(m)}) : i \in 1..Len(lines) /\ lines[i] = Message(m)
  BY DEF Cut
<1>2. /\ Size[m] \in 1..Len(Message(m)) /\ 1 \in 1..Len(Message(m))
      /\ Message(m)[Size[m]] = <<m, Size[m]>>
  BY MessageFacts
<1>3. ASSUME NEW i \in Cut({Message(m)})
      PROVE  m \in Whole \cup unended
  <2>1. Written(<<m, Size[m]>>, at, Gone) /\ Over(<<m, Size[m]>>, at)
    BY <1>1, <1>2, LinesOrdered
  <2>2. m \notin Gone
    BY <2>1 DEF Written
  <2>3. End[m] <= at
    BY <2>1 DEF Over
  <2> QED  BY <2>2, <2>3 DEF Gone, Whole
<1>4. \A i, j \in Cut({Message(m)}) : i = j
  BY <1>1, <1>2, OneLine
<1> QED  BY <1>3, <1>4

LEMMA Pair ==
    ASSUME NEW a, NEW b, a # b
    PROVE  Cardinality({a, b}) = 2
<1>1. IsFiniteSet({a}) /\ Cardinality({a}) = 1
  BY FS_Singleton
<1>2. b \notin {a} /\ {a} \cup {b} = {a, b}
  OBVIOUS
<1>3. Cardinality({a} \cup {b}) = Cardinality({a}) + 1
  BY <1>1, <1>2, FS_AddElement
<1>4. Cardinality({a, b}) = Cardinality({a}) + 1
  BY <1>2, <1>3, Zenon
<1> QED  BY <1>1, <1>4

\* However the centrals cut their messages into chunks, wherever they
\* disconnect and wherever the buffer is reset: what the server takes for a
\* packet is a message that was written, and it takes it once, in the order of
\* writing unless calls overlap.
THEOREM PacketsWereSent == SessionSpec => []PacketsAreMessages
<1>1. ASSUME SessionInv
      PROVE  PacketsAreMessages
  <2> USE <1>1, SessionFacts
  <2> SUFFICES ASSUME ~mixed
               PROVE  /\ Accepted \subseteq Whole \cup unended
                      /\ \A i, j \in 1..Len(out) :
                            (i < j /\ out[i].ok /\ out[j].ok) =>
                               \/ out[i].line[1][1] < out[j].line[1][1]
                               \/ overlap /\ out[i].line # out[j].line
    BY Zenon DEF PacketsAreMessages
  <2>1. ASSUME NEW m \in Messages, NEW i \in Dispatched({Message(m)})
        PROVE  /\ Cardinality(Cut({Message(m)}))
                    >= Cardinality(Dispatched({Message(m)}))
               /\ Cardinality(Dispatched({Message(m)})) \in Nat
    <3>1. i \in 1..Len(out) /\ out[i].line = Message(m)
      BY <2>1 DEF Dispatched
    <3>2. {Message(m)} \in SUBSET NonEmpty
      BY <3>1 DEF LinesNonEmpty
    <3>3. Balanced({Message(m)})
      BY <3>2 DEF SessionInv, DispatchInv
    <3>4. Cardinality(Waiting({Message(m)})) \in Nat
      BY <3>3, FS_CardinalityType DEF Balanced
    <3>5. Cardinality(Dispatched({Message(m)})) \in Nat
      BY PlacesFinite
    <3> QED  BY <3>3, <3>4, <3>5 DEF Balanced
  <2>2. ASSUME NEW m \in Messages, NEW i \in Dispatched({Message(m)})
        PROVE  Cut({Message(m)}) # {}
    <3>1. Cardinality({}) = 0
      BY FS_EmptySet
    <3>2. Cardinality(Dispatched({Message(m)})) # 0
      BY <2>2, PlacesFinite, FS_EmptySet
    <3>3. /\ Cardinality(Cut({Message(m)}))
               >= Cardinality(Dispatched({Message(m)}))
          /\ Cardinality(Dispatched({Message(m)})) \in Nat
      BY <2>1, <2>2
    <3>4. Cardinality(Cut({Message(m)})) # 0
      <4> HIDE DEF Message
      <4> QED  BY <3>2, <3>3, PlacesFinite
    <3> QED  BY <3>1, <3>4
  <2>3. ASSUME NEW m \in Messages,
               NEW i \in Dispatched({Message(m)}),
               NEW j \in Dispatched({Message(m)}), i # j
        PROVE  FALSE
    <3>1. Cardinality(Dispatched({Message(m)})) >= 2
      <4>1. Cardinality({i, j}) = 2
        BY <2>3, Pair
      <4>2. {i, j} \subseteq Dispatched({Message(m)})
        BY <2>3
      <4>3. Cardinality({i, j}) <= Cardinality(Dispatched({Message(m)}))
        BY <4>2, PlacesFinite, FS_Subset
      <4> QED  BY <4>1, <4>3
    <3>2. Cardinality(Cut({Message(m)})) <= 1
      <4>1. PICK k : k \in Cut({Message(m)})
        BY <2>2, <2>3
      <4>2. Cut({Message(m)}) = {k}
        BY <4>1, MessageCut
      <4>3. Cardinality({k}) = 1
        BY FS_Singleton
      <4>4. Cardinality(Cut({Message(m)})) = 1
        BY <4>2, <4>3, Zenon
      <4> QED  BY <4>4
    <3>3. Cardinality(Cut({Message(m)})) \in Nat
      BY PlacesFinite
    <3> QED  BY <2>1, <2>3, <3>1, <3>2, <3>3
  <2>4. Accepted \subseteq Whole \cup unended
    <3>1. ASSUME NEW m \in Accepted
          PROVE  m \in Whole \cup unended
      <4>1. m \in Messages /\ \E i : i \in Dispatched({Message(m)})
        BY <3>1 DEF Accepted, Dispatched
      <4> QED  BY <2>2, <4>1, MessageCut
    <3> QED  BY <3>1
  <2>5. ASSUME NEW i \in 1..Len(out), NEW j \in 1..Len(out), i < j,
               out[i].ok, out[j].ok
        PROVE  \/ out[i].line[1][1] < out[j].line[1][1]
               \/ overlap /\ out[i].line # out[j].line
    <3>1. out[i].line \in MessageLines /\ out[j].line \in MessageLines
      BY <2>5, PacketsAssumption DEF SessionInv, Decoded
    <3>2. PICK m \in Messages : out[i].line = Message(m)
      BY <3>1 DEF MessageLines
    <3>3. PICK l \in Messages : out[j].line = Message(l)
      BY <3>1 DEF MessageLines
    <3>4. out[i].line[1][1] = m /\ out[j].line[1][1] = l
      <4>1. 1 \in 1..Size[m] /\ 1 \in 1..Size[l]
        BY MessageFacts
      <4>2. Message(m)[1] = <<m, 1>> /\ Message(l)[1] = <<l, 1>>
        BY <4>1, MessageFacts
      <4> QED  BY <3>2, <3>3, <4>2
    <3>5. CASE ~overlap
      <4>1. Before(Message(m), Message(l))
        BY <2>5, <3>2, <3>3, <3>5 DEF SessionInv, DispatchInOrder
      <4> QED  BY <3>4, <4>1, MessagesInOrder
    <3>6. CASE overlap
      <4>1. out[i].line # out[j].line
        <5>1. ASSUME out[i].line = out[j].line
              PROVE  FALSE
          <6>1. /\ i \in Dispatched({Message(m)})
                /\ j \in Dispatched({Message(m)})
                /\ i # j
            BY <2>5, <3>2, <5>1 DEF Dispatched
          <6> QED  BY <2>3, <6>1
        <5> QED  BY <5>1
      <4> QED  BY <3>6, <4>1
    <3> QED  BY <3>5, <3>6
  <2> QED  BY <2>4, <2>5
<1> QED  BY <1>1, SessionInvariance, PTL

\* No set is larger than one that has an element for each of its elements.
LEMMA OneEach ==
    ASSUME NEW S, NEW T, IsFiniteSet(T), NEW R,
           \A s \in S : \E t \in T : <<s, t>> \in R,
           \A s1, s2 \in S : \A t \in T :
              <<s1, t>> \in R /\ <<s2, t>> \in R => s1 = s2
    PROVE  /\ IsFiniteSet(S)
           /\ Cardinality(S) <= Cardinality(T)
<1> DEFINE f == [s \in S |-> CHOOSE t \in T : <<s, t>> \in R]
<1>1. \A s \in S : f[s] \in T /\ <<s, f[s]>> \in R
  OBVIOUS
<1>2. f \in [S -> T]
  BY <1>1
<1> HIDE DEF f
<1>3. \A s1, s2 \in S : f[s1] = f[s2] => s1 = s2
  BY <1>1
<1>4. f \in Injection(S, T)
  BY <1>2, <1>3, Fun_IsInj
<1> QED  BY <1>4, FS_Injection

\* A line is a message when nothing is missing, at either end or inside.
LEMMA LineIsMessage ==
    ASSUME NEW q \in Seq(Bytes), q # <<>>, NEW n, NEW gone,
           \A x \in 1..Len(q) : Written(q[x], n, gone) /\ q[x] # NL,
           NEW cut, Joined(q, cut), Joins(Final(q), NL, cut), Starts(q[1]),
           \A x \in 1..Len(q) : q[x][1] \notin cut
    PROVE  \E m \in Messages : q = Message(m)
<1>1. Len(q) \in Nat \ {0} /\ 1 \in 1..Len(q) /\ Len(q) \in 1..Len(q)
  OBVIOUS
<1>2. \A x \in 1..Len(q) : \E m \in Messages : \E k \in 1..Size[m] :
         q[x] = <<m, k>>
  BY DEF Written
<1>3. \A x \in 1..Len(q) : ~Ends(q[x], cut)
  BY DEF Ends
<1>4. PICK m \in Messages : q[1] = <<m, 1>>
  <2>1. PICK m \in Messages : \E k \in 1..Size[m] : q[1] = <<m, k>>
    BY <1>1, <1>2
  <2>2. q[1][2] = 1
    BY <1>1 DEF Starts
  <2> QED  BY <2>1, <2>2
<1>5. \A x \in 1..Len(q) : q[x] = <<m, x>>
  <2> DEFINE T == {x \in 1..Len(q) : q[x] # <<m, x>>}
  <2>1. T \in SUBSET Nat
    BY <1>1
  <2>2. SUFFICES ASSUME T # {} PROVE FALSE
    OBVIOUS
  <2>3. PICK x \in T : \A y \in T : x <= y
    <3> HIDE DEF T
    <3> QED  BY <2>1, <2>2, Least
  <2>4. x # 1
    BY <1>4, <2>3
  <2>5. /\ x - 1 \in 1..Len(q) /\ x - 1 \notin T
        /\ x - 1 \in 1..(Len(q) - 1) /\ (x - 1) + 1 = x
    BY <1>1, <2>3, <2>4
  <2>6. q[x - 1] = <<m, x - 1>> /\ Joins(q[x - 1], q[x], cut)
    <3>1. Joins(q[x - 1], q[(x - 1) + 1], cut)
      BY <2>5 DEF Joined
    <3> QED  BY <2>5, <3>1
  <2>7. q[x] = IF x - 1 = Size[m] THEN NL ELSE <<m, (x - 1) + 1>>
    BY <1>3, <2>5, <2>6 DEF Joins
  <2>8. q[x] # NL /\ x \in 1..Len(q)
    BY <2>3
  <2> QED  BY <2>3, <2>5, <2>7, <2>8
<1>6. Len(q) = Size[m]
  <2>1. Final(q) = <<m, Len(q)>> /\ ~Ends(Final(q), cut)
    BY <1>1, <1>3, <1>5 DEF Final
  <2>2. NL = IF Len(q) = Size[m] THEN NL ELSE <<m, Len(q) + 1>>
    BY <2>1 DEF Joins
  <2>3. Len(q) \in 1..Size[m] /\ Size[m] \in Nat
    BY <1>1, <1>2, <1>5, MessageEnds
  <2>4. ASSUME Len(q) # Size[m]
        PROVE  FALSE
    <3>1. Len(q) + 1 \in 1..Size[m]
      BY <2>3, <2>4
    <3>2. <<m, Len(q) + 1>> # NL
      BY <3>1, PacketsAssumption
    <3> QED  BY <2>2, <2>4, <3>2
  <2> QED  BY <2>4
<1>7. q = Message(m)
  <2>1. q = [x \in 1..Size[m] |-> q[x]]
    BY <1>6
  <2> QED  BY <1>5, <1>6, <2>1 DEF Message
<1> QED  BY <1>7

\* The lines that are no packets.
Bad == NonEmpty \ Packets

\* A line that is no packet holds a byte of a message that a disconnect cut
\* short, or begins in the middle of one that a reset took the beginning of.
LEMMA BadLine ==
    ASSUME SessionInv, ~mixed, NEW i \in Cut(Bad)
    PROVE  /\ i \in 1..Len(lines) /\ 1 \in 1..Len(lines[i])
           /\ \/ \E x \in 1..Len(lines[i]) : lines[i][x][1] \in broken
              \/ \E r \in 1..Len(resets) :
                    Final(resets[r]) = <<lines[i][1][1], lines[i][1][2] - 1>>
<1>1. i \in 1..Len(lines) /\ lines[i] \in NonEmpty /\ lines[i] \notin Packets
  BY DEF Cut, Bad
<1>2. PICK q \in Seq(Bytes) : q = lines[i] /\ q # <<>>
  BY <1>1 DEF NonEmpty
<1>3. \A x \in 1..Len(q) : Written(q[x], at, Gone) /\ q[x] # NL
  BY <1>1, <1>2, LinesOrdered DEF Over
<1>4. Joined(q, broken) /\ Begins(q[1], resets) /\ Joins(Final(q), NL, broken)
  BY <1>1, <1>2 DEF SessionInv, Contiguous
<1>5. 1 \in 1..Len(q)
  BY <1>2
<1>6. ~\E m \in Messages : q = Message(m)
  BY <1>1, <1>2, PacketsAssumption DEF MessageLines
<1>7. \/ \E x \in 1..Len(q) : q[x][1] \in broken
      \/ ~Starts(q[1])
  BY <1>2, <1>3, <1>4, <1>6, LineIsMessage
<1> QED  BY <1>1, <1>2, <1>4, <1>5, <1>7 DEF Begins

LEMMA BrokenFinite ==
    ASSUME SessionInv
    PROVE  IsFiniteSet(broken) /\ Cardinality(broken) \in Nat
<1>1. broken \subseteq 1..Len(Size)
  BY SessionFacts, MessageEnds
<1>2. IsFiniteSet(1..Len(Size))
  BY EndFacts, FS_Interval
<1> QED  BY <1>1, <1>2, FS_Subset, FS_CardinalityType

LEMMA UpTo ==
    ASSUME NEW n \in Nat
    PROVE  IsFiniteSet(1..n) /\ Cardinality(1..n) = n
BY FS_Interval

\* However messages are cut into chunks and wherever centrals disconnect: the
\* server reports no more decoding errors than there were disconnects inside
\* a message and resets of the buffer.
THEOREM ErrorsHaveCauses == SessionSpec => []ErrorsExplained
<1>1. ASSUME SessionInv, ~mixed
      PROVE  Cardinality(Errors) <= Cardinality(broken) + Len(resets)
  <2> USE <1>1, SessionFacts
  <2> DEFINE A == {i \in Cut(Bad) : \E x \in 1..Len(lines[i]) :
                                       lines[i][x][1] \in broken}
             B == {i \in Cut(Bad) : \E r \in 1..Len(resets) :
                      Final(resets[r])
                         = <<lines[i][1][1], lines[i][1][2] - 1>>}
  <2>1. Errors = Dispatched(Bad)
    BY DEF SessionInv, Decoded, LinesNonEmpty, Errors, Dispatched, Bad
  <2>2. /\ Cardinality(Errors) <= Cardinality(Cut(Bad))
        /\ Cardinality(Errors) \in Nat
    <3>1. Balanced(Bad)
      BY DEF SessionInv, DispatchInv, Bad
    <3>2. Cardinality(Waiting(Bad)) \in Nat
      BY <3>1, FS_CardinalityType DEF Balanced
    <3>3. Cardinality(Dispatched(Bad)) \in Nat
      BY PlacesFinite
    <3> QED  BY <2>1, <3>1, <3>2, <3>3 DEF Balanced
  <2>3. Cut(Bad) = A \cup B
    BY BadLine
  <2>4. IsFiniteSet(A) /\ Cardinality(A) <= Cardinality(broken)
    <3> DEFINE R == {e \in A \X broken :
                        \E x \in 1..Len(lines[e[1]]) :
                           lines[e[1]][x][1] = e[2]}
    <3>1. \A i \in A : \E m \in broken : <<i, m>> \in R
      OBVIOUS
    <3>2. ASSUME NEW i \in A, NEW j \in A, NEW m \in broken,
                 <<i, m>> \in R, <<j, m>> \in R
          PROVE  i = j
      <4>1. PICK x \in 1..Len(lines[i]) : lines[i][x][1] = m
        BY <3>2
      <4>2. PICK y \in 1..Len(lines[j]) : lines[j][y][1] = m
        BY <3>2
      <4>3. i \in 1..Len(lines) /\ j \in 1..Len(lines)
        BY BadLine
      <4> HIDE DEF A, R
      <4> QED  BY <4>1, <4>2, <4>3, OneLine
    <3> HIDE DEF A, R
    <3> QED  BY <3>1, <3>2, BrokenFinite, OneEach
  <2>5. IsFiniteSet(B) /\ Cardinality(B) <= Len(resets)
    <3> DEFINE R == {e \in B \X (1..Len(resets)) :
                        Final(resets[e[2]])
                           = <<lines[e[1]][1][1], lines[e[1]][1][2] - 1>>}
    <3>1. \A i \in B : \E r \in 1..Len(resets) : <<i, r>> \in R
      OBVIOUS
    <3>2. ASSUME NEW i \in B, NEW j \in B, NEW r \in 1..Len(resets),
                 <<i, r>> \in R, <<j, r>> \in R
          PROVE  i = j
      <4>1. lines[i][1][1] = lines[j][1][1]
        BY <3>2
      <4>2. /\ i \in 1..Len(lines) /\ 1 \in 1..Len(lines[i])
            /\ j \in 1..Len(lines) /\ 1 \in 1..Len(lines[j])
        BY BadLine
      <4> HIDE DEF B, R
      <4> QED  BY <4>1, <4>2, OneLine
    <3>3. /\ IsFiniteSet(1..Len(resets))
          /\ Cardinality(1..Len(resets)) = Len(resets)
      BY UpTo
    <3> HIDE DEF B, R
    <3>4. IsFiniteSet(B) /\ Cardinality(B) <= Cardinality(1..Len(resets))
      BY <3>1, <3>2, <3>3, OneEach
    <3> QED  BY <3>3, <3>4
  <2> HIDE DEF A, B
  <2>6. Cardinality(Cut(Bad)) <= Cardinality(A) + Cardinality(B)
    <3>1. Cardinality(A \cup B)
            = Cardinality(A) + Cardinality(B) - Cardinality(A \cap B)
      BY <2>4, <2>5, FS_Union
    <3>2. Cardinality(A \cap B) \in Nat
      <4>1. IsFiniteSet(A \cap B)
        BY <2>4, FS_Subset
      <4> QED  BY <4>1, FS_CardinalityType
    <3>3. Cardinality(A) \in Nat /\ Cardinality(B) \in Nat
      BY <2>4, <2>5, FS_CardinalityType
    <3> QED  BY <2>3, <3>1, <3>2, <3>3
  <2>7. /\ Cardinality(A) \in Nat /\ Cardinality(B) \in Nat
        /\ Cardinality(Cut(Bad)) \in Nat /\ Cardinality(broken) \in Nat
        /\ Len(resets) \in Nat
    BY <2>4, <2>5, FS_CardinalityType, PlacesFinite, BrokenFinite
  <2> QED  BY <2>2, <2>4, <2>5, <2>6, <2>7
<1>2. SessionInv => ErrorsExplained
  BY <1>1, Zenon DEF ErrorsExplained
<1> QED  BY <1>2, SessionInvariance, PTL

\* As long as the buffer was not reset: when all calls have returned, no more
\* messages were lost than were cut short, whatever the chunks.
THEOREM LossesHaveCauses == SessionSpec => []LossExplained
<1>1. ASSUME SessionInv, ~mixed, Quiet, resets = <<>>
      PROVE  Cardinality(Whole \ Accepted) <= Cardinality(broken)
  <2> USE <1>1, SessionFacts
  <2>1. Input = buf /\ \A x \in 1..Len(buf) : buf[x] # NL
    <3>1. Input = buf
      BY InputType DEF Quiet
    <3>2. ~HasNewline(buf)
      BY DispatchInvParts DEF SessionInv, FramerInv, LinesAreLines, Quiet
    <3> QED  BY <3>1, <3>2 DEF HasNewline
  <2>2. \A m \in Whole :
           \E i \in 1..Len(lines) : Final(lines[i]) = <<m, Size[m]>>
    <3>1. \A x \in 1..(Len(Input) - 1) : x + 1 \in 1..Len(Input)
      <4>1. Len(buf) \in Nat
        BY DEF TypeOK
      <4> QED  BY <2>1, <4>1
    <3>2. \A m \in Whole :
             \/ \E i \in 1..Len(lines) : Final(lines[i]) = <<m, Size[m]>>
             \/ \E x \in 1..(Len(Input) - 1) : Input[x + 1] = NL
      BY DEF SessionInv, Received
    <3> QED  BY <2>1, <3>1, <3>2
  <2>3. ASSUME NEW m \in Messages, Cut({Message(m)}) # {}
        PROVE  m \in Accepted
    <3>1. PICK i \in 1..Len(lines) : lines[i] = Message(m)
      BY <2>3 DEF Cut
    <3>2. {Message(m)} \in SUBSET NonEmpty
      BY <3>1 DEF LinesNonEmpty
    <3>3. Balanced({Message(m)})
      BY <3>2 DEF SessionInv, DispatchInv
    <3>4. Waiting({Message(m)}) = {}
      <4>1. \A w \in Writers : frames[w] = <<>>
        BY DEF Quiet, FramesIdle
      <4> QED  BY <4>1 DEF Waiting, Held
    <3>5. Dispatched({Message(m)}) # {}
      <4>1. Cardinality(Waiting({Message(m)})) = 0
        BY <3>4, FS_EmptySet
      <4>2. Cardinality(Cut({Message(m)})) # 0
        BY <2>3, PlacesFinite, FS_EmptySet
      <4>3. Cardinality(Dispatched({Message(m)})) \in Nat
        BY PlacesFinite
      <4>4. Cardinality(Dispatched({Message(m)})) # 0
        BY <3>3, <4>1, <4>2, <4>3 DEF Balanced
      <4> QED  BY <4>4, FS_EmptySet
    <3>6. PICK j \in 1..Len(out) : out[j].line = Message(m)
      BY <3>5 DEF Dispatched
    <3>7. Message(m) \in Packets
      BY PacketsAssumption DEF MessageLines
    <3> QED  BY <3>6, <3>7 DEF SessionInv, Decoded, Accepted
  <2>4. ASSUME NEW m \in Whole \ Accepted, NEW i \in 1..Len(lines),
               Final(lines[i]) = <<m, Size[m]>>
        PROVE  i \in Cut(Bad)
    <3>1. m \in Messages
      BY <2>4 DEF Whole
    <3>2. ASSUME NEW l \in Messages, lines[i] = Message(l)
          PROVE  FALSE
      <4>1. Final(Message(l)) = <<l, Size[l]>>
        <5>1. Size[l] \in 1..Size[l] /\ Len(Message(l)) = Size[l]
          BY MessageFacts
        <5> QED  BY <5>1, MessageFacts DEF Final
      <4>2. l = m
        BY <2>4, <3>2, <4>1
      <4>3. Cut({Message(m)}) # {}
        BY <3>2, <4>2 DEF Cut
      <4> QED  BY <2>3, <2>4, <3>1, <4>3
    <3>3. lines[i] \notin Packets
      BY <3>2, PacketsAssumption DEF MessageLines
    <3> QED  BY <3>3 DEF Cut, Bad, LinesNonEmpty
  <2> DEFINE R == {e \in (Whole \ Accepted) \X broken :
                      \E i \in 1..Len(lines) :
                         /\ Final(lines[i]) = <<e[1], Size[e[1]]>>
                         /\ \E x \in 1..Len(lines[i]) :
                               lines[i][x][1] = e[2]}
  <2>5. ASSUME NEW m \in Whole \ Accepted
        PROVE  \E b \in broken : <<m, b>> \in R
    <3>1. PICK i \in 1..Len(lines) : Final(lines[i]) = <<m, Size[m]>>
      BY <2>2
    <3>2. ~\E r \in 1..Len(resets) : TRUE
      BY <1>1
    <3>3. PICK x \in 1..Len(lines[i]) : lines[i][x][1] \in broken
      BY <2>4, <3>1, <3>2, BadLine
    <3> QED  BY <3>1, <3>3
  <2>6. ASSUME NEW m \in Whole \ Accepted, NEW l \in Whole \ Accepted,
               NEW b \in broken, <<m, b>> \in R, <<l, b>> \in R
        PROVE  m = l
    <3>1. PICK i \in 1..Len(lines) :
             /\ Final(lines[i]) = <<m, Size[m]>>
             /\ \E x \in 1..Len(lines[i]) : lines[i][x][1] = b
      BY <2>6
    <3>2. PICK j \in 1..Len(lines) :
             /\ Final(lines[j]) = <<l, Size[l]>>
             /\ \E x \in 1..Len(lines[j]) : lines[j][x][1] = b
      BY <2>6
    <3>3. i = j
      <4> HIDE DEF R
      <4> QED  BY <3>1, <3>2, OneLine
    <3> QED  BY <3>1, <3>2, <3>3
  <2> HIDE DEF R
  <2> QED  BY <2>5, <2>6, BrokenFinite, OneEach
<1>2. SessionInv => LossExplained
  BY <1>1, Zenon DEF LossExplained
<1> QED  BY <1>2, SessionInvariance, PTL
=============================================================================
