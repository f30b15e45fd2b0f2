----------------------------- MODULE TextBuiltins -----------------------------
(***************************************************************************)
(* script/builtins/string.go, encoding.go and types.go.                    *)
(*                                                                         *)
(* A text is a sequence of characters, or an encoding: its name followed   *)
(* by what was encoded.  A builtin returns the set of its possible results.*)
(***************************************************************************)
EXTENDS Values, FiniteSetsExt, SequencesExt

CONSTANTS
    Space,      \* the character that is white space
    LongestText \* up to which length memory lasts for what repeat and the pads
                \* make; what is put together of the arguments always fits

ASSUME MemoryAssumption == LongestText \in 0..IntMax

Error == [error |-> TRUE]
Panic == [panic |-> TRUE]

\* A text, and bytes: sequences of whatever they are made of.
IsSequence(s) == Len(s) \in Nat /\ s = SubSeq(s, 1, Len(s))
IsText(v) == Is(v, "string") /\ v = String(v.string) /\ IsSequence(v.string)
IsBytes(v) == Is(v, "bytes") /\ v = Bytes(v.bytes) /\ IsSequence(v.bytes)
Strings(args) == \A i \in DOMAIN args : IsText(args[i])

-----------------------------------------------------------------------------
(* string.go.                                                              *)

\* Where sub begins in s.
Occurrences(s, sub) ==
    {i \in 1..(Len(s) + 1) : IsPrefix(sub, SubSeq(s, i, Len(s)))}

\* strings.Split: an empty separator separates all characters.
Pieces(s, sep) ==
    LET from[i \in 1..(Len(s) + 1)] ==
            LET at == {j \in Occurrences(s, sep) : i <= j}
            IN  IF at = {} THEN <<SubSeq(s, i, Len(s))>>
                ELSE <<SubSeq(s, i, Min(at) - 1)>> \o from[Min(at) + Len(sep)]
    IN  IF sep = <<>> THEN [i \in DOMAIN s |-> <<s[i]>>] ELSE from[1]

\* strings.Join.
Joined(parts, sep) ==
    LET upTo[n \in 1..Len(parts)] ==
            IF n = 1 THEN parts[1] ELSE upTo[n - 1] \o sep \o parts[n]
    IN  IF parts = <<>> THEN <<>> ELSE upTo[Len(parts)]

\* Seeded bug: what is between two separators is dropped when it is empty.
SplitFields(v, sep) ==
    IF ~Strings(<<v, sep>>) THEN {Error}
    ELSE LET parts == SelectSeq(Pieces(v.string, sep.string), LAMBDA p : p # <<>>)
         IN  {Array([i \in DOMAIN parts |-> String(parts[i])])}

split(v, sep) ==
    IF ~Strings(<<v, sep>>) THEN {Error}
    ELSE LET parts == Pieces(v.string, sep.string)
         IN  {Array([i \in DOMAIN parts |-> String(parts[i])])}

\* Of arrays of strings: the text of other elements is not modelled, but that
\* it may have no end.
join(v, sep) ==
    IF ~Is(v, "array") \/ ~IsText(sep) THEN {Error}
    ELSE IF Overflows(v) THEN {Panic}
    ELSE {String(Joined([i \in DOMAIN v.array |-> v.array[i].string], sep.string))}

trim(v) ==
    IF ~IsText(v) THEN {Error}
    ELSE LET ink == {i \in DOMAIN v.string : v.string[i] # Space}
         IN  {String(IF ink = {} THEN <<>> ELSE SubSeq(v.string, Min(ink), Max(ink)))}

contains(v, sub) ==
    IF ~Strings(<<v, sub>>) THEN {Error}
    ELSE {Bool(Occurrences(v.string, sub.string) # {})}

starts_with(v, prefix) ==
    IF ~Strings(<<v, prefix>>) THEN {Error}
    ELSE {Bool(IsPrefix(prefix.string, v.string))}

ends_with(v, suffix) ==
    IF ~Strings(<<v, suffix>>) THEN {Error}
    ELSE {Bool(IsSuffix(suffix.string, v.string))}

\* The first occurrence; of an empty text it is at the beginning.
replace(v, old, new) ==
    IF ~Strings(<<v, old, new>>) THEN {Error}
    ELSE LET s == v.string
             at == Occurrences(s, old.string)
         IN  IF at = {} THEN {v}
             ELSE {String(SubSeq(s, 1, Min(at) - 1) \o new.string
                            \o SubSeq(s, Min(at) + Len(old.string), Len(s)))}

\* All that do not overlap, from the left; of an empty text they are before
\* every character and at the end.
replace_all(v, old, new) ==
    IF ~Strings(<<v, old, new>>) THEN {Error}
    ELSE LET parts == Pieces(v.string, old.string)
         IN  {String(Joined(IF old.string = <<>> THEN <<<<>>>> \o parts \o <<<<>>>>
                                                 ELSE parts, new.string))}

Copies(s, n) == [i \in 1..(n * Len(s)) |-> s[1 + ((i - 1) % Len(s))]]

\* strings.Repeat panics when the length is not an integer any more or beyond
\* all addresses, and the process ends when there is no memory for it.
repeat(v, n) ==
    IF ~IsText(v) \/ n \notin Ints THEN {Error}
    ELSE IF n.int < 0 THEN {Error}
    ELSE IF Len(v.string) * n.int > LongestText THEN {Panic}
    ELSE {String(Copies(v.string, n.int))}

\* As many copies of pad as it takes.
Padding(s, width, pad) ==
    Copies(pad, Min({n \in 0..Magnitude(width) : Len(s) + n * Len(pad) >= width}))

\* The pads add one copy at a time until there is no memory left.
Outgrows(s, more) == more # <<>> /\ Len(s) + Len(more) > LongestText

PadTypes(v, width, pad) ==
    Strings(<<v, pad>>) /\ width \in Ints /\ pad.string # <<>>

pad_left(v, width, pad) ==
    IF ~PadTypes(v, width, pad) THEN {Error}
    ELSE LET more == Padding(v.string, width.int, pad.string)
         IN  IF Outgrows(v.string, more) THEN {Panic} ELSE {String(more \o v.string)}

pad_right(v, width, pad) ==
    IF ~PadTypes(v, width, pad) THEN {Error}
    ELSE LET more == Padding(v.string, width.int, pad.string)
         IN  IF Outgrows(v.string, more) THEN {Panic} ELSE {String(v.string \o more)}

-----------------------------------------------------------------------------
(* encoding.go and types.go.                                               *)

\* hex_encode and base64_encode.
encode(v, name) ==
    CASE IsText(v) -> {String(Encoding(name, v.string))}
      [] IsBytes(v) -> {String(Encoding(name, v.bytes))}
      [] OTHER -> {Error}

\* hex_decode and base64_decode: another text may happen to be an encoding.
decode(v, name) ==
    IF ~IsText(v) THEN {Error}
    ELSE CASE v.string = <<>> -> {Bytes(<<>>)}
           [] v.string # <<>> /\ v.string[1] = name -> {Bytes(Tail(v.string))}
           [] OTHER -> {Error, Bytes(<<"garbled">>)}

\* The predicates, and is_nan and is_inf of math.go.
Types == {"int", "float", "string", "bool", "array", "map", "bytes",
          "undefined", "nan", "inf"}
is_type(v, type) ==
    {Bool(IF type = "float" THEN IsFloat(v) ELSE Is(v, type))}
=============================================================================
