-------------------------------- MODULE Values --------------------------------
(***************************************************************************)
(* The values of scripts and their conversions: script/builtins/builtins.go*)
(* and the encoding/json calls of state.go, engine.go and core.go.         *)
(*                                                                         *)
(* A value is a record with one field, named for its type; a Go value is   *)
(* written like the Tengo object of its type.  A text is a sequence: one   *)
(* atom, after the encodings that were applied to it.  Numbers are scaled  *)
(* down: an integer has IntBits bits, a float FloatBits significant ones   *)
(* and a resolution of 1/2, so [float |-> 3] is 1.5.                       *)
(***************************************************************************)
EXTENDS Integers, Sequences

CONSTANTS
    IntBits,
    FloatBits,
    MaxNesting  \* bound: how deep arrays and maps are nested

ASSUME BitsAssumption ==
    /\ IntBits \in Nat
    /\ FloatBits \in Nat
    /\ 1 < FloatBits
    /\ FloatBits < IntBits
    /\ MaxNesting \in Nat

IntMax == 2^(IntBits - 1) - 1
IntMin == -IntMax - 1

Undefined == [undefined |-> TRUE]
Nil == [nil |-> TRUE]               \* Go's nil
Other == [other |-> TRUE]           \* a char, a function, an immutable map
Endless == [endless |-> TRUE]       \* a map with itself in it, or nested too deep
NaN == [nan |-> TRUE]
Bool(b) == [bool |-> b]
Int64(i) == [int |-> i]
Float(h) == [float |-> h]
Inf(s) == [inf |-> s]               \* s is 1 or -1
String(t) == [string |-> t]
Bytes(t) == [bytes |-> t]
Array(s) == [array |-> s]
Map(m) == [map |-> m]

Is(v, type) == DOMAIN v = {type}

\* The values directly inside an array or a map.
Parts(v) == CASE Is(v, "array") -> {v.array[i] : i \in DOMAIN v.array}
              [] Is(v, "map") -> {v.map[k] : k \in DOMAIN v.map}
              [] OTHER -> {}

\* The values n deep in o, for each n.
Levels(o) ==
    LET level[n \in 0..MaxNesting] ==
            IF n = 0 THEN {o} ELSE UNION {Parts(p) : p \in level[n - 1]}
    IN  level

\* The value o and all that is in it, unless o is nested deeper.
Inside(o) == LET level == Levels(o) IN UNION {level[n] : n \in 0..MaxNesting}
Shallow(o) == \A p \in Levels(o)[MaxNesting] : Parts(p) = {}

\* Recursion into o overflows the stack, which ends the process.
Overflows(o) == Endless \in Inside(o)

-----------------------------------------------------------------------------
(* Numbers.                                                                *)

Magnitude(n) == IF n < 0 THEN -n ELSE n

\* The float next to h halves: FloatBits bits, to even when two are as near.
Nearest(h) ==
    LET m == Magnitude(h)
        scale == CHOOSE e \in 0..IntBits :
                    /\ m < 2^(FloatBits + e)
                    /\ \A d \in 0..(e - 1) : m >= 2^(FloatBits + d)
        unit == 2^scale
        rest == m % unit
        up == 2 * rest > unit \/ (2 * rest = unit /\ (m \div unit) % 2 = 1)
        near == m - rest + (IF up THEN unit ELSE 0)
    IN  IF h < 0 THEN -near ELSE near

\* Integers have IntBits bits, floats have a nearest float in themselves and
\* are below any infinity.
Ints == [int : IntMin..IntMax]
Infinite == 2^(IntBits + 2)
IsFloat(v) ==
    \/ /\ Is(v, "float")
       /\ v \in [float : Int]
       /\ Magnitude(v.float) < Infinite
       /\ Nearest(v.float) = v.float
    \/ v \in {NaN, Inf(1), Inf(-1)}
IsNumber(v) == v \in Ints \/ IsFloat(v)

toFloat64(o) == IF Is(o, "int") THEN Float(Nearest(2 * o.int)) ELSE o

\* int64(f).  Out of range Go leaves the outcome to the machine: the least
\* integer on amd64, the nearest one (for NaN, 0) on arm64.
ToInt64(f) ==
    CASE Is(f, "nan") -> {IntMin, 0}
      [] Is(f, "inf") -> {IntMin, IF f.inf = 1 THEN IntMax ELSE IntMin}
      [] OTHER ->
           LET t == Magnitude(f.float) \div 2
               i == IF f.float < 0 THEN -t ELSE t
           IN  IF i \in IntMin..IntMax THEN {i}
               ELSE {IntMin, IF i > 0 THEN IntMax ELSE IntMin}

\* Seeded bug: the type of the argument is not kept.
NumericFloat(f, ref) == {f}

numericResult(f, ref) ==
    IF Is(ref, "int") THEN {Int64(i) : i \in ToInt64(f)} ELSE {f}

\* Go's comparison of floats.
Place(f) == IF Is(f, "inf") THEN f.inf * Infinite ELSE f.float
Less(f, g) == ~Is(f, "nan") /\ ~Is(g, "nan") /\ Place(f) < Place(g)
LessEq(f, g) == ~Is(f, "nan") /\ ~Is(g, "nan") /\ Place(f) <= Place(g)

\* The float next to h, or an infinity when h is beyond the largest.
Rounding(h) == IF Magnitude(h) < Infinite /\ Magnitude(Nearest(h)) < Infinite
               THEN Float(Nearest(h)) ELSE Inf(IF h < 0 THEN -1 ELSE 1)

\* Go's addition of floats.
Plus(f, g) ==
    CASE Is(f, "float") /\ Is(g, "float") -> Rounding(f.float + g.float)
      [] Is(f, "inf") /\ (f = g \/ Is(g, "float")) -> Inf(f.inf)
      [] Is(f, "float") /\ Is(g, "inf") -> Inf(g.inf)
      [] OTHER -> NaN

-----------------------------------------------------------------------------
(* Conversions.                                                            *)

\* An array or a map with f of what is in it, and leaf for anything else.
Rebuilt(o, f, leaf) ==
    CASE Is(o, "array") -> Array([i \in DOMAIN o.array |-> f[o.array[i]]])
      [] Is(o, "map") -> Map([k \in DOMAIN o.map |-> f[o.map[k]]])
      [] OTHER -> leaf

\* The conversions recur into arrays and maps.
Converted(o, Leaf(_)) ==
    LET f[p \in Inside(o)] == Rebuilt(p, f, Leaf(p))
    IN  Rebuilt(o, f, Leaf(o))

GoLeaf(p) == IF p \in {Undefined, Other} THEN Nil ELSE p
tengoObjToGo(o) == Converted(o, GoLeaf)

\* Seeded bug: the elements of an array are not converted.
GoToTengoFlat(g) == IF g = Nil THEN Undefined ELSE g

TengoLeaf(p) == IF p = Nil THEN Undefined ELSE p
goToTengo(g) == Converted(g, TengoLeaf)

\* json.Marshal has an error for what has no JSON.
Encodable(g) == \A p \in Inside(g) : ~Is(p, "nan") /\ ~Is(p, "inf")

\* Bytes that are not UTF-8 become U+FFFD.
Invalid == <<"invalid">>
Valid(t) == IF t = Invalid THEN <<"fffd">> ELSE t

\* A text encoded as hex or base64.
Encoding(name, t) == IF t = <<>> THEN <<>> ELSE <<name>> \o t

\* json.Marshal: numbers are written exactly, bytes in base64.
MarshalLeaf(g) ==
    CASE Is(g, "int") -> [number |-> 2 * g.int]
      [] Is(g, "float") -> [number |-> g.float]
      [] Is(g, "string") -> String(Valid(g.string))
      [] Is(g, "bytes") -> String(Encoding("base64", g.bytes))
      [] OTHER -> g
Marshal(g) == Converted(g, MarshalLeaf)

\* json.Unmarshal into an any: every number is a float64.
UnmarshalLeaf(p) == IF Is(p, "number") THEN Float(Nearest(p.number)) ELSE p
Unmarshal(d) == Converted(d, UnmarshalLeaf)

\* What set_state and a restart, or json_encode and json_decode, make of an
\* object that has JSON.
HasJson(o) == Encodable(tengoObjToGo(o))
RoundTrip(o) == goToTengo(Unmarshal(Marshal(tengoObjToGo(o))))
=============================================================================
