------------------------------- MODULE Builtins -------------------------------
(***************************************************************************)
(* A script that calls builtins: script/builtins/array.go, map.go, math.go,*)
(* the JSON functions of core.go, those of TextBuiltins, and notify.       *)
(*                                                                         *)
(* The script works on one value x: each call has x as its first argument  *)
(* and puts its result back into x.  An error of a builtin ends the        *)
(* script; so does a panic, which nobody recovers from.  The iteration of  *)
(* a Go map is in any order, and differs from one iteration to the next.   *)
(* A builtin is an operator that returns the set of its possible results.  *)
(***************************************************************************)
EXTENDS TextBuiltins

CONSTANTS
    Inputs,     \* the values a script begins with
    Operands,   \* the numbers it passes as further arguments
    Extras,     \* the arrays, maps and others it passes as further arguments
    Texts,      \* the keys it asks for
    Letters,    \* the characters of its texts
    Words,      \* the texts it passes as further arguments
    Indices,    \* where it begins and ends a slice
    MaxCalls    \* bound: calls of builtins

ASSUME IndicesAssumption == Indices \subseteq Int

VARIABLES
    x,          \* the value
    status,     \* "running", "error" or "panic"
    sent,       \* the payload of the last packet, or Blank
    trail       \* ghost: the calls so far, with the value they began with

vars == <<x, status, sent, trail>>

\* A sequence of values, and values under finitely many keys.
IsArray(v) == Is(v, "array") /\ v \in [array : Seq(Parts(v))]
IsMap(v) ==
    /\ Is(v, "map")
    /\ v \in [map : [DOMAIN v.map -> Parts(v)]]
    /\ IsFiniteSet(DOMAIN v.map)

\* Of what kind a value is.
IsObject(v) ==
    \/ IsArray(v) \/ IsMap(v) \/ IsNumber(v) \/ v \in {Undefined, Other, Endless}
    \/ Is(v, "bool")
    \/ Is(v, "string") /\ v = String(v.string)
    \/ IsBytes(v)

\* A value nested not too deep, all of it objects.  What is in an endless map is
\* not modelled, so none is an argument itself.
IsValue(v) == Shallow(v) /\ \A p \in Inside(v) : IsObject(p)
ASSUME ValuesAssumption ==
    \A v \in Inputs \cup Operands \cup Extras : IsValue(v) /\ v # Endless

Numeric(s) == \A i \in DOMAIN s : IsNumber(s[i])
Floats(s) == [i \in DOMAIN s |-> toFloat64(s[i])]

\* The orders in which an iteration may visit the keys of a map.
Iterations(m) == SetToSeqs(DOMAIN m)

\* The elements of a sequence, or of a function, at some indices.
At(s, indices) == [n \in DOMAIN indices |-> s[indices[n]]]

\* A member of each set.
Selections(S) ==
    {r \in [DOMAIN S -> UNION Range(S)] : \A i \in DOMAIN S : r[i] \in S[i]}

\* What an object's String() may be, from the texts of what is in it.  An
\* integral float reads like the integer, and a map lists its keys as they come.
Listed(s, text) == Selections([i \in DOMAIN s |-> text[s[i]]])
ArrayTexts(p, text) == {<<"[", r>> : r \in Listed(p.array, text)}
MapTexts(p, text) ==
    UNION {{<<"{", q, r>> : r \in Listed(At(p.map, q), text)} : q \in Iterations(p.map)}
TextOf(p, text) ==
    CASE IsArray(p) -> ArrayTexts(p, text)
      [] IsMap(p) -> MapTexts(p, text)
      [] Is(p, "int") -> {<<"number", 2 * p.int>>}
      [] Is(p, "float") -> {<<"number", p.float>>}
      [] Is(p, "string") -> {<<"quoted", p.string>>}
      [] OTHER -> {<<"other", p>>}
StringOf(o) == LET text[p \in Inside(o)] == TextOf(p, text) IN text[o]

\* The texts a loop over a sequence of objects may read.
Readings(s) == Selections([i \in DOMAIN s |-> StringOf(s[i])])

\* The first index of each text, in order.
Firsts(f) ==
    LET firsts == {i \in DOMAIN f : \A j \in 1..(i - 1) : f[j] # f[i]}
    IN  CHOOSE q \in SetToSeqs(firsts) : \A i, j \in DOMAIN q : i < j => q[i] < q[j]

-----------------------------------------------------------------------------
(* array.go.                                                               *)

\* The total is a float, even when every element is an integer.
sum(v) ==
    IF ~IsArray(v) THEN {Error}
    ELSE IF ~Numeric(v.array) THEN {Error}
    ELSE LET f == Floats(v.array)
             total[n \in 0..Len(f)] ==
                 IF n = 0 THEN Float(0) ELSE Plus(total[n - 1], f[n])
         IN  IF \A i \in DOMAIN v.array : Is(v.array[i], "int")
             THEN {Int64(n) : n \in ToInt64(total[Len(f)])}
             ELSE {total[Len(f)]}

\* min_of and max_of keep the first element until a later one beats it: a NaN
\* beats nothing, and is never beaten when it is the first.
BestOf(v, Beats(_, _)) ==
    IF ~IsArray(v) THEN {Error}
    ELSE IF v.array = <<>> \/ ~Numeric(v.array) THEN {Error}
    ELSE LET f == Floats(v.array)
             Kept(i) ==
                 /\ \A j \in 1..(i - 1) : Beats(f[i], f[j]) \/ (1 < j /\ f[j] = NaN)
                 /\ \A j \in (i + 1)..Len(f) : ~Beats(f[j], f[i])
         IN  {v.array[i] : i \in {j \in DOMAIN f : Kept(j)}}

min_of(v) == BestOf(v, Less)
max_of(v) == BestOf(v, LAMBDA f, g : Less(g, f))

\* Where the text of a value comes in the order of bytes: a quote, a digit
\* or sign, <undefined>, a bracket, a letter, a brace; 0 when it may be
\* anywhere.
Class(o) == CASE Is(o, "string") -> 1
              [] IsNumber(o) /\ o # NaN -> 2
              [] Is(o, "undefined") -> 3
              [] IsArray(o) -> 4
              [] Is(o, "bool") -> 5
              [] IsMap(o) -> 6
              [] OTHER -> 0

\* A copy in order: by value or by text (of which the model knows the class
\* only).  The sort is not stable, and a NaN, which is neither less nor
\* greater than anything, may leave any order behind.
SortBy(v, byValue) ==
    LET Before(a, b) == IF byValue THEN Less(toFloat64(a), toFloat64(b))
                        ELSE 0 < Class(a) /\ Class(a) < Class(b)
        Sorted(s) == \A i, j \in DOMAIN s : i < j => ~Before(s[j], s[i])
        copies == {At(v.array, p) : p \in SetToSeqs(DOMAIN v.array)}
    IN  {Array(s) : s \in {c \in copies : (byValue /\ NaN \in Parts(v)) \/ Sorted(c)}}

sort_array(v) ==
    IF ~IsArray(v) THEN {Error}
    ELSE IF Overflows(v) /\ Len(v.array) > 1 THEN {Panic}
    ELSE SortBy(v, Numeric(v.array))

\* Seeded bug: the last of several elements with one text stays.
UniqueLast(v) ==
    IF ~IsArray(v) THEN {Error}
    ELSE {Array(Reverse(At(Reverse(v.array), Firsts(f)))) :
             f \in Readings(Reverse(v.array))}

\* The first element of each text.
unique(v) ==
    IF ~IsArray(v) THEN {Error}
    ELSE IF Overflows(v) THEN {Panic}
    ELSE {Array(At(v.array, Firsts(f))) : f \in Readings(v.array)}

flatten(v) ==
    IF ~IsArray(v) THEN {Error}
    ELSE {Array(FlattenSeq([i \in DOMAIN v.array |->
                   IF IsArray(v.array[i]) THEN v.array[i].array ELSE <<v.array[i]>>]))}

zip(v, w) ==
    IF ~IsArray(v) \/ ~IsArray(w) THEN {Error}
    ELSE {Array([i \in DOMAIN v.array \cap DOMAIN w.array |->
                   Array(<<v.array[i], w.array[i]>>)])}

\* Seeded bug: an end beyond the array is not cut.
SliceUncut(v, start, end) ==
    IF ~IsArray(v) THEN {Error}
    ELSE LET s == IF start < 0 THEN 0 ELSE start
         IN  IF s > end \/ end > Len(v.array) THEN {Panic}
             ELSE {Array(SubSeq(v.array, s + 1, end))}

\* Seeded bug: a negative start counts from the end.
SliceFromEnd(v, start, end) ==
    IF ~IsArray(v) THEN {Error}
    ELSE LET e == IF end > Len(v.array) THEN Len(v.array) ELSE end
             s == IF start < 0 THEN Max({0, Len(v.array) + start}) ELSE start
             from == IF s > e THEN e ELSE s
         IN  IF from < 0 THEN {Panic}
             ELSE {Array(SubSeq(v.array, from + 1, e))}

\* slice_array(v, start, end): start is raised to 0 and lowered to end, end
\* is lowered to the length, and nothing raises end.
slice_array(v, start, end) ==
    IF ~IsArray(v) THEN {Error}
    ELSE LET e == IF end > Len(v.array) THEN Len(v.array) ELSE end
             s == IF start < 0 THEN 0 ELSE start
             from == IF s > e THEN e ELSE s
         IN  IF from < 0 THEN {Panic}
             ELSE {Array(SubSeq(v.array, from + 1, e))}

\* Where a sequence has values without an end, and what is before them.
EndlessAt(s) == {i \in DOMAIN s : Overflows(s[i])}
Readable(s) == IF EndlessAt(s) = {} THEN s ELSE SubSeq(s, 1, Min(EndlessAt(s)) - 1)

\* The elements are read up to one of the same text, or one without an end.
Answer(found, s) == IF found \/ EndlessAt(s) = {} THEN Bool(found) ELSE Panic
array_contains(v, o) ==
    IF ~IsArray(v) THEN {Error}
    ELSE IF Overflows(o) THEN {Panic}
    ELSE {Answer(needle \in Range(f), v.array) :
             needle \in StringOf(o), f \in Readings(Readable(v.array))}

reverse(v) == IF IsArray(v) THEN {Array(Reverse(v.array))} ELSE {Error}

-----------------------------------------------------------------------------
(* map.go.                                                                 *)

keys(v) == IF ~IsMap(v) THEN {Error}
           ELSE {Array([i \in DOMAIN q |-> String(q[i])]) : q \in Iterations(v.map)}

values(v) == IF ~IsMap(v) THEN {Error}
             ELSE {Array([i \in DOMAIN q |-> v.map[q[i]]]) : q \in Iterations(v.map)}

has_key(v, k) == IF IsMap(v) THEN {Bool(k \in DOMAIN v.map)} ELSE {Error}

merge(v, w) ==
    IF ~IsMap(v) \/ ~IsMap(w) THEN {Error}
    ELSE {Map([k \in DOMAIN v.map \cup DOMAIN w.map |->
                  IF k \in DOMAIN w.map THEN w.map[k] ELSE v.map[k]])}

pick(v, K) == IF IsMap(v) THEN {Map(Restrict(v.map, K \cap DOMAIN v.map))} ELSE {Error}

omit(v, K) == IF IsMap(v) THEN {Map(Restrict(v.map, DOMAIN v.map \ K))} ELSE {Error}

map_to_pairs(v) ==
    IF ~IsMap(v) THEN {Error}
    ELSE {Array([i \in DOMAIN q |-> Array(<<String(q[i]), v.map[q[i]]>>)]) :
             q \in Iterations(v.map)}

IsPair(p) == IsArray(p) /\ Len(p.array) >= 2 /\ Is(p.array[1], "string")

\* A later pair replaces an earlier one.
pairs_to_map(v) ==
    IF ~IsArray(v) THEN {Error}
    ELSE IF \E p \in Parts(v) : ~IsPair(p) THEN {Error}
    ELSE LET Key(p) == p.array[1].string
             Latest(k) == Max({i \in DOMAIN v.array : Key(v.array[i]) = k})
         IN  {Map([k \in {Key(p) : p \in Parts(v)} |-> v.array[Latest(k)].array[2]])}

-----------------------------------------------------------------------------
(* math.go, and the JSON functions of core.go.                             *)

Abs(f) == CASE Is(f, "float") -> Float(Magnitude(f.float))
            [] Is(f, "inf") -> Inf(1)
            [] OTHER -> f

abs(v) == IF IsNumber(v) THEN numericResult(Abs(toFloat64(v)), v) ELSE {Error}

\* min and max compare floats and keep the type of the argument they return.
Choose2(v, w, Wins(_, _)) ==
    IF ~IsNumber(v) \/ ~IsNumber(w) THEN {Error}
    ELSE IF Wins(toFloat64(v), toFloat64(w)) THEN numericResult(toFloat64(v), v)
    ELSE numericResult(toFloat64(w), w)

min(v, w) == Choose2(v, w, LessEq)
max(v, w) == Choose2(v, w, LAMBDA f, g : LessEq(g, f))

sign(v) ==
    IF ~IsNumber(v) THEN {Error}
    ELSE CASE Less(Float(0), toFloat64(v)) -> {Int64(1)}
           [] Less(toFloat64(v), Float(0)) -> {Int64(-1)}
           [] OTHER -> {Int64(0)}

\* round (half away from zero), floor and ceil of a float, made an integer.
Integral(v, Op(_)) ==
    IF ~IsNumber(v) THEN {Error}
    ELSE LET f == toFloat64(v)
         IN  {Int64(i) : i \in ToInt64(IF Is(f, "float") THEN Float(2 * Op(f.float))
                                                         ELSE f)}

FloorOf(h) == h \div 2
CeilOf(h) == (h + 1) \div 2
round(v) == Integral(v, LAMBDA h : IF h < 0 THEN FloorOf(h) ELSE CeilOf(h))
floor(v) == Integral(v, FloorOf)
ceil(v) == Integral(v, CeilOf)

clamp(v, lo, hi) ==
    IF ~IsNumber(v) \/ ~IsNumber(lo) \/ ~IsNumber(hi) THEN {Error}
    ELSE CASE Less(toFloat64(v), toFloat64(lo)) -> numericResult(toFloat64(lo), v)
           [] Less(toFloat64(hi), toFloat64(v)) -> numericResult(toFloat64(hi), v)
           [] OTHER -> numericResult(toFloat64(v), v)

dead_band(v, threshold) ==
    IF ~IsNumber(v) \/ ~IsNumber(threshold) THEN {Error}
    ELSE IF Less(Abs(toFloat64(v)), toFloat64(threshold)) THEN {Float(0)}
    ELSE {toFloat64(v)}

\* rand.Int63n panics unless hi - lo + 1, computed in IntBits bits, is
\* positive.
rand_int(lo, hi) ==
    IF lo \notin Ints \/ hi \notin Ints THEN {Error}
    ELSE IF hi.int < lo.int THEN {Error}
    ELSE IF hi.int - lo.int + 1 > IntMax THEN {Panic}
    ELSE {Int64(i) : i \in lo.int..hi.int}

json_encode(v) ==
    IF Overflows(v) THEN {Panic}
    ELSE IF HasJson(v) THEN {String(<<"json", Marshal(tengoObjToGo(v))>>)} ELSE {Error}

\* No other text is a JSON document; in one that is, no number is beyond the
\* floats.
IsDocument(d) ==
    /\ Shallow(d)
    /\ \A p \in Inside(d) :
          \/ IsArray(p) \/ IsMap(p) \/ p = Nil \/ Is(p, "bool")
          \/ Is(p, "string") /\ p = String(p.string)
          \/ Is(p, "number") /\ IsFloat(Float(Nearest(p.number)))
json_decode(v) ==
    IF ~Is(v, "string") THEN {Error}
    ELSE IF v.string = <<>> \/ v.string[1] # "json" THEN {Error}
    ELSE IF ~IsDocument(v.string[2]) THEN {Error}
    ELSE {goToTengo(Unmarshal(v.string[2]))}

\* encodePacket drops the error of json.Marshal: an empty line is sent.
Blank == [blank |-> TRUE]
encodePacket(payload) == IF Encodable(payload) THEN Marshal(payload) ELSE Blank

-----------------------------------------------------------------------------
(* The script.                                                             *)

Init ==
    /\ x \in Inputs
    /\ status = "running"
    /\ sent = Map(<<>>)
    /\ trail = <<>>

\* A call of the builtin fn, with args after x, and one of its results, of
\* which those that are nested too deep are left out.
Call(fn, args, results) ==
    /\ status = "running"
    /\ Len(trail) < MaxCalls
    /\ trail' = Append(trail, [fn |-> fn, args |-> args, was |-> x])
    /\ \E r \in results :
          \/ r = Error /\ status' = "error" /\ x' = x
          \/ r = Panic /\ status' = "panic" /\ x' = x
          \/ r \notin {Error, Panic} /\ Shallow(r) /\ status' = status /\ x' = r

Summarize ==
    \/ Call("sum", <<>>, sum(x))
    \/ Call("min_of", <<>>, min_of(x))
    \/ Call("max_of", <<>>, max_of(x))

Rearrange ==
    \/ Call("sort_array", <<>>, sort_array(x))
    \/ Call("unique", <<>>, unique(x))
    \/ Call("flatten", <<>>, flatten(x))
    \/ Call("reverse", <<>>, reverse(x))
    \/ \E o \in Extras : Call("zip", <<o>>, zip(x, o))

SliceArray ==
    \E start, end \in Indices :
        Call("slice_array", <<Int64(start), Int64(end)>>, slice_array(x, start, end))

ArrayContains ==
    \E o \in Extras : Call("array_contains", <<o>>, array_contains(x, o))

TakeApart ==
    \/ Call("keys", <<>>, keys(x))
    \/ Call("values", <<>>, values(x))
    \/ Call("map_to_pairs", <<>>, map_to_pairs(x))
    \/ Call("pairs_to_map", <<>>, pairs_to_map(x))

SelectKeys ==
    \E k \in Texts :
        \/ Call("has_key", <<String(k)>>, has_key(x, k))
        \/ Call("pick", <<String(k)>>, pick(x, {k}))
        \/ Call("omit", <<String(k)>>, omit(x, {k}))

Merge == \E o \in Extras : Call("merge", <<o>>, merge(x, o))

Calculate ==
    \/ Call("abs", <<>>, abs(x))
    \/ Call("sign", <<>>, sign(x))
    \/ Call("round", <<>>, round(x))
    \/ Call("floor", <<>>, floor(x))
    \/ Call("ceil", <<>>, ceil(x))

Compare ==
    \E o \in Operands :
        \/ Call("min", <<o>>, min(x, o))
        \/ Call("max", <<o>>, max(x, o))
        \/ Call("dead_band", <<o>>, dead_band(x, o))
        \/ \E p \in Operands : Call("clamp", <<o, p>>, clamp(x, o, p))

RandInt == \E o \in Operands : Call("rand_int", <<o>>, rand_int(x, o))

Json ==
    \/ Call("json_encode", <<>>, json_encode(x))
    \/ Call("json_decode", <<>>, json_decode(x))

\* A text with an encoding has no characters.
Spelled(v) == Is(v, "string") /\ v.string # <<>> => v.string[1] \in Letters

SearchText ==
    /\ Spelled(x)
    /\ \E t \in Words :
          \/ Call("split", <<String(t)>>, split(x, String(t)))
          \/ Call("contains", <<String(t)>>, contains(x, String(t)))
          \/ Call("starts_with", <<String(t)>>, starts_with(x, String(t)))
          \/ Call("ends_with", <<String(t)>>, ends_with(x, String(t)))

EditText ==
    /\ Spelled(x)
    /\ \/ Call("trim", <<>>, trim(x))
       \/ \E s, t \in Words :
             \/ Call("replace", <<String(s), String(t)>>,
                     replace(x, String(s), String(t)))
             \/ Call("replace_all", <<String(s), String(t)>>,
                     replace_all(x, String(s), String(t)))

StretchText ==
    /\ Spelled(x)
    /\ \E o \in Operands :
          \/ Call("repeat", <<o>>, repeat(x, o))
          \/ \E t \in Words :
                \/ Call("pad_left", <<o, String(t)>>, pad_left(x, o, String(t)))
                \/ Call("pad_right", <<o, String(t)>>, pad_right(x, o, String(t)))

Join ==
    /\ IsArray(x) => Overflows(x) \/ \A o \in Parts(x) : Is(o, "string") /\ Spelled(o)
    /\ \E t \in Words : Call("join", <<String(t)>>, join(x, String(t)))

Encode ==
    \E name \in {"hex", "base64"} :
        \/ Call("encode", <<String(<<name>>)>>, encode(x, name))
        \/ Call("decode", <<String(<<name>>)>>, decode(x, name))

TestType ==
    \E type \in Types : Call("is_type", <<String(<<type>>)>>, is_type(x, type))

\* notify with x as its second argument, of which only a map counts, or as its
\* first and only one.
Notify ==
    \/ /\ Call("notify", <<>>, IF Overflows(x) /\ IsMap(x) THEN {Panic} ELSE {Undefined})
       /\ sent' = CASE ~IsMap(x) -> encodePacket(Map(<<>>))
                    [] IsMap(x) /\ Overflows(x) -> sent
                    [] OTHER -> encodePacket(tengoObjToGo(x))
    \/ /\ Call("notify topic", <<>>, IF Is(x, "string") THEN {Undefined} ELSE {Error})
       /\ sent' = IF Is(x, "string") THEN encodePacket(Map(<<>>)) ELSE sent

Compute ==
    \/ Summarize
    \/ Rearrange
    \/ SliceArray
    \/ ArrayContains
    \/ TakeApart
    \/ SelectKeys
    \/ Merge
    \/ Calculate
    \/ Compare
    \/ RandInt
    \/ Json
    \/ SearchText
    \/ EditText
    \/ StretchText
    \/ Join
    \/ Encode
    \/ TestType

Next ==
    \/ Compute /\ UNCHANGED sent
    \/ Notify

Spec == Init /\ [][Next]_vars

-----------------------------------------------------------------------------
(* Correctness.                                                            *)

\* The last call was one of fn, and how it began.
Called(fn) == trail # <<>> /\ Last(trail).fn = fn
Was == Last(trail).was
Arg(n) == Last(trail).args[n]

\* The last call was one of fn and returned x.
Returned(fn) == Called(fn) /\ status = "running"

\* The last two calls were f and g, and both returned.
ReturnedBoth(f, g) ==
    Returned(g) /\ Len(trail) >= 2 /\ trail[Len(trail) - 1].fn = f
Origin == trail[Len(trail) - 1].was

\* What writes an object, or converts it to Go.
Recursive == {"sort_array", "unique", "array_contains", "join", "json_encode", "notify"}
Pads == {"pad_left", "pad_right"}

\* "If a script panics or returns an error, the error is logged and execution
\* continues" is not so for a panic (see Lifecycle).  With these calls, and no
\* others, a builtin of this module brings the server down: slice_array with a
\* negative end, rand_int with bounds too far apart for their type, repeat and
\* the pads with a result there is no memory for, and recursion into a value
\* without an end.
PanicsExplained ==
    status = "panic" =>
        \/ Called("slice_array") /\ Arg(2).int < 0
        \/ Called("rand_int") /\ Arg(1).int - Was.int >= IntMax
        \/ Called("repeat") /\ Len(Was.string) * Arg(1).int > LongestText
        \/ \E pad \in Pads :
              /\ Called(pad)
              /\ Len(Was.string) < Arg(1).int
              /\ Arg(1).int + Len(Arg(2).string) > LongestText
        \/ \E fn \in Recursive :
              Called(fn) /\ \E v \in {Was} \cup ToSet(Last(trail).args) : Overflows(v)

\* "Elements from start to end (exclusive)", for every start and every end
\* that is not negative.
SliceIsRange ==
    Returned("slice_array") =>
        LET within == {i \in DOMAIN Was.array : Arg(1).int < i /\ i <= Arg(2).int}
        IN  x.array = [n \in 1..Cardinality(within) |-> Was.array[Min(within) + n - 1]]

\* In halves, what an integer or a finite float stands for.
Exact(o) == IF Is(o, "int") THEN 2 * o.int ELSE o.float
Finite(o) == Is(o, "int") \/ Is(o, "float")

\* "Numeric arrays sort numerically": a copy with the same elements, in
\* order, except for numbers no float tells apart and for arrays with a NaN.
SortedCopy ==
    Returned("sort_array") =>
        /\ \A o \in Parts(x) \cup Parts(Was) :
              Cardinality({i \in DOMAIN x.array : x.array[i] = o})
                = Cardinality({i \in DOMAIN Was.array : Was.array[i] = o})
        /\ (\A o \in Parts(x) : IsNumber(o) /\ Finite(o)) =>
              \A i, j \in DOMAIN x.array :
                  i < j => \/ Exact(x.array[i]) <= Exact(x.array[j])
                           \/ toFloat64(x.array[i]) = toFloat64(x.array[j])

\* Numbers up to the precision of floats come out of the builtins as the
\* docs say: with their type kept, and within the bounds of clamp unless an
\* integer meets a fractional bound.
InReach(o) == Finite(o) /\ Magnitude(Exact(o)) <= 2^FloatBits
Fractional(o) == Exact(o) % 2 = 1

NumbersMeetDocs ==
    (status = "running" /\ trail # <<>> /\ IsNumber(Was)
        /\ \A o \in {Was} \cup ToSet(Last(trail).args) : IsNumber(o) /\ InReach(o)) =>
        /\ Called("abs") => /\ DOMAIN x = DOMAIN Was
                            /\ Exact(x) \in {Exact(Was), -Exact(Was)}
                            /\ Exact(x) >= 0
        /\ Called("min") => /\ x \in {Was, Arg(1)}
                            /\ Exact(x) <= Exact(Was) /\ Exact(x) <= Exact(Arg(1))
        /\ Called("max") => /\ x \in {Was, Arg(1)}
                            /\ Exact(x) >= Exact(Was) /\ Exact(x) >= Exact(Arg(1))
        /\ Called("clamp") =>
              /\ DOMAIN x = DOMAIN Was
              /\ Exact(Arg(1)) <= Exact(Arg(2)) =>
                    \/ Exact(Arg(1)) <= Exact(x) /\ Exact(x) <= Exact(Arg(2))
                    \/ Is(Was, "int") /\ (Fractional(Arg(1)) \/ Fractional(Arg(2)))
        /\ Called("round") => Magnitude(Exact(x) - Exact(Was)) <= 1
        /\ Called("floor") => Exact(Was) - Exact(x) \in {0, 1}
        /\ Called("ceil") => Exact(x) - Exact(Was) \in {0, 1}

\* unique and array_contains compare texts.  They err for maps of two or more
\* keys only, whose text varies, and in no other way than to miss that two
\* of them are the same.
Steady(o) == \A p \in Inside(o) : IsMap(p) => Cardinality(DOMAIN p.map) <= 1
Alike(o, p) == o = p \/ StringOf(o) \cap StringOf(p) # {}

TextsDecide ==
    /\ Returned("array_contains") =>
          /\ x.bool => \E o \in Parts(Was) : Alike(o, Arg(1))
          /\ ~x.bool => Arg(1) \notin Parts(Was) \/ ~Steady(Arg(1))
    /\ Returned("unique") =>
          /\ \A o \in Parts(Was) : \E p \in Parts(x) : Alike(o, p)
          /\ \A i, j \in DOMAIN x.array :
                i # j /\ Alike(x.array[i], x.array[j]) => ~Steady(x.array[i])
          /\ x.array # <<>> => x.array[1] = Was.array[1]

\* "Convert [[key, val], ...] back to a map": whatever the order of the keys.
PairsRoundTrip == ReturnedBoth("map_to_pairs", "pairs_to_map") => x = Origin

ArraysMeetDocs == SliceIsRange /\ SortedCopy /\ PairsRoundTrip

\* Texts come out of the builtins as the docs say: what was split is joined
\* again by the same separator, nothing of what replace_all replaces is left
\* (unless what is put in its place is a part of it), trim and the pads keep
\* the text, "to width" - and beyond it if the pad is not a character but a
\* text -, and decoding gives back what was encoded.
TextsMeetDocs ==
    /\ ReturnedBoth("split", "join") /\ trail[Len(trail) - 1].args = Last(trail).args =>
          x = Origin
    /\ Returned("replace_all") /\ Arg(1).string # <<>>
          /\ Arg(2).string # <<>> /\ ToSet(Arg(1).string) \cap ToSet(Arg(2).string) = {} =>
          contains(x, Arg(1)) = {Bool(FALSE)}
    /\ Returned("trim") =>
          /\ x.string # <<>> => Space \notin {x.string[1], Last(x.string)}
          /\ \E i \in Occurrences(Was.string, x.string) :
                \A j \in DOMAIN Was.string \ (i..(i + Len(x.string) - 1)) :
                    Was.string[j] = Space
    /\ \A pad \in {"pad_left", "pad_right"} : Returned(pad) =>
          /\ IF pad = "pad_left" THEN IsSuffix(Was.string, x.string)
                                 ELSE IsPrefix(Was.string, x.string)
          /\ Len(x.string) >= Arg(1).int
          /\ x # Was => Len(x.string) < Arg(1).int + Len(Arg(2).string)
    /\ ReturnedBoth("encode", "decode") /\ trail[Len(trail) - 1].args = Last(trail).args =>
          x = IF Is(Origin, "bytes") THEN Origin ELSE Bytes(Origin.string)

\* What JSON keeps: everything but integers, bytes, text that is not UTF-8
\* and objects without a Go value.
Holds(o, type) == \E p \in Inside(o) : Is(p, type)
Plain(o) == /\ ~Holds(o, "int") /\ ~Holds(o, "bytes")
            /\ \A p \in Inside(o) : p \notin {Other, String(Invalid)}

\* A value that went through JSON, as every payload does, has no integer and
\* no bytes in it, will not change any more, and has not changed if it was
\* plain.  A payload that has no JSON goes out as an empty line, and the script
\* that sent it is not told.
JsonSettles ==
    /\ ReturnedBoth("json_encode", "json_decode") =>
          /\ ~Holds(x, "int") /\ ~Holds(x, "bytes")
          /\ HasJson(x) /\ RoundTrip(x) = x
          /\ Plain(Origin) => x = Origin
    /\ Returned("notify") =>
          /\ sent = Blank <=> IsMap(Was) /\ (Holds(Was, "nan") \/ Holds(Was, "inf"))
          /\ sent # Blank /\ IsMap(Was) /\ Plain(Was) => goToTengo(Unmarshal(sent)) = Was
=============================================================================
