----------------------------- MODULE MCStateStore -----------------------------
(***************************************************************************)
(* StateStore for TLC, with values and conversions from Values: a float, an*)
(* integer, an array with two possible contents, and NaN.                  *)
(***************************************************************************)
EXTENDS StateStore, Values

half == Float(1)
one == Int64(1)
Arrays == {Array(<<half, Undefined>>), Array(<<half, Bytes(<<"b">>)>>)}

\* Encoding a value and decoding it again, for a set of values.
Decoded(S) == {RoundTrip(v) : v \in {w \in S : HasJson(w)}}
Closed(S) == S \cup Decoded(S)

AllVals == Closed({half, one, NaN} \cup Arrays)
MCMutable == Closed(Arrays)
MCNotJson == {v \in Vals : ~HasJson(v)}
MCJson == [v \in Vals |-> IF HasJson(v) THEN RoundTrip(v) ELSE v]
=============================================================================
