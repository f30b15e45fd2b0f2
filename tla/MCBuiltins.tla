------------------------------ MODULE MCBuiltins ------------------------------
(***************************************************************************)
(* Builtins for TLC.  With 5-bit integers and floats of 3 significant bits,*)
(* the integers beyond 4 are the even ones, beyond 8 the multiples of 4    *)
(* that a float has, and the largest integer is less than its float.       *)
(***************************************************************************)
EXTENDS Builtins

k == <<"k">>
l == <<"l">>
one == Int64(1)
half == Float(1)
two == Float(4)

kl == <<"k", "l">>
MCTexts == {k, l}
MCLetters == {"k", "l", "space"}
MCWords == {<<>>, k, kl}
MCIndices == -1..3
MCOperands == {Int64(IntMin), Int64(-2), Int64(3), Int64(IntMax), half, NaN}

MCNumbers ==
    {Int64(i) : i \in {IntMin, IntMin + 1, -3, 0, 1, 4, 5, 9, IntMax}}
        \cup {Float(h) : h \in {-5, -1, 3, 8, 40}} \cup {NaN, Inf(1), Inf(-1)}

Empty == Map(<<>>)
Single == Map(k :> one)
Double == Map(k :> one @@ l :> Bytes(k))

MCExtras == {one, half, Empty, Double, Single, Array(<<Double, Float(2)>>),
             Array(<<Endless>>)}

MCArrays == {Array(s) : s \in {
    <<>>,
    <<Int64(2), Float(2), one>>,
    <<half, NaN, Int64(-1)>>,
    <<Int64(IntMax), Int64(IntMax - 1), Int64(IntMax)>>,
    <<Int64(9), Int64(8)>>,
    <<String(l), one, Undefined, String(k)>>,
    <<Double, Double, Single>>,
    <<one, Map(k :> Endless), one>>,
    <<Array(<<String(k), one>>), Array(<<String(k), two>>)>>,
    <<Array(<<Double>>), Array(<<>>), Other>>}}

MCMaps == {Empty, Double, Map(k :> Inf(-1)), Map(k :> Endless),
           Map(k :> String(l) @@ l :> Array(<<half, Undefined>>)),
           Map(k :> String(Invalid) @@ l :> Array(<<half, Undefined, Bool(TRUE)>>))}

MCInputs == MCNumbers \cup MCArrays \cup MCMaps \cup {Undefined, String(<<>>), String(k)}
              \cup {String(<<"k", "k", "l", "l">>), String(<<"space", "k", "l", "k", "l">>)}
=============================================================================
