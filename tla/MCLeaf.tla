------------------------------- MODULE MCLeaf -------------------------------
(* Module Leaf for TLC.  The digits are few and the exponents many: what can *)
(* go wrong is where the point and the zeros end up.                         *)
EXTENDS Leaf

CONSTANT MaxUnits   \* the longest string, in code units

\* Past both ends of the plain notation.
Exponents == -9..23

LeafDigits == {0, 1, 5}
Wholes == {<<0>>, <<1>>, <<5>>, <<1, 0>>, <<1, 5>>, <<5, 0>>}
Fractions == {<<>>} \union {<<d>> : d \in LeafDigits}
                    \union {<<d, e>> : d, e \in LeafDigits}

\* 2^53 - 1 and 2^53, as integers and as floats.
LastSafe == <<9,0,0,7,1,9,9,2,5,4,7,4,0,9,9,1>>
SafetyEdge ==
    {Text(negative, whole, fraction, FALSE, 0) :
        negative \in BOOLEAN, whole \in {LastSafe, TwoTo53.digits},
        fraction \in {<<>>, <<0>>}}

MCLiterals ==
    SafetyEdge
    \union
    {Text(negative, whole, fraction, FALSE, 0) :
        negative \in BOOLEAN, whole \in Wholes, fraction \in Fractions}
    \union
    {Text(negative, whole, fraction, TRUE, exponent) :
        negative \in BOOLEAN, whole \in Wholes, fraction \in Fractions,
        exponent \in Exponents}

MCStrings == UNION {[1..n -> Unit] : n \in 0..MaxUnits}
=============================================================================
