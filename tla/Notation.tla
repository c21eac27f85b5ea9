------------------------------ MODULE Notation ------------------------------
(***************************************************************************)
(* How the two SDKs read and write a number.  A number of a payload is     *)
(* promised one spelling, whichever SDK emits it.  TypeScript leaves that  *)
(* to JSON.stringify; Rust takes the digits its JSON library writes and    *)
(* lays them out again (EcmaScriptFormatter in crates/ethogram/src/lib.rs).*)
(*                                                                         *)
(* A text is kept as its parts: digits before and after the point and a    *)
(* written exponent.                                                       *)
(*                                                                         *)
(* Both SDKs hold a number as a double and print the shortest digits that  *)
(* read back as it.  Those are not always the digits that were read:       *)
(* 9007199254740993 is no double.  The module is about the texts for which *)
(* they are (Texts); what rounding does to the others is not modelled.     *)
(***************************************************************************)
EXTENDS Integers, Sequences, FiniteSetsExt

Digit == 0..9

\* 12.5e-3 is <<1, 2>>, <<5>> and -3; a text without exponent has 0 there.
Text(negative, whole, fraction, scientific, exponent) ==
    [negative |-> negative, whole |-> whole, fraction |-> fraction,
     scientific |-> scientific, exponent |-> exponent]

\* Every text a layout can produce.
Layouts ==
    {t \in [negative : BOOLEAN, whole : Seq(Digit), fraction : Seq(Digit),
            scientific : BOOLEAN, exponent : Int] :
        t.scientific \/ t.exponent = 0}

DigitsOf(t) == t.whole \o t.fraction

\* A value: its digits without outer zeros and the place of the point after
\* the n-th.  Zero has no digits.
Decimal(negative, digits, n) ==
    [negative |-> negative, digits |-> digits, n |-> n]

Zeros(m) == [i \in 1..m |-> 0]

NonZeros(s) == {i \in DOMAIN s : s[i] # 0}

TrimStart(s) ==
    IF NonZeros(s) = {} THEN <<>> ELSE SubSeq(s, Min(NonZeros(s)), Len(s))

TrimEnd(s) ==
    IF NonZeros(s) = {} THEN <<>> ELSE SubSeq(s, 1, Max(NonZeros(s)))
-----------------------------------------------------------------------------
(***************************************************************************)
(* Laying out, Rust.                                                       *)
(***************************************************************************)

\* Mutant: a trailing zero dropped is not made up for in the exponent.
DecomposeDecimalUncompensated(t) ==
    LET leading == TrimStart(DigitsOf(t))
        digits == TrimEnd(leading)
        exponent == t.exponent - Len(t.fraction)
    IN  Decimal(t.negative, digits, exponent + Len(digits))

DecomposeDecimal(t) ==
    LET leading == TrimStart(DigitsOf(t))
        digits == TrimEnd(leading)
        dropped == Len(leading) - Len(digits)
        exponent == t.exponent - Len(t.fraction) + dropped
    IN  Decimal(t.negative, digits, exponent + Len(digits))

\* Mutant: serde_json's own band, which ends one place too early.
LayOutAsSerde(v) ==
    LET d == v.digits
        k == Len(d)
    IN  CASE v.n >= k /\ v.n <= 21 ->
                Text(v.negative, d \o Zeros(v.n - k), <<>>, FALSE, 0)
          [] 0 < v.n /\ v.n < k /\ v.n <= 21 ->
                Text(v.negative, SubSeq(d, 1, v.n), SubSeq(d, v.n + 1, k), FALSE, 0)
          [] -5 < v.n /\ v.n <= 0 ->
                Text(v.negative, <<0>>, Zeros(-v.n) \o d, FALSE, 0)
          [] OTHER ->
                Text(v.negative, <<d[1]>>, SubSeq(d, 2, k), TRUE, v.n - 1)

LayOut(v) ==
    LET d == v.digits
        k == Len(d)
    IN  CASE v.n >= k /\ v.n <= 21 ->
                Text(v.negative, d \o Zeros(v.n - k), <<>>, FALSE, 0)
          [] 0 < v.n /\ v.n < k /\ v.n <= 21 ->
                Text(v.negative, SubSeq(d, 1, v.n), SubSeq(d, v.n + 1, k), FALSE, 0)
          [] -6 < v.n /\ v.n <= 0 ->
                Text(v.negative, <<0>>, Zeros(-v.n) \o d, FALSE, 0)
          [] OTHER ->
                Text(v.negative, <<d[1]>>, SubSeq(d, 2, k), TRUE, v.n - 1)

RelayEcmascriptNotation(t) == LayOut(DecomposeDecimal(t))
-----------------------------------------------------------------------------
(***************************************************************************)
(* Values.                                                                 *)
(***************************************************************************)
\* The number a text stands for: its digits from the first to the last that is
\* not zero, and where the first one stands.
ValueOf(t) ==
    LET s == DigitsOf(t)
    IN  IF NonZeros(s) = {} THEN Decimal(t.negative, <<>>, 0)
        ELSE Decimal(t.negative, SubSeq(s, Min(NonZeros(s)), Max(NonZeros(s))),
                     Len(t.whole) + t.exponent + 1 - Min(NonZeros(s)))

IsZero(v) == v.digits = <<>>
Integral(v) == IsZero(v) \/ v.n >= Len(v.digits)

\* |v| < |w|, of two values that are not zero: the places, then the digits.
DigitAfter(v, i) == IF i \in DOMAIN v.digits THEN v.digits[i] ELSE 0
Below(v, w) ==
    \/ v.n < w.n
    \/ /\ v.n = w.n
       /\ \E i \in DOMAIN w.digits :
             /\ DigitAfter(v, i) < w.digits[i]
             /\ \A j \in 1..(i - 1) : DigitAfter(v, j) = w.digits[j]

\* 2^53, and the ends of the integers Rust reads as such: 2^64 and 2^63 + 1.
TwoTo53 == Decimal(FALSE, <<9,0,0,7,1,9,9,2,5,4,7,4,0,9,9,2>>, 16)
TwoTo64 == Decimal(FALSE, <<1,8,4,4,6,7,4,4,0,7,3,7,0,9,5,5,1,6,1,6>>, 20)
PastTwoTo63 == Decimal(FALSE, <<9,2,2,3,3,7,2,0,3,6,8,5,4,7,7,5,8,0,9>>, 19)

\* Reading such a number as a double and printing the double gives its digits
\* back: IEEE 754 keeps 15 significant digits of a number of its normal range,
\* and every integer up to 2^53.  A double of more digits may, or may not.
HeldAsWritten(v) ==
    \/ IsZero(v)
    \/ /\ v.n \in -306..308
       /\ \/ Len(v.digits) <= 15
          \/ Integral(v) /\ ~Below(TwoTo53, v)

\* The domain of what follows.
Texts == {t \in Layouts : HeldAsWritten(ValueOf(t))}

\* An integral number past 2^53 - 1 is refused by either parser.
NumberExceedsSafeIntegerMagnitude(v) ==
    Integral(v) /\ ~IsZero(v) /\ ~Below(v, TwoTo53)
-----------------------------------------------------------------------------
(***************************************************************************)
(* Reading and writing, Rust.  serde_json keeps an integer literal that    *)
(* fits 64 bits as an integer and everything else, -0 included, as f64,    *)
(* correctly rounded (its float_roundtrip): of Texts, the number written.  *)
(***************************************************************************)
SerdeReads(t) ==
    LET v == ValueOf(t)
    IN  [integer |-> /\ t.fraction = <<>> /\ ~t.scientific
                     /\ IF IsZero(v) THEN ~t.negative
                        ELSE Below(v, IF t.negative THEN PastTwoTo63 ELSE TwoTo64),
         value |-> v]

\* Mutant: zero is left the float it was read as.
CanonicaliseNumberButZero(x) ==
    IF x.integer \/ ~Integral(x.value) \/ IsZero(x.value) THEN x
    ELSE [x EXCEPT !.integer = Below(x.value, TwoTo53)]

CanonicaliseNumber(x) ==
    IF x.integer \/ ~Integral(x.value) THEN x
    ELSE IF IsZero(x.value)
    THEN [integer |-> TRUE, value |-> Decimal(FALSE, <<>>, 0)]
    ELSE [x EXCEPT !.integer = Below(x.value, TwoTo53)]

\* What serde_json may write of a float: in full with a final .0 when it has no
\* fraction, or with an exponent.  Which of the two is the library's choice.
SerdeTexts(v) ==
    LET d == v.digits
        k == Len(d)
        Whole == IF v.n <= 0 THEN <<0>>
                 ELSE IF v.n < k THEN SubSeq(d, 1, v.n) ELSE d \o Zeros(v.n - k)
        Fraction == IF v.n <= 0 THEN Zeros(-v.n) \o d
                    ELSE IF v.n < k THEN SubSeq(d, v.n + 1, k) ELSE <<0>>
    IN  IF IsZero(v) THEN {Text(v.negative, <<0>>, <<0>>, FALSE, 0)}
        ELSE {Text(v.negative, Whole, Fraction, FALSE, 0),
              Text(v.negative, <<d[1]>>, SubSeq(d, 2, k), TRUE, v.n - 1)}

IntegerText(v) ==
    Text(v.negative,
         IF IsZero(v) THEN <<0>> ELSE v.digits \o Zeros(v.n - Len(v.digits)),
         <<>>, FALSE, 0)

WriteF64(v) == {RelayEcmascriptNotation(t) : t \in SerdeTexts(v)}

RustWrites(t) ==
    LET x == CanonicaliseNumber(SerdeReads(t))
    IN  IF x.integer THEN {IntegerText(x.value)} ELSE WriteF64(x.value)
-----------------------------------------------------------------------------
(***************************************************************************)
(* Writing, TypeScript: JSON.parse reads a double, of Texts the number     *)
(* written; JSON.stringify by the places of its digits, in full when the   *)
(* first one is from 10^-6 up to 10^20.                                    *)
(***************************************************************************)
Place(v, p) == DigitAfter(v, v.n - p)

WholePlaces(v) == IF v.n > 0 THEN v.n ELSE 1
FractionPlaces(v) == IF Len(v.digits) > v.n THEN Len(v.digits) - v.n ELSE 0

InFull(v) ==
    Text(v.negative,
         [i \in 1..WholePlaces(v) |-> Place(v, WholePlaces(v) - i)],
         [i \in 1..FractionPlaces(v) |-> Place(v, -i)], FALSE, 0)

WithExponent(v) ==
    Text(v.negative, <<Place(v, v.n - 1)>>,
         [i \in 1..(Len(v.digits) - 1) |-> Place(v, v.n - 1 - i)], TRUE, v.n - 1)

JsonStringify(v) ==
    IF IsZero(v) THEN Text(FALSE, <<0>>, <<>>, FALSE, 0)
    ELSE IF v.n - 1 \in -6..20 THEN InFull(v) ELSE WithExponent(v)

TsWrites(t) == JsonStringify(ValueOf(t))
=============================================================================
