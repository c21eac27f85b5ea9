----------------------------- MODULE LeafProofs -----------------------------
(***************************************************************************)
(* What a leaf goes through, for every number a double keeps (Texts of     *)
(* Notation), texts of any length, any bound and any number of hops.       *)
(*                                                                         *)
(* Numbers: Rust's layout is the one JSON.stringify writes, and what is    *)
(* written stands for the number it was written of.  The lemmas about      *)
(* digits hold of every layout and say nothing of doubles; the theorems    *)
(* are about the texts a double keeps.  Strings: both excerpts are the     *)
(* same operator of a text's items, and the items of a text made of        *)
(* well-formed items are those items, so a second cut finds what the first *)
(* one left.  Both follow from inductions over sequences (module           *)
(* Induction).                                                             *)
(***************************************************************************)
EXTENDS Leaf, Induction

\* A value with no zero at either end of its digits.
Normal(v) ==
    /\ v \in [negative : BOOLEAN, digits : Seq(Digit), n : Int]
    /\ v.digits # <<>> => v.digits[1] # 0 /\ v.digits[Len(v.digits)] # 0
    /\ v.digits = <<>> => v.n = 0
-----------------------------------------------------------------------------
(***************************************************************************)
(* Sequences of digits by their places.                                    *)
(***************************************************************************)

\* The padding of m zeros is m digits.
LEMMA ZerosAreDigits ==
    ASSUME NEW m \in Nat
    PROVE  Zeros(m) \in Seq(Digit) /\ Len(Zeros(m)) = m
  BY IsASeq DEF Zeros, Digit

\* Digits with zeros after them, place by place.
LEMMA ZerosAfter ==
    ASSUME NEW d \in Seq(Digit), NEW m \in Nat
    PROVE  d \o Zeros(m)
             = [i \in 1..(Len(d) + m) |-> IF i \in DOMAIN d THEN d[i] ELSE 0]
<1> DEFINE z == Zeros(m)
           s == d \o z
<1>1. z \in Seq(Digit) /\ Len(z) = m
  BY ZerosAreDigits
<1>2. \A i \in 1..m : z[i] = 0
  BY DEF Zeros
<1> HIDE DEF z
<1>3. /\ s \in Seq(Digit)
      /\ Len(s) = Len(d) + m
      /\ \A i \in 1..(Len(d) + m) : s[i] = IF i <= Len(d) THEN d[i] ELSE z[i - Len(d)]
  BY <1>1, ConcatProperties
<1>4. s = [i \in 1..(Len(d) + m) |-> s[i]]
  BY <1>3, LenProperties
<1>5. \A i \in 1..(Len(d) + m) : s[i] = IF i \in DOMAIN d THEN d[i] ELSE 0
  BY <1>1, <1>2, <1>3, LenProperties
<1> HIDE DEF s
<1> QED
  BY <1>4, <1>5 DEF s, z

\* Digits with zeros before them, place by place.
LEMMA ZerosBefore ==
    ASSUME NEW d \in Seq(Digit), NEW m \in Nat
    PROVE  Zeros(m) \o d
             = [i \in 1..(m + Len(d)) |-> IF i <= m THEN 0 ELSE d[i - m]]
<1> DEFINE z == Zeros(m)
           s == z \o d
<1>1. z \in Seq(Digit) /\ Len(z) = m
  BY ZerosAreDigits
<1>2. \A i \in 1..m : z[i] = 0
  BY DEF Zeros
<1> HIDE DEF z
<1>3. /\ s \in Seq(Digit)
      /\ Len(s) = m + Len(d)
      /\ \A i \in 1..(m + Len(d)) : s[i] = IF i <= m THEN z[i] ELSE d[i - m]
  BY <1>1, ConcatProperties
<1>4. s = [i \in 1..(m + Len(d)) |-> s[i]]
  BY <1>3, LenProperties
<1>5. \A i \in 1..(m + Len(d)) : s[i] = IF i <= m THEN 0 ELSE d[i - m]
  BY <1>1, <1>2, <1>3
<1> HIDE DEF s
<1> QED
  BY <1>4, <1>5 DEF s, z

\* A part of the digits, place by place.
LEMMA PartOf ==
    ASSUME NEW d \in Seq(Digit), NEW a \in 1..(Len(d) + 1), NEW b \in (a - 1)..Len(d)
    PROVE  SubSeq(d, a, b) = [i \in 1..(b - a + 1) |-> d[a + i - 1]]
  BY LenProperties

\* A part of the digits is digits.
LEMMA PartIsDigits ==
    ASSUME NEW d \in Seq(Digit), NEW a \in Int, NEW b \in Int,
           1 <= a, a <= b, b <= Len(d)
    PROVE  /\ SubSeq(d, a, b) \in Seq(Digit)
           /\ Len(SubSeq(d, a, b)) = b - a + 1
           /\ \A i \in 1..(b - a + 1) : SubSeq(d, a, b)[i] = d[a + i - 1]
<1>1. \A i \in a..b : d[i] \in Digit
  BY LenProperties, ElementOfSeq
<1> QED
  BY <1>1, SubSeqProperties
-----------------------------------------------------------------------------
(***************************************************************************)
(* Laying out.                                                             *)
(***************************************************************************)

\* A number other than zero has a first and a last digit, neither of them 0.
LEMMA NormalHasDigits ==
    ASSUME NEW v, Normal(v), ~IsZero(v)
    PROVE  /\ v.digits \in Seq(Digit)
           /\ Len(v.digits) \in Nat \ {0}
           /\ DOMAIN v.digits = 1..Len(v.digits)
           /\ v.n \in Int
           /\ v.digits[1] # 0 /\ v.digits[Len(v.digits)] # 0
  BY EmptySeq, LenProperties DEF Normal, IsZero

\* The digit a number has at 10^p is one of its digits, or 0 beyond them.
LEMMA PlaceIsADigit ==
    ASSUME NEW v, Normal(v), ~IsZero(v), NEW p \in Int
    PROVE  Place(v, p) = IF v.n - p \in 1..Len(v.digits) THEN v.digits[v.n - p] ELSE 0
  BY NormalHasDigits DEF Place, DigitAfter

\* JSON.stringify in the three bands in which Rust too writes a number in full.
LEMMA InFullWithZeros ==
    ASSUME NEW v, Normal(v), ~IsZero(v), v.n >= Len(v.digits)
    PROVE  InFull(v)
             = Text(v.negative, v.digits \o Zeros(v.n - Len(v.digits)), <<>>, FALSE, 0)
<1> DEFINE d == v.digits
           k == Len(d)
           n == v.n
           whole == d \o Zeros(n - k)
<1>1. d \in Seq(Digit) /\ k \in Nat \ {0} /\ DOMAIN d = 1..k /\ n \in Int /\ n - k \in Nat
  BY NormalHasDigits
<1>2. whole = [i \in 1..(k + (n - k)) |-> IF i \in DOMAIN d THEN d[i] ELSE 0]
  BY <1>1, ZerosAfter
<1>3. ASSUME NEW i \in 1..n
      PROVE  Place(v, n - i) = IF i \in 1..k THEN d[i] ELSE 0
  <2>1. n - i \in Int /\ n - (n - i) = i
    BY <1>1
  <2> QED  BY <2>1, PlaceIsADigit
<1> HIDE DEF whole
<1>4. whole = [i \in 1..n |-> Place(v, n - i)]
  BY <1>1, <1>2, <1>3
<1>5. WholePlaces(v) = n /\ FractionPlaces(v) = 0
  BY <1>1 DEF WholePlaces, FractionPlaces
<1>6. [i \in 1..0 |-> Place(v, -i)] = <<>>
  OBVIOUS
<1>7. InFull(v) = Text(v.negative, whole, <<>>, FALSE, 0)
  BY <1>4, <1>5, <1>6, Zenon DEF InFull
<1> QED
  BY <1>7 DEF whole

\* Written in full with the point among the digits.
LEMMA InFullWithPoint ==
    ASSUME NEW v, Normal(v), ~IsZero(v), 0 < v.n, v.n < Len(v.digits)
    PROVE  InFull(v) = Text(v.negative, SubSeq(v.digits, 1, v.n),
                            SubSeq(v.digits, v.n + 1, Len(v.digits)), FALSE, 0)
<1> DEFINE d == v.digits
           k == Len(d)
           n == v.n
<1>1. d \in Seq(Digit) /\ k \in Nat \ {0} /\ DOMAIN d = 1..k /\ n \in 1..(k - 1)
  BY NormalHasDigits
<1>2. SubSeq(d, 1, n) = [i \in 1..(n - 1 + 1) |-> d[1 + i - 1]]
  BY <1>1, PartOf
<1>3. SubSeq(d, n + 1, k) = [i \in 1..(k - (n + 1) + 1) |-> d[(n + 1) + i - 1]]
  <2>1. n + 1 \in 1..(k + 1) /\ k \in ((n + 1) - 1)..k
    BY <1>1
  <2> QED  BY <1>1, <2>1, PartOf
<1>4. /\ \A i \in 1..n : Place(v, n - i) = d[i]
      /\ \A i \in 1..(k - n) : Place(v, -i) = d[n + i]
  <2>1. ASSUME NEW i \in 1..n
        PROVE  Place(v, n - i) = d[i]
    <3>1. n - i \in Int /\ n - (n - i) = i /\ i \in 1..k
      BY <1>1
    <3> QED  BY <3>1, PlaceIsADigit
  <2>2. ASSUME NEW i \in 1..(k - n)
        PROVE  Place(v, -i) = d[n + i]
    <3>1. -i \in Int /\ n - (-i) = n + i /\ n + i \in 1..k
      BY <1>1
    <3> QED  BY <3>1, PlaceIsADigit
  <2> QED  BY <2>1, <2>2
<1>5. SubSeq(d, 1, n) = [i \in 1..n |-> Place(v, n - i)]
  BY <1>1, <1>2, <1>4
<1>6. SubSeq(d, n + 1, k) = [i \in 1..(k - n) |-> Place(v, -i)]
  <2>1. k - (n + 1) + 1 = k - n
    BY <1>1
  <2>2. \A i \in 1..(k - n) : d[(n + 1) + i - 1] = Place(v, -i)
    <3>1. \A i \in 1..(k - n) : (n + 1) + i - 1 = n + i
      BY <1>1
    <3> QED  BY <1>4, <3>1
  <2> QED  BY <1>3, <2>1, <2>2
<1>7. WholePlaces(v) = n /\ FractionPlaces(v) = k - n
  BY <1>1 DEF WholePlaces, FractionPlaces
<1> QED
  BY <1>5, <1>6, <1>7, Zenon DEF InFull

\* Written in full below one: a zero, the point, zeros, the digits.
LEMMA InFullWithZeroBefore ==
    ASSUME NEW v, Normal(v), ~IsZero(v), v.n <= 0
    PROVE  InFull(v) = Text(v.negative, <<0>>, Zeros(-v.n) \o v.digits, FALSE, 0)
<1> DEFINE d == v.digits
           k == Len(d)
           n == v.n
           fraction == Zeros(-n) \o d
<1>1. d \in Seq(Digit) /\ k \in Nat \ {0} /\ DOMAIN d = 1..k /\ n \in Int /\ -n \in Nat
  BY NormalHasDigits
<1>2. fraction = [i \in 1..(-n + k) |-> IF i <= -n THEN 0 ELSE d[i - (-n)]]
  BY <1>1, ZerosBefore
<1>3. /\ Place(v, 0) = 0
      /\ \A i \in 1..(k - n) : Place(v, -i) = IF i <= -n THEN 0 ELSE d[i + n]
  <2>1. Place(v, 0) = 0
    BY <1>1, PlaceIsADigit
  <2>2. ASSUME NEW i \in 1..(k - n)
        PROVE  Place(v, -i) = IF i <= -n THEN 0 ELSE d[i + n]
    <3>1. -i \in Int /\ n - (-i) = i + n
      BY <1>1
    <3>2. i + n \in 1..k <=> ~(i <= -n)
      BY <1>1
    <3> QED  BY <3>1, <3>2, PlaceIsADigit
  <2> QED  BY <2>1, <2>2
<1> HIDE DEF fraction
<1>4. fraction = [i \in 1..(k - n) |-> Place(v, -i)]
  BY <1>1, <1>2, <1>3
<1>5. <<0>> = [i \in 1..1 |-> Place(v, 1 - i)]
  BY <1>3
<1>6. WholePlaces(v) = 1 /\ FractionPlaces(v) = k - n
  BY <1>1 DEF WholePlaces, FractionPlaces
<1>7. InFull(v) = Text(v.negative, <<0>>, fraction, FALSE, 0)
  BY <1>4, <1>5, <1>6, Zenon DEF InFull
<1> QED
  BY <1>7 DEF fraction

\* Written with an exponent: one digit, the others behind the point.
LEMMA WithExponentByDigits ==
    ASSUME NEW v, Normal(v), ~IsZero(v)
    PROVE  WithExponent(v) = Text(v.negative, <<v.digits[1]>>,
                                  SubSeq(v.digits, 2, Len(v.digits)), TRUE, v.n - 1)
<1> DEFINE d == v.digits
           k == Len(d)
           n == v.n
<1>1. d \in Seq(Digit) /\ k \in Nat \ {0} /\ DOMAIN d = 1..k /\ n \in Int
  BY NormalHasDigits
<1>2. \A p \in Int : Place(v, p) = IF n - p \in 1..k THEN d[n - p] ELSE 0
  BY <1>1 DEF Place, DigitAfter
<1>3. WithExponent(v) = Text(v.negative, <<Place(v, n - 1)>>,
                             [i \in 1..(k - 1) |-> Place(v, n - 1 - i)], TRUE, n - 1)
  BY DEF WithExponent
<1> HIDE DEF d, n
<1>4. SubSeq(d, 2, k) = [i \in 1..(k - 1) |-> Place(v, n - 1 - i)]
  BY <1>1, <1>2, PartOf
<1>5. Place(v, n - 1) = d[1]
  BY <1>1, <1>2
<1> QED
  BY <1>3, <1>4, <1>5 DEF d, n

\* Moving the point as the Rust code does, in each of its five ranges, writes
\* what JSON.stringify says place by place.
LEMMA LayOutIsJsonStringify ==
    ASSUME NEW v, Normal(v), ~IsZero(v)
    PROVE  LayOut(v) = JsonStringify(v)
<1> DEFINE d == v.digits
           k == Len(d)
           n == v.n
<1>1. k \in Nat \ {0} /\ n \in Int
  BY NormalHasDigits
<1>2. /\ n - 1 \in -6..20 => JsonStringify(v) = InFull(v)
      /\ n - 1 \notin -6..20 => JsonStringify(v) = WithExponent(v)
  BY DEF JsonStringify
<1>a. /\ (n >= k /\ n <= 21) => n - 1 \in -6..20
      /\ (0 < n /\ n <= 21) => n - 1 \in -6..20
      /\ (-6 < n /\ n <= 0) => n - 1 \in -6..20
      /\ (n > 21 \/ n <= -6) => n - 1 \notin -6..20
  <2> HIDE DEF n, k
  <2> QED  BY <1>1
<1>3. CASE n >= k /\ n <= 21
  <2>1. LayOut(v) = Text(v.negative, d \o Zeros(n - k), <<>>, FALSE, 0)
    BY <1>1, <1>3 DEF LayOut, Text
  <2>2. InFull(v) = Text(v.negative, d \o Zeros(n - k), <<>>, FALSE, 0)
    BY <1>3, InFullWithZeros
  <2>3. n - 1 \in -6..20
    BY <1>a, <1>3
  <2> QED  BY <1>2, <2>1, <2>2, <2>3
<1>4. CASE 0 < n /\ n < k /\ n <= 21
  <2>1. LayOut(v) = Text(v.negative, SubSeq(d, 1, n), SubSeq(d, n + 1, k), FALSE, 0)
    BY <1>1, <1>4 DEF LayOut, Text
  <2>2. InFull(v) = Text(v.negative, SubSeq(d, 1, n), SubSeq(d, n + 1, k), FALSE, 0)
    BY <1>4, InFullWithPoint
  <2>3. n - 1 \in -6..20
    BY <1>a, <1>4
  <2> QED  BY <1>2, <2>1, <2>2, <2>3
<1>5. CASE -6 < n /\ n <= 0
  <2>1. LayOut(v) = Text(v.negative, <<0>>, Zeros(-n) \o d, FALSE, 0)
    BY <1>1, <1>5 DEF LayOut, Text
  <2>2. InFull(v) = Text(v.negative, <<0>>, Zeros(-n) \o d, FALSE, 0)
    BY <1>5, InFullWithZeroBefore
  <2>3. n - 1 \in -6..20
    BY <1>a, <1>5
  <2> QED  BY <1>2, <2>1, <2>2, <2>3
<1>6. CASE n > 21 \/ n <= -6
  <2>1. LayOut(v) = Text(v.negative, <<d[1]>>, SubSeq(d, 2, k), TRUE, n - 1)
    <3>1. CASE n > 21
      BY <1>1, <3>1 DEF LayOut, Text
    <3>2. CASE n <= -6
      BY <1>1, <3>2 DEF LayOut, Text
    <3> QED  BY <1>6, <3>1, <3>2
  <2>2. WithExponent(v) = Text(v.negative, <<d[1]>>, SubSeq(d, 2, k), TRUE, n - 1)
    BY WithExponentByDigits
  <2>3. n - 1 \notin -6..20
    BY <1>a, <1>6
  <2> QED  BY <1>2, <2>1, <2>2, <2>3
<1> QED
  BY <1>1, <1>3, <1>4, <1>5, <1>6
-----------------------------------------------------------------------------
(***************************************************************************)
(* Reading.                                                                *)
(***************************************************************************)

\* Where the digits of a text that is not zero begin and end.
LEMMA EndsOfDigits ==
    ASSUME NEW s \in Seq(Digit), NonZeros(s) # {}
    PROVE  LET a == Min(NonZeros(s))
               b == Max(NonZeros(s))
           IN  /\ a \in 1..Len(s) /\ b \in 1..Len(s) /\ a <= b
               /\ s[a] # 0 /\ s[b] # 0
               /\ \A i \in 1..Len(s) : s[i] # 0 => a <= i /\ i <= b
<1> DEFINE S == NonZeros(s)
           a == Min(S)
           b == Max(S)
<1>1. S \in SUBSET (1..Len(s)) /\ Len(s) \in Nat
  BY LenProperties DEF NonZeros
<1>2. \A i \in 1..Len(s) : i \in S <=> s[i] # 0
  BY LenProperties DEF NonZeros
<1>3. /\ a \in S /\ \A y \in S : a <= y
      /\ b \in S /\ \A y \in S : y <= b
  BY <1>1, EndsOfASet
<1> HIDE DEF S, a, b
<1>4. /\ a \in 1..Len(s) /\ b \in 1..Len(s) /\ a <= b
      /\ s[a] # 0 /\ s[b] # 0
      /\ \A i \in 1..Len(s) : s[i] # 0 => a <= i /\ i <= b
  BY <1>1, <1>2, <1>3
<1> QED
  BY <1>4 DEF S, a, b

\* Digits recognised by where they stand among zeros.
StandsAfter(s, d, m) ==
    /\ m + Len(d) <= Len(s)
    /\ \A i \in 1..Len(s) :
          s[i] = IF m < i /\ i <= m + Len(d) THEN d[i - m] ELSE 0

\* A text whose digits are d, with zeros around them, has the value d.
LEMMA ValueByPlaces ==
    ASSUME NEW t \in Layouts, NEW d \in Seq(Digit), NEW m \in Nat,
           Len(d) # 0, d[1] # 0, d[Len(d)] # 0,
           StandsAfter(DigitsOf(t), d, m)
    PROVE  ValueOf(t) = Decimal(t.negative, d, Len(t.whole) + t.exponent - m)
<1> DEFINE s == DigitsOf(t)
           k == Len(d)
           N == Len(s)
           S == NonZeros(s)
           a == Min(S)
           b == Max(S)
<1>1. s \in Seq(Digit) /\ N \in Nat /\ k \in Nat \ {0}
  BY ConcatProperties, LenProperties DEF Layouts, DigitsOf
<1>2. Len(t.whole) \in Nat /\ t.exponent \in Int
  BY LenProperties DEF Layouts, DigitsOf
<1>3. /\ m + k <= N
      /\ \A i \in 1..N : s[i] = IF m < i /\ i <= m + k THEN d[i - m] ELSE 0
  BY DEF StandsAfter
<1>4. d[1] # 0 /\ d[k] # 0
  OBVIOUS
<1>5. DOMAIN s = 1..N
  BY <1>1, LenProperties
<1>6. S # {} => /\ a \in 1..N /\ b \in 1..N
                /\ s[a] # 0 /\ s[b] # 0
                /\ \A i \in 1..N : s[i] # 0 => a <= i /\ i <= b
  BY <1>1, EndsOfDigits
<1>7. S = {i \in 1..N : s[i] # 0}
  BY <1>5 DEF NonZeros
<1> HIDE DEF s, k, N, S, a, b
<1>8. /\ m + 1 \in 1..N /\ m + k \in 1..N
      /\ (m + 1) - m = 1 /\ (m + k) - m = k
      /\ m < m + 1 /\ m + 1 <= m + k /\ m < m + k
  BY <1>1, <1>3
<1>9. s[m + 1] = d[1] /\ s[m + k] = d[k]
  BY <1>3, <1>8
<1>10. \A i \in 1..N : s[i] # 0 => m + 1 <= i /\ i <= m + k
  BY <1>1, <1>3
<1>11. S # {}
  BY <1>4, <1>7, <1>8, <1>9
<1>12. a = m + 1 /\ b = m + k
  <2>1. a <= m + 1 /\ m + k <= b
    BY <1>4, <1>6, <1>8, <1>9, <1>11
  <2>2. m + 1 <= a /\ b <= m + k
    BY <1>6, <1>10, <1>11
  <2>3. a \in Int /\ b \in Int
    BY <1>6, <1>11
  <2> QED  BY <1>1, <2>1, <2>2, <2>3
<1>13. SubSeq(s, a, b) = d
  <2>1. SubSeq(s, m + 1, m + k) = [i \in 1..((m + k) - (m + 1) + 1) |-> s[(m + 1) + i - 1]]
    <3>1. m + 1 \in 1..(N + 1) /\ m + k \in ((m + 1) - 1)..N
      BY <1>1, <1>3
    <3> QED  BY <1>1, <3>1, PartOf DEF N
  <2>2. (m + k) - (m + 1) + 1 = k
    BY <1>1
  <2>3. ASSUME NEW i \in 1..k
        PROVE  s[(m + 1) + i - 1] = d[i]
    <3>1. /\ (m + 1) + i - 1 = m + i /\ m + i \in 1..N /\ (m + i) - m = i
          /\ m < m + i /\ m + i <= m + k
      BY <1>1, <1>3
    <3> QED  BY <1>3, <3>1
  <2>4. d = [i \in 1..k |-> d[i]]
    BY LenProperties DEF k
  <2> QED  BY <1>12, <2>1, <2>2, <2>3, <2>4
<1>14. Len(t.whole) + t.exponent + 1 - a = Len(t.whole) + t.exponent - m
  BY <1>2, <1>12
<1> QED
  BY <1>11, <1>13, <1>14, Zenon DEF ValueOf, s, S, a, b

\* A text without a digit other than 0 stands for zero, any other for a value
\* whose digits begin and end with one.
LEMMA ValueIsNormal ==
    ASSUME NEW t \in Layouts
    PROVE  /\ Normal(ValueOf(t))
           /\ IsZero(ValueOf(t)) <=> NonZeros(DigitsOf(t)) = {}
           /\ ValueOf(t).negative = t.negative
<1> DEFINE s == DigitsOf(t)
           S == NonZeros(s)
           a == Min(S)
           b == Max(S)
           n == Len(t.whole) + t.exponent + 1 - a
<1>1. s \in Seq(Digit) /\ Len(s) \in Nat /\ Len(t.whole) \in Nat
      /\ t.exponent \in Int /\ t.negative \in BOOLEAN
  BY ConcatProperties, LenProperties DEF Layouts, DigitsOf
<1>2. CASE S = {}
  <2>1. ValueOf(t) = Decimal(t.negative, <<>>, 0)
    BY <1>2 DEF ValueOf
  <2>2. <<>> \in Seq(Digit)
    BY EmptySeq
  <2> QED  BY <1>1, <1>2, <2>1, <2>2 DEF Decimal, Normal, IsZero
<1>3. CASE S # {}
  <2>1. /\ a \in 1..Len(s) /\ b \in 1..Len(s) /\ a <= b
        /\ s[a] # 0 /\ s[b] # 0
    BY <1>1, <1>3, EndsOfDigits
  <2>2. ValueOf(t) = Decimal(t.negative, SubSeq(s, a, b), n)
    BY <1>3 DEF ValueOf
  <2>3. n \in Int
    BY <1>1, <2>1
  <2> HIDE DEF s, S, a, b, n
  <2>4. \A i \in a..b : s[i] \in Digit
    BY <1>1, <2>1, ElementOfSeq
  <2>5. a \in Int /\ b \in Int
    BY <1>1, <2>1
  <2>6. /\ SubSeq(s, a, b) \in Seq(Digit)
        /\ Len(SubSeq(s, a, b)) = b - a + 1
        /\ \A i \in 1..(b - a + 1) : SubSeq(s, a, b)[i] = s[a + i - 1]
    BY <2>1, <2>4, <2>5, SubSeqProperties
  <2> DEFINE d == SubSeq(s, a, b)
  <2>7. d \in Seq(Digit) /\ Len(d) \in Nat \ {0} /\ d[1] = s[a] /\ d[Len(d)] = s[b]
    <3> HIDE DEF d
    <3>1. 1 \in 1..(b - a + 1) /\ a + 1 - 1 = a
          /\ b - a + 1 \in 1..(b - a + 1) /\ a + (b - a + 1) - 1 = b
          /\ b - a + 1 \in Nat \ {0}
      BY <2>1, <2>5
    <3> QED  BY <2>6, <3>1 DEF d
  <2> HIDE DEF d
  <2>8. d # <<>>
    BY <2>7
  <2>9. ValueOf(t) = Decimal(t.negative, d, n)
    BY <2>2 DEF d
  <2> QED  BY <1>1, <1>3, <2>1, <2>3, <2>7, <2>8, <2>9 DEF Decimal, Normal, IsZero, s, S
<1> QED
  BY <1>2, <1>3

\* Rust's decomposition finds the value of every text that is not zero, however
\* many zeros stand around its digits.
LEMMA DecomposeDecimalIsValue ==
    ASSUME NEW t \in Layouts, NonZeros(DigitsOf(t)) # {}
    PROVE  DecomposeDecimal(t) = ValueOf(t)
<1> DEFINE s == DigitsOf(t)
           N == Len(s)
           S == NonZeros(s)
           a == Min(S)
           b == Max(S)
           leading == SubSeq(s, a, N)
           digits == SubSeq(s, a, b)
           e == t.exponent
           w == Len(t.whole)
           f == Len(t.fraction)
<1>0. s \in Seq(Digit)
  BY ConcatProperties DEF Layouts, DigitsOf
<1>1. N = w + f /\ w \in Nat /\ f \in Nat /\ N \in Nat /\ e \in Int
  BY ConcatProperties, LenProperties DEF Layouts, DigitsOf
<1>2. /\ a \in 1..N /\ b \in 1..N /\ a <= b
      /\ s[a] # 0 /\ s[b] # 0
      /\ \A i \in 1..N : s[i] # 0 => a <= i /\ i <= b
  BY <1>0, EndsOfDigits
<1>3. TrimStart(s) = leading
  BY DEF TrimStart
<1>4. ValueOf(t) = Decimal(t.negative, digits, w + e + 1 - a)
  BY DEF ValueOf
<1> HIDE DEF s, N, S, a, b, e, w, f
<1>5. a \in Int /\ b \in Int /\ 1 <= a /\ a <= b /\ b <= N
  BY <1>1, <1>2
<1> DEFINE M == N - a + 1
           c == b - a + 1
<1>6. /\ M \in Nat /\ c \in Int /\ 1 <= c /\ c <= M
      /\ c \in 1..M /\ a + c - 1 = b /\ a + M - 1 = N
  BY <1>1, <1>5
<1>7. /\ leading \in Seq(Digit)
      /\ Len(leading) = M
      /\ \A i \in 1..M : leading[i] = s[a + i - 1]
  <2>1. a <= N /\ N \in Int
    BY <1>1, <1>5
  <2> QED  BY <1>0, <1>5, <2>1, PartIsDigits DEF N
<1>8. Len(digits) = c
  BY <1>0, <1>5, PartIsDigits DEF N
<1>9. SubSeq(leading, 1, c) = digits
  <2>1. a \in 1..N /\ N \in 1..N /\ 1 \in 1..M
    BY <1>1, <1>5, <1>6
  <2>2. SubSeq(leading, 1, c) = SubSeq(s, a + 1 - 1, a + c - 1)
    BY <1>0, <1>6, <2>1, SubSeqOfSubSeq DEF N
  <2>3. a + 1 - 1 = a
    BY <1>5
  <2> QED  BY <1>6, <2>2, <2>3
<1>10. (e - f + (M - c)) + c = w + e + 1 - a
  BY <1>1, <1>5
<1> HIDE DEF leading, digits, M, c
<1>11. TrimEnd(leading) = digits
  <2> DEFINE y == Max(NonZeros(leading))
  <2>1. leading[c] # 0
    BY <1>2, <1>6, <1>7
  <2>2. ASSUME NEW i \in 1..M, leading[i] # 0
        PROVE  i <= c
    <3>1. i \in Int /\ 1 <= i /\ i <= M
      BY <1>6
    <3>2. a + i - 1 \in 1..N
      BY <1>1, <1>5, <1>6, <3>1
    <3>3. s[a + i - 1] # 0
      BY <1>7, <2>2
    <3>4. a + i - 1 <= b
      BY <1>2, <3>2, <3>3
    <3> QED  BY <1>5, <1>6, <3>1, <3>4
  <2>3. NonZeros(leading) # {}
    BY <1>6, <1>7, <2>1, LenProperties DEF NonZeros
  <2>4. y \in 1..M /\ leading[y] # 0 /\ \A i \in 1..M : leading[i] # 0 => i <= y
    BY <1>7, <2>3, EndsOfDigits
  <2> HIDE DEF y
  <2>5. y = c
    <3>1. c <= y
      BY <1>6, <2>1, <2>4
    <3>2. y <= c
      BY <2>2, <2>4
    <3>3. y \in Int /\ c \in Int
      BY <1>6, <2>4
    <3> QED  BY <3>1, <3>2, <3>3
  <2> QED  BY <1>9, <2>3, <2>5, Zenon DEF TrimEnd, y
<1> QED
  BY <1>3, <1>4, <1>7, <1>8, <1>10, <1>11, Zenon DEF DecomposeDecimal, s, e, f
-----------------------------------------------------------------------------
(***************************************************************************)
(* serde_json's texts of a float, in full or with an exponent.             *)
(***************************************************************************)

\* Digits stand in themselves.
LEMMA AllDigitsStand ==
    ASSUME NEW d \in Seq(Digit)
    PROVE  StandsAfter(d, d, 0)
  BY LenProperties DEF StandsAfter

\* Digits parted by a point stand where they stood.
LEMMA SplitDigitsStand ==
    ASSUME NEW d \in Seq(Digit), NEW n \in Int, 1 <= n, n < Len(d)
    PROVE  /\ SubSeq(d, 1, n) \in Seq(Digit) /\ Len(SubSeq(d, 1, n)) = n
           /\ SubSeq(d, n + 1, Len(d)) \in Seq(Digit)
           /\ StandsAfter(SubSeq(d, 1, n) \o SubSeq(d, n + 1, Len(d)), d, 0)
<1>1. Len(d) \in Nat /\ n <= Len(d) /\ n + 1 <= Len(d) /\ 1 <= n + 1 /\ n - 1 + 1 = n
  BY LenProperties
<1>2. SubSeq(d, 1, n) \in Seq(Digit) /\ Len(SubSeq(d, 1, n)) = n
  BY <1>1, PartIsDigits
<1>3. SubSeq(d, n + 1, Len(d)) \in Seq(Digit)
  BY <1>1, PartIsDigits
<1>4. SubSeq(d, 1, n) \o SubSeq(d, n + 1, Len(d)) = SubSeq(d, 1, Len(d))
  <2>1. 1 \in 1..(Len(d) + 1) /\ n \in (1 - 1)..Len(d) /\ Len(d) \in n..Len(d)
    BY <1>1
  <2> QED  BY <2>1, ConcatAdjacentSubSeq
<1>5. SubSeq(d, 1, Len(d)) = d
  BY SubSeqFull
<1> QED
  BY <1>2, <1>3, <1>4, <1>5, AllDigitsStand

\* Digits stand in what zeros were appended to.
LEMMA PaddedDigitsStand ==
    ASSUME NEW d \in Seq(Digit), NEW m \in Nat
    PROVE  /\ d \o Zeros(m) \in Seq(Digit) /\ Len(d \o Zeros(m)) = Len(d) + m
           /\ StandsAfter((d \o Zeros(m)) \o <<0>>, d, 0)
<1> DEFINE z == Zeros(m)
           s == d \o z
           u == s \o <<0>>
<1>1. z \in Seq(Digit) /\ Len(z) = m /\ \A i \in 1..m : z[i] = 0
  BY ZerosAreDigits DEF Zeros
<1>2. Len(d) \in Nat
  BY LenProperties
<1>3. <<0>> \in Seq(Digit) /\ Len(<<0>>) = 1 /\ <<0>>[1] = 0
  BY DEF Digit
<1> HIDE DEF z
<1>4. /\ s \in Seq(Digit) /\ Len(s) = Len(d) + m
      /\ \A i \in 1..(Len(d) + m) : s[i] = IF i <= Len(d) THEN d[i] ELSE z[i - Len(d)]
  BY <1>1, ConcatProperties
<1>5. \A i \in 1..(Len(d) + m) : s[i] = IF i <= Len(d) THEN d[i] ELSE 0
  BY <1>1, <1>2, <1>4
<1> HIDE DEF s
<1>6. /\ Len(u) = Len(d) + m + 1
      /\ \A i \in 1..(Len(d) + m + 1) : u[i] = IF i <= Len(d) + m THEN s[i] ELSE <<0>>[i - (Len(d) + m)]
  BY <1>3, <1>4, ConcatProperties
<1> HIDE DEF u
<1>7. ASSUME NEW i \in 1..Len(u)
      PROVE  u[i] = IF 0 < i /\ i <= 0 + Len(d) THEN d[i - 0] ELSE 0
  <2>1. CASE i <= Len(d) + m
    BY <1>2, <1>5, <1>6, <2>1
  <2>2. CASE i = Len(d) + m + 1
    BY <1>2, <1>3, <1>6, <2>2
  <2> QED  BY <1>2, <1>6, <2>1, <2>2
<1>8. StandsAfter(u, d, 0)
  BY <1>2, <1>6, <1>7 DEF StandsAfter
<1> QED
  BY <1>4, <1>8 DEF s, u, z

\* Digits stand behind a zero, a point and zeros.
LEMMA DigitsAfterZerosStand ==
    ASSUME NEW d \in Seq(Digit), NEW m \in Nat
    PROVE  /\ Zeros(m) \o d \in Seq(Digit)
           /\ StandsAfter(<<0>> \o (Zeros(m) \o d), d, 1 + m)
<1> DEFINE z == Zeros(m)
           s == z \o d
           u == <<0>> \o s
<1>1. z \in Seq(Digit) /\ Len(z) = m /\ \A i \in 1..m : z[i] = 0
  BY ZerosAreDigits DEF Zeros
<1>2. Len(d) \in Nat
  BY LenProperties
<1>3. <<0>> \in Seq(Digit) /\ Len(<<0>>) = 1 /\ <<0>>[1] = 0
  BY DEF Digit
<1> HIDE DEF z
<1>4. /\ s \in Seq(Digit) /\ Len(s) = m + Len(d)
      /\ \A i \in 1..(m + Len(d)) : s[i] = IF i <= m THEN z[i] ELSE d[i - m]
  BY <1>1, ConcatProperties
<1>5. \A i \in 1..(m + Len(d)) : s[i] = IF i <= m THEN 0 ELSE d[i - m]
  BY <1>1, <1>2, <1>4
<1> HIDE DEF s
<1>6. /\ Len(u) = 1 + (m + Len(d))
      /\ \A i \in 1..(1 + (m + Len(d))) : u[i] = IF i <= 1 THEN <<0>>[i] ELSE s[i - 1]
  BY <1>3, <1>4, ConcatProperties
<1> HIDE DEF u
<1>7. ASSUME NEW i \in 1..Len(u)
      PROVE  u[i] = IF 1 + m < i /\ i <= (1 + m) + Len(d) THEN d[i - (1 + m)] ELSE 0
  <2>1. CASE i = 1
    BY <1>2, <1>3, <1>6, <2>1
  <2>2. CASE i > 1
    <3>1. i - 1 \in 1..(m + Len(d)) /\ (i - 1) - m = i - (1 + m)
      BY <1>2, <1>6, <2>2
    <3>2. u[i] = s[i - 1]
      BY <1>2, <1>6, <2>2
    <3>3. s[i - 1] = IF i - 1 <= m THEN 0 ELSE d[(i - 1) - m]
      BY <1>5, <3>1
    <3> QED  BY <1>2, <1>6, <3>1, <3>2, <3>3
  <2> QED  BY <1>2, <1>6, <2>1, <2>2
<1>8. StandsAfter(u, d, 1 + m)
  BY <1>2, <1>6, <1>7 DEF StandsAfter
<1> QED
  BY <1>4, <1>8 DEF s, u, z

\* The first digit and the others behind a point stand where they stood.
LEMMA FirstDigitAndRestStand ==
    ASSUME NEW d \in Seq(Digit), Len(d) # 0
    PROVE  /\ <<d[1]>> \in Seq(Digit) /\ Len(<<d[1]>>) = 1
           /\ SubSeq(d, 2, Len(d)) \in Seq(Digit)
           /\ StandsAfter(<<d[1]>> \o SubSeq(d, 2, Len(d)), d, 0)
<1>1. Len(d) \in Nat \ {0} /\ d[1] \in Digit
  BY LenProperties, ElementOfSeq
<1>2. <<d[1]>> \in Seq(Digit) /\ Len(<<d[1]>>) = 1
  BY <1>1
<1>3. \A i \in 2..Len(d) : d[i] \in Digit
  BY <1>1, ElementOfSeq
<1>4. SubSeq(d, 2, Len(d)) \in Seq(Digit)
  BY <1>1, <1>3, SubSeqProperties
<1>5. <<d[1]>> = SubSeq(d, 1, 1)
  <2>1. /\ SubSeq(d, 1, 1) \in Seq(Digit) /\ Len(SubSeq(d, 1, 1)) = 1 - 1 + 1
        /\ \A i \in 1..(1 - 1 + 1) : SubSeq(d, 1, 1)[i] = d[1 + i - 1]
    BY <1>1, PartIsDigits
  <2> QED  BY <1>2, <2>1, SeqEqual
<1>6. SubSeq(d, 1, 1) \o SubSeq(d, 1 + 1, Len(d)) = SubSeq(d, 1, Len(d))
  <2>1. 1 \in 1..(Len(d) + 1) /\ 1 \in (1 - 1)..Len(d) /\ Len(d) \in 1..Len(d)
    BY <1>1
  <2> QED  BY <2>1, ConcatAdjacentSubSeq
<1>7. SubSeq(d, 1, Len(d)) = d
  BY SubSeqFull
<1>8. 1 + 1 = 2
  OBVIOUS
<1>9. <<d[1]>> \o SubSeq(d, 2, Len(d)) = d
  BY <1>5, <1>6, <1>7, <1>8, Zenon
<1> QED
  BY <1>2, <1>4, <1>9, AllDigitsStand, Zenon

\* A number in normal form is what its sign, digits and place make.
LEMMA NormalIsDecimal ==
    ASSUME NEW v, Normal(v)
    PROVE  v = Decimal(v.negative, v.digits, v.n) /\ v.negative \in BOOLEAN
  BY DEF Normal, Decimal

\* The text with the point, in the three cases of serde_json's.
InFullForm(v) ==
    LET d == v.digits
        k == Len(d)
    IN  IF v.n <= 0 THEN Text(v.negative, <<0>>, Zeros(-v.n) \o d, FALSE, 0)
        ELSE IF v.n < k
        THEN Text(v.negative, SubSeq(d, 1, v.n), SubSeq(d, v.n + 1, k), FALSE, 0)
        ELSE Text(v.negative, d \o Zeros(v.n - k), <<0>>, FALSE, 0)

ScientificForm(v) ==
    Text(v.negative, <<v.digits[1]>>, SubSeq(v.digits, 2, Len(v.digits)), TRUE, v.n - 1)

\* serde_json writes a float in full or with an exponent.
LEMMA SerdeWritesTwoForms ==
    ASSUME NEW v, ~IsZero(v)
    PROVE  SerdeTexts(v) = {InFullForm(v), ScientificForm(v)}
<1>1. CASE v.n <= 0
  BY <1>1, Zenon DEF SerdeTexts, InFullForm, ScientificForm
<1>2. CASE ~(v.n <= 0) /\ v.n < Len(v.digits)
  BY <1>2, Zenon DEF SerdeTexts, InFullForm, ScientificForm
<1>3. CASE ~(v.n <= 0) /\ ~(v.n < Len(v.digits))
  BY <1>3, Zenon DEF SerdeTexts, InFullForm, ScientificForm
<1> QED
  BY <1>1, <1>2, <1>3

\* Either form reads back as the number it was written from.
LEMMA FormIsTheValue ==
    ASSUME NEW v, Normal(v), ~IsZero(v), NEW t \in SerdeTexts(v)
    PROVE  t \in Layouts /\ ValueOf(t) = v
<1> DEFINE d == v.digits
           k == Len(d)
           n == v.n
<1>1. d \in Seq(Digit) /\ k \in Nat /\ n \in Int
  BY NormalHasDigits
<1>2. k # 0 /\ d[1] # 0 /\ d[k] # 0
  BY NormalHasDigits
<1>3. v.negative \in BOOLEAN /\ v = Decimal(v.negative, d, n)
  BY NormalIsDecimal
<1>4. t \in {InFullForm(v), ScientificForm(v)}
  BY SerdeWritesTwoForms
<1>0. <<0>> \in Seq(Digit) /\ Len(<<0>>) = 1 /\ 0 \in Int /\ 0 \in Nat
      /\ TRUE \in BOOLEAN /\ FALSE \in BOOLEAN
  BY DEF Digit
<1> HIDE DEF d, n
<1>5. CASE t = InFullForm(v) /\ n <= 0
  <2> DEFINE fraction == Zeros(-n) \o d
  <2>1. -n \in Nat /\ 1 + (-n) \in Nat /\ 1 + 0 - (1 + (-n)) = n
    BY <1>1, <1>5
  <2>2. fraction \in Seq(Digit) /\ StandsAfter(<<0>> \o fraction, d, 1 + (-n))
    BY <1>1, <2>1, DigitsAfterZerosStand
  <2>3. t = Text(v.negative, <<0>>, fraction, FALSE, 0)
    BY <1>5, Zenon DEF InFullForm, d, n
  <2> HIDE DEF fraction
  <2>4. /\ t \in Layouts /\ t.negative = v.negative /\ t.whole = <<0>> /\ t.exponent = 0
        /\ DigitsOf(t) = <<0>> \o fraction
    BY <1>0, <1>1, <1>3, <2>1, <2>2, <2>3 DEF Text, Layouts, DigitsOf
  <2>5. ValueOf(t) = Decimal(t.negative, d, Len(t.whole) + t.exponent - (1 + (-n)))
    BY <1>0, <1>1, <1>2, <2>1, <2>2, <2>4, ValueByPlaces
  <2> QED  BY <1>0, <1>3, <2>1, <2>3, <2>4, <2>5, Zenon
<1>6. CASE t = InFullForm(v) /\ ~(n <= 0) /\ n < k
  <2> DEFINE whole == SubSeq(d, 1, n)
             fraction == SubSeq(d, n + 1, k)
  <2>1. 1 <= n /\ n + 0 - 0 = n
    BY <1>1, <1>6
  <2>2. whole \in Seq(Digit) /\ Len(whole) = n /\ fraction \in Seq(Digit)
        /\ StandsAfter(whole \o fraction, d, 0)
    BY <1>1, <1>6, <2>1, SplitDigitsStand
  <2>3. t = Text(v.negative, whole, fraction, FALSE, 0)
    BY <1>6, Zenon DEF InFullForm, d, n
  <2> HIDE DEF whole, fraction
  <2>4. /\ t \in Layouts /\ t.negative = v.negative /\ t.whole = whole /\ t.exponent = 0
        /\ DigitsOf(t) = whole \o fraction
    BY <1>0, <1>1, <1>3, <2>1, <2>2, <2>3 DEF Text, Layouts, DigitsOf
  <2>5. ValueOf(t) = Decimal(t.negative, d, Len(t.whole) + t.exponent - 0)
    BY <1>0, <1>1, <1>2, <2>1, <2>2, <2>4, ValueByPlaces
  <2> QED  BY <1>3, <2>1, <2>2, <2>3, <2>4, <2>5, Zenon
<1>7. CASE t = InFullForm(v) /\ ~(n <= 0) /\ ~(n < k)
  <2> DEFINE whole == d \o Zeros(n - k)
  <2>1. n - k \in Nat /\ k + (n - k) + 0 - 0 = n
    BY <1>1, <1>7
  <2>2. whole \in Seq(Digit) /\ Len(whole) = k + (n - k)
        /\ StandsAfter(whole \o <<0>>, d, 0)
    BY <1>1, <2>1, PaddedDigitsStand
  <2>3. t = Text(v.negative, whole, <<0>>, FALSE, 0)
    BY <1>7, Zenon DEF InFullForm, d, n
  <2> HIDE DEF whole
  <2>4. /\ t \in Layouts /\ t.negative = v.negative /\ t.whole = whole /\ t.exponent = 0
        /\ DigitsOf(t) = whole \o <<0>>
    BY <1>0, <1>1, <1>3, <2>1, <2>2, <2>3 DEF Text, Layouts, DigitsOf
  <2>5. ValueOf(t) = Decimal(t.negative, d, Len(t.whole) + t.exponent - 0)
    BY <1>0, <1>1, <1>2, <2>1, <2>2, <2>4, ValueByPlaces
  <2> QED  BY <1>3, <2>1, <2>2, <2>3, <2>4, <2>5, Zenon
<1>8. CASE t = ScientificForm(v)
  <2> DEFINE whole == <<d[1]>>
             fraction == SubSeq(d, 2, k)
  <2>1. n - 1 \in Int /\ 1 + (n - 1) - 0 = n
    BY <1>1
  <2>2. whole \in Seq(Digit) /\ Len(whole) = 1 /\ fraction \in Seq(Digit)
        /\ StandsAfter(whole \o fraction, d, 0)
    BY <1>1, <1>2, FirstDigitAndRestStand
  <2>3. t = Text(v.negative, whole, fraction, TRUE, n - 1)
    BY <1>8, Zenon DEF ScientificForm, d, n
  <2> HIDE DEF whole, fraction
  <2>4. /\ t \in Layouts /\ t.negative = v.negative /\ t.whole = whole /\ t.exponent = n - 1
        /\ DigitsOf(t) = whole \o fraction
    BY <1>0, <1>1, <1>3, <2>1, <2>2, <2>3 DEF Text, Layouts, DigitsOf
  <2>5. ValueOf(t) = Decimal(t.negative, d, Len(t.whole) + t.exponent - 0)
    BY <1>0, <1>1, <1>2, <2>1, <2>2, <2>4, ValueByPlaces
  <2> QED  BY <1>3, <2>1, <2>2, <2>3, <2>4, <2>5, Zenon
<1> QED
  BY <1>4, <1>5, <1>6, <1>7, <1>8
-----------------------------------------------------------------------------
(***************************************************************************)
(* Reading and writing.                                                    *)
(***************************************************************************)

\* The formatter's float is JSON.stringify's, whichever form it starts from.
LEMMA FloatIsWrittenAsInTs ==
    ASSUME NEW v, Normal(v), ~IsZero(v)
    PROVE  WriteF64(v) = {JsonStringify(v)}
<1>1. ASSUME NEW t \in SerdeTexts(v)
      PROVE  RelayEcmascriptNotation(t) = JsonStringify(v)
  <2>1. t \in Layouts /\ ValueOf(t) = v
    BY FormIsTheValue
  <2>2. NonZeros(DigitsOf(t)) # {}
    BY <2>1, ValueIsNormal
  <2>3. DecomposeDecimal(t) = v
    BY <2>1, <2>2, DecomposeDecimalIsValue
  <2> QED  BY <2>3, LayOutIsJsonStringify DEF RelayEcmascriptNotation
<1>2. SerdeTexts(v) # {}
  BY SerdeWritesTwoForms
<1> QED
  BY <1>1, <1>2 DEF WriteF64

\* serde_json's plain integers are JSON.stringify's below 10^21.
LEMMA IntegerIsWrittenAsInTs ==
    ASSUME NEW v, Normal(v), ~IsZero(v), Integral(v), v.n <= 21
    PROVE  IntegerText(v) = JsonStringify(v)
<1>1. Len(v.digits) \in Nat \ {0} /\ v.n \in Int /\ v.n >= Len(v.digits)
  BY NormalHasDigits DEF Integral
<1>2. v.n - 1 \in -6..20
  <2> DEFINE n == v.n
             k == Len(v.digits)
  <2>1. n \in Int /\ k \in Nat \ {0} /\ n >= k /\ n <= 21
    BY <1>1
  <2> HIDE DEF n, k
  <2>2. n - 1 \in -6..20
    BY <2>1
  <2> QED  BY <2>2 DEF n
<1>3. JsonStringify(v) = InFull(v)
  BY <1>2 DEF JsonStringify
<1>4. InFull(v) = Text(v.negative, v.digits \o Zeros(v.n - Len(v.digits)), <<>>, FALSE, 0)
  BY <1>1, InFullWithZeros
<1>5. IntegerText(v) = Text(v.negative, v.digits \o Zeros(v.n - Len(v.digits)), <<>>, FALSE, 0)
  BY Zenon DEF IntegerText
<1> QED
  BY <1>3, <1>4, <1>5, Zenon

\* The fields of a decimal.
LEMMA PartsOfDecimal ==
    ASSUME NEW negative, NEW digits, NEW n
    PROVE  /\ Decimal(negative, digits, n).digits = digits
           /\ Decimal(negative, digits, n).n = n
  BY DEF Decimal

\* An integer literal stands for an integral number.
LEMMA WholeIsIntegral ==
    ASSUME NEW t \in Layouts, t.fraction = <<>>, t.exponent = 0
    PROVE  Integral(ValueOf(t))
<1> DEFINE s == DigitsOf(t)
           S == NonZeros(s)
           a == Min(S)
           b == Max(S)
           w == Len(t.whole)
<1>1. t.whole \in Seq(Digit) /\ w \in Nat
  BY LenProperties DEF Layouts
<1>2. s = t.whole
  BY <1>1, ConcatEmptySeq DEF DigitsOf
<1>3. CASE S = {}
  BY <1>3, ValueIsNormal DEF Integral
<1>4. CASE S # {}
  <2>1. a \in 1..w /\ b \in 1..w /\ a <= b
    BY <1>1, <1>2, <1>4, EndsOfDigits
  <2> DEFINE d == SubSeq(s, a, b)
             n == w + 0 + 1 - a
  <2>2. ValueOf(t) = Decimal(t.negative, d, n)
    BY <1>4 DEF ValueOf
  <2> HIDE DEF s, S, a, b, w
  <2>3. a \in Int /\ b \in Int /\ 1 <= a /\ b <= w
    BY <1>1, <2>1
  <2>4. Len(d) = b - a + 1
    BY <1>1, <1>2, <2>1, <2>3, PartIsDigits DEF w
  <2>5. w + 0 + 1 - a >= b - a + 1
    BY <1>1, <2>3
  <2> HIDE DEF d
  <2> HIDE DEF n
  <2>6. ValueOf(t).digits = d /\ ValueOf(t).n = n
    BY <2>2, PartsOfDecimal
  <2> QED  BY <2>4, <2>5, <2>6 DEF Integral, n
<1> QED
  BY <1>3, <1>4

\* A smaller number has no place above the larger one's.
LEMMA BelowIsShort ==
    ASSUME NEW v, Normal(v), NEW w, w.n \in Int, Below(v, w)
    PROVE  v.n <= w.n
  BY DEF Below, Normal

\* What Rust makes of a number it has read, in three cases: the integer zero,
\* an integer and a float.
LEMMA CanonicalNumber ==
    ASSUME NEW t \in Layouts
    PROVE  LET v == ValueOf(t)
               x == CanonicaliseNumber(SerdeReads(t))
           IN  /\ IsZero(v) => x.integer /\ x.value = Decimal(FALSE, <<>>, 0)
               /\ ~IsZero(v) => x.value = v
               /\ (~IsZero(v) /\ x.integer) => Integral(v) /\ v.n <= 20
<1> DEFINE v == ValueOf(t)
           r == SerdeReads(t)
           x == CanonicaliseNumber(r)
<1>1. Normal(v)
  BY ValueIsNormal
<1>2. r.value = v
  BY DEF SerdeReads
<1>3. CASE IsZero(v)
  <2>1. v = Decimal(v.negative, <<>>, 0) /\ v.negative \in BOOLEAN
    BY <1>1, <1>3, NormalIsDecimal DEF Normal, IsZero
  <2>2. Integral(v)
    BY <1>3 DEF Integral
  <2>3. CASE r.integer
    <3>1. ~v.negative
      BY <1>3, <2>3, ValueIsNormal DEF SerdeReads
    <3>2. x = r
      BY <2>3 DEF CanonicaliseNumber
    <3> QED  BY <1>2, <1>3, <2>1, <2>3, <3>1, <3>2
  <2>4. CASE ~r.integer
    <3>1. x = [integer |-> TRUE, value |-> Decimal(FALSE, <<>>, 0)]
      BY <1>2, <1>3, <2>2, <2>4 DEF CanonicaliseNumber
    <3> QED  BY <1>3, <3>1
  <2> QED  BY <2>3, <2>4
<1>4. CASE ~IsZero(v)
  <2>1. x.value = v
    BY <1>2, <1>4 DEF CanonicaliseNumber, SerdeReads
  <2>2. CASE r.integer
    <3>1. x = r
      BY <2>2 DEF CanonicaliseNumber
    <3>2. t.fraction = <<>> /\ ~t.scientific
      BY <2>2 DEF SerdeReads
    <3>3. t.exponent = 0
      BY <3>2 DEF Layouts
    <3>4. Integral(v)
      BY <3>2, <3>3, WholeIsIntegral
    <3>5. Below(v, PastTwoTo63) \/ Below(v, TwoTo64)
      BY <1>4, <2>2 DEF SerdeReads
    <3>6. v.n <= 20
      <4>1. PastTwoTo63.n = 19 /\ TwoTo64.n = 20
        BY DEF PastTwoTo63, TwoTo64, Decimal
      <4>2. v.n \in Int
        BY <1>1 DEF Normal
      <4>3. v.n <= 19 \/ v.n <= 20
        BY <1>1, <3>5, <4>1, BelowIsShort
      <4> QED  BY <4>2, <4>3
    <3> QED  BY <1>4, <2>1, <3>4, <3>6
  <2>3. CASE ~r.integer /\ ~Integral(v)
    <3>1. x = r
      BY <1>2, <2>3 DEF CanonicaliseNumber
    <3> QED  BY <1>4, <2>1, <2>3, <3>1
  <2>4. CASE ~r.integer /\ Integral(v)
    <3>1. x.integer = Below(v, TwoTo53)
      BY <1>2, <1>4, <2>4 DEF CanonicaliseNumber, SerdeReads
    <3>2. Below(v, TwoTo53) => v.n <= 20
      <4>1. TwoTo53.n = 16
        BY DEF TwoTo53, Decimal
      <4>2. v.n \in Int
        BY <1>1 DEF Normal
      <4>3. Below(v, TwoTo53) => v.n <= 16
        BY <1>1, <4>1, BelowIsShort
      <4> QED  BY <4>2, <4>3
    <3> QED  BY <1>4, <2>1, <2>4, <3>1, <3>2
  <2> QED  BY <2>2, <2>3, <2>4
<1> QED
  BY <1>3, <1>4

\* The notation Rust re-lays is JSON.stringify's, digit for digit.
LEMMA LaidOutAlike ==
    ASSUME NEW t \in Layouts
    PROVE  RustWrites(t) = {TsWrites(t)}
<1> DEFINE v == ValueOf(t)
           x == CanonicaliseNumber(SerdeReads(t))
<1>1. Normal(v)
  BY ValueIsNormal
<1>2. RustWrites(t) = IF x.integer THEN {IntegerText(x.value)} ELSE WriteF64(x.value)
  BY DEF RustWrites
<1>3. /\ IsZero(v) => x.integer /\ x.value = Decimal(FALSE, <<>>, 0)
      /\ ~IsZero(v) => x.value = v
      /\ (~IsZero(v) /\ x.integer) => Integral(v) /\ v.n <= 20
  BY CanonicalNumber
<1>4. TsWrites(t) = JsonStringify(v)
  BY DEF TsWrites
<1> HIDE DEF v, x
<1>5. CASE IsZero(v)
  <2>1. IntegerText(Decimal(FALSE, <<>>, 0)) = Text(FALSE, <<0>>, <<>>, FALSE, 0)
    BY DEF IntegerText, IsZero, Decimal, Text
  <2>2. JsonStringify(v) = Text(FALSE, <<0>>, <<>>, FALSE, 0)
    BY <1>5, Zenon DEF JsonStringify
  <2> QED  BY <1>2, <1>3, <1>4, <1>5, <2>1, <2>2, Zenon
<1>6. CASE ~IsZero(v) /\ x.integer
  <2>1. Integral(v) /\ v.n <= 21
    <3>1. v.n \in Int
      BY <1>1 DEF Normal
    <3> QED  BY <1>3, <1>6, <3>1
  <2>2. IntegerText(v) = JsonStringify(v)
    BY <1>1, <1>6, <2>1, IntegerIsWrittenAsInTs
  <2> QED  BY <1>2, <1>3, <1>4, <1>6, <2>2, Zenon
<1>7. CASE ~IsZero(v) /\ ~x.integer
  <2>1. WriteF64(v) = {JsonStringify(v)}
    BY <1>1, <1>7, FloatIsWrittenAsInTs
  <2> QED  BY <1>2, <1>3, <1>4, <1>7, <2>1, Zenon
<1> QED
  BY <1>5, <1>6, <1>7

\* A text a double keeps is a layout, and the value is all that matters of it.
LEMMA TextsAreLayouts ==
    /\ Texts \subseteq Layouts
    /\ \A t \in Layouts : t \in Texts <=> HeldAsWritten(ValueOf(t))
  BY DEF Texts

\* Of every number a double keeps, Rust writes what JSON.stringify writes: the
\* notation it re-lays is the same whichever way serde_json spells the number
\* first (lib.rs, EcmaScriptFormatter).
THEOREM RustWritesWhatTsWrites ==
    ASSUME NEW t \in Texts
    PROVE  RustWrites(t) = {TsWrites(t)}
  BY LaidOutAlike, TextsAreLayouts

\* What TypeScript writes is a number text again, for the next hop.
LEMMA WrittenIsText ==
    ASSUME NEW t \in Layouts
    PROVE  TsWrites(t) \in Layouts
<1> DEFINE v == ValueOf(t)
           d == v.digits
           k == Len(d)
           n == v.n
<1>1. Normal(v) /\ TsWrites(t) = JsonStringify(v)
  BY ValueIsNormal DEF TsWrites
<1>0. <<0>> \in Seq(Digit) /\ <<>> \in Seq(Digit)
  BY EmptySeq DEF Digit
<1>2. CASE IsZero(v)
  <2>1. JsonStringify(v) = Text(FALSE, <<0>>, <<>>, FALSE, 0)
    BY <1>2 DEF JsonStringify, Text
  <2> QED  BY <1>0, <1>1, <2>1 DEF Text, Layouts
<1>3. CASE ~IsZero(v)
  <2>1. d \in Seq(Digit) /\ k \in Nat \ {0} /\ n \in Int
    BY <1>1, <1>3, NormalHasDigits
  <2>2. v.negative \in BOOLEAN
    BY <1>1 DEF Normal
  <2>3. JsonStringify(v) = InFull(v) \/ JsonStringify(v) = WithExponent(v)
    BY <1>3 DEF JsonStringify
  <2>4. CASE JsonStringify(v) = WithExponent(v)
    <3>1. WithExponent(v) = Text(v.negative, <<d[1]>>, SubSeq(d, 2, k), TRUE, n - 1)
      BY <1>1, <1>3, WithExponentByDigits
    <3>2. <<d[1]>> \in Seq(Digit) /\ SubSeq(d, 2, k) \in Seq(Digit) /\ n - 1 \in Int
      BY <2>1, FirstDigitAndRestStand
    <3> QED  BY <1>1, <2>2, <2>4, <3>1, <3>2 DEF Text, Layouts
  <2>5. CASE JsonStringify(v) = InFull(v) /\ n >= k
    <3>1. InFull(v) = Text(v.negative, d \o Zeros(n - k), <<>>, FALSE, 0)
      BY <1>1, <1>3, <2>5, InFullWithZeros
    <3>2. n - k \in Nat
      BY <2>1, <2>5
    <3>3. d \o Zeros(n - k) \in Seq(Digit)
      BY <2>1, <3>2, PaddedDigitsStand
    <3> QED  BY <1>0, <1>1, <2>2, <2>5, <3>1, <3>3 DEF Text, Layouts
  <2>6. CASE JsonStringify(v) = InFull(v) /\ 0 < n /\ n < k
    <3>1. InFull(v) = Text(v.negative, SubSeq(d, 1, n), SubSeq(d, n + 1, k), FALSE, 0)
      BY <1>1, <1>3, <2>6, InFullWithPoint
    <3>2. SubSeq(d, 1, n) \in Seq(Digit) /\ SubSeq(d, n + 1, k) \in Seq(Digit)
      <4>1. 1 <= n
        BY <2>1, <2>6
      <4> QED  BY <2>1, <2>6, <4>1, SplitDigitsStand
    <3> QED  BY <1>1, <2>2, <2>6, <3>1, <3>2 DEF Text, Layouts
  <2>7. CASE JsonStringify(v) = InFull(v) /\ n <= 0
    <3>1. InFull(v) = Text(v.negative, <<0>>, Zeros(-n) \o d, FALSE, 0)
      BY <1>1, <1>3, <2>7, InFullWithZeroBefore
    <3>2. -n \in Nat
      BY <2>1, <2>7
    <3>3. Zeros(-n) \o d \in Seq(Digit)
      BY <2>1, <3>2, DigitsAfterZerosStand
    <3> QED  BY <1>0, <1>1, <2>2, <2>7, <3>1, <3>3 DEF Text, Layouts
  <2>8. n >= k \/ (0 < n /\ n < k) \/ n <= 0
    BY <2>1
  <2> QED  BY <2>3, <2>4, <2>5, <2>6, <2>7, <2>8, Zenon
<1> QED
  BY <1>2, <1>3
-----------------------------------------------------------------------------
(***************************************************************************)
(* What is written stands for the number it was written of.                *)
(***************************************************************************)

\* What JSON.stringify writes reads back as the number.
LEMMA StringifyIsTheValue ==
    ASSUME NEW v, Normal(v), ~IsZero(v)
    PROVE  JsonStringify(v) \in Layouts /\ ValueOf(JsonStringify(v)) = v
<1> DEFINE d == v.digits
           k == Len(d)
           n == v.n
           t == JsonStringify(v)
<1>1. d \in Seq(Digit) /\ k \in Nat \ {0} /\ n \in Int
  BY NormalHasDigits
<1>2. d[1] # 0 /\ d[k] # 0 /\ v.negative \in BOOLEAN /\ v = Decimal(v.negative, d, n)
  BY NormalHasDigits, NormalIsDecimal
<1>3. t = InFull(v) \/ t = WithExponent(v)
  BY DEF JsonStringify
<1>4. InFullForm(v) \in SerdeTexts(v) /\ ScientificForm(v) \in SerdeTexts(v)
  BY SerdeWritesTwoForms
<1> HIDE DEF d, n, t
<1>5. CASE t = WithExponent(v)
  <2>1. t = ScientificForm(v)
    BY <1>5, WithExponentByDigits, Zenon DEF ScientificForm
  <2> QED  BY <1>4, <2>1, FormIsTheValue DEF t
<1>6. CASE t = InFull(v) /\ n <= 0
  <2>1. t = InFullForm(v)
    BY <1>6, InFullWithZeroBefore, Zenon DEF InFullForm, n, d
  <2> QED  BY <1>4, <2>1, FormIsTheValue DEF t
<1>7. CASE t = InFull(v) /\ 0 < n /\ n < k
  <2>1. ~(n <= 0)
    BY <1>1, <1>7
  <2>2. t = InFullForm(v)
    BY <1>7, <2>1, InFullWithPoint, Zenon DEF InFullForm, n, d
  <2> QED  BY <1>4, <2>2, FormIsTheValue DEF t
<1>8. CASE t = InFull(v) /\ n >= k
  <2> DEFINE whole == d \o Zeros(n - k)
  <2>1. n - k \in Nat /\ k + (n - k) = n
    BY <1>1, <1>8
  <2>2. t = Text(v.negative, whole, <<>>, FALSE, 0)
    BY <1>8, InFullWithZeros DEF n, d
  <2>3. whole \in Seq(Digit) /\ Len(whole) = n
    BY <1>1, <2>1, PaddedDigitsStand
  <2>4. StandsAfter(whole, d, 0)
    <3>1. whole = [i \in 1..(k + (n - k)) |-> IF i \in DOMAIN d THEN d[i] ELSE 0]
      BY <1>1, <2>1, ZerosAfter
    <3>2. DOMAIN d = 1..k
      BY <1>1, LenProperties
    <3> HIDE DEF whole
    <3>3. ASSUME NEW i \in 1..n
          PROVE  whole[i] = IF 0 < i /\ i <= 0 + k THEN d[i - 0] ELSE 0
      BY <1>1, <2>1, <3>1, <3>2
    <3> QED  BY <1>1, <1>8, <2>3, <3>3 DEF StandsAfter
  <2> HIDE DEF whole
  <2>5. <<>> \in Seq(Digit) /\ whole \o <<>> = whole
    BY <2>3, EmptySeq, ConcatEmptySeq
  <2>6. /\ t \in Layouts /\ t.negative = v.negative /\ t.whole = whole /\ t.exponent = 0
        /\ DigitsOf(t) = whole
    BY <1>2, <2>2, <2>3, <2>5 DEF Text, Layouts, DigitsOf
  <2>7. ValueOf(t) = Decimal(t.negative, d, Len(t.whole) + t.exponent - 0)
    BY <1>1, <1>2, <2>4, <2>6, ValueByPlaces
  <2>8. n + 0 - 0 = n
    BY <1>1
  <2>9. ValueOf(t) = v
    BY <1>2, <2>3, <2>6, <2>7, <2>8, Zenon
  <2> QED  BY <2>6, <2>9 DEF t
<1>9. n <= 0 \/ (0 < n /\ n < k) \/ n >= k
  BY <1>1
<1> QED
  BY <1>3, <1>5, <1>6, <1>7, <1>8, <1>9 DEF t

ZeroText == Text(FALSE, <<0>>, <<>>, FALSE, 0)

\* Every zero, negative or not, is written 0, and 0 is a zero.
LEMMA ZeroTextIsZero ==
    /\ ZeroText \in Layouts
    /\ IsZero(ValueOf(ZeroText))
    /\ \A v : IsZero(v) => JsonStringify(v) = ZeroText
<1>1. <<0>> \in Seq(Digit) /\ <<>> \in Seq(Digit)
  BY EmptySeq DEF Digit
<1>2. ZeroText \in Layouts /\ DigitsOf(ZeroText) = <<0>>
  BY <1>1, ConcatEmptySeq DEF ZeroText, Text, Layouts, DigitsOf
<1>3. NonZeros(<<0>>) = {}
  BY DEF NonZeros
<1>4. IsZero(ValueOf(ZeroText))
  BY <1>2, <1>3, ValueIsNormal
<1>5. \A v : IsZero(v) => JsonStringify(v) = ZeroText
  BY Zenon DEF JsonStringify, ZeroText
<1> QED
  BY <1>2, <1>4, <1>5

\* The number stays, and what was written once is written the same again.
LEMMA WritingKeeps ==
    ASSUME NEW t \in Texts
    PROVE  /\ TsWrites(t) \in Texts
           /\ IsZero(ValueOf(t)) => IsZero(ValueOf(TsWrites(t)))
           /\ ~IsZero(ValueOf(t)) => ValueOf(TsWrites(t)) = ValueOf(t)
           /\ TsWrites(TsWrites(t)) = TsWrites(t)
<1>1. Normal(ValueOf(t)) /\ TsWrites(t) = JsonStringify(ValueOf(t))
  BY TextsAreLayouts, ValueIsNormal DEF TsWrites
<1>2. CASE IsZero(ValueOf(t))
  <2>1. /\ TsWrites(t) \in Layouts /\ IsZero(ValueOf(TsWrites(t)))
        /\ TsWrites(TsWrites(t)) = TsWrites(t)
    BY <1>1, <1>2, ZeroTextIsZero DEF TsWrites
  <2>2. HeldAsWritten(ValueOf(TsWrites(t)))
    BY <2>1 DEF HeldAsWritten
  <2> QED  BY <1>2, <2>1, <2>2, TextsAreLayouts
<1>3. CASE ~IsZero(ValueOf(t))
  <2>1. /\ TsWrites(t) \in Layouts /\ ValueOf(TsWrites(t)) = ValueOf(t)
        /\ TsWrites(TsWrites(t)) = TsWrites(t)
    BY <1>1, <1>3, StringifyIsTheValue DEF TsWrites
  <2> QED  BY <1>3, <2>1, TextsAreLayouts
<1> QED
  BY <1>2, <1>3

\* A text has its value's digits at its value's places.
LEMMA DigitAtIsPlace ==
    ASSUME NEW t \in Layouts, NEW p \in Int
    PROVE  DigitAt(t, p) = IF IsZero(ValueOf(t)) THEN 0 ELSE Place(ValueOf(t), p)
<1> DEFINE s == DigitsOf(t)
           N == Len(s)
           S == NonZeros(s)
           a == Min(S)
           b == Max(S)
           w == Len(t.whole)
           e == t.exponent
           i == w + e - p
           v == ValueOf(t)
<1>1. s \in Seq(Digit) /\ N \in Nat /\ w \in Nat /\ e \in Int /\ DOMAIN s = 1..N
  BY ConcatProperties, LenProperties DEF Layouts, DigitsOf
<1>2. DigitAt(t, p) = IF i \in DOMAIN s THEN s[i] ELSE 0
  BY DEF DigitAt
<1>3. CASE S = {}
  <2>1. \A j \in DOMAIN s : s[j] = 0
    BY <1>3 DEF NonZeros
  <2>2. IsZero(v)
    BY <1>3, ValueIsNormal
  <2> QED  BY <1>2, <2>1, <2>2
<1>4. CASE S # {}
  <2>1. /\ a \in 1..N /\ b \in 1..N /\ a <= b
        /\ \A j \in 1..N : s[j] # 0 => a <= j /\ j <= b
    BY <1>1, <1>4, EndsOfDigits
  <2>2. v = Decimal(t.negative, SubSeq(s, a, b), w + e + 1 - a)
    BY <1>4 DEF ValueOf
  <2>3. Normal(v) /\ ~IsZero(v)
    BY <1>4, ValueIsNormal
  <2> HIDE DEF s, N, S, a, b, w, e, v
  <2>4. a \in Int /\ b \in Int /\ 1 <= a /\ a <= b /\ b <= N
    BY <1>1, <2>1
  <2>5. /\ Len(SubSeq(s, a, b)) = b - a + 1
        /\ \A j \in 1..(b - a + 1) : SubSeq(s, a, b)[j] = s[a + j - 1]
    BY <1>1, <2>4, PartIsDigits DEF N
  <2>6. v.digits = SubSeq(s, a, b) /\ v.n = w + e + 1 - a
    <3> DEFINE d == SubSeq(s, a, b)
               n == w + e + 1 - a
    <3>1. v = Decimal(t.negative, d, n)
      BY <2>2
    <3> HIDE DEF d, n
    <3>2. v.digits = d /\ v.n = n
      BY <3>1, PartsOfDecimal
    <3> QED  BY <3>2 DEF d, n
  <2>7. Place(v, p) = IF v.n - p \in 1..Len(v.digits) THEN v.digits[v.n - p] ELSE 0
    BY <2>3, PlaceIsADigit
  <2>8. i \in Int /\ v.n - p = i + 1 - a /\ Len(v.digits) = b - a + 1
    BY <1>1, <2>4, <2>5, <2>6
  <2>9. CASE a <= i /\ i <= b
    <3>1. /\ i + 1 - a \in 1..(b - a + 1) /\ a + (i + 1 - a) - 1 = i
          /\ i \in 1..N
      BY <1>1, <2>4, <2>8, <2>9
    <3>2. v.digits[i + 1 - a] = s[i]
      BY <2>5, <2>6, <3>1
    <3> HIDE DEF i
    <3> QED  BY <1>1, <1>2, <2>3, <2>7, <2>8, <3>1, <3>2 DEF v
  <2>10. CASE ~(a <= i /\ i <= b)
    <3>1. i + 1 - a \notin 1..(b - a + 1)
      BY <2>4, <2>8, <2>10
    <3>2. i \in 1..N => s[i] = 0
      BY <2>1, <2>10
    <3> HIDE DEF i
    <3> QED  BY <1>1, <1>2, <2>3, <2>7, <2>8, <3>1, <3>2 DEF v
  <2> QED  BY <2>9, <2>10
<1> QED
  BY <1>3, <1>4
-----------------------------------------------------------------------------
(***************************************************************************)
(* The items of a text and the text of items.                              *)
(***************************************************************************)

\* What the string iterator may yield, and what it yields of a well-formed text.
Item == {<<unit>> : unit \in Unit} \cup {<<"high", "low">>}
Scalar == {<<"bmp">>, <<"U+FFFD">>, <<"high", "low">>}

\* The step of CodePoints.
Take(items, unit) ==
    IF unit = "low" /\ items # <<>> /\ Last(items) = <<"high">>
    THEN Append(Front(items), <<"high", "low">>)
    ELSE Append(items, <<unit>>)

\* Front and Last take apart what Append put together.
LEMMA AppendFrontLast ==
    ASSUME NEW S, NEW s \in Seq(S), NEW e \in S
    PROVE  Front(Append(s, e)) = s /\ Last(Append(s, e)) = e
<1> DEFINE t == Append(s, e)
<1>1. /\ t \in Seq(S) /\ Len(t) = Len(s) + 1
      /\ \A i \in 1..Len(s) : t[i] = s[i]
      /\ t[Len(s) + 1] = e
      /\ Len(s) \in Nat
  BY AppendProperties, LenProperties
<1> HIDE DEF t
<1>2. \A i \in 1..Len(s) : t[i] \in S
  BY <1>1, ElementOfSeq
<1>3. /\ SubSeq(t, 1, Len(s)) \in Seq(S)
      /\ Len(SubSeq(t, 1, Len(s))) = Len(s)
      /\ \A i \in 1..Len(s) : SubSeq(t, 1, Len(s))[i] = t[i]
  BY <1>1, <1>2, SubSeqProperties
<1>4. SubSeq(t, 1, Len(s)) = s
  BY <1>1, <1>3, SeqEqual
<1>5. Len(t) - 1 = Len(s)
  BY <1>1
<1> QED
  BY <1>1, <1>4, <1>5 DEF Front, Last, t

\* Reading one more code unit leaves code points, lone surrogates among them.
LEMMA TakeType ==
    ASSUME NEW items \in Seq(Item), NEW unit \in Unit
    PROVE  Take(items, unit) \in Seq(Item)
<1>1. <<unit>> \in Item /\ <<"high", "low">> \in Item
  BY DEF Item
<1>2. items # <<>> => Front(items) \in Seq(Item)
  <2> SUFFICES ASSUME items # <<>>
               PROVE  Front(items) \in Seq(Item)
    OBVIOUS
  <2>1. PICK s \in Seq(Item), e \in Item : items = Append(s, e)
    BY SequenceEmptyOrAppend
  <2> QED  BY <2>1, AppendFrontLast
<1> QED
  BY <1>1, <1>2, AppendProperties DEF Take

\* A loop over a text ends with its items.
LEMMA CodePointsOfLoop ==
    ASSUME NEW units \in Seq(Unit), NEW acc \in [0..Len(units) -> Seq(Item)],
           acc[0] = <<>>,
           \A i \in 1..Len(units) : acc[i] = Take(acc[i - 1], units[i])
    PROVE  CodePoints(units) = acc[Len(units)]
<1> DEFINE R == Seq(Item)
           N == Len(units)
           F == [x \in R \X (1..N) |-> Take(x[1], units[x[2]])]
           Body(g) == [T \in SUBSET (1..N) |->
                         IF T = {} THEN <<>>
                         ELSE Take(g[T \ {Max(T)}], units[Max(T)])]
           iter == CHOOSE g : g = Body(g)
           H == {n \in Nat : n <= N => iter[1..n] = acc[n]}
<1>1. N \in Nat /\ DOMAIN units = 1..N /\ \A i \in 1..N : units[i] \in Unit
  BY LenProperties, ElementOfSeq
<1>2. CodePoints(units) = iter[1..N]
  BY <1>1 DEF CodePoints, FoldLeft, MapThenFoldSet, Take
<1>3. F \in [R \X (1..N) -> R] /\ <<>> \in R
  BY <1>1, TakeType, EmptySeq
<1>4. \A r \in R, i \in 1..N : F[<<r, i>>] = Take(r, units[i])
  OBVIOUS
<1> HIDE DEF R, N, F
<1>5. PICK g \in [SUBSET (1..N) -> R] : IsFold(g, N, <<>>, F)
  BY <1>1, <1>3, FoldExists
<1>6. g = Body(g)
  <2>1. ASSUME NEW T \in SUBSET (1..N), T # {}
        PROVE  g[T] = Take(g[T \ {Max(T)}], units[Max(T)])
    <3>1. Max(T) \in 1..N /\ T \ {Max(T)} \in SUBSET (1..N)
      BY <1>1, <2>1, EndsOfASet
    <3>2. g[T] = F[<<g[T \ {Max(T)}], Max(T)>>]
      BY <1>5, <2>1 DEF IsFold
    <3> QED  BY <1>4, <3>1, <3>2
  <2>2. g[{}] = <<>>
    BY <1>5 DEF IsFold
  <2> QED  BY <2>1, <2>2
<1>7. \A T \in SUBSET (1..N) :
         iter[T] = IF T = {} THEN <<>>
                   ELSE Take(iter[T \ {Max(T)}], units[Max(T)])
  <2>1. iter = Body(iter)
    <3> HIDE DEF Body
    <3> QED  BY <1>6
  <2> HIDE DEF iter
  <2> QED  BY <2>1
<1> HIDE DEF iter
<1>8. 0 \in H
  <2>1. 1..0 = {}
    OBVIOUS
  <2>2. iter[{}] = <<>>
    BY <1>7
  <2> QED  BY <2>1, <2>2
<1>9. ASSUME NEW n \in Nat, n \in H
      PROVE  n + 1 \in H
  <2>1. SUFFICES ASSUME n + 1 <= N
                 PROVE  iter[1..(n + 1)] = acc[n + 1]
    OBVIOUS
  <2>2. Max(1..(n + 1)) = n + 1 /\ (1..(n + 1)) \ {n + 1} = 1..n
    BY MaxOfTail
  <2>3. n + 1 \in 1..(n + 1) /\ 1..(n + 1) \in SUBSET (1..N) /\ n + 1 \in 1..N
    BY <1>1, <2>1
  <2>4. iter[1..(n + 1)] = Take(iter[1..n], units[n + 1])
    BY <1>7, <2>2, <2>3
  <2>5. iter[1..n] = acc[n]
    BY <1>1, <1>9, <2>1
  <2>6. acc[n + 1] = Take(acc[n], units[n + 1])
    <3>1. (n + 1) - 1 = n
      OBVIOUS
    <3> QED  BY <2>3, <3>1 DEF N
  <2> QED  BY <2>4, <2>5, <2>6
<1>10. Nat \subseteq H
  <2> HIDE DEF H
  <2> QED  BY <1>8, <1>9, SetInduction
<1>11. iter[1..N] = acc[N]
  BY <1>1, <1>10
<1> QED
  BY <1>2, <1>11 DEF N

\* CodePoints, unit by unit.
LEMMA CodePointsNext ==
    /\ CodePoints(<<>>) = <<>>
    /\ \A units \in Seq(Unit), unit \in Unit :
          /\ CodePoints(units) \in Seq(Item)
          /\ CodePoints(Append(units, unit)) = Take(CodePoints(units), unit)
<1>1. CodePoints(<<>>) = <<>>
  <2> DEFINE acc == [i \in 0..0 |-> <<>>]
  <2>1. <<>> \in Seq(Unit) /\ Len(<<>>) = 0
    BY EmptySeq
  <2>2. acc \in [0..0 -> Seq(Item)] /\ acc[0] = <<>>
    BY EmptySeq
  <2> HIDE DEF acc
  <2> QED  BY <2>1, <2>2, CodePointsOfLoop
<1>2. ASSUME NEW units \in Seq(Unit), NEW unit \in Unit
      PROVE  /\ CodePoints(units) \in Seq(Item)
             /\ CodePoints(Append(units, unit)) = Take(CodePoints(units), unit)
  <2> DEFINE more == Append(units, unit)
             N == Len(units)
             M == N + 1
             R == Seq(Item)
             F == [x \in R \X (1..M) |-> Take(x[1], more[x[2]])]
  <2>1. /\ more \in Seq(Unit) /\ Len(more) = N + 1 /\ more[N + 1] = unit
        /\ \A i \in 1..N : more[i] = units[i]
        /\ N \in Nat /\ M \in Nat
    BY AppendProperties, LenProperties
  <2>2. \A i \in 1..(N + 1) : more[i] \in Unit
    BY <2>1, ElementOfSeq
  <2> HIDE DEF more, N
  <2>3. F \in [R \X (1..M) -> R] /\ <<>> \in R
    BY <2>2, TakeType, EmptySeq
  <2>4. \A r \in R, i \in 1..M : F[<<r, i>>] = Take(r, more[i])
    OBVIOUS
  <2>5. PICK acc \in [0..M -> R] :
           /\ acc[0] = <<>>
           /\ \A i \in 1..M : acc[i] = F[<<acc[i - 1], i>>]
    <3>1. \E acc \in [0..M -> R] : IsLoop(acc, M, <<>>, F)
      <4> HIDE DEF F, R, M
      <4> QED  BY <2>1, <2>3, LoopExists
    <3> QED  BY <3>1 DEF IsLoop
  <2> HIDE DEF F
  <2>6. ASSUME NEW i \in 1..(N + 1)
        PROVE  acc[i] = Take(acc[i - 1], more[i])
    <3>1. i - 1 \in 0..(N + 1)
      BY <2>1
    <3>2. acc[i - 1] \in Seq(Item)
      BY <2>5, <3>1
    <3> QED  BY <2>4, <2>5, <3>2
  <2>7. CodePoints(more) = acc[N + 1]
    BY <2>1, <2>5, <2>6, CodePointsOfLoop
  <2>8. CodePoints(units) = acc[N] /\ acc[N] \in Seq(Item)
    <3> DEFINE part == [i \in 0..N |-> acc[i]]
    <3>1. part \in [0..N -> Seq(Item)] /\ part[0] = <<>> /\ part[N] = acc[N]
      BY <2>1, <2>5
    <3>2. ASSUME NEW i \in 1..N
          PROVE  part[i] = Take(part[i - 1], units[i])
      <4>1. i \in 1..(N + 1) /\ i - 1 \in 0..N /\ i \in 0..N
        BY <2>1
      <4> QED  BY <2>1, <2>6, <4>1
    <3> HIDE DEF part
    <3>3. CodePoints(units) = part[N]
      BY <3>1, <3>2, CodePointsOfLoop DEF N
    <3>4. acc[N] \in Seq(Item)
      BY <2>1, <2>5
    <3> QED  BY <3>1, <3>3, <3>4
  <2>9. acc[N + 1] = Take(acc[N], unit)
    <3>1. N + 1 \in 1..(N + 1) /\ (N + 1) - 1 = N
      BY <2>1
    <3> QED  BY <2>1, <2>6, <3>1
  <2> QED  BY <2>7, <2>8, <2>9 DEF more
<1> QED
  BY <1>1, <1>2

\* JavaScript's iterator makes code points of any string.
LEMMA CodePointsType ==
    ASSUME NEW units \in Seq(Unit)
    PROVE  CodePoints(units) \in Seq(Item)
  BY CodePointsNext DEF Unit

\* FlattenSeq is a loop that appends one sequence after the other.
LEMMA FlattenOfLoop ==
    ASSUME NEW X, NEW seqs \in Seq(Seq(X)), NEW acc \in [0..Len(seqs) -> Seq(X)],
           acc[0] = <<>>,
           \A i \in 1..Len(seqs) : acc[i] = acc[i - 1] \o seqs[i]
    PROVE  FlattenSeq(seqs) = acc[Len(seqs)]
<1> DEFINE N == Len(seqs)
           Body(f) == [i \in 1..N |-> IF i = 1 THEN seqs[i] ELSE f[i - 1] \o seqs[i]]
           flatten == CHOOSE f : f = Body(f)
           part == [i \in 1..N |-> acc[i]]
           H == {n \in Nat : n + 1 <= N => flatten[n + 1] = acc[n + 1]}
<1>1. N \in Nat /\ \A i \in 1..N : seqs[i] \in Seq(X)
  BY LenProperties, ElementOfSeq
<1>2. FlattenSeq(seqs) = IF N = 0 THEN seqs ELSE flatten[N]
  BY DEF FlattenSeq
<1>3. N = 0 => seqs = acc[0]
  BY <1>1, EmptySeq
<1>4. N # 0 => acc[1] = seqs[1]
  <2> SUFFICES ASSUME N # 0 PROVE acc[1] = seqs[1]
    OBVIOUS
  <2>1. 1 \in 1..N /\ 1 - 1 = 0
    BY <1>1
  <2>2. acc[1] = <<>> \o seqs[1]
    BY <2>1
  <2> QED  BY <1>1, <2>1, <2>2, ConcatEmptySeq
<1>5. part = Body(part)
  <2>1. ASSUME NEW i \in 1..N
        PROVE  part[i] = IF i = 1 THEN seqs[i] ELSE part[i - 1] \o seqs[i]
    <3>1. CASE i = 1
      BY <1>1, <1>4, <3>1
    <3>2. CASE i # 1
      <4>1. i - 1 \in 1..N
        BY <1>1, <3>2
      <4> QED  BY <3>2, <4>1
    <3> QED  BY <3>1, <3>2
  <2> QED  BY <2>1
<1>6. \A i \in 1..N :
         flatten[i] = IF i = 1 THEN seqs[i] ELSE flatten[i - 1] \o seqs[i]
  <2>1. flatten = Body(flatten)
    <3> HIDE DEF Body, part
    <3> QED  BY <1>5
  <2> HIDE DEF flatten
  <2> QED  BY <2>1
<1> HIDE DEF flatten, part
<1>7. 0 \in H
  <2> SUFFICES ASSUME 0 + 1 <= N PROVE flatten[0 + 1] = acc[0 + 1]
    OBVIOUS
  <2>1. 1 \in 1..N /\ 0 + 1 = 1 /\ N # 0
    BY <1>1
  <2> QED  BY <1>4, <1>6, <2>1
<1>8. ASSUME NEW n \in Nat, n \in H
      PROVE  n + 1 \in H
  <2>1. SUFFICES ASSUME (n + 1) + 1 <= N
                 PROVE  flatten[(n + 1) + 1] = acc[(n + 1) + 1]
    OBVIOUS
  <2>2. /\ (n + 1) + 1 \in 1..N /\ (n + 1) + 1 # 1 /\ n + 1 <= N
        /\ ((n + 1) + 1) - 1 = n + 1
    BY <1>1, <2>1
  <2>3. flatten[n + 1] = acc[n + 1]
    BY <1>8, <2>2
  <2>4. flatten[(n + 1) + 1] = flatten[n + 1] \o seqs[(n + 1) + 1]
    BY <1>6, <2>2
  <2>5. acc[(n + 1) + 1] = acc[n + 1] \o seqs[(n + 1) + 1]
    BY <2>2
  <2> QED  BY <2>3, <2>4, <2>5
<1>9. Nat \subseteq H
  <2> HIDE DEF H
  <2> QED  BY <1>7, <1>8, SetInduction
<1>10. N # 0 => flatten[N] = acc[N]
  <2> SUFFICES ASSUME N # 0 PROVE flatten[N] = acc[N]
    OBVIOUS
  <2>1. N - 1 \in Nat /\ (N - 1) + 1 = N
    BY <1>1
  <2>2. N - 1 \in H
    <3> HIDE DEF H
    <3> QED  BY <1>9, <2>1
  <2> QED  BY <1>1, <2>1, <2>2
<1> QED
  BY <1>2, <1>3, <1>10

\* FlattenSeq, sequence by sequence.
LEMMA FlattenNext ==
    ASSUME NEW X
    PROVE  /\ FlattenSeq(<<>>) = <<>>
           /\ \A seqs \in Seq(Seq(X)), seq \in Seq(X) :
                 /\ FlattenSeq(seqs) \in Seq(X)
                 /\ FlattenSeq(Append(seqs, seq)) = FlattenSeq(seqs) \o seq
<1>1. FlattenSeq(<<>>) = <<>>
  BY DEF FlattenSeq
<1>2. ASSUME NEW seqs \in Seq(Seq(X)), NEW seq \in Seq(X)
      PROVE  /\ FlattenSeq(seqs) \in Seq(X)
             /\ FlattenSeq(Append(seqs, seq)) = FlattenSeq(seqs) \o seq
  <2> DEFINE more == Append(seqs, seq)
             N == Len(seqs)
             M == N + 1
             R == Seq(X)
             F == [x \in R \X (1..M) |-> x[1] \o more[x[2]]]
  <2>1. /\ more \in Seq(R) /\ Len(more) = M /\ more[M] = seq
        /\ \A i \in 1..N : more[i] = seqs[i]
        /\ N \in Nat /\ M \in Nat
    BY AppendProperties, LenProperties
  <2>2. \A i \in 1..M : more[i] \in R
    BY <2>1, ElementOfSeq
  <2> HIDE DEF more
  <2>3. F \in [R \X (1..M) -> R] /\ <<>> \in R
    BY <2>2, ConcatProperties, EmptySeq
  <2>4. \A r \in R, i \in 1..M : F[<<r, i>>] = r \o more[i]
    OBVIOUS
  <2>5. PICK acc \in [0..M -> R] :
           /\ acc[0] = <<>>
           /\ \A i \in 1..M : acc[i] = F[<<acc[i - 1], i>>]
    <3>1. \E acc \in [0..M -> R] : IsLoop(acc, M, <<>>, F)
      <4> HIDE DEF F, R, M
      <4> QED  BY <2>1, <2>3, LoopExists
    <3> QED  BY <3>1 DEF IsLoop
  <2> HIDE DEF F, N
  <2>6. ASSUME NEW i \in 1..M
        PROVE  acc[i] = acc[i - 1] \o more[i]
    <3>1. i - 1 \in 0..M
      BY <2>1
    <3>2. acc[i - 1] \in R
      BY <2>5, <3>1
    <3> QED  BY <2>4, <2>5, <3>2
  <2>7. FlattenSeq(more) = acc[M]
    <3>1. more \in Seq(Seq(X)) /\ acc \in [0..Len(more) -> Seq(X)] /\ acc[0] = <<>>
      BY <2>1, <2>5
    <3>2. \A i \in 1..Len(more) : acc[i] = acc[i - 1] \o more[i]
      BY <2>1, <2>6
    <3>3. FlattenSeq(more) = acc[Len(more)]
      BY <3>1, <3>2, FlattenOfLoop
    <3> QED  BY <2>1, <3>3
  <2>8. FlattenSeq(seqs) = acc[N] /\ acc[N] \in R
    <3> DEFINE part == [i \in 0..N |-> acc[i]]
    <3>1. part \in [0..N -> R] /\ part[0] = <<>> /\ part[N] = acc[N]
      BY <2>1, <2>5
    <3>2. ASSUME NEW i \in 1..N
          PROVE  part[i] = part[i - 1] \o seqs[i]
      <4>1. i \in 1..M /\ i - 1 \in 0..N /\ i \in 0..N
        BY <2>1
      <4> QED  BY <2>1, <2>6, <4>1
    <3> HIDE DEF part
    <3>3. FlattenSeq(seqs) = part[N]
      BY <3>1, <3>2, FlattenOfLoop DEF N
    <3>4. acc[N] \in R
      BY <2>1, <2>5
    <3> QED  BY <3>1, <3>3, <3>4
  <2>9. acc[M] = acc[N] \o seq
    <3>1. M \in 1..M /\ M - 1 = N
      BY <2>1
    <3> QED  BY <2>1, <2>6, <3>1
  <2> QED  BY <2>7, <2>8, <2>9 DEF more
<1> QED
  BY <1>1, <1>2

\* Well-formed items are the items of their own text.
LEMMA CodePointsOfScalars ==
    ASSUME NEW items \in Seq(Scalar)
    PROVE  FlattenSeq(items) \in Seq(Unit) /\ CodePoints(FlattenSeq(items)) = items
<1> DEFINE H == {s \in Seq(Scalar) : /\ FlattenSeq(s) \in Seq(Unit)
                                    /\ CodePoints(FlattenSeq(s)) = s}
<1>1. <<>> \in H
  BY EmptySeq, FlattenNext, CodePointsNext
<1>2. Scalar \subseteq Item /\ Scalar \subseteq Seq(Unit)
  BY DEF Scalar, Item, Unit
<1>3. ASSUME NEW s \in Seq(Scalar), NEW e \in Scalar, s \in H
      PROVE  Append(s, e) \in H
  <2> DEFINE text == FlattenSeq(s)
  <2>1. text \in Seq(Unit) /\ CodePoints(text) = s
    BY <1>3
  <2>2. s \in Seq(Seq(Unit)) /\ e \in Seq(Unit) /\ s \in Seq(Item)
    BY <1>2
  <2>3. FlattenSeq(Append(s, e)) = text \o e
    BY <2>2, FlattenNext
  <2>4. Append(s, e) \in Seq(Scalar)
    BY AppendProperties
  <2> HIDE DEF text
  <2>5. text \o e \in Seq(Unit)
    BY <2>1, <2>2, ConcatProperties
  <2>6. ASSUME NEW unit \in {"bmp", "U+FFFD"}, e = <<unit>>
        PROVE  CodePoints(text \o e) = Append(s, e)
    <3>1. unit \in Unit
      BY DEF Unit
    <3>2. text \o e = Append(text, unit)
      BY <2>1, <2>6, <3>1, AppendIsConcat
    <3>3. CodePoints(Append(text, unit)) = Take(s, unit)
      BY <2>1, <3>1, CodePointsNext
    <3> QED  BY <2>6, <3>2, <3>3 DEF Take
  <2>7. ASSUME e = <<"high", "low">>
        PROVE  CodePoints(text \o e) = Append(s, e)
    <3> DEFINE half == Append(text, "high")
    <3>1. "high" \in Unit /\ "low" \in Unit
      BY DEF Unit
    <3>2. half \in Seq(Unit)
      BY <2>1, <3>1, AppendProperties
    <3>3. text \o e = Append(half, "low")
      BY <2>1, <2>7, <3>1
    <3>4. CodePoints(half) = Append(s, <<"high">>)
      <4>1. CodePoints(half) = Take(s, "high")
        BY <2>1, <3>1, CodePointsNext
      <4> QED  BY <4>1 DEF Take
    <3>5. CodePoints(Append(half, "low")) = Take(Append(s, <<"high">>), "low")
      BY <3>1, <3>2, <3>4, CodePointsNext
    <3>6. /\ Append(s, <<"high">>) # <<>>
          /\ Front(Append(s, <<"high">>)) = s
          /\ Last(Append(s, <<"high">>)) = <<"high">>
      <4>1. <<"high">> \in Item
        BY <3>1 DEF Item
      <4> QED  BY <2>2, <4>1, AppendFrontLast, AppendProperties
    <3>7. CodePoints(Append(half, "low")) = Append(s, e)
      BY <2>7, <3>5, <3>6 DEF Take
    <3> QED  BY <3>3, <3>7
  <2>8. CodePoints(text \o e) = Append(s, e)
    BY <2>6, <2>7 DEF Scalar
  <2> QED  BY <2>3, <2>4, <2>5, <2>8
<1> HIDE DEF H
<1>4. Seq(Scalar) \subseteq H
  BY <1>1, <1>3, SeqInduction
<1> QED
  BY <1>4 DEF H
-----------------------------------------------------------------------------
(***************************************************************************)
(* Excerpts.                                                               *)
(***************************************************************************)

Mend(item) == IF IsLoneSurrogateScalar(item) THEN <<"U+FFFD">> ELSE item

\* Replacing a lone surrogate makes every code point a scalar and changes no
\* other.
LEMMA MendType ==
    /\ \A item \in Item : Mend(item) \in Scalar
    /\ \A item \in Scalar : Mend(item) = item /\ ~IsLoneSurrogateScalar(item)
    /\ \A item \in Item : ~IsLoneSurrogateScalar(item) => item \in Scalar
    /\ Scalar \subseteq Item
<1>1. /\ \A unit \in Unit : unit \in {"bmp", "high", "low", "U+FFFD"}
      /\ \A item \in Item : item = <<"high", "low">> \/ \E unit \in Unit : item = <<unit>>
  BY DEF Unit, Item
<1>2. Scalar \subseteq Item
  BY DEF Scalar, Item, Unit
<1>3. \A item \in Item : ~IsLoneSurrogateScalar(item) => item \in Scalar
  BY <1>1 DEF IsLoneSurrogateScalar, Scalar
<1>4. \A item \in Scalar : ~IsLoneSurrogateScalar(item)
  BY DEF IsLoneSurrogateScalar, Scalar
<1>5. <<"U+FFFD">> \in Scalar
  BY DEF Scalar
<1> QED
  BY <1>2, <1>3, <1>4, <1>5 DEF Mend

\* A string is well-formed when its code points are all scalars.
LEMMA WellFormedIsScalars ==
    ASSUME NEW units \in Seq(Unit)
    PROVE  WellFormed(units) <=> CodePoints(units) \in Seq(Scalar)
<1> DEFINE items == CodePoints(units)
<1>1. items \in Seq(Item) /\ DOMAIN items = 1..Len(items)
  BY CodePointsType, LenProperties
<1>2. WellFormed(units) <=> \A i \in DOMAIN items : ~IsLoneSurrogateScalar(items[i])
  BY DEF WellFormed, ToSet
<1> HIDE DEF items
<1>3. \A i \in DOMAIN items : items[i] \in Item
  BY <1>1, ElementOfSeq
<1>4. (\A i \in DOMAIN items : ~IsLoneSurrogateScalar(items[i]))
        <=> \A i \in DOMAIN items : items[i] \in Scalar
  BY <1>3, MendType
<1>5. items \in Seq(Scalar) <=> \A i \in DOMAIN items : items[i] \in Scalar
  <2>1. ASSUME items \in Seq(Scalar)
        PROVE  \A i \in DOMAIN items : items[i] \in Scalar
    BY <1>1, <2>1, ElementOfSeq
  <2>2. ASSUME \A i \in DOMAIN items : items[i] \in Scalar
        PROVE  items \in Seq(Scalar)
    <3>1. items = [i \in 1..Len(items) |-> items[i]] /\ Len(items) \in Nat
      BY <1>1, LenProperties
    <3>2. \A i \in 1..Len(items) : items[i] \in Scalar
      BY <1>1, <2>2
    <3> QED  BY <3>1, <3>2, IsASeq
  <2> QED  BY <2>1, <2>2
<1> QED
  BY <1>2, <1>4, <1>5 DEF items

\* The first n items, mended.
Kept(items, n) == [i \in 1..n |-> Mend(items[i])]

Least(a, b) == IF a < b THEN a ELSE b

\* What either SDK is to keep of a text and to say about it.
ExcerptOf(units, max) ==
    LET items == CodePoints(units)
    IN  [text |-> FlattenSeq(Kept(items, Least(max, Len(items)))),
         truncated |-> Len(items) > max]

\* The first n code points, mended, are n scalars.
LEMMA KeptType ==
    ASSUME NEW items \in Seq(Item), NEW n \in 0..Len(items)
    PROVE  /\ Kept(items, n) \in Seq(Scalar)
           /\ Len(Kept(items, n)) = n
           /\ \A i \in 1..n : Kept(items, n)[i] = Mend(items[i])
<1>1. \A i \in 1..n : items[i] \in Item
  BY LenProperties, ElementOfSeq
<1>2. \A i \in 1..n : Mend(items[i]) \in Scalar
  BY <1>1, MendType
<1>3. n \in Nat
  BY LenProperties
<1>4. [i \in 1..n |-> Mend(items[i])] \in Seq(Scalar)
  BY <1>2, <1>3, IsASeq
<1>5. Kept(items, n) \in Seq(Scalar) /\ DOMAIN Kept(items, n) = 1..n
  BY <1>4 DEF Kept
<1>6. Len(Kept(items, n)) = n
  BY <1>3, <1>5, LenProperties
<1> QED
  BY <1>5, <1>6 DEF Kept

\* Keeping one more appends the next code point, mended.
LEMMA KeptNext ==
    ASSUME NEW items \in Seq(Item), NEW n \in Nat, n + 1 <= Len(items)
    PROVE  Kept(items, n + 1) = Append(Kept(items, n), Mend(items[n + 1]))
<1>1. n \in 0..Len(items) /\ n + 1 \in 0..Len(items) /\ n + 1 \in 1..Len(items)
  BY LenProperties
<1> DEFINE a == Kept(items, n)
           b == Kept(items, n + 1)
           e == Mend(items[n + 1])
<1>2. a \in Seq(Scalar) /\ Len(a) = n /\ \A i \in 1..n : a[i] = Mend(items[i])
  BY <1>1, KeptType
<1>3. b \in Seq(Scalar) /\ Len(b) = n + 1 /\ \A i \in 1..(n + 1) : b[i] = Mend(items[i])
  BY <1>1, KeptType
<1>4. e \in Scalar
  BY <1>1, ElementOfSeq, MendType
<1> HIDE DEF a, b
<1>5. /\ Append(a, e) \in Seq(Scalar) /\ Len(Append(a, e)) = n + 1
      /\ \A i \in 1..n : Append(a, e)[i] = a[i]
      /\ Append(a, e)[n + 1] = e
  BY <1>2, <1>4, AppendProperties
<1>6. \A i \in 1..(n + 1) : b[i] = Append(a, e)[i]
  BY <1>2, <1>3, <1>5
<1>7. b = Append(a, e)
  BY <1>3, <1>5, <1>6, SeqEqual
<1> QED
  BY <1>7 DEF a, b

\* The step of TsExcerpt's loop.
TsStep(kept, scalar, max) ==
    IF kept.truncated THEN kept
    ELSE IF Len(kept.items) >= max THEN [kept EXCEPT !.truncated = TRUE]
    ELSE [kept EXCEPT !.items = Append(@, Mend(scalar))]

\* The loop body of TypeScript's excerpt keeps scalars and a flag.
LEMMA TsStepType ==
    ASSUME NEW kept \in [items : Seq(Scalar), truncated : BOOLEAN],
           NEW scalar \in Item, NEW max \in Nat
    PROVE  TsStep(kept, scalar, max) \in [items : Seq(Scalar), truncated : BOOLEAN]
<1>1. Append(kept.items, Mend(scalar)) \in Seq(Scalar)
  BY MendType, AppendProperties
<1> QED
  BY <1>1 DEF TsStep

\* TypeScript's excerpt is a loop over the code points.
LEMMA TsExcerptOfLoop ==
    ASSUME NEW units \in Seq(Unit), NEW max \in Nat,
           NEW acc \in [0..Len(CodePoints(units))
                            -> [items : Seq(Scalar), truncated : BOOLEAN]],
           acc[0] = [items |-> <<>>, truncated |-> FALSE],
           \A i \in 1..Len(CodePoints(units)) :
              acc[i] = TsStep(acc[i - 1], CodePoints(units)[i], max)
    PROVE  LET end == acc[Len(CodePoints(units))]
           IN  TsExcerpt(units, max)
                 = [text |-> FlattenSeq(end.items), truncated |-> end.truncated]
<1> DEFINE R == [items : Seq(Scalar), truncated : BOOLEAN]
           items == CodePoints(units)
           N == Len(items)
           base == [items |-> <<>>, truncated |-> FALSE]
           F == [x \in R \X (1..N) |-> TsStep(x[1], items[x[2]], max)]
           Body(g) == [T \in SUBSET (1..N) |->
                         IF T = {} THEN base
                         ELSE TsStep(g[T \ {Max(T)}], items[Max(T)], max)]
           iter == CHOOSE g : g = Body(g)
           H == {n \in Nat : n <= N => iter[1..n] = acc[n]}
<1>1. items \in Seq(Item) /\ N \in Nat /\ DOMAIN items = 1..N
      /\ \A i \in 1..N : items[i] \in Item
  BY CodePointsType, LenProperties, ElementOfSeq
<1>2. TsExcerpt(units, max)
        = [text |-> FlattenSeq(iter[1..N].items), truncated |-> iter[1..N].truncated]
  BY <1>1 DEF TsExcerpt, FoldLeft, MapThenFoldSet, TsStep, Mend
<1>3. F \in [R \X (1..N) -> R] /\ base \in R
  <2>1. base \in R
    BY EmptySeq
  <2> HIDE DEF R, base, items
  <2>2. \A r \in R, i \in 1..N : TsStep(r, items[i], max) \in R
    BY <1>1, TsStepType DEF R
  <2> QED  BY <2>1, <2>2
<1>4. \A r \in R, i \in 1..N : F[<<r, i>>] = TsStep(r, items[i], max)
  <2> HIDE DEF R, items
  <2> QED  OBVIOUS
<1> HIDE DEF R, N, F, items, base
<1>5. PICK g \in [SUBSET (1..N) -> R] : IsFold(g, N, base, F)
  BY <1>1, <1>3, FoldExists
<1>6. g = Body(g)
  <2>1. ASSUME NEW T \in SUBSET (1..N), T # {}
        PROVE  g[T] = TsStep(g[T \ {Max(T)}], items[Max(T)], max)
    <3>1. Max(T) \in 1..N /\ T \ {Max(T)} \in SUBSET (1..N)
      BY <1>1, <2>1, EndsOfASet
    <3>2. g[T] = F[<<g[T \ {Max(T)}], Max(T)>>]
      BY <1>5, <2>1 DEF IsFold
    <3> QED  BY <1>4, <3>1, <3>2
  <2>2. g[{}] = base
    BY <1>5 DEF IsFold
  <2> QED  BY <2>1, <2>2
<1>7. \A T \in SUBSET (1..N) :
         iter[T] = IF T = {} THEN base
                   ELSE TsStep(iter[T \ {Max(T)}], items[Max(T)], max)
  <2>1. iter = Body(iter)
    <3> HIDE DEF Body
    <3> QED  BY <1>6
  <2> HIDE DEF iter
  <2> QED  BY <2>1
<1> HIDE DEF iter
<1>8. 0 \in H
  <2>1. 1..0 = {}
    OBVIOUS
  <2>2. iter[{}] = base
    BY <1>7
  <2> QED  BY <2>1, <2>2 DEF base
<1>9. ASSUME NEW n \in Nat, n \in H
      PROVE  n + 1 \in H
  <2>1. SUFFICES ASSUME n + 1 <= N
                 PROVE  iter[1..(n + 1)] = acc[n + 1]
    OBVIOUS
  <2>2. Max(1..(n + 1)) = n + 1 /\ (1..(n + 1)) \ {n + 1} = 1..n
    BY MaxOfTail
  <2>3. n + 1 \in 1..(n + 1) /\ 1..(n + 1) \in SUBSET (1..N) /\ n + 1 \in 1..N
    BY <1>1, <2>1
  <2>4. iter[1..(n + 1)] = TsStep(iter[1..n], items[n + 1], max)
    BY <1>7, <2>2, <2>3
  <2>5. iter[1..n] = acc[n]
    BY <1>1, <1>9, <2>1
  <2>6. acc[n + 1] = TsStep(acc[n], items[n + 1], max)
    <3>1. (n + 1) - 1 = n
      OBVIOUS
    <3> QED  BY <2>3, <3>1 DEF N, items
  <2> QED  BY <2>4, <2>5, <2>6
<1>10. Nat \subseteq H
  <2> HIDE DEF H
  <2> QED  BY <1>8, <1>9, SetInduction
<1>11. iter[1..N] = acc[N]
  BY <1>1, <1>10
<1> QED
  BY <1>2, <1>11 DEF N, items

\* What the loop body does: nothing once it has stopped, stop at the bound,
\* otherwise append.
LEMMA TsStepOn ==
    ASSUME NEW s, NEW scalar, NEW max
    PROVE  LET Going == [items |-> s, truncated |-> FALSE]
               Left == [items |-> s, truncated |-> TRUE]
           IN  /\ TsStep(Left, scalar, max) = Left
               /\ Len(s) >= max => TsStep(Going, scalar, max) = Left
               /\ ~(Len(s) >= max) =>
                     TsStep(Going, scalar, max)
                       = [items |-> Append(s, Mend(scalar)), truncated |-> FALSE]
  BY DEF TsStep

\* Both excerpts are the excerpt.
LEMMA TsExcerptIsExcerpt ==
    ASSUME NEW units \in Seq(Unit), NEW max \in Nat
    PROVE  TsExcerpt(units, max) = ExcerptOf(units, max)
<1> DEFINE items == CodePoints(units)
           N == Len(items)
           R == [items : Seq(Scalar), truncated : BOOLEAN]
           acc == [i \in 0..N |->
                     IF i > max THEN [items |-> Kept(items, max), truncated |-> TRUE]
                     ELSE [items |-> Kept(items, i), truncated |-> FALSE]]
<1>1. items \in Seq(Item) /\ N \in Nat
  BY CodePointsType, LenProperties
<1> HIDE DEF items, N
<1>2. \A n \in 0..N : Kept(items, n) \in Seq(Scalar) /\ Len(Kept(items, n)) = n
  BY <1>1, KeptType DEF N
<1>3. \A i \in 0..N : i > max => max \in 0..N
  BY <1>1
<1>4. acc \in [0..N -> R]
  BY <1>2, <1>3
<1>5. acc[0] = [items |-> <<>>, truncated |-> FALSE]
  <2>1. 0 \in 0..N /\ ~(0 > max)
    BY <1>1
  <2>2. Kept(items, 0) = <<>>
    BY DEF Kept
  <2> QED  BY <2>1, <2>2
<1>6. ASSUME NEW i \in 1..N
      PROVE  acc[i] = TsStep(acc[i - 1], items[i], max)
  <2>1. i \in 0..N /\ i - 1 \in 0..N /\ i - 1 \in Nat /\ (i - 1) + 1 = i
    BY <1>1
  <2>2. CASE i - 1 > max
    <3>1. i > max
      BY <2>1, <2>2
    <3>2. /\ acc[i - 1] = [items |-> Kept(items, max), truncated |-> TRUE]
          /\ acc[i] = [items |-> Kept(items, max), truncated |-> TRUE]
      BY <2>1, <2>2, <3>1
    <3> HIDE DEF acc
    <3> QED  BY <3>2, TsStepOn
  <2>3. CASE i - 1 = max
    <3>1. i > max /\ ~(i - 1 > max)
      BY <2>1, <2>3
    <3>2. /\ acc[i - 1] = [items |-> Kept(items, i - 1), truncated |-> FALSE]
          /\ acc[i] = [items |-> Kept(items, i - 1), truncated |-> TRUE]
      BY <2>1, <2>3, <3>1
    <3>3. Len(Kept(items, i - 1)) >= max
      BY <1>2, <2>1, <2>3
    <3> HIDE DEF acc
    <3> QED  BY <3>2, <3>3, TsStepOn
  <2>4. CASE i - 1 < max
    <3>1. ~(i > max) /\ ~(i - 1 > max)
      BY <2>1, <2>4
    <3>2. /\ acc[i - 1] = [items |-> Kept(items, i - 1), truncated |-> FALSE]
          /\ acc[i] = [items |-> Kept(items, i), truncated |-> FALSE]
      BY <2>1, <3>1
    <3>3. ~(Len(Kept(items, i - 1)) >= max)
      BY <1>2, <2>1, <2>4
    <3>4. Kept(items, i) = Append(Kept(items, i - 1), Mend(items[i]))
      <4>1. (i - 1) + 1 <= Len(items)
        BY <2>1 DEF N
      <4> QED  BY <1>1, <2>1, <4>1, KeptNext
    <3> HIDE DEF acc
    <3> QED  BY <3>2, <3>3, <3>4, TsStepOn
  <2> QED  BY <2>1, <2>2, <2>3, <2>4
<1>7. acc[N] = IF N > max THEN [items |-> Kept(items, max), truncated |-> TRUE]
               ELSE [items |-> Kept(items, N), truncated |-> FALSE]
  BY <1>1
<1> HIDE DEF acc
<1>8. TsExcerpt(units, max)
        = [text |-> FlattenSeq(acc[N].items), truncated |-> acc[N].truncated]
  BY <1>4, <1>5, <1>6, TsExcerptOfLoop DEF items, N
<1>9. ExcerptOf(units, max)
        = [text |-> FlattenSeq(Kept(items, Least(max, N))), truncated |-> N > max]
  BY DEF ExcerptOf, items, N
<1>10. CASE N > max
  <2>1. Least(max, N) = max /\ (N > max) = TRUE
    BY <1>1, <1>10 DEF Least
  <2>2. acc[N].items = Kept(items, max) /\ acc[N].truncated = TRUE
    BY <1>7, <1>10
  <2>3. TsExcerpt(units, max) = [text |-> FlattenSeq(Kept(items, max)), truncated |-> TRUE]
    BY <1>8, <2>2, Zenon
  <2>4. ExcerptOf(units, max) = [text |-> FlattenSeq(Kept(items, max)), truncated |-> TRUE]
    BY <1>9, <2>1, Zenon
  <2> QED  BY <2>3, <2>4
<1>11. CASE ~(N > max)
  <2>1. Least(max, N) = N /\ (N > max) = FALSE
    BY <1>1, <1>11 DEF Least
  <2>2. acc[N].items = Kept(items, N) /\ acc[N].truncated = FALSE
    BY <1>7, <1>11
  <2>3. TsExcerpt(units, max) = [text |-> FlattenSeq(Kept(items, N)), truncated |-> FALSE]
    BY <1>8, <2>2, Zenon
  <2>4. ExcerptOf(units, max) = [text |-> FlattenSeq(Kept(items, N)), truncated |-> FALSE]
    BY <1>9, <2>1, Zenon
  <2> QED  BY <2>3, <2>4
<1> QED
  BY <1>10, <1>11

\* Rust's excerpt is the excerpt, of every string Rust can hold.
LEMMA RustExcerptIsExcerpt ==
    ASSUME NEW units \in Seq(Unit), WellFormed(units), NEW max \in Nat
    PROVE  RustExcerpt(units, max) = ExcerptOf(units, max)
<1> DEFINE items == CodePoints(units)
           n == Least(max, Len(items))
<1>1. /\ items \in Seq(Scalar) /\ items \in Seq(Item)
      /\ Len(items) \in Nat
  BY CodePointsType, WellFormedIsScalars, LenProperties
<1> HIDE DEF items
<1>2. n \in 0..Len(items) /\ n \in Nat
  BY <1>1 DEF Least
<1>3. \A i \in 1..n : items[i] \in Scalar
  BY <1>1, <1>2, ElementOfSeq
<1>4. /\ SubSeq(items, 1, n) \in Seq(Scalar)
      /\ Len(SubSeq(items, 1, n)) = n
      /\ \A i \in 1..n : SubSeq(items, 1, n)[i] = items[i]
  BY <1>1, <1>2, <1>3, SubSeqProperties
<1>5. /\ Kept(items, n) \in Seq(Scalar) /\ Len(Kept(items, n)) = n
      /\ \A i \in 1..n : Kept(items, n)[i] = items[i]
  BY <1>1, <1>2, <1>3, KeptType, MendType
<1>6. SubSeq(items, 1, n) = Kept(items, n)
  BY <1>4, <1>5, SeqEqual
<1> QED
  BY <1>6 DEF RustExcerpt, ExcerptOf, Least, items

\* An excerpt is within its bound, well-formed, true to the text and about it,
\* and its own excerpt.
LEMMA ExcerptKeeps ==
    ASSUME NEW units \in Seq(Unit), NEW max \in Nat
    PROVE  LET e == ExcerptOf(units, max)
               before == CodePoints(units)
               n == Least(max, Len(before))
           IN  /\ e.text \in Seq(Unit) /\ WellFormed(e.text)
               /\ e.truncated = (Len(before) > max)
               /\ CodePoints(e.text) = Kept(before, n)
               /\ Len(CodePoints(e.text)) = n
               /\ \A i \in 1..n : CodePoints(e.text)[i] = Mend(before[i])
               /\ ExcerptOf(e.text, max) = [text |-> e.text, truncated |-> FALSE]
<1> DEFINE before == CodePoints(units)
           n == Least(max, Len(before))
           after == Kept(before, n)
           text == FlattenSeq(after)
           e == ExcerptOf(units, max)
<1>1. before \in Seq(Item) /\ Len(before) \in Nat
  BY CodePointsType, LenProperties
<1>2. e.text = text /\ e.truncated = (Len(before) > max)
  BY DEF ExcerptOf
<1> HIDE DEF before, e
<1>3. n \in 0..Len(before) /\ n <= max
  BY <1>1 DEF Least
<1>4. /\ after \in Seq(Scalar) /\ after \in Seq(Item) /\ Len(after) = n
      /\ \A i \in 1..n : after[i] = Mend(before[i])
  BY <1>1, <1>3, KeptType, MendType
<1> HIDE DEF after, n
<1>5. text \in Seq(Unit) /\ CodePoints(text) = after
  BY <1>4, CodePointsOfScalars
<1> HIDE DEF text
<1>6. WellFormed(text)
  BY <1>4, <1>5, WellFormedIsScalars
<1>7. Least(max, n) = n /\ ~(n > max)
  BY <1>1, <1>3 DEF Least
<1>8. Kept(after, n) = after
  <2>1. n \in 0..Len(after)
    BY <1>1, <1>3, <1>4
  <2>2. /\ Kept(after, n) \in Seq(Scalar) /\ Len(Kept(after, n)) = n
        /\ \A i \in 1..n : Kept(after, n)[i] = Mend(after[i])
    BY <1>4, <2>1, KeptType
  <2>3. \A i \in 1..n : after[i] \in Scalar
    BY <1>4, LenProperties, ElementOfSeq
  <2>4. \A i \in 1..n : Kept(after, n)[i] = after[i]
    BY <2>2, <2>3, MendType
  <2> QED  BY <1>4, <2>2, <2>4, SeqEqual
<1>9. ExcerptOf(text, max) = [text |-> text, truncated |-> FALSE]
  <2>1. ExcerptOf(text, max) = [text |-> FlattenSeq(Kept(after, n)), truncated |-> n > max]
    BY <1>4, <1>5, <1>7, Zenon DEF ExcerptOf
  <2>2. (n > max) = FALSE /\ FlattenSeq(Kept(after, n)) = text
    BY <1>7, <1>8 DEF text
  <2> QED  BY <2>1, <2>2, Zenon
<1> QED
  BY <1>2, <1>4, <1>5, <1>6, <1>9, Zenon DEF after, before, n, e
-----------------------------------------------------------------------------
(***************************************************************************)
(* On the way through the SDKs: the inductive invariant.                   *)
(***************************************************************************)

\* What is carried is the text of the number the producer held, and once it
\* was written it is the text that is written of it.
NumberInv ==
    IsNumber =>
        /\ origin \in Texts /\ leaf \in Texts
        /\ IsZero(ValueOf(origin)) => IsZero(ValueOf(leaf))
        /\ ~IsZero(ValueOf(origin)) => ValueOf(leaf) = ValueOf(origin)
        /\ hops # 0 => TsWrites(leaf) = leaf

\* A text is whole until it is cut, and then it is the excerpt of the whole.
TextInv ==
    ~IsNumber =>
        /\ origin \in Seq(Unit) /\ limit \in Nat
        /\ hops = 0 => leaf = [text |-> origin, truncated |-> FALSE]
        /\ hops # 0 => leaf = ExcerptOf(origin, limit)

Inv == hops \in Nat /\ NumberInv /\ TextInv

\* What a producer holds satisfies the invariant.
LEMMA InitInv == Init => Inv
<1> SUFFICES ASSUME Init PROVE Inv
  OBVIOUS
<1>1. IsNumber => origin \in Texts /\ leaf = origin
  BY LeafAssumption DEF Init, IsNumber
<1>2. ~IsNumber => /\ origin \in Seq(Unit) /\ limit \in Nat
                   /\ leaf = [text |-> origin, truncated |-> FALSE]
  BY LeafAssumption DEF Init, IsNumber
<1>3. hops = 0
  BY DEF Init
<1> QED
  BY <1>1, <1>2, <1>3 DEF Inv, NumberInv, TextInv

\* Whichever SDK writes a number, it is TsWrites of what it got.
LEMMA NumberStep ==
    ASSUME Inv, RustWritesNumber \/ TsWritesNumber
    PROVE  IsNumber /\ leaf \in Texts /\ leaf' = TsWrites(leaf) /\ Handled
<1>1. IsNumber /\ leaf \in Texts /\ Handled
  BY DEF RustWritesNumber, TsWritesNumber, Inv, NumberInv
<1>2. leaf' \in {TsWrites(leaf)}
  BY <1>1, RustWritesWhatTsWrites DEF RustWritesNumber, TsWritesNumber
<1> QED
  BY <1>1, <1>2

\* Whichever SDK cuts a text, what it leaves is the excerpt of the whole.
LEMMA TextStep ==
    ASSUME Inv, RustCutsText \/ TsCutsText
    PROVE  ~IsNumber /\ leaf' = ExcerptOf(origin, limit) /\ Handled
<1>1. /\ ~IsNumber /\ Handled /\ origin \in Seq(Unit) /\ limit \in Nat
      /\ hops = 0 => leaf = [text |-> origin, truncated |-> FALSE]
      /\ hops # 0 => leaf = ExcerptOf(origin, limit)
  BY DEF RustCutsText, TsCutsText, Inv, TextInv
<1> DEFINE whole == ExcerptOf(origin, limit)
<1>2. /\ whole.text \in Seq(Unit)
      /\ ExcerptOf(whole.text, limit) = [text |-> whole.text, truncated |-> FALSE]
  BY <1>1, ExcerptKeeps
<1>3. whole.truncated \in BOOLEAN
      /\ whole = [text |-> whole.text, truncated |-> whole.truncated]
  BY DEF ExcerptOf
<1> HIDE DEF whole
<1>4. leaf.text \in Seq(Unit)
  BY <1>1, <1>2 DEF whole
<1>5. leaf' = [ExcerptOf(leaf.text, limit) EXCEPT !.truncated = leaf.truncated \/ @]
  BY <1>1, <1>4, TsExcerptIsExcerpt, RustExcerptIsExcerpt
     DEF RustCutsText, TsCutsText, CutTo
<1>6. CASE hops = 0
  <2>1. leaf.text = origin /\ leaf.truncated = FALSE
    BY <1>1, <1>6
  <2>2. leaf' = [whole EXCEPT !.truncated = FALSE \/ @]
    BY <1>5, <2>1, Zenon DEF whole
  <2>3. leaf' = whole
    BY <1>3, <2>2
  <2> QED  BY <1>1, <2>3 DEF whole
<1>7. CASE hops # 0
  <2>1. leaf = whole
    BY <1>1, <1>7 DEF whole
  <2>2. leaf' = [[text |-> whole.text, truncated |-> FALSE]
                    EXCEPT !.truncated = whole.truncated \/ @]
    BY <1>2, <1>5, <2>1, Zenon
  <2>3. leaf' = [text |-> whole.text, truncated |-> whole.truncated \/ FALSE]
    BY <2>2
  <2>4. (whole.truncated \/ FALSE) = whole.truncated
    BY <1>3, Zenon
  <2>5. leaf' = [text |-> whole.text, truncated |-> whole.truncated]
    BY <2>3, <2>4, Zenon
  <2> QED  BY <1>1, <1>3, <2>5, Zenon DEF whole
<1> QED
  BY <1>6, <1>7

\* Whichever SDK handles the leaf, the invariant stays.
LEMMA StepInv == Inv /\ [Next]_vars => Inv'
<1> SUFFICES ASSUME Inv, [Next]_vars PROVE Inv'
  OBVIOUS
<1>1. CASE RustWritesNumber \/ TsWritesNumber
  <2>1. IsNumber /\ leaf \in Texts /\ leaf' = TsWrites(leaf) /\ Handled
    BY <1>1, NumberStep
  <2>2. IsNumber' /\ origin' = origin /\ hops' \in Nat
    BY <2>1 DEF Handled, IsNumber, Inv
  <2>3. NumberInv'
    <3>1. /\ TsWrites(leaf) \in Texts
          /\ IsZero(ValueOf(leaf)) => IsZero(ValueOf(TsWrites(leaf)))
          /\ ~IsZero(ValueOf(leaf)) => ValueOf(TsWrites(leaf)) = ValueOf(leaf)
          /\ TsWrites(TsWrites(leaf)) = TsWrites(leaf)
      BY <2>1, WritingKeeps
    <3>2. /\ origin \in Texts
          /\ IsZero(ValueOf(origin)) => IsZero(ValueOf(leaf))
          /\ ~IsZero(ValueOf(origin)) => ValueOf(leaf) = ValueOf(origin)
      BY <2>1 DEF Inv, NumberInv
    <3>3. /\ origin' \in Texts /\ leaf' \in Texts
          /\ IsZero(ValueOf(origin')) => IsZero(ValueOf(leaf'))
          /\ ~IsZero(ValueOf(origin')) => ValueOf(leaf') = ValueOf(origin')
          /\ TsWrites(leaf') = leaf'
      BY <2>1, <2>2, <3>1, <3>2, Zenon
    <3> QED  BY <3>3 DEF NumberInv
  <2> QED  BY <2>2, <2>3 DEF Inv, TextInv
<1>2. CASE RustCutsText \/ TsCutsText
  <2>1. ~IsNumber /\ leaf' = ExcerptOf(origin, limit) /\ Handled
    BY <1>2, TextStep
  <2>2. ~IsNumber' /\ origin' = origin /\ limit' = limit /\ hops' \in Nat /\ hops' # 0
    BY <2>1 DEF Handled, IsNumber, Inv
  <2>3. TextInv'
    BY <2>1, <2>2 DEF Inv, TextInv
  <2> QED  BY <2>2, <2>3 DEF Inv, NumberInv
<1>3. CASE UNCHANGED vars
  BY <1>3 DEF vars, Inv, NumberInv, TextInv, IsNumber
<1> QED
  BY <1>1, <1>2, <1>3 DEF Next

\* The invariant of every leaf on its way.
LEMMA InvHolds == Spec => []Inv
  BY InitInv, StepInv, PTL DEF Spec
-----------------------------------------------------------------------------
(* Every number on the way is written the same by both SDKs, whichever     *)
(* numbers a double keeps producers hold, however many SDKs handled them.  *)
THEOREM SdksAlwaysWriteAlike == Spec => []SdksWriteAlike
<1>1. Inv => SdksWriteAlike
  BY RustWritesWhatTsWrites DEF Inv, NumberInv, SdksWriteAlike
<1> QED
  BY <1>1, InvHolds, PTL

(* No digit of a number a double keeps is lost or moved, and no sign,      *)
(* however often it is laid out anew.                                      *)
THEOREM NumbersAreKept == Spec => []NumberIsKept
<1>1. ASSUME Inv, IsNumber
      PROVE  /\ \A p \in PlacesOf(origin) \union PlacesOf(leaf) :
                    DigitAt(leaf, p) = DigitAt(origin, p)
             /\ leaf.negative = origin.negative \/ IsZero(ValueOf(origin))
  <2>1. /\ origin \in Texts /\ leaf \in Texts
        /\ IsZero(ValueOf(origin)) => IsZero(ValueOf(leaf))
        /\ ~IsZero(ValueOf(origin)) => ValueOf(leaf) = ValueOf(origin)
    BY <1>1 DEF Inv, NumberInv
  <2>2. ASSUME NEW t \in Texts, NEW p \in PlacesOf(t)
        PROVE  p \in Int
    <3>1. /\ t.whole \in Seq(Digit) /\ Len(t.whole) \in Nat /\ t.exponent \in Int
          /\ DigitsOf(t) \in Seq(Digit)
      BY ConcatProperties, LenProperties DEF Texts, Layouts, DigitsOf
    <3>2. DOMAIN DigitsOf(t) \subseteq Int
      BY <3>1, LenProperties
    <3> QED  BY <3>1, <3>2 DEF PlacesOf
  <2>3. ASSUME NEW p \in PlacesOf(origin) \union PlacesOf(leaf)
        PROVE  DigitAt(leaf, p) = DigitAt(origin, p)
    <3>1. p \in Int
      BY <2>1, <2>2
    <3>2. /\ DigitAt(leaf, p) = IF IsZero(ValueOf(leaf)) THEN 0 ELSE Place(ValueOf(leaf), p)
          /\ DigitAt(origin, p)
               = IF IsZero(ValueOf(origin)) THEN 0 ELSE Place(ValueOf(origin), p)
      BY <2>1, <3>1, TextsAreLayouts, DigitAtIsPlace
    <3>3. CASE IsZero(ValueOf(origin))
      BY <2>1, <3>2, <3>3
    <3>4. CASE ~IsZero(ValueOf(origin))
      BY <2>1, <3>2, <3>4
    <3> QED  BY <3>3, <3>4
  <2>4. leaf.negative = origin.negative \/ IsZero(ValueOf(origin))
    BY <2>1, TextsAreLayouts, ValueIsNormal
  <2> QED  BY <2>3, <2>4
<1>2. Inv => NumberIsKept
  BY <1>1 DEF NumberIsKept
<1> QED
  BY <1>2, InvHolds, PTL

(* Of every text both can hold, both keep the same and say the same of it. *)
THEOREM SdksAlwaysCutAlike == Spec => []SdksCutAlike
<1>1. Inv => SdksCutAlike
  BY TsExcerptIsExcerpt, RustExcerptIsExcerpt DEF Inv, TextInv, SdksCutAlike
<1> QED
  BY <1>1, InvHolds, PTL

(* An excerpt never exceeds its bound, never falls short of it without     *)
(* need, never claims a cut that was none, and is well-formed.             *)
THEOREM ExcerptsAreTrue == Spec => []ExcerptIsTrue
<1>1. ASSUME Inv, ~IsNumber, hops > 0
      PROVE  LET before == CodePoints(origin)
                 after == CodePoints(leaf.text)
             IN  /\ WellFormed(leaf.text)
                 /\ ScalarCount(leaf.text)
                      = IF Len(before) > limit THEN limit ELSE Len(before)
                 /\ leaf.truncated <=> Len(after) < Len(before)
                 /\ \A i \in DOMAIN after :
                       \/ after[i] = before[i]
                       \/ IsLoneSurrogateScalar(before[i]) /\ after[i] = <<"U+FFFD">>
  <2> DEFINE before == CodePoints(origin)
             after == CodePoints(leaf.text)
             n == Least(limit, Len(before))
  <2>1. /\ origin \in Seq(Unit) /\ limit \in Nat
        /\ leaf = ExcerptOf(origin, limit)
    BY <1>1 DEF Inv, TextInv
  <2>2. /\ leaf.text \in Seq(Unit) /\ WellFormed(leaf.text)
        /\ leaf.truncated = (Len(before) > limit)
        /\ Len(after) = n
        /\ \A i \in 1..n : after[i] = Mend(before[i])
    BY <2>1, ExcerptKeeps
  <2>3. before \in Seq(Item) /\ Len(before) \in Nat
    BY <2>1, CodePointsType, LenProperties
  <2>4. DOMAIN after = 1..n
    <3>1. after \in Seq(Item)
      BY <2>2, CodePointsType
    <3> QED  BY <2>2, <3>1, LenProperties
  <2> HIDE DEF before, after, n
  <2>5. /\ n = IF Len(before) > limit THEN limit ELSE Len(before)
        /\ Len(before) > limit <=> n < Len(before)
    BY <2>1, <2>3 DEF n, Least
  <2>6. \A i \in DOMAIN after :
           \/ after[i] = before[i]
           \/ IsLoneSurrogateScalar(before[i]) /\ after[i] = <<"U+FFFD">>
    BY <2>2, <2>4 DEF Mend
  <2> QED  BY <2>2, <2>5, <2>6 DEF ScalarCount, before, after
<1>2. Inv => ExcerptIsTrue
  BY <1>1 DEF ExcerptIsTrue
<1> QED
  BY <1>2, InvHolds, PTL

(* Once an SDK has emitted a leaf, no SDK it passes later changes it.      *)
THEOREM EmittedFormsAreFinal == Spec => EmittedFormIsFinal
<1>1. ASSUME Inv, [Next]_vars, hops > 0
      PROVE  leaf' = leaf
  <2>1. CASE RustWritesNumber \/ TsWritesNumber
    BY <1>1, <2>1, NumberStep DEF Inv, NumberInv
  <2>2. CASE RustCutsText \/ TsCutsText
    BY <1>1, <2>2, TextStep DEF Inv, TextInv
  <2>3. CASE UNCHANGED vars
    BY <2>3 DEF vars
  <2> QED  BY <1>1, <2>1, <2>2, <2>3 DEF Next
<1>2. Inv /\ [Next]_vars => (hops > 0 => leaf' = leaf)
  BY <1>1
<1> QED
  BY <1>2, InvHolds, PTL DEF Spec, EmittedFormIsFinal
=============================================================================
