------------------------------ MODULE Induction ------------------------------
(***************************************************************************)
(* Induction over the natural numbers and what a fold over a sequence is,  *)
(* both stated with sets and functions only, so that a proof can cite them *)
(* for the set of the numbers it is about and for the function its fold    *)
(* applies.                                                                *)
(***************************************************************************)
EXTENDS Integers, SequencesExt, SequenceTheorems, WellFoundedInduction, TLAPS

\* A set of natural numbers with an element has a least one.
LEMMA LeastExists ==
    ASSUME NEW S \in SUBSET Nat, S # {}
    PROVE  \E m \in S : \A y \in S : m <= y
<1> DEFINE R == {ij \in Nat \X Nat : ij[1] < ij[2]}
<1>1. IsWellFoundedOn(R, Nat)
  BY NatLessThanWellFounded DEF OpToRel
<1>2. \A x, y \in Nat : x < y => <<x, y>> \in R
  OBVIOUS
<1> HIDE DEF R
<1>3. PICK m \in S : \A y \in S : <<y, m>> \notin R
  BY <1>1, WFMin, Zenon
<1>4. ASSUME NEW y \in S
      PROVE  m <= y
  <2>1. y \in Nat /\ m \in Nat
    OBVIOUS
  <2>2. ~(y < m)
    BY <1>2, <1>3, <2>1, Zenon
  <2> QED  BY <2>1, <2>2
<1> QED
  BY <1>4

\* Of a set of numbers up to N with an element, Min and Max are what they are
\* called.
LEMMA EndsOfASet ==
    ASSUME NEW N \in Nat, NEW S \in SUBSET (1..N), S # {}
    PROVE  /\ Min(S) \in S /\ \A y \in S : Min(S) <= y
           /\ Max(S) \in S /\ \A y \in S : y <= Max(S)
<1>1. PICK a \in S : \A y \in S : a <= y
  BY LeastExists
<1>2. PICK b \in S : \A y \in S : y <= b
  <2> DEFINE T == {N - y : y \in S}
  <2>1. T \in SUBSET Nat /\ T # {}
    OBVIOUS
  <2>2. PICK m \in T : \A z \in T : m <= z
    BY <2>1, LeastExists
  <2>3. PICK b \in S : m = N - b
    OBVIOUS
  <2>4. \A y \in S : N - b <= N - y
    BY <2>2, <2>3
  <2>5. \A y \in S : y <= b
    BY <2>4
  <2> QED  BY <2>5
<1> QED
  BY <1>1, <1>2 DEF Min, Max

\* Induction: a set with 0 and with the successor of each of its numbers has
\* them all.  A proof defines the set of the numbers of which its claim holds.
LEMMA SetInduction ==
    ASSUME NEW S, 0 \in S, \A n \in Nat : n \in S => n + 1 \in S
    PROVE  Nat \subseteq S
<1> DEFINE T == Nat \ S
<1> SUFFICES ASSUME T # {} PROVE FALSE
  OBVIOUS
<1>1. PICK m \in T : \A y \in T : m <= y
  BY LeastExists
<1>2. m \in Nat /\ m # 0
  OBVIOUS
<1>3. m - 1 \in Nat /\ m - 1 \notin T
  BY <1>1, <1>2
<1> QED
  BY <1>2, <1>3

\* The same over sequences: a set with the empty one and with every one-longer
\* sequence of each of its own has them all.
LEMMA SeqInduction ==
    ASSUME NEW S, NEW H, <<>> \in H,
           \A s \in Seq(S), e \in S : s \in H => Append(s, e) \in H
    PROVE  Seq(S) \subseteq H
<1> DEFINE L == {n \in Nat : \A s \in Seq(S) : Len(s) = n => s \in H}
<1>1. 0 \in L
  BY EmptySeq
<1>2. ASSUME NEW n \in Nat, n \in L
      PROVE  n + 1 \in L
  <2>1. SUFFICES ASSUME NEW s \in Seq(S), Len(s) = n + 1
                 PROVE  s \in H
    OBVIOUS
  <2>2. s # <<>>
    BY <1>2, <2>1
  <2>3. PICK f \in Seq(S), e \in S : s = Append(f, e)
    BY <2>1, <2>2, SequenceEmptyOrAppend
  <2>4. Len(f) = n
    <3>1. Len(f) \in Nat /\ Len(s) = Len(f) + 1
      BY <2>3, AppendProperties, LenProperties
    <3> QED  BY <2>1, <3>1
  <2> QED  BY <1>2, <2>3, <2>4
<1>3. Nat \subseteq L
  <2> HIDE DEF L
  <2> QED  BY <1>1, <1>2, SetInduction
<1>4. ASSUME NEW s \in Seq(S)
      PROVE  s \in H
  BY <1>3, LenProperties
<1> QED
  BY <1>4
-----------------------------------------------------------------------------
(***************************************************************************)
(* Folds.  FoldLeft is defined over the sets of positions, the last one    *)
(* first; F[<<r, i>>] is what a fold makes of the result r at position i.  *)
(***************************************************************************)

\* What the recursive function inside a fold over N positions satisfies.
IsFold(g, N, base, F) ==
    \A T \in SUBSET (1..N) :
        g[T] = IF T = {} THEN base ELSE F[<<g[T \ {Max(T)}], Max(T)>>]

\* The fold takes the numbers 1..n+1 apart at their largest, which leaves 1..n.
LEMMA MaxOfTail ==
    ASSUME NEW n \in Nat
    PROVE  /\ Max(1..(n + 1)) = n + 1
           /\ (1..(n + 1)) \ {n + 1} = 1..n
           /\ \A T \in SUBSET (1..(n + 1)) : n + 1 \in T => Max(T) = n + 1
<1>1. ASSUME NEW T \in SUBSET (1..(n + 1)), n + 1 \in T
      PROVE  Max(T) = n + 1
  <2>1. n + 1 \in Nat /\ T # {}
    BY <1>1
  <2>2. Max(T) \in T /\ \A y \in T : y <= Max(T)
    BY <2>1, EndsOfASet
  <2>3. Max(T) \in 1..(n + 1) /\ n + 1 <= Max(T)
    BY <1>1, <2>2
  <2> QED  BY <2>3
<1> QED
  BY <1>1

\* Such a function exists for every number of positions.
LEMMA FoldExists ==
    ASSUME NEW R, NEW base \in R, NEW M \in Nat, NEW F \in [R \X (1..M) -> R]
    PROVE  \E g \in [SUBSET (1..M) -> R] : IsFold(g, M, base, F)
<1> DEFINE Exists(n) == \E g \in [SUBSET (1..n) -> R] : IsFold(g, n, base, F)
           S == {n \in Nat : n <= M => Exists(n)}
<1>1. Exists(0)
  <2> DEFINE g == [T \in SUBSET (1..0) |-> base]
  <2>1. g \in [SUBSET (1..0) -> R] /\ IsFold(g, 0, base, F)
    BY DEF IsFold
  <2> QED  BY <2>1
<1>2. ASSUME NEW n \in Nat, n + 1 <= M, Exists(n)
      PROVE  Exists(n + 1)
  <2>1. PICK h \in [SUBSET (1..n) -> R] : IsFold(h, n, base, F)
    BY <1>2
  <2> DEFINE g == [T \in SUBSET (1..(n + 1)) |->
                     IF n + 1 \in T THEN F[<<h[T \ {n + 1}], n + 1>>] ELSE h[T]]
  <2>2. \A T \in SUBSET (1..(n + 1)) :
           IF n + 1 \in T THEN T \ {n + 1} \in SUBSET (1..n)
           ELSE T \in SUBSET (1..n)
    OBVIOUS
  <2>3. g \in [SUBSET (1..(n + 1)) -> R]
    <3>1. n + 1 \in 1..M
      BY <1>2
    <3> QED  BY <2>2, <3>1
  <2>4. ASSUME NEW T \in SUBSET (1..(n + 1))
        PROVE  g[T] = IF T = {} THEN base ELSE F[<<g[T \ {Max(T)}], Max(T)>>]
    <3>1. CASE n + 1 \in T
      <4>1. Max(T) = n + 1
        BY <3>1, MaxOfTail
      <4>2. g[T \ {n + 1}] = h[T \ {n + 1}]
        BY <2>2, <3>1
      <4> QED  BY <3>1, <4>1, <4>2
    <3>2. CASE n + 1 \notin T
      <4>1. T \in SUBSET (1..n) /\ g[T] = h[T]
        BY <2>2, <3>2
      <4>2. CASE T # {}
        <5>1. Max(T) \in 1..n
          BY <4>1, <4>2, EndsOfASet
        <5>2. g[T \ {Max(T)}] = h[T \ {Max(T)}]
          BY <3>2, <4>1
        <5> QED  BY <2>1, <4>1, <4>2, <5>2 DEF IsFold
      <4>3. CASE T = {}
        BY <2>1, <4>1, <4>3 DEF IsFold
      <4> QED  BY <4>2, <4>3
    <3> QED  BY <3>1, <3>2
  <2>5. IsFold(g, n + 1, base, F)
    BY <2>4 DEF IsFold
  <2> QED  BY <2>3, <2>5
<1>3. Exists(M)
  <2> HIDE DEF Exists
  <2>1. 0 \in S /\ \A n \in Nat : n \in S => n + 1 \in S
    BY <1>1, <1>2
  <2>2. M \in S
    <3> HIDE DEF S
    <3> QED  BY <2>1, SetInduction
  <2> QED  BY <2>2
<1> QED
  BY <1>3

\* The same as a loop that goes through the positions from the first on.
IsLoop(acc, N, base, F) ==
    /\ acc[0] = base
    /\ \A i \in 1..N : acc[i] = F[<<acc[i - 1], i>>]

\* Every body has its loop: the accumulators of M steps from a base exist.
LEMMA LoopExists ==
    ASSUME NEW R, NEW base \in R, NEW M \in Nat, NEW F \in [R \X (1..M) -> R]
    PROVE  \E acc \in [0..M -> R] : IsLoop(acc, M, base, F)
<1>1. PICK g \in [SUBSET (1..M) -> R] : IsFold(g, M, base, F)
  BY FoldExists
<1> DEFINE acc == [i \in 0..M |-> g[1..i]]
<1>2. \A i \in 0..M : 1..i \in SUBSET (1..M)
  OBVIOUS
<1>3. acc \in [0..M -> R]
  BY <1>2
<1>4. acc[0] = base
  <2>1. 1..0 = {} /\ {} \in SUBSET (1..M) /\ acc[0] = g[1..0]
    OBVIOUS
  <2>2. g[{}] = base
    BY <1>1, <2>1 DEF IsFold
  <2> QED  BY <2>1, <2>2
<1>5. ASSUME NEW i \in 1..M
      PROVE  acc[i] = F[<<acc[i - 1], i>>]
  <2>1. i - 1 \in Nat /\ (i - 1) + 1 = i /\ i - 1 \in 0..M /\ i \in 0..M
    OBVIOUS
  <2>2. Max(1..i) = i /\ (1..i) \ {i} = 1..(i - 1)
    BY <2>1, MaxOfTail
  <2>3. i \in 1..i /\ 1..i \in SUBSET (1..M)
    BY <1>2
  <2>4. g[1..i] = F[<<g[1..(i - 1)], i>>]
    BY <1>1, <2>2, <2>3 DEF IsFold
  <2> QED  BY <2>1, <2>4
<1> HIDE DEF acc
<1> QED
  BY <1>3, <1>4, <1>5 DEF IsLoop
=============================================================================
