--------------------------- MODULE AgreementProofs ---------------------------
(***************************************************************************)
(* What both SDKs promise of one event, for every number of departures     *)
(* from a well-formed one and every set of unusual spellings.              *)
(*                                                                         *)
(* The argument.  TypeInv bounds what is ever written: a document of at    *)
(* most five levels (Doc5), over the keys and leaves the producer has.     *)
(* Every function of the SDKs on a document is a walk: over its leaves     *)
(* (Leaves), over its parts with a replacement of leaves and an order of   *)
(* keys (Rewrite), or over the fields a struct declares.  Lemmas of one    *)
(* level, applied level by level, say that two Rewrites make one, that a   *)
(* Rewrite keeps size and texts, and what leaves it leaves.  The readers   *)
(* of both SDKs come to one condition on the document, FitsPayload, which  *)
(* differs only in the numbers it takes, and validate to another, Accepts. *)
(* That either is kept by a Rewrite depends only on how the replacement    *)
(* treats single leaves (Keeps, Shows), which is a finite case split.      *)
(* What a TypeScript parser rebuilds may lack a __proto__ field: it is     *)
(* Near the document, and the conditions carry over to near documents.     *)
(***************************************************************************)
EXTENDS Agreement, Induction
(***************************************************************************)
(* Kept, element by element, and what it keeps.                            *)
(***************************************************************************)

\* What the recursive function inside Kept satisfies.
KeptLoop(acc, s, S) ==
    /\ acc[0] = <<>>
    /\ \A i \in 1..Len(s) :
          acc[i] = IF s[i] \in S THEN Append(acc[i - 1], s[i]) ELSE acc[i - 1]

\* Kept is a loop over the sequence.
LEMMA KeptOfLoop ==
    ASSUME NEW X, NEW s \in Seq(X), NEW S, NEW acc \in [0..Len(s) -> Seq(X)],
           KeptLoop(acc, s, S)
    PROVE  Kept(s, S) = acc[Len(s)]
<1> DEFINE N == Len(s)
           Body(f) == [i \in 0..N |-> IF i = 0 THEN <<>>
                                      ELSE IF s[i] \in S THEN Append(f[i - 1], s[i])
                                      ELSE f[i - 1]]
           kept == CHOOSE f : f = Body(f)
           H == {n \in Nat : n <= N => kept[n] = acc[n]}
<1>1. N \in Nat
  BY LenProperties
<1>2. Kept(s, S) = kept[N]
  BY DEF Kept
<1>3. acc = Body(acc)
  <2>1. \A i \in 0..N : acc[i] = Body(acc)[i]
    <3>1. ASSUME NEW i \in 0..N
          PROVE  acc[i] = Body(acc)[i]
      <4>1. CASE i = 0
        BY <4>1 DEF KeptLoop
      <4>2. CASE i # 0
        <5>1. i \in 1..N
          BY <1>1, <4>2
        <5> QED  BY <4>2, <5>1 DEF KeptLoop
      <4> QED  BY <4>1, <4>2
    <3> QED  BY <3>1
  <2> QED  BY <2>1
<1>4. \A i \in 0..N : kept[i] = IF i = 0 THEN <<>>
                                ELSE IF s[i] \in S THEN Append(kept[i - 1], s[i])
                                ELSE kept[i - 1]
  <2>1. kept = Body(kept)
    <3> HIDE DEF Body
    <3> QED  BY <1>3
  <2> HIDE DEF kept
  <2> QED  BY <2>1
<1> HIDE DEF kept
<1>5. 0 \in H
  BY <1>1, <1>4 DEF KeptLoop
<1>6. ASSUME NEW n \in Nat, n \in H
      PROVE  n + 1 \in H
  <2>1. SUFFICES ASSUME n + 1 <= N
                 PROVE  kept[n + 1] = acc[n + 1]
    OBVIOUS
  <2>2. n + 1 \in 0..N /\ n + 1 \in 1..N /\ n + 1 # 0 /\ (n + 1) - 1 = n /\ n <= N
    BY <1>1, <2>1
  <2>3. kept[n] = acc[n]
    BY <1>6, <2>2
  <2>4. kept[n + 1] = IF s[n + 1] \in S THEN Append(kept[n], s[n + 1]) ELSE kept[n]
    BY <1>4, <2>2
  <2>5. acc[n + 1] = IF s[n + 1] \in S THEN Append(acc[n], s[n + 1]) ELSE acc[n]
    BY <2>2 DEF KeptLoop
  <2> QED  BY <2>3, <2>4, <2>5
<1>7. Nat \subseteq H
  <2> HIDE DEF H
  <2> QED  BY <1>5, <1>6, SetInduction
<1>8. kept[N] = acc[N]
  BY <1>1, <1>7
<1> QED
  BY <1>2, <1>8

\* Such a loop exists.
LEMMA KeptLoopExists ==
    ASSUME NEW X, NEW s \in Seq(X), NEW S
    PROVE  \E acc \in [0..Len(s) -> Seq(X)] : KeptLoop(acc, s, S)
<1> DEFINE R == Seq(X)
           N == Len(s)
           F == [ri \in R \X (1..N) |->
                    IF s[ri[2]] \in S THEN Append(ri[1], s[ri[2]]) ELSE ri[1]]
<1>1. N \in Nat /\ \A i \in 1..N : s[i] \in X
  BY LenProperties, ElementOfSeq
<1>2. F \in [R \X (1..N) -> R]
  BY <1>1, AppendProperties
<1>3. <<>> \in R
  BY EmptySeq
<1>4. PICK acc \in [0..N -> R] : IsLoop(acc, N, <<>>, F)
  <2> HIDE DEF R, F
  <2> QED  BY <1>1, <1>2, <1>3, LoopExists
<1>5. ASSUME NEW i \in 1..N
      PROVE  acc[i] = IF s[i] \in S THEN Append(acc[i - 1], s[i]) ELSE acc[i - 1]
  <2>1. acc[i] = F[<<acc[i - 1], i>>]
    BY <1>4 DEF IsLoop
  <2>2. acc[i - 1] \in R
    BY <1>1
  <2> QED  BY <2>1, <2>2
<1>6. acc[0] = <<>>
  BY <1>4 DEF IsLoop
<1> HIDE DEF F
<1> QED
  BY <1>5, <1>6 DEF KeptLoop

\* Kept, element by element.
LEMMA KeptEmpty ==
    ASSUME NEW S
    PROVE  Kept(<<>>, S) = <<>>
<1> DEFINE X == {}
<1> DEFINE acc == [i \in 0..0 |-> <<>>]
<1>1. <<>> \in Seq(X) /\ Len(<<>>) = 0
  BY EmptySeq
<1>2. acc \in [0..Len(<<>>) -> Seq(X)] /\ KeptLoop(acc, <<>>, S)
  BY <1>1 DEF KeptLoop
<1> HIDE DEF acc
<1>3. Kept(<<>>, S) = acc[Len(<<>>)]
  BY <1>1, <1>2, KeptOfLoop
<1> QED  BY <1>1, <1>2, <1>3

\* One more element is kept at the end, or not at all.
LEMMA KeptAppend ==
    ASSUME NEW X, NEW S, NEW s \in Seq(X), NEW e \in X
    PROVE  /\ Kept(s, S) \in Seq(X)
           /\ e \in S => Kept(Append(s, e), S) = Append(Kept(s, S), e)
           /\ e \notin S => Kept(Append(s, e), S) = Kept(s, S)
<1> DEFINE t == Append(s, e)
           N == Len(s)
<1>1. /\ N \in Nat /\ t \in Seq(X) /\ Len(t) = N + 1 /\ t[N + 1] = e
      /\ \A i \in 1..N : t[i] = s[i]
  BY AppendProperties, LenProperties
<1> HIDE DEF t
<1>2. PICK acc \in [0..Len(t) -> Seq(X)] : KeptLoop(acc, t, S)
  BY <1>1, KeptLoopExists
<1> DEFINE part == [i \in 0..N |-> acc[i]]
<1>3. part \in [0..Len(s) -> Seq(X)] /\ KeptLoop(part, s, S)
  <2>1. part \in [0..Len(s) -> Seq(X)] /\ part[0] = <<>>
    BY <1>1, <1>2 DEF KeptLoop
  <2>2. ASSUME NEW i \in 1..N
        PROVE  part[i] = IF s[i] \in S THEN Append(part[i - 1], s[i]) ELSE part[i - 1]
    <3>1. i \in 1..(N + 1) /\ i \in 0..N /\ i - 1 \in 0..N
      BY <1>1
    <3>2. acc[i] = IF t[i] \in S THEN Append(acc[i - 1], t[i]) ELSE acc[i - 1]
      BY <1>1, <1>2, <3>1 DEF KeptLoop
    <3> QED  BY <1>1, <3>1, <3>2
  <2> QED  BY <2>1, <2>2 DEF KeptLoop
<1>4. Kept(s, S) = acc[N] /\ acc[N] \in Seq(X)
  <2>1. part[N] = acc[N] /\ acc[N] \in Seq(X)
    BY <1>1
  <2> HIDE DEF part
  <2>2. Kept(s, S) = part[Len(s)]
    BY <1>3, KeptOfLoop
  <2> QED  BY <2>1, <2>2
<1>5. Kept(t, S) = acc[N + 1]
  BY <1>1, <1>2, KeptOfLoop
<1>6. acc[N + 1] = IF e \in S THEN Append(acc[N], e) ELSE acc[N]
  <2>1. N + 1 \in 1..(N + 1) /\ (N + 1) - 1 = N
    BY <1>1
  <2> QED  BY <1>1, <1>2, <2>1 DEF KeptLoop
<1> QED  BY <1>4, <1>5, <1>6 DEF t

\* The elements of a sequence with one more.
LEMMA ToSetOfAppend ==
    ASSUME NEW X, NEW s \in Seq(X), NEW e \in X
    PROVE  ToSet(Append(s, e)) = ToSet(s) \cup {e}
<1>1. /\ Len(s) \in Nat /\ Len(Append(s, e)) = Len(s) + 1
      /\ Append(s, e)[Len(s) + 1] = e
      /\ \A i \in 1..Len(s) : Append(s, e)[i] = s[i]
      /\ DOMAIN s = 1..Len(s) /\ DOMAIN Append(s, e) = 1..(Len(s) + 1)
  BY AppendProperties, LenProperties
<1>2. 1..(Len(s) + 1) = (1..Len(s)) \cup {Len(s) + 1}
  BY <1>1
<1> QED
  BY <1>1, <1>2 DEF ToSet

\* It keeps what it should, and nothing else.
LEMMA KeptSet ==
    ASSUME NEW X, NEW s \in Seq(X), NEW S
    PROVE  Kept(s, S) \in Seq(X) /\ ToSet(Kept(s, S)) = ToSet(s) \cap S
<1> DEFINE H == {q \in Seq(X) : Kept(q, S) \in Seq(X)
                                /\ ToSet(Kept(q, S)) = ToSet(q) \cap S}
<1>1. <<>> \in H
  <2>1. <<>> \in Seq(X) /\ ToSet(<<>>) = {}
    BY EmptySeq DEF ToSet
  <2> QED  BY <2>1, KeptEmpty
<1>2. ASSUME NEW q \in Seq(X), NEW e \in X, q \in H
      PROVE  Append(q, e) \in H
  <2>1. Append(q, e) \in Seq(X)
    BY AppendProperties
  <2>2. ToSet(Append(q, e)) = ToSet(q) \cup {e}
    BY ToSetOfAppend
  <2>3. CASE e \in S
    <3>1. Kept(Append(q, e), S) = Append(Kept(q, S), e)
      BY <2>3, KeptAppend
    <3>2. ToSet(Append(Kept(q, S), e)) = ToSet(Kept(q, S)) \cup {e}
      BY <1>2, ToSetOfAppend
    <3>3. Append(Kept(q, S), e) \in Seq(X)
      BY <1>2, AppendProperties
    <3> QED  BY <1>2, <2>1, <2>2, <2>3, <3>1, <3>2, <3>3
  <2>4. CASE e \notin S
    <3>1. Kept(Append(q, e), S) = Kept(q, S)
      BY <2>4, KeptAppend
    <3> QED  BY <1>2, <2>1, <2>2, <2>4, <3>1
  <2> QED  BY <2>3, <2>4
<1>3. Seq(X) \subseteq H
  <2> HIDE DEF H
  <2> QED  BY <1>1, <1>2, SeqInduction
<1> QED
  BY <1>3

\* What it keeps depends on the set's elements in the sequence only.
LEMMA KeptOfSame ==
    ASSUME NEW X, NEW s \in Seq(X), NEW S, NEW T, ToSet(s) \cap S = ToSet(s) \cap T
    PROVE  Kept(s, S) = Kept(s, T)
<1> DEFINE H == {q \in Seq(X) : ToSet(q) \cap S = ToSet(q) \cap T
                                   => Kept(q, S) = Kept(q, T)}
<1>1. <<>> \in H
  BY EmptySeq, KeptEmpty
<1>2. ASSUME NEW q \in Seq(X), NEW e \in X, q \in H
      PROVE  Append(q, e) \in H
  <2>1. SUFFICES ASSUME ToSet(Append(q, e)) \cap S = ToSet(Append(q, e)) \cap T
                 PROVE  Kept(Append(q, e), S) = Kept(Append(q, e), T)
    BY AppendProperties
  <2>2. ToSet(Append(q, e)) = ToSet(q) \cup {e}
    BY ToSetOfAppend
  <2>3. ToSet(q) \cap S = ToSet(q) \cap T /\ (e \in S <=> e \in T)
    BY <2>1, <2>2
  <2>4. Kept(q, S) = Kept(q, T)
    BY <1>2, <2>3
  <2>5. CASE e \in S
    BY <2>3, <2>4, <2>5, KeptAppend
  <2>6. CASE e \notin S
    BY <2>3, <2>4, <2>6, KeptAppend
  <2> QED  BY <2>5, <2>6
<1>3. Seq(X) \subseteq H
  <2> HIDE DEF H
  <2> QED  BY <1>1, <1>2, SeqInduction
<1> QED
  BY <1>3

\* Nothing kept.
LEMMA KeptNothing ==
    ASSUME NEW X, NEW s \in Seq(X), NEW S, ToSet(s) \cap S = {}
    PROVE  Kept(s, S) = <<>>
<1>1. ToSet(Kept(s, S)) = {} /\ Kept(s, S) \in Seq(X)
  BY KeptSet
<1>2. Len(Kept(s, S)) \in Nat /\ DOMAIN Kept(s, S) = 1..Len(Kept(s, S))
  BY <1>1, LenProperties
<1>3. 1 \notin DOMAIN Kept(s, S)
  BY <1>1 DEF ToSet
<1>4. Len(Kept(s, S)) = 0
  BY <1>2, <1>3
<1> QED
  BY <1>1, <1>4, EmptySeq

\* Twice kept.
LEMMA KeptTwice ==
    ASSUME NEW X, NEW s \in Seq(X), NEW S, NEW T
    PROVE  Kept(Kept(s, S), T) = Kept(s, S \cap T)
<1> DEFINE H == {q \in Seq(X) : Kept(Kept(q, S), T) = Kept(q, S \cap T)}
<1>0. \A q \in Seq(X), e \in X :
        /\ Kept(q, S) \in Seq(X) /\ Append(q, e) \in Seq(X)
        /\ Kept(Append(q, e), S) = IF e \in S THEN Append(Kept(q, S), e) ELSE Kept(q, S)
        /\ Kept(Append(q, e), T) = IF e \in T THEN Append(Kept(q, T), e) ELSE Kept(q, T)
        /\ Kept(Append(q, e), S \cap T) =
              IF e \in S \cap T THEN Append(Kept(q, S \cap T), e) ELSE Kept(q, S \cap T)
  <2>1. ASSUME NEW q \in Seq(X), NEW e \in X
        PROVE  Kept(q, S) \in Seq(X) /\ Append(q, e) \in Seq(X)
    BY KeptSet, AppendProperties
  <2>2. ASSUME NEW q \in Seq(X), NEW e \in X, NEW U
        PROVE  Kept(Append(q, e), U) = IF e \in U THEN Append(Kept(q, U), e) ELSE Kept(q, U)
    BY KeptAppend
  <2> QED  BY <2>1, <2>2
<1>1. <<>> \in H
  BY EmptySeq, KeptEmpty
<1>2. ASSUME NEW q \in Seq(X), NEW e \in X, q \in H
      PROVE  Append(q, e) \in H
  <2>1. CASE e \in S
    <3>1. Kept(Kept(Append(q, e), S), T) = Kept(Append(Kept(q, S), e), T)
      BY <1>0, <2>1
    <3>2. Kept(Append(Kept(q, S), e), T) =
              IF e \in T THEN Append(Kept(Kept(q, S), T), e) ELSE Kept(Kept(q, S), T)
      BY <1>0
    <3> QED  BY <1>0, <1>2, <2>1, <3>1, <3>2
  <2>2. CASE e \notin S
    BY <1>0, <1>2, <2>2
  <2> QED  BY <2>1, <2>2
<1>3. Seq(X) \subseteq H
  <2> HIDE DEF H
  <2> QED  BY <1>1, <1>2, SeqInduction
<1> QED
  BY <1>3

\* Of two sequences one after the other.
LEMMA KeptOfConcat ==
    ASSUME NEW X, NEW s \in Seq(X), NEW t \in Seq(X), NEW S
    PROVE  Kept(s \o t, S) = Kept(s, S) \o Kept(t, S)
<1> DEFINE H == {q \in Seq(X) : Kept(s \o q, S) = Kept(s, S) \o Kept(q, S)}
<1>1. <<>> \in H
  <2>1. <<>> \in Seq(X) /\ Kept(s, S) \in Seq(X)
    BY EmptySeq, KeptSet
  <2>2. s \o <<>> = s /\ Kept(s, S) \o <<>> = Kept(s, S)
    BY <2>1, ConcatEmptySeq
  <2> QED  BY <2>1, <2>2, KeptEmpty
<1>2. ASSUME NEW q \in Seq(X), NEW e \in X, q \in H
      PROVE  Append(q, e) \in H
  <2>1. /\ Append(q, e) \in Seq(X) /\ s \o q \in Seq(X)
        /\ Kept(s, S) \in Seq(X) /\ Kept(q, S) \in Seq(X)
    BY KeptSet, AppendProperties, ConcatProperties
  <2>2. s \o Append(q, e) = Append(s \o q, e)
    BY AppendIsConcat, ConcatAssociative, <2>1
  <2>3. CASE e \in S
    <3>1. Kept(s \o Append(q, e), S) = Append(Kept(s \o q, S), e)
      <4> DEFINE both == s \o q
      <4>1. both \in Seq(X)
        BY <2>1
      <4> HIDE DEF both
      <4>2. Kept(Append(both, e), S) = Append(Kept(both, S), e)
        BY <2>3, <4>1, KeptAppend
      <4> QED  BY <2>2, <4>2 DEF both
    <3>2. Kept(Append(q, e), S) = Append(Kept(q, S), e)
      BY <2>3, KeptAppend
    <3> DEFINE a == Kept(s, S)
               b == Kept(q, S)
    <3>3. a \o Append(b, e) = Append(a \o b, e)
      <4>1. a \in Seq(X) /\ b \in Seq(X)
        BY <2>1
      <4> HIDE DEF a, b
      <4> QED  BY <4>1, AppendIsConcat, ConcatAssociative
    <3> QED  BY <1>2, <2>1, <3>1, <3>2, <3>3
  <2>4. CASE e \notin S
    <3>1. Kept(Append(s \o q, e), S) = Kept(s \o q, S)
      <4> DEFINE both == s \o q
      <4>1. both \in Seq(X)
        BY <2>1
      <4> HIDE DEF both
      <4>2. Kept(Append(both, e), S) = Kept(both, S)
        BY <2>4, <4>1, KeptAppend
      <4> QED  BY <4>2 DEF both
    <3>2. Kept(Append(q, e), S) = Kept(q, S)
      BY <2>4, KeptAppend
    <3> QED  BY <1>2, <2>1, <2>2, <3>1, <3>2
  <2> QED  BY <2>3, <2>4
<1>3. Seq(X) \subseteq H
  <2> HIDE DEF H
  <2> QED  BY <1>1, <1>2, SeqInduction
<1> QED
  BY <1>3
-----------------------------------------------------------------------------
(***************************************************************************)
(* The documents of the model: an object has keys the model knows, each    *)
(* once a member; what is below a value is one level lower.                *)
(***************************************************************************)
PlainKeys ==
    {"0alpha", "actor", "blastRadius", "by", "byTimeout",
     "cacheCreationTokens", "cacheReadTokens", "cause", "ceilings",
     "controlId", "costUsd", "count", "decisionId", "detail", "dossier",
     "durationMs", "estimated", "expiresAt", "field", "harness", "id",
     "idleMs", "inputExcerpt", "inputTokens", "isError", "kind", "label",
     "landedIn", "max", "message", "model", "ok", "onTimeout", "optionId",
     "options", "optionsRuledOut", "outcome", "outputTokens", "parentRunId",
     "parentToolUseId", "pid", "question", "reason", "recommendedAction",
     "repository", "requestedRunId", "resultExcerpt", "reversal", "schedule",
     "sessionId", "sourceRunId", "sourceSeq", "sourceType", "stage",
     "subject", "text", "tokens", "tool", "toolUseId", "truncated", "turns",
     "unit", "usage", "wallMs", "workOrder", "zzzTail"}

AllKeys == PlainKeys \cup {"9", "10", "__proto__"}
DocKeys == PlainKeys \cup OddKeys \cup (IF "indices" \in Odd THEN {"9", "10"} ELSE {})

Spelling ==
    Types \cup
    {"", "long", "huge", "wide", "some", "loop", "answer", "steer", "interrupt",
     "permission", "budget", "completed", "gap", "deny", "allow", "rejected",
     "x.other", "lone"}

NumberKinds ==
    {"count", "negative", "fraction", "unsafe", "unsafe_wide", "unsafe_float", "zero", "one",
     "integral_float", "inexact", "overflow"}

LeafDoc ==
    {Str(s) : s \in Spelling} \cup {Bool(TRUE), Bool(FALSE), Null} \cup
    {Num(kind) : kind \in NumberKinds}

ObjectsOver(S) ==
    {o \in [tag : {"object"}, keys : Seq(DocKeys),
            members : UNION {[X -> S] : X \in SUBSET DocKeys}] :
        ToSet(o.keys) = DOMAIN o.members}
ArraysOver(S) == [tag : {"array"}, items : {s \in Seq(S) : Len(s) <= 2}]
DocsOver(S) == LeafDoc \cup ObjectsOver(S) \cup ArraysOver(S)

Doc0 == {}
Doc1 == DocsOver(Doc0)
Doc2 == DocsOver(Doc1)
Doc3 == DocsOver(Doc2)
Doc4 == DocsOver(Doc3)
Doc5 == DocsOver(Doc4)

\* The keys the model sorts are the keys of its documents.
LEMMA KeyOrderKeys ==
    /\ KeyOrder \in Seq(AllKeys) /\ ToSet(KeyOrder) = AllKeys
    /\ DocKeys \subseteq AllKeys
<1>1. KeyOrder \in Seq(AllKeys)
  BY DEF KeyOrder, AllKeys, PlainKeys
<1>2. ToSet(KeyOrder) = AllKeys
  BY DEF ToSet, KeyOrder, AllKeys, PlainKeys
<1> QED
  BY <1>1, <1>2 DEF DocKeys, AllKeys, OddKeys

\* What a leaf is not.
LEMMA LeafIsSimple ==
    ASSUME NEW v \in LeafDoc
    PROVE  /\ v.tag \in {"string", "boolean", "number", "null"}
           /\ Places(v) = {}
  BY DEF LeafDoc, Str, Num, Bool, Null, Places

\* An object and its members.
LEMMA ObjectParts ==
    ASSUME NEW S, NEW v \in ObjectsOver(S)
    PROVE  /\ v.tag = "object" /\ v = Object(v.keys, v.members)
           /\ Places(v) = Keys(v) /\ Keys(v) = DOMAIN v.members
           /\ Keys(v) = ToSet(v.keys) /\ Keys(v) \subseteq DocKeys
           /\ v.keys \in Seq(DocKeys)
           /\ v.members \in [Keys(v) -> S]
           /\ \A p \in Keys(v) : Child(v, p) = v.members[p] /\ v.members[p] \in S
<1>1. /\ v.tag = "object" /\ v.keys \in Seq(DocKeys)
      /\ v.members \in UNION {[X -> S] : X \in SUBSET DocKeys}
      /\ ToSet(v.keys) = DOMAIN v.members
      /\ v = Object(v.keys, v.members)
  BY DEF ObjectsOver, Object
<1>2. v.members \in [Keys(v) -> S] /\ Keys(v) \subseteq DocKeys
  BY <1>1 DEF Keys
<1> QED
  BY <1>1, <1>2 DEF Keys, Places, Child

\* An array and its items.
LEMMA ArrayParts ==
    ASSUME NEW S, NEW v \in ArraysOver(S)
    PROVE  /\ v.tag = "array" /\ v = Arr(v.items) /\ v.items \in Seq(S)
           /\ Places(v) = DOMAIN v.items /\ Places(v) = 1..Len(v.items)
           /\ Len(v.items) \in Nat /\ Len(v.items) <= 2
           /\ \A p \in Places(v) : Child(v, p) = v.items[p] /\ v.items[p] \in S
<1>1. v.tag = "array" /\ v = Arr(v.items) /\ v.items \in Seq(S) /\ Len(v.items) <= 2
  BY DEF ArraysOver, Arr
<1>2. Places(v) = DOMAIN v.items
  BY <1>1 DEF Places
<1>3. DOMAIN v.items = 1..Len(v.items) /\ Len(v.items) \in Nat
  BY <1>1, LenProperties
<1>4. \A p \in Places(v) : Child(v, p) = v.items[p] /\ v.items[p] \in S
  BY <1>1, <1>2, <1>3, ElementOfSeq DEF Child
<1> QED
  BY <1>1, <1>2, <1>3, <1>4

\* What is below a value of a level is of the level below.
LEMMA ChildOf ==
    ASSUME NEW S, NEW v \in DocsOver(S), NEW p \in Places(v)
    PROVE  Child(v, p) \in S
  BY LeafIsSimple, ObjectParts, ArrayParts DEF DocsOver

\* Objects and arrays of parts of a level are values of the next.
LEMMA ObjectMade ==
    ASSUME NEW S, NEW X \in SUBSET DocKeys, NEW members \in [X -> S],
           NEW keys \in Seq(DocKeys), ToSet(keys) = X
    PROVE  Object(keys, members) \in ObjectsOver(S)
  BY DEF ObjectsOver, Object

\* An array of at most two such values is one.
LEMMA ArrayMade ==
    ASSUME NEW S, NEW items \in Seq(S), Len(items) <= 2
    PROVE  Arr(items) \in ArraysOver(S)
  BY DEF ArraysOver, Arr

\* A sequence is one of its own elements.
LEMMA SeqOfOwn ==
    ASSUME NEW X, NEW s \in Seq(X), NEW Y, ToSet(s) \subseteq Y
    PROVE  s \in Seq(Y)
<1>1. /\ s \in [1..Len(s) -> X] /\ Len(s) \in Nat
      /\ DOMAIN s = 1..Len(s)
  BY LenProperties, ElementOfSeq
<1>2. \A i \in 1..Len(s) : s[i] \in Y
  BY <1>1 DEF ToSet
<1>3. s \in [1..Len(s) -> Y]
  BY <1>1, <1>2
<1> QED
  BY <1>1, <1>3, SeqDef

\* The elements of two sequences one after the other.
LEMMA ToSetOfConcat ==
    ASSUME NEW X, NEW s \in Seq(X), NEW t \in Seq(X)
    PROVE  ToSet(s \o t) = ToSet(s) \cup ToSet(t)
<1>1. /\ s \o t \in Seq(X) /\ Len(s \o t) = Len(s) + Len(t)
      /\ \A i \in 1..(Len(s) + Len(t)) :
            (s \o t)[i] = IF i <= Len(s) THEN s[i] ELSE t[i - Len(s)]
      /\ Len(s) \in Nat /\ Len(t) \in Nat
      /\ DOMAIN s = 1..Len(s) /\ DOMAIN t = 1..Len(t)
      /\ DOMAIN (s \o t) = 1..(Len(s) + Len(t))
  BY ConcatProperties, LenProperties
<1>2. ASSUME NEW x \in ToSet(s \o t)
      PROVE  x \in ToSet(s) \cup ToSet(t)
  <2>1. PICK i \in 1..(Len(s) + Len(t)) : x = (s \o t)[i]
    BY <1>1 DEF ToSet
  <2>2. CASE i <= Len(s)
    <3>1. i \in 1..Len(s)
      BY <1>1, <2>2
    <3> QED  BY <1>1, <2>1, <2>2, <3>1 DEF ToSet
  <2>3. CASE ~(i <= Len(s))
    <3>1. i - Len(s) \in 1..Len(t)
      BY <1>1, <2>3
    <3> QED  BY <1>1, <2>1, <2>3, <3>1 DEF ToSet
  <2> QED  BY <2>2, <2>3
<1>3. ASSUME NEW i \in 1..Len(s)
      PROVE  s[i] \in ToSet(s \o t)
  <2>1. i \in 1..(Len(s) + Len(t)) /\ i <= Len(s)
    BY <1>1
  <2> QED  BY <1>1, <2>1 DEF ToSet
<1>4. ASSUME NEW i \in 1..Len(t)
      PROVE  t[i] \in ToSet(s \o t)
  <2> DEFINE j == Len(s) + i
  <2>1. j \in 1..(Len(s) + Len(t)) /\ ~(j <= Len(s)) /\ j - Len(s) = i
    BY <1>1
  <2> HIDE DEF j
  <2>2. (s \o t)[j] = t[i]
    BY <1>1, <2>1
  <2> QED  BY <1>1, <2>1, <2>2 DEF ToSet
<1>5. ToSet(s) \subseteq ToSet(s \o t) /\ ToSet(t) \subseteq ToSet(s \o t)
  BY <1>1, <1>3, <1>4 DEF ToSet
<1> QED
  BY <1>2, <1>5
-----------------------------------------------------------------------------
(***************************************************************************)
(* The walks at one value.                                                 *)
(***************************************************************************)

\* What readers and serialisers do to leaves: numbers become other numbers, or
\* null; nothing else changes.
Tame(r) ==
    \A leaf \in LeafDoc :
        /\ Replace(leaf, r) \in LeafDoc
        /\ leaf.tag # "number" => Replace(leaf, r) = leaf
        /\ leaf.tag = "number" => Replace(leaf, r).tag \in {"number", "null"}

\* The keys an object is rewritten with are its own.
LEMMA ReorderedKeys ==
    ASSUME NEW S, NEW v \in ObjectsOver(S), NEW keys \in Seq(AllKeys)
    PROVE  /\ Reordered(v, keys) \in Seq(DocKeys)
           /\ ToSet(Reordered(v, keys)) = Keys(v)
<1> DEFINE first == Kept(keys, Keys(v))
           rest == Kept(v.keys, Keys(v) \ ToSet(keys))
<1>1. v.keys \in Seq(DocKeys) /\ ToSet(v.keys) = Keys(v) /\ Keys(v) \subseteq DocKeys
  BY ObjectParts
<1>2. first \in Seq(AllKeys) /\ ToSet(first) = ToSet(keys) \cap Keys(v)
  BY KeptSet
<1>3. rest \in Seq(DocKeys) /\ ToSet(rest) = Keys(v) \ ToSet(keys)
  <2>1. rest \in Seq(DocKeys) /\ ToSet(rest) = ToSet(v.keys) \cap (Keys(v) \ ToSet(keys))
    BY <1>1, KeptSet
  <2> QED  BY <1>1, <2>1
<1> HIDE DEF first, rest
<1>4. first \in Seq(DocKeys)
  BY <1>1, <1>2, SeqOfOwn
<1>5. first \o rest \in Seq(DocKeys) /\ ToSet(first \o rest) = Keys(v)
  <2>1. ToSet(first \o rest) = ToSet(first) \cup ToSet(rest)
    BY <1>3, <1>4, ToSetOfConcat
  <2>2. first \o rest \in Seq(DocKeys)
    BY <1>3, <1>4, ConcatProperties
  <2> QED  BY <1>2, <1>3, <2>1, <2>2
<1> QED
  BY <1>5 DEF Reordered, first, rest

\* What becomes of a leaf, of an object and of an array.
LEMMA RewriteLeaf ==
    ASSUME NEW v \in LeafDoc, NEW keys, NEW r, NEW below
    PROVE  RewriteOver(v, keys, r, below) = Replace(v, r)
  BY LeafIsSimple DEF RewriteOver

\* The walk over an object rewrites what is in it and orders its keys.
LEMMA RewriteObject ==
    ASSUME NEW S, NEW v \in ObjectsOver(S), NEW keys, NEW r, NEW below
    PROVE  RewriteOver(v, keys, r, below) = Object(Reordered(v, keys), below)
  BY ObjectParts DEF RewriteOver

\* The walk over an array rewrites what is in it.
LEMMA RewriteArray ==
    ASSUME NEW S, NEW v \in ArraysOver(S), NEW keys, NEW r, NEW below
    PROVE  RewriteOver(v, keys, r, below) = Arr(below)
  BY ArrayParts DEF RewriteOver

\* A rewritten value has the places of the old one, with what was made of the
\* values there.
LEMMA RewriteParts ==
    ASSUME NEW S, NEW v \in DocsOver(S), v \notin LeafDoc,
           NEW keys, NEW r, NEW below, DOMAIN below = Places(v)
    PROVE  /\ Places(RewriteOver(v, keys, r, below)) = Places(v)
           /\ \A p \in Places(v) :
                 Child(RewriteOver(v, keys, r, below), p) = below[p]
<1>2. CASE v \in ObjectsOver(S)
  <2>1. v.tag = "object" /\ Places(v) = Keys(v)
    BY <1>2, ObjectParts
  <2>2. RewriteOver(v, keys, r, below) = Object(Reordered(v, keys), below)
    BY <1>2, RewriteObject
  <2> QED  BY <2>1, <2>2 DEF Object, Places, Keys, Child
<1>3. CASE v \in ArraysOver(S)
  <2>1. v.tag = "array"
    BY <1>3, ArrayParts
  <2>2. RewriteOver(v, keys, r, below) = Arr(below)
    BY <1>3, RewriteArray
  <2> QED  BY <2>1, <2>2 DEF Arr, Places, Child
<1> QED
  BY <1>2, <1>3 DEF DocsOver

\* Rewriting makes a value of the same level.
LEMMA RewriteTyped ==
    ASSUME NEW S, NEW T, NEW v \in DocsOver(S), NEW keys \in Seq(AllKeys), NEW r, Tame(r),
           NEW below \in [Places(v) -> T]
    PROVE  RewriteOver(v, keys, r, below) \in DocsOver(T)
<1> DEFINE w == RewriteOver(v, keys, r, below)
<1>1. CASE v \in LeafDoc
  <2>1. w = Replace(v, r)
    BY <1>1, RewriteLeaf
  <2> QED  BY <1>1, <2>1 DEF Tame, DocsOver
<1>2. CASE v \in ObjectsOver(S)
  <2>1. /\ v.tag = "object" /\ Places(v) = Keys(v) /\ Keys(v) \in SUBSET DocKeys
    BY <1>2, ObjectParts
  <2>2. w = Object(Reordered(v, keys), below)
    BY <2>1 DEF RewriteOver
  <2>3. Object(Reordered(v, keys), below) \in ObjectsOver(T)
    BY <1>2, <2>1, ReorderedKeys, ObjectMade
  <2> QED  BY <2>2, <2>3 DEF DocsOver
<1>3. CASE v \in ArraysOver(S)
  <2>1. /\ v.tag = "array" /\ Places(v) = 1..Len(v.items)
        /\ Len(v.items) \in Nat /\ Len(v.items) <= 2
    BY <1>3, ArrayParts
  <2>2. w = Arr(below)
    BY <2>1 DEF RewriteOver
  <2>3. below \in [1..Len(v.items) -> T] /\ below \in Seq(T)
    BY <2>1, SeqDef
  <2>4. Len(below) = Len(v.items)
    BY <2>1, <2>3, LenProperties
  <2>5. Arr(below) \in ArraysOver(T)
    BY <2>1, <2>3, <2>4, ArrayMade
  <2> QED  BY <2>2, <2>5 DEF DocsOver
<1> QED
  BY <1>1, <1>2, <1>3 DEF DocsOver

\* Two sort orders that order the keys of documents the same way.
SameOrder(keys1, keys2) ==
    /\ keys1 \in Seq(AllKeys) /\ keys2 \in Seq(AllKeys)
    /\ DocKeys \subseteq ToSet(keys1) /\ DocKeys \subseteq ToSet(keys2)
    /\ \A X \in SUBSET DocKeys : Kept(keys1, X) = Kept(keys2, X)

\* An order is itself.
LEMMA OrderIsItself ==
    ASSUME NEW keys \in Seq(AllKeys), DocKeys \subseteq ToSet(keys)
    PROVE  SameOrder(keys, keys)
  BY DEF SameOrder

\* Where every key is listed, the list alone decides the order.
LEMMA ReorderedByAll ==
    ASSUME NEW S, NEW v \in ObjectsOver(S), NEW keys \in Seq(AllKeys),
           DocKeys \subseteq ToSet(keys)
    PROVE  Reordered(v, keys) = Kept(keys, Keys(v))
<1>1. v.keys \in Seq(DocKeys) /\ Keys(v) \subseteq DocKeys
  BY ObjectParts
<1>2. Kept(v.keys, Keys(v) \ ToSet(keys)) = <<>>
  <2>1. ToSet(v.keys) \cap (Keys(v) \ ToSet(keys)) = {}
    BY <1>1
  <2> QED  BY <1>1, <2>1, KeptNothing
<1>3. Kept(keys, Keys(v)) \in Seq(AllKeys)
  BY KeptSet
<1> QED
  BY <1>2, <1>3, ConcatEmptySeq DEF Reordered

\* Rewritten twice, the second time with every key listed: once is enough.
LEMMA RewriteTwiceOver ==
    ASSUME NEW S, NEW v \in DocsOver(S), NEW keys1 \in Seq(AllKeys),
           NEW keys2, NEW keys3, SameOrder(keys2, keys3),
           NEW r1, NEW r2, NEW r3, Tame(r1),
           \A leaf \in LeafDoc : Replace(Replace(leaf, r1), r2) = Replace(leaf, r3),
           NEW below1 \in [Places(v) -> S], NEW below
    PROVE  RewriteOver(RewriteOver(v, keys1, r1, below1), keys2, r2, below)
             = RewriteOver(v, keys3, r3, below)
<1> DEFINE w == RewriteOver(v, keys1, r1, below1)
<1>1. CASE v \in LeafDoc
  <2>1. w = Replace(v, r1) /\ w \in LeafDoc
    BY <1>1, RewriteLeaf DEF Tame
  <2> HIDE DEF w
  <2>2. /\ RewriteOver(w, keys2, r2, below) = Replace(w, r2)
        /\ RewriteOver(v, keys3, r3, below) = Replace(v, r3)
    BY <1>1, <2>1, RewriteLeaf
  <2>3. Replace(w, r2) = Replace(v, r3)
    BY <1>1, <2>1
  <2> QED  BY <2>2, <2>3 DEF w
<1>2. CASE v \in ObjectsOver(S)
  <2>1. w \in ObjectsOver(S) /\ Keys(w) = Keys(v)
    <3>1. v.tag = "object" /\ Places(v) = Keys(v) /\ Keys(v) \in SUBSET DocKeys
      BY <1>2, ObjectParts
    <3>2. w = Object(Reordered(v, keys1), below1)
      BY <3>1 DEF RewriteOver
    <3> QED  BY <1>2, <3>1, <3>2, ReorderedKeys, ObjectMade DEF Object, Keys
  <2>2. v.tag = "object" /\ w.tag = "object" /\ Keys(v) \in SUBSET DocKeys
    BY <1>2, <2>1, ObjectParts
  <2>3. /\ RewriteOver(w, keys2, r2, below) = Object(Reordered(w, keys2), below)
        /\ RewriteOver(v, keys3, r3, below) = Object(Reordered(v, keys3), below)
    BY <2>2 DEF RewriteOver
  <2>4. Reordered(w, keys2) = Kept(keys2, Keys(w))
    BY <2>1, ReorderedByAll DEF SameOrder
  <2>5. Reordered(v, keys3) = Kept(keys3, Keys(v))
    BY <1>2, ReorderedByAll DEF SameOrder
  <2>6. Kept(keys2, Keys(v)) = Kept(keys3, Keys(v))
    BY <2>2 DEF SameOrder
  <2> QED  BY <2>1, <2>3, <2>4, <2>5, <2>6
<1>3. CASE v \in ArraysOver(S)
  <2>1. v.tag = "array"
    BY <1>3, ArrayParts
  <2>2. w.tag = "array"
    BY <2>1 DEF RewriteOver, Arr
  <2> QED  BY <2>1, <2>2 DEF RewriteOver
<1> QED
  BY <1>1, <1>2, <1>3 DEF DocsOver

\* What the leaves of a walk are, without their places.
Values(leaves) == {leaf.value : leaf \in leaves}

\* A leaf holds itself; an object or an array what its parts hold.
LEMMA LeavesParts ==
    ASSUME NEW S, NEW v \in DocsOver(S), NEW below
    PROVE  /\ v \in LeafDoc => Values(LeavesOver(v, below)) = {v}
           /\ v \notin LeafDoc =>
                 Values(LeavesOver(v, below)) = UNION {Values(below[p]) : p \in Places(v)}
<1>1. CASE v \in LeafDoc
  <2>1. LeavesOver(v, below) = {Leaf(<<>>, <<>>, v)}
    BY <1>1, LeafIsSimple DEF LeavesOver
  <2>2. Leaf(<<>>, <<>>, v).value = v
    BY DEF Leaf
  <2> QED  BY <1>1, <2>1, <2>2 DEF Values
<1>2. CASE v \notin LeafDoc
  <2>1. v.tag \in {"object", "array"}
    BY <1>2, ObjectParts, ArrayParts DEF DocsOver
  <2>2. LeavesOver(v, below) =
           UNION {{Under(v, place, leaf) : leaf \in below[place]} : place \in Places(v)}
    BY <2>1 DEF LeavesOver
  <2>3. \A place, leaf : Under(v, place, leaf).value = leaf.value
    BY DEF Under, Leaf
  <2> QED  BY <1>2, <2>2, <2>3 DEF Values
<1> QED
  BY <1>1, <1>2

\* The bytes of a value, from those of its parts.
LEMMA BytesParts ==
    ASSUME NEW S, NEW v \in DocsOver(S), NEW keys, NEW r, Tame(r),
           NEW below, DOMAIN below = Places(v), NEW bytes
    PROVE  BytesOver(RewriteOver(v, keys, r, below), bytes) = BytesOver(v, bytes)
<1>1. CASE v \in LeafDoc
  <2>1. RewriteOver(v, keys, r, below) = Replace(v, r)
    BY <1>1, RewriteLeaf
  <2>2. CASE v.tag = "number"
    BY <1>1, <2>1, <2>2 DEF Tame, BytesOver
  <2>3. CASE v.tag # "number"
    BY <1>1, <2>1, <2>3 DEF Tame
  <2> QED  BY <2>2, <2>3
<1>2. CASE v \notin LeafDoc
  <2>1. PICK w : w = RewriteOver(v, keys, r, below)
    OBVIOUS
  <2>2. v.tag \in {"object", "array"} /\ w.tag = v.tag
    BY <1>2, <2>1, ObjectParts, ArrayParts DEF DocsOver, RewriteOver, Object, Arr
  <2>3. Places(w) = Places(v)
    BY <1>2, <2>1, RewriteParts
  <2>4. BytesOver(w, bytes) = BytesOver(v, bytes)
    BY <2>2, <2>3 DEF BytesOver
  <2> QED  BY <2>1, <2>4
<1> QED
  BY <1>1, <1>2

\* The places of a rewritten value, also of a leaf, which has none.
LEMMA RewritePlaces ==
    ASSUME NEW S, NEW v \in DocsOver(S), NEW keys, NEW r, Tame(r),
           NEW below, DOMAIN below = Places(v)
    PROVE  Places(RewriteOver(v, keys, r, below)) = Places(v)
<1>1. CASE v \in LeafDoc
  <2>1. RewriteOver(v, keys, r, below) = Replace(v, r) /\ Replace(v, r) \in LeafDoc
    BY <1>1, RewriteLeaf DEF Tame
  <2> QED  BY <1>1, <2>1, LeafIsSimple
<1>2. CASE v \notin LeafDoc
  BY <1>2, RewriteParts
<1> QED
  BY <1>1, <1>2

\* And what is at them.
LEMMA RewriteChild ==
    ASSUME NEW S, NEW v \in DocsOver(S), NEW keys, NEW r,
           NEW below, DOMAIN below = Places(v), NEW p \in Places(v)
    PROVE  Child(RewriteOver(v, keys, r, below), p) = below[p]
<1>1. v \notin LeafDoc
  BY LeafIsSimple
<1> QED
  BY <1>1, RewriteParts

\* What was made of the parts has the leaves of the parts, replaced.
Replaced(parts, old, new, r) ==
    \A p \in parts : Values(new[p]) = {Replace(leaf, r) : leaf \in Values(old[p])}

\* The leaves of a rewritten value are the old ones, replaced.
LEMMA RewriteLeavesOver ==
    ASSUME NEW S, NEW v \in DocsOver(S), NEW keys \in Seq(AllKeys),
           NEW r, Tame(r), NEW below \in [Places(v) -> S], NEW old, NEW new,
           Replaced(Places(v), old, new, r)
    PROVE  Values(LeavesOver(RewriteOver(v, keys, r, below), new)) =
              {Replace(leaf, r) : leaf \in Values(LeavesOver(v, old))}
<1>1. PICK w : w = RewriteOver(v, keys, r, below)
  OBVIOUS
<1>2. w \in DocsOver(S)
  BY <1>1, RewriteTyped
<1>3. CASE v \in LeafDoc
  <2>1. w = Replace(v, r) /\ w \in LeafDoc
    BY <1>1, <1>3, RewriteLeaf DEF Tame
  <2>2. Values(LeavesOver(w, new)) = {w}
    BY <1>2, <2>1, LeavesParts
  <2>3. Values(LeavesOver(v, old)) = {v}
    BY <1>3, LeavesParts
  <2> QED  BY <1>1, <2>1, <2>2, <2>3
<1>4. CASE v \notin LeafDoc
  <2>1. w \notin LeafDoc
    <3>1. v.tag \in {"object", "array"} /\ w.tag = v.tag
      BY <1>1, <1>4, ObjectParts, ArrayParts DEF DocsOver, RewriteOver, Object, Arr
    <3> QED  BY <3>1, LeafIsSimple
  <2>2. Places(w) = Places(v)
    BY <1>1, RewritePlaces
  <2>3. Values(LeavesOver(w, new)) = UNION {Values(new[p]) : p \in Places(v)}
    BY <1>2, <2>1, <2>2, LeavesParts
  <2>4. Values(LeavesOver(v, old)) = UNION {Values(old[p]) : p \in Places(v)}
    BY <1>4, LeavesParts
  <2>5. UNION {Values(new[p]) : p \in Places(v)} =
           {Replace(leaf, r) : leaf \in UNION {Values(old[p]) : p \in Places(v)}}
    <3> DEFINE L == UNION {Values(new[p]) : p \in Places(v)}
               M == UNION {Values(old[p]) : p \in Places(v)}
    <3>1. ASSUME NEW x \in L PROVE x \in {Replace(leaf, r) : leaf \in M}
      <4>1. PICK p \in Places(v) : x \in Values(new[p])
        OBVIOUS
      <4>2. x \in {Replace(leaf, r) : leaf \in Values(old[p])}
        BY <4>1 DEF Replaced
      <4> QED  BY <4>2
    <3>2. ASSUME NEW leaf \in M PROVE Replace(leaf, r) \in L
      <4>1. PICK p \in Places(v) : leaf \in Values(old[p])
        OBVIOUS
      <4>2. Replace(leaf, r) \in Values(new[p])
        BY <4>1 DEF Replaced
      <4> QED  BY <4>2
    <3> QED  BY <3>1, <3>2
  <2> QED  BY <1>1, <2>3, <2>4, <2>5
<1> QED
  BY <1>3, <1>4

\* Two replacements that do the same to the leaves of a value.
SameOn(leaves, r1, r2) == \A leaf \in leaves : Replace(leaf, r1) = Replace(leaf, r2)

\* At one value, two such replacements give the same.
LEMMA RewriteSameOver ==
    ASSUME NEW S, NEW v \in DocsOver(S), NEW keys, NEW r1, NEW r2, NEW below, NEW old,
           SameOn(Values(LeavesOver(v, old)), r1, r2)
    PROVE  /\ RewriteOver(v, keys, r1, below) = RewriteOver(v, keys, r2, below)
           /\ v \notin LeafDoc => \A p \in Places(v) : SameOn(Values(old[p]), r1, r2)
<1>1. CASE v \in LeafDoc
  <2>1. Values(LeavesOver(v, old)) = {v}
    BY <1>1, LeavesParts
  <2> QED  BY <1>1, <2>1, RewriteLeaf DEF SameOn
<1>2. CASE v \notin LeafDoc
  <2>1. v.tag \in {"object", "array"}
    BY <1>2, ObjectParts, ArrayParts DEF DocsOver
  <2>2. Values(LeavesOver(v, old)) = UNION {Values(old[p]) : p \in Places(v)}
    BY <1>2, LeavesParts
  <2> QED  BY <1>2, <2>1, <2>2 DEF RewriteOver, SameOn
<1> QED
  BY <1>1, <1>2

\* The leaves of a document are leaves.
LEMMA LeavesAreLeaves ==
    ASSUME NEW S, NEW v \in DocsOver(S), NEW below,
           \A p \in Places(v) : Values(below[p]) \subseteq LeafDoc
    PROVE  Values(LeavesOver(v, below)) \subseteq LeafDoc
  BY LeavesParts

\* One replacement after another, as one.
Composed(r1, r2, r3) ==
    \A leaf \in LeafDoc : Replace(Replace(leaf, r1), r2) = Replace(leaf, r3)
-----------------------------------------------------------------------------
(***************************************************************************)
(* The walks, level by level.  The lemmas of a level differ only in the    *)
(* number of the level.                                                    *)
(***************************************************************************)

\* Level 1: a document is rewritten to a document.
LEMMA Typed1 ==
    ASSUME NEW v \in Doc1, NEW keys \in Seq(AllKeys), NEW r, Tame(r)
    PROVE  Rewrite1(v, keys, r) \in Doc1
<1> DEFINE below == [p \in Places(v) |-> Rewrite0(Child(v, p), keys, r)]
<1>1. v \in DocsOver(Doc0)
  BY DEF Doc1
<1>2. \A p \in Places(v) : Rewrite0(Child(v, p), keys, r) \in Doc0
  BY <1>1, ChildOf DEF Doc0
<1>3. below \in [Places(v) -> Doc0]
  BY <1>2
<1> HIDE DEF below
<1>4. RewriteOver(v, keys, r, below) \in DocsOver(Doc0)
  BY <1>1, <1>3, RewriteTyped
<1> QED
  BY <1>4 DEF below, Doc1, Rewrite1

\* Level 1: the leaves of a document are leaves.
LEMMA LeavesTyped1 ==
    ASSUME NEW v \in Doc1
    PROVE  Values(Leaves1(v)) \subseteq LeafDoc
<1> DEFINE below == [p \in Places(v) |-> Leaves0(Child(v, p))]
<1>1. v \in DocsOver(Doc0)
  BY DEF Doc1
<1>2. \A p \in Places(v) : Values(below[p]) \subseteq LeafDoc
  BY <1>1, ChildOf DEF Doc0
<1> HIDE DEF below
<1>3. Values(LeavesOver(v, below)) \subseteq LeafDoc
  BY <1>1, <1>2, LeavesAreLeaves
<1> QED
  BY <1>3 DEF below, Leaves1

\* Level 1: the leaves of the rewritten document are the old ones, replaced.
LEMMA LeavesRewritten1 ==
    ASSUME NEW v \in Doc1, NEW keys \in Seq(AllKeys), NEW r, Tame(r)
    PROVE  Values(Leaves1(Rewrite1(v, keys, r))) =
              {Replace(leaf, r) : leaf \in Values(Leaves1(v))}
<1> DEFINE below == [p \in Places(v) |-> Rewrite0(Child(v, p), keys, r)]
           old == [p \in Places(v) |-> Leaves0(Child(v, p))]
           made == RewriteOver(v, keys, r, below)
           new == [p \in Places(made) |-> Leaves0(Child(made, p))]
<1>1. v \in DocsOver(Doc0)
  BY DEF Doc1
<1>2. \A p \in Places(v) : Child(v, p) \in Doc0
  BY <1>1, ChildOf
<1>3. \A p \in Places(v) : Rewrite0(Child(v, p), keys, r) \in Doc0
  BY <1>2 DEF Doc0
<1>4. below \in [Places(v) -> Doc0] /\ DOMAIN below = Places(v)
  BY <1>3
<1>5. \A p \in Places(v) : Values(Leaves0(Rewrite0(Child(v, p), keys, r))) =
                              {Replace(leaf, r) : leaf \in Values(Leaves0(Child(v, p)))}
  BY <1>2 DEF Doc0
<1>6. Places(made) = Places(v)
  <2> HIDE DEF below
  <2> QED  BY <1>1, <1>4, RewritePlaces
<1>7. \A p \in Places(v) : Child(made, p) = below[p]
  <2> HIDE DEF below
  <2> QED  BY <1>1, <1>4, RewriteChild
<1> HIDE DEF made
<1>8. \A p \in Places(v) : new[p] = Leaves0(Rewrite0(Child(v, p), keys, r))
  BY <1>6, <1>7
<1>9. Replaced(Places(v), old, new, r)
  BY <1>5, <1>8 DEF Replaced
<1> HIDE DEF old, new, below
<1>10. Values(LeavesOver(made, new)) =
          {Replace(leaf, r) : leaf \in Values(LeavesOver(v, old))}
  BY <1>1, <1>4, <1>9, RewriteLeavesOver DEF made
<1> QED
  BY <1>10 DEF Leaves1, Rewrite1, old, new, below, made

\* Level 1: the rewritten document is as long as the old one.
LEMMA BytesRewritten1 ==
    ASSUME NEW v \in Doc1, NEW keys \in Seq(AllKeys), NEW r, Tame(r)
    PROVE  Bytes1(Rewrite1(v, keys, r)) = Bytes1(v)
<1> DEFINE below == [p \in Places(v) |-> Rewrite0(Child(v, p), keys, r)]
           old == [p \in Places(v) |-> Bytes0(Child(v, p))]
           made == RewriteOver(v, keys, r, below)
           new == [p \in Places(made) |-> Bytes0(Child(made, p))]
<1>1. v \in DocsOver(Doc0)
  BY DEF Doc1
<1>2. \A p \in Places(v) : Child(v, p) \in Doc0
  BY <1>1, ChildOf
<1>3. \A p \in Places(v) : Bytes0(Rewrite0(Child(v, p), keys, r)) = Bytes0(Child(v, p))
  BY <1>2 DEF Doc0
<1>4. DOMAIN below = Places(v)
  OBVIOUS
<1>5. Places(made) = Places(v) /\ \A p \in Places(v) : Child(made, p) = below[p]
  <2> HIDE DEF below
  <2>1. Places(made) = Places(v)
    BY <1>1, <1>4, RewritePlaces
  <2>2. \A p \in Places(v) : Child(made, p) = below[p]
    BY <1>1, <1>4, RewriteChild
  <2> QED  BY <2>1, <2>2
<1> HIDE DEF made
<1>6. new = old
  BY <1>3, <1>5
<1> HIDE DEF old, new, below
<1>7. BytesOver(made, old) = BytesOver(v, old)
  BY <1>1, <1>4, BytesParts DEF made
<1> QED
  BY <1>6, <1>7 DEF Bytes1, Rewrite1, old, new, below, made

\* Level 1: rewritten twice, once is enough.
LEMMA Twice1 ==
    ASSUME NEW v \in Doc1, NEW keys1 \in Seq(AllKeys), NEW keys2, NEW keys3,
           SameOrder(keys2, keys3), NEW r1, NEW r2, NEW r3, Tame(r1),
           Composed(r1, r2, r3)
    PROVE  Rewrite1(Rewrite1(v, keys1, r1), keys2, r2) = Rewrite1(v, keys3, r3)
<1> DEFINE below1 == [p \in Places(v) |-> Rewrite0(Child(v, p), keys1, r1)]
           made == RewriteOver(v, keys1, r1, below1)
           below2 == [p \in Places(made) |-> Rewrite0(Child(made, p), keys2, r2)]
           below3 == [p \in Places(v) |-> Rewrite0(Child(v, p), keys3, r3)]
<1>1. v \in DocsOver(Doc0)
  BY DEF Doc1
<1>2. \A p \in Places(v) : Child(v, p) \in Doc0
  BY <1>1, ChildOf
<1>3. \A p \in Places(v) : Rewrite0(Child(v, p), keys1, r1) \in Doc0
  BY <1>2 DEF Doc0
<1>4. below1 \in [Places(v) -> Doc0] /\ DOMAIN below1 = Places(v)
  BY <1>3
<1>5. \A p \in Places(v) : Rewrite0(Rewrite0(Child(v, p), keys1, r1), keys2, r2) =
                              Rewrite0(Child(v, p), keys3, r3)
  BY <1>2 DEF Doc0
<1>6. Places(made) = Places(v)
  <2> HIDE DEF below1
  <2> QED  BY <1>1, <1>4, RewritePlaces
<1>7. \A p \in Places(v) : Child(made, p) = below1[p]
  <2> HIDE DEF below1
  <2> QED  BY <1>1, <1>4, RewriteChild
<1> HIDE DEF made
<1>8. below2 = below3
  BY <1>5, <1>6, <1>7
<1> HIDE DEF below1, below2, below3
<1>9. RewriteOver(made, keys2, r2, below3) = RewriteOver(v, keys3, r3, below3)
  BY <1>1, <1>4, RewriteTwiceOver DEF made, Composed
<1> QED
  BY <1>8, <1>9 DEF Rewrite1, below1, below2, below3, made

\* Level 1: replacements that agree on the leaves of a document rewrite it alike.
LEMMA Alike1 ==
    ASSUME NEW v \in Doc1, NEW keys, NEW r1, NEW r2, SameOn(Values(Leaves1(v)), r1, r2)
    PROVE  Rewrite1(v, keys, r1) = Rewrite1(v, keys, r2)
<1> DEFINE below1 == [p \in Places(v) |-> Rewrite0(Child(v, p), keys, r1)]
           below2 == [p \in Places(v) |-> Rewrite0(Child(v, p), keys, r2)]
           old == [p \in Places(v) |-> Leaves0(Child(v, p))]
<1>1. v \in DocsOver(Doc0)
  BY DEF Doc1
<1>2. \A p \in Places(v) : Child(v, p) \in Doc0
  BY <1>1, ChildOf
<1>3. SameOn(Values(LeavesOver(v, old)), r1, r2)
  BY DEF Leaves1
<1>4. v \notin LeafDoc => \A p \in Places(v) : SameOn(Values(old[p]), r1, r2)
  <2> HIDE DEF old
  <2> QED  BY <1>1, <1>3, RewriteSameOver
<1>5. \A p \in Places(v) : SameOn(Values(Leaves0(Child(v, p))), r1, r2)
  BY <1>4, LeafIsSimple
<1>6. \A p \in Places(v) :
         Rewrite0(Child(v, p), keys, r1) = Rewrite0(Child(v, p), keys, r2)
  BY <1>2, <1>5 DEF Doc0
<1>7. below1 = below2
  BY <1>6
<1> HIDE DEF below1, below2, old
<1>8. RewriteOver(v, keys, r1, below1) = RewriteOver(v, keys, r2, below1)
  BY <1>1, <1>3, RewriteSameOver
<1> QED
  BY <1>7, <1>8 DEF Rewrite1, below1, below2

\* Level 1: one level less of the walk finds the same leaves.
LEMMA OneLess1 ==
    ASSUME NEW v \in Doc1
    PROVE  Values(Leaves0(v)) = Values(Leaves1(v))
<1>1. v \in DocsOver(Doc0)
  BY DEF Doc1
<1>2. Places(v) = {}
  BY <1>1, ChildOf DEF Doc0
<1>3. v \in LeafDoc => /\ Values(Leaves0(v)) = {v}
                       /\ Values(Leaves1(v)) = {v}
  BY <1>1, LeavesParts DEF Leaves0, Leaves1
<1>4. v \notin LeafDoc => /\ Values(Leaves0(v)) = UNION {Values(<<>>[p]) : p \in Places(v)}
                          /\ Values(Leaves1(v)) =
                                UNION {Values([q \in Places(v) |-> Leaves0(Child(v, q))][p]) :
                                          p \in Places(v)}
  BY <1>1, LeavesParts DEF Leaves0, Leaves1
<1>5. v \notin LeafDoc => Values(Leaves0(v)) = {} /\ Values(Leaves1(v)) = {}
  BY <1>2, <1>4
<1> QED
  BY <1>3, <1>5

\* Level 2: a document is rewritten to a document.
LEMMA Typed2 ==
    ASSUME NEW v \in Doc2, NEW keys \in Seq(AllKeys), NEW r, Tame(r)
    PROVE  Rewrite2(v, keys, r) \in Doc2
<1> DEFINE below == [p \in Places(v) |-> Rewrite1(Child(v, p), keys, r)]
<1>1. v \in DocsOver(Doc1)
  BY DEF Doc2
<1>2. \A p \in Places(v) : Rewrite1(Child(v, p), keys, r) \in Doc1
  BY <1>1, ChildOf, Typed1
<1>3. below \in [Places(v) -> Doc1]
  BY <1>2
<1> HIDE DEF below
<1>4. RewriteOver(v, keys, r, below) \in DocsOver(Doc1)
  BY <1>1, <1>3, RewriteTyped
<1> QED
  BY <1>4 DEF below, Doc2, Rewrite2

\* Level 2: the leaves of a document are leaves.
LEMMA LeavesTyped2 ==
    ASSUME NEW v \in Doc2
    PROVE  Values(Leaves2(v)) \subseteq LeafDoc
<1> DEFINE below == [p \in Places(v) |-> Leaves1(Child(v, p))]
<1>1. v \in DocsOver(Doc1)
  BY DEF Doc2
<1>2. \A p \in Places(v) : Values(below[p]) \subseteq LeafDoc
  BY <1>1, ChildOf, LeavesTyped1
<1> HIDE DEF below
<1>3. Values(LeavesOver(v, below)) \subseteq LeafDoc
  BY <1>1, <1>2, LeavesAreLeaves
<1> QED
  BY <1>3 DEF below, Leaves2

\* Level 2: the leaves of the rewritten document are the old ones, replaced.
LEMMA LeavesRewritten2 ==
    ASSUME NEW v \in Doc2, NEW keys \in Seq(AllKeys), NEW r, Tame(r)
    PROVE  Values(Leaves2(Rewrite2(v, keys, r))) =
              {Replace(leaf, r) : leaf \in Values(Leaves2(v))}
<1> DEFINE below == [p \in Places(v) |-> Rewrite1(Child(v, p), keys, r)]
           old == [p \in Places(v) |-> Leaves1(Child(v, p))]
           made == RewriteOver(v, keys, r, below)
           new == [p \in Places(made) |-> Leaves1(Child(made, p))]
<1>1. v \in DocsOver(Doc1)
  BY DEF Doc2
<1>2. \A p \in Places(v) : Child(v, p) \in Doc1
  BY <1>1, ChildOf
<1>3. \A p \in Places(v) : Rewrite1(Child(v, p), keys, r) \in Doc1
  BY <1>2, Typed1
<1>4. below \in [Places(v) -> Doc1] /\ DOMAIN below = Places(v)
  BY <1>3
<1>5. \A p \in Places(v) : Values(Leaves1(Rewrite1(Child(v, p), keys, r))) =
                              {Replace(leaf, r) : leaf \in Values(Leaves1(Child(v, p)))}
  BY <1>2, LeavesRewritten1
<1>6. Places(made) = Places(v)
  <2> HIDE DEF below
  <2> QED  BY <1>1, <1>4, RewritePlaces
<1>7. \A p \in Places(v) : Child(made, p) = below[p]
  <2> HIDE DEF below
  <2> QED  BY <1>1, <1>4, RewriteChild
<1> HIDE DEF made
<1>8. \A p \in Places(v) : new[p] = Leaves1(Rewrite1(Child(v, p), keys, r))
  BY <1>6, <1>7
<1>9. Replaced(Places(v), old, new, r)
  BY <1>5, <1>8 DEF Replaced
<1> HIDE DEF old, new, below
<1>10. Values(LeavesOver(made, new)) =
          {Replace(leaf, r) : leaf \in Values(LeavesOver(v, old))}
  BY <1>1, <1>4, <1>9, RewriteLeavesOver DEF made
<1> QED
  BY <1>10 DEF Leaves2, Rewrite2, old, new, below, made

\* Level 2: the rewritten document is as long as the old one.
LEMMA BytesRewritten2 ==
    ASSUME NEW v \in Doc2, NEW keys \in Seq(AllKeys), NEW r, Tame(r)
    PROVE  Bytes2(Rewrite2(v, keys, r)) = Bytes2(v)
<1> DEFINE below == [p \in Places(v) |-> Rewrite1(Child(v, p), keys, r)]
           old == [p \in Places(v) |-> Bytes1(Child(v, p))]
           made == RewriteOver(v, keys, r, below)
           new == [p \in Places(made) |-> Bytes1(Child(made, p))]
<1>1. v \in DocsOver(Doc1)
  BY DEF Doc2
<1>2. \A p \in Places(v) : Child(v, p) \in Doc1
  BY <1>1, ChildOf
<1>3. \A p \in Places(v) : Bytes1(Rewrite1(Child(v, p), keys, r)) = Bytes1(Child(v, p))
  BY <1>2, BytesRewritten1
<1>4. DOMAIN below = Places(v)
  OBVIOUS
<1>5. Places(made) = Places(v) /\ \A p \in Places(v) : Child(made, p) = below[p]
  <2> HIDE DEF below
  <2>1. Places(made) = Places(v)
    BY <1>1, <1>4, RewritePlaces
  <2>2. \A p \in Places(v) : Child(made, p) = below[p]
    BY <1>1, <1>4, RewriteChild
  <2> QED  BY <2>1, <2>2
<1> HIDE DEF made
<1>6. new = old
  BY <1>3, <1>5
<1> HIDE DEF old, new, below
<1>7. BytesOver(made, old) = BytesOver(v, old)
  BY <1>1, <1>4, BytesParts DEF made
<1> QED
  BY <1>6, <1>7 DEF Bytes2, Rewrite2, old, new, below, made

\* Level 2: rewritten twice, once is enough.
LEMMA Twice2 ==
    ASSUME NEW v \in Doc2, NEW keys1 \in Seq(AllKeys), NEW keys2, NEW keys3,
           SameOrder(keys2, keys3), NEW r1, NEW r2, NEW r3, Tame(r1),
           Composed(r1, r2, r3)
    PROVE  Rewrite2(Rewrite2(v, keys1, r1), keys2, r2) = Rewrite2(v, keys3, r3)
<1> DEFINE below1 == [p \in Places(v) |-> Rewrite1(Child(v, p), keys1, r1)]
           made == RewriteOver(v, keys1, r1, below1)
           below2 == [p \in Places(made) |-> Rewrite1(Child(made, p), keys2, r2)]
           below3 == [p \in Places(v) |-> Rewrite1(Child(v, p), keys3, r3)]
<1>1. v \in DocsOver(Doc1)
  BY DEF Doc2
<1>2. \A p \in Places(v) : Child(v, p) \in Doc1
  BY <1>1, ChildOf
<1>3. \A p \in Places(v) : Rewrite1(Child(v, p), keys1, r1) \in Doc1
  BY <1>2, Typed1
<1>4. below1 \in [Places(v) -> Doc1] /\ DOMAIN below1 = Places(v)
  BY <1>3
<1>5. \A p \in Places(v) : Rewrite1(Rewrite1(Child(v, p), keys1, r1), keys2, r2) =
                              Rewrite1(Child(v, p), keys3, r3)
  BY <1>2, Twice1
<1>6. Places(made) = Places(v)
  <2> HIDE DEF below1
  <2> QED  BY <1>1, <1>4, RewritePlaces
<1>7. \A p \in Places(v) : Child(made, p) = below1[p]
  <2> HIDE DEF below1
  <2> QED  BY <1>1, <1>4, RewriteChild
<1> HIDE DEF made
<1>8. below2 = below3
  BY <1>5, <1>6, <1>7
<1> HIDE DEF below1, below2, below3
<1>9. RewriteOver(made, keys2, r2, below3) = RewriteOver(v, keys3, r3, below3)
  BY <1>1, <1>4, RewriteTwiceOver DEF made, Composed
<1> QED
  BY <1>8, <1>9 DEF Rewrite2, below1, below2, below3, made

\* Level 2: replacements that agree on the leaves of a document rewrite it alike.
LEMMA Alike2 ==
    ASSUME NEW v \in Doc2, NEW keys, NEW r1, NEW r2, SameOn(Values(Leaves2(v)), r1, r2)
    PROVE  Rewrite2(v, keys, r1) = Rewrite2(v, keys, r2)
<1> DEFINE below1 == [p \in Places(v) |-> Rewrite1(Child(v, p), keys, r1)]
           below2 == [p \in Places(v) |-> Rewrite1(Child(v, p), keys, r2)]
           old == [p \in Places(v) |-> Leaves1(Child(v, p))]
<1>1. v \in DocsOver(Doc1)
  BY DEF Doc2
<1>2. \A p \in Places(v) : Child(v, p) \in Doc1
  BY <1>1, ChildOf
<1>3. SameOn(Values(LeavesOver(v, old)), r1, r2)
  BY DEF Leaves2
<1>4. v \notin LeafDoc => \A p \in Places(v) : SameOn(Values(old[p]), r1, r2)
  <2> HIDE DEF old
  <2> QED  BY <1>1, <1>3, RewriteSameOver
<1>5. \A p \in Places(v) : SameOn(Values(Leaves1(Child(v, p))), r1, r2)
  BY <1>4, LeafIsSimple
<1>6. \A p \in Places(v) :
         Rewrite1(Child(v, p), keys, r1) = Rewrite1(Child(v, p), keys, r2)
  BY <1>2, <1>5, Alike1
<1>7. below1 = below2
  BY <1>6
<1> HIDE DEF below1, below2, old
<1>8. RewriteOver(v, keys, r1, below1) = RewriteOver(v, keys, r2, below1)
  BY <1>1, <1>3, RewriteSameOver
<1> QED
  BY <1>7, <1>8 DEF Rewrite2, below1, below2

\* Level 2: one level less of the walk finds the same leaves.
LEMMA OneLess2 ==
    ASSUME NEW v \in Doc2
    PROVE  Values(Leaves1(v)) = Values(Leaves2(v))
<1> DEFINE low == [p \in Places(v) |-> Leaves0(Child(v, p))]
           high == [p \in Places(v) |-> Leaves1(Child(v, p))]
<1>1. v \in DocsOver(Doc1)
  BY DEF Doc2
<1>2. \A p \in Places(v) : Values(low[p]) = Values(high[p])
  BY <1>1, ChildOf, OneLess1
<1> HIDE DEF low, high
<1>3. v \in LeafDoc => Values(LeavesOver(v, low)) = Values(LeavesOver(v, high))
  BY <1>1, LeavesParts
<1>4. v \notin LeafDoc => Values(LeavesOver(v, low)) = Values(LeavesOver(v, high))
  <2> SUFFICES ASSUME v \notin LeafDoc
               PROVE  Values(LeavesOver(v, low)) = Values(LeavesOver(v, high))
    OBVIOUS
  <2>1. Values(LeavesOver(v, low)) = UNION {Values(low[p]) : p \in Places(v)}
    BY <1>1, LeavesParts
  <2>2. Values(LeavesOver(v, high)) = UNION {Values(high[p]) : p \in Places(v)}
    BY <1>1, LeavesParts
  <2> QED  BY <1>2, <2>1, <2>2
<1> QED
  BY <1>3, <1>4 DEF low, high, Leaves1, Leaves2

\* Level 3: a document is rewritten to a document.
LEMMA Typed3 ==
    ASSUME NEW v \in Doc3, NEW keys \in Seq(AllKeys), NEW r, Tame(r)
    PROVE  Rewrite3(v, keys, r) \in Doc3
<1> DEFINE below == [p \in Places(v) |-> Rewrite2(Child(v, p), keys, r)]
<1>1. v \in DocsOver(Doc2)
  BY DEF Doc3
<1>2. \A p \in Places(v) : Rewrite2(Child(v, p), keys, r) \in Doc2
  BY <1>1, ChildOf, Typed2
<1>3. below \in [Places(v) -> Doc2]
  BY <1>2
<1> HIDE DEF below
<1>4. RewriteOver(v, keys, r, below) \in DocsOver(Doc2)
  BY <1>1, <1>3, RewriteTyped
<1> QED
  BY <1>4 DEF below, Doc3, Rewrite3

\* Level 3: the leaves of a document are leaves.
LEMMA LeavesTyped3 ==
    ASSUME NEW v \in Doc3
    PROVE  Values(Leaves3(v)) \subseteq LeafDoc
<1> DEFINE below == [p \in Places(v) |-> Leaves2(Child(v, p))]
<1>1. v \in DocsOver(Doc2)
  BY DEF Doc3
<1>2. \A p \in Places(v) : Values(below[p]) \subseteq LeafDoc
  BY <1>1, ChildOf, LeavesTyped2
<1> HIDE DEF below
<1>3. Values(LeavesOver(v, below)) \subseteq LeafDoc
  BY <1>1, <1>2, LeavesAreLeaves
<1> QED
  BY <1>3 DEF below, Leaves3

\* Level 3: the leaves of the rewritten document are the old ones, replaced.
LEMMA LeavesRewritten3 ==
    ASSUME NEW v \in Doc3, NEW keys \in Seq(AllKeys), NEW r, Tame(r)
    PROVE  Values(Leaves3(Rewrite3(v, keys, r))) =
              {Replace(leaf, r) : leaf \in Values(Leaves3(v))}
<1> DEFINE below == [p \in Places(v) |-> Rewrite2(Child(v, p), keys, r)]
           old == [p \in Places(v) |-> Leaves2(Child(v, p))]
           made == RewriteOver(v, keys, r, below)
           new == [p \in Places(made) |-> Leaves2(Child(made, p))]
<1>1. v \in DocsOver(Doc2)
  BY DEF Doc3
<1>2. \A p \in Places(v) : Child(v, p) \in Doc2
  BY <1>1, ChildOf
<1>3. \A p \in Places(v) : Rewrite2(Child(v, p), keys, r) \in Doc2
  BY <1>2, Typed2
<1>4. below \in [Places(v) -> Doc2] /\ DOMAIN below = Places(v)
  BY <1>3
<1>5. \A p \in Places(v) : Values(Leaves2(Rewrite2(Child(v, p), keys, r))) =
                              {Replace(leaf, r) : leaf \in Values(Leaves2(Child(v, p)))}
  BY <1>2, LeavesRewritten2
<1>6. Places(made) = Places(v)
  <2> HIDE DEF below
  <2> QED  BY <1>1, <1>4, RewritePlaces
<1>7. \A p \in Places(v) : Child(made, p) = below[p]
  <2> HIDE DEF below
  <2> QED  BY <1>1, <1>4, RewriteChild
<1> HIDE DEF made
<1>8. \A p \in Places(v) : new[p] = Leaves2(Rewrite2(Child(v, p), keys, r))
  BY <1>6, <1>7
<1>9. Replaced(Places(v), old, new, r)
  BY <1>5, <1>8 DEF Replaced
<1> HIDE DEF old, new, below
<1>10. Values(LeavesOver(made, new)) =
          {Replace(leaf, r) : leaf \in Values(LeavesOver(v, old))}
  BY <1>1, <1>4, <1>9, RewriteLeavesOver DEF made
<1> QED
  BY <1>10 DEF Leaves3, Rewrite3, old, new, below, made

\* Level 3: the rewritten document is as long as the old one.
LEMMA BytesRewritten3 ==
    ASSUME NEW v \in Doc3, NEW keys \in Seq(AllKeys), NEW r, Tame(r)
    PROVE  Bytes3(Rewrite3(v, keys, r)) = Bytes3(v)
<1> DEFINE below == [p \in Places(v) |-> Rewrite2(Child(v, p), keys, r)]
           old == [p \in Places(v) |-> Bytes2(Child(v, p))]
           made == RewriteOver(v, keys, r, below)
           new == [p \in Places(made) |-> Bytes2(Child(made, p))]
<1>1. v \in DocsOver(Doc2)
  BY DEF Doc3
<1>2. \A p \in Places(v) : Child(v, p) \in Doc2
  BY <1>1, ChildOf
<1>3. \A p \in Places(v) : Bytes2(Rewrite2(Child(v, p), keys, r)) = Bytes2(Child(v, p))
  BY <1>2, BytesRewritten2
<1>4. DOMAIN below = Places(v)
  OBVIOUS
<1>5. Places(made) = Places(v) /\ \A p \in Places(v) : Child(made, p) = below[p]
  <2> HIDE DEF below
  <2>1. Places(made) = Places(v)
    BY <1>1, <1>4, RewritePlaces
  <2>2. \A p \in Places(v) : Child(made, p) = below[p]
    BY <1>1, <1>4, RewriteChild
  <2> QED  BY <2>1, <2>2
<1> HIDE DEF made
<1>6. new = old
  BY <1>3, <1>5
<1> HIDE DEF old, new, below
<1>7. BytesOver(made, old) = BytesOver(v, old)
  BY <1>1, <1>4, BytesParts DEF made
<1> QED
  BY <1>6, <1>7 DEF Bytes3, Rewrite3, old, new, below, made

\* Level 3: rewritten twice, once is enough.
LEMMA Twice3 ==
    ASSUME NEW v \in Doc3, NEW keys1 \in Seq(AllKeys), NEW keys2, NEW keys3,
           SameOrder(keys2, keys3), NEW r1, NEW r2, NEW r3, Tame(r1),
           Composed(r1, r2, r3)
    PROVE  Rewrite3(Rewrite3(v, keys1, r1), keys2, r2) = Rewrite3(v, keys3, r3)
<1> DEFINE below1 == [p \in Places(v) |-> Rewrite2(Child(v, p), keys1, r1)]
           made == RewriteOver(v, keys1, r1, below1)
           below2 == [p \in Places(made) |-> Rewrite2(Child(made, p), keys2, r2)]
           below3 == [p \in Places(v) |-> Rewrite2(Child(v, p), keys3, r3)]
<1>1. v \in DocsOver(Doc2)
  BY DEF Doc3
<1>2. \A p \in Places(v) : Child(v, p) \in Doc2
  BY <1>1, ChildOf
<1>3. \A p \in Places(v) : Rewrite2(Child(v, p), keys1, r1) \in Doc2
  BY <1>2, Typed2
<1>4. below1 \in [Places(v) -> Doc2] /\ DOMAIN below1 = Places(v)
  BY <1>3
<1>5. \A p \in Places(v) : Rewrite2(Rewrite2(Child(v, p), keys1, r1), keys2, r2) =
                              Rewrite2(Child(v, p), keys3, r3)
  BY <1>2, Twice2
<1>6. Places(made) = Places(v)
  <2> HIDE DEF below1
  <2> QED  BY <1>1, <1>4, RewritePlaces
<1>7. \A p \in Places(v) : Child(made, p) = below1[p]
  <2> HIDE DEF below1
  <2> QED  BY <1>1, <1>4, RewriteChild
<1> HIDE DEF made
<1>8. below2 = below3
  BY <1>5, <1>6, <1>7
<1> HIDE DEF below1, below2, below3
<1>9. RewriteOver(made, keys2, r2, below3) = RewriteOver(v, keys3, r3, below3)
  BY <1>1, <1>4, RewriteTwiceOver DEF made, Composed
<1> QED
  BY <1>8, <1>9 DEF Rewrite3, below1, below2, below3, made

\* Level 3: replacements that agree on the leaves of a document rewrite it alike.
LEMMA Alike3 ==
    ASSUME NEW v \in Doc3, NEW keys, NEW r1, NEW r2, SameOn(Values(Leaves3(v)), r1, r2)
    PROVE  Rewrite3(v, keys, r1) = Rewrite3(v, keys, r2)
<1> DEFINE below1 == [p \in Places(v) |-> Rewrite2(Child(v, p), keys, r1)]
           below2 == [p \in Places(v) |-> Rewrite2(Child(v, p), keys, r2)]
           old == [p \in Places(v) |-> Leaves2(Child(v, p))]
<1>1. v \in DocsOver(Doc2)
  BY DEF Doc3
<1>2. \A p \in Places(v) : Child(v, p) \in Doc2
  BY <1>1, ChildOf
<1>3. SameOn(Values(LeavesOver(v, old)), r1, r2)
  BY DEF Leaves3
<1>4. v \notin LeafDoc => \A p \in Places(v) : SameOn(Values(old[p]), r1, r2)
  <2> HIDE DEF old
  <2> QED  BY <1>1, <1>3, RewriteSameOver
<1>5. \A p \in Places(v) : SameOn(Values(Leaves2(Child(v, p))), r1, r2)
  BY <1>4, LeafIsSimple
<1>6. \A p \in Places(v) :
         Rewrite2(Child(v, p), keys, r1) = Rewrite2(Child(v, p), keys, r2)
  BY <1>2, <1>5, Alike2
<1>7. below1 = below2
  BY <1>6
<1> HIDE DEF below1, below2, old
<1>8. RewriteOver(v, keys, r1, below1) = RewriteOver(v, keys, r2, below1)
  BY <1>1, <1>3, RewriteSameOver
<1> QED
  BY <1>7, <1>8 DEF Rewrite3, below1, below2

\* Level 3: one level less of the walk finds the same leaves.
LEMMA OneLess3 ==
    ASSUME NEW v \in Doc3
    PROVE  Values(Leaves2(v)) = Values(Leaves3(v))
<1> DEFINE low == [p \in Places(v) |-> Leaves1(Child(v, p))]
           high == [p \in Places(v) |-> Leaves2(Child(v, p))]
<1>1. v \in DocsOver(Doc2)
  BY DEF Doc3
<1>2. \A p \in Places(v) : Values(low[p]) = Values(high[p])
  BY <1>1, ChildOf, OneLess2
<1> HIDE DEF low, high
<1>3. v \in LeafDoc => Values(LeavesOver(v, low)) = Values(LeavesOver(v, high))
  BY <1>1, LeavesParts
<1>4. v \notin LeafDoc => Values(LeavesOver(v, low)) = Values(LeavesOver(v, high))
  <2> SUFFICES ASSUME v \notin LeafDoc
               PROVE  Values(LeavesOver(v, low)) = Values(LeavesOver(v, high))
    OBVIOUS
  <2>1. Values(LeavesOver(v, low)) = UNION {Values(low[p]) : p \in Places(v)}
    BY <1>1, LeavesParts
  <2>2. Values(LeavesOver(v, high)) = UNION {Values(high[p]) : p \in Places(v)}
    BY <1>1, LeavesParts
  <2> QED  BY <1>2, <2>1, <2>2
<1> QED
  BY <1>3, <1>4 DEF low, high, Leaves2, Leaves3

\* Level 4: a document is rewritten to a document.
LEMMA Typed4 ==
    ASSUME NEW v \in Doc4, NEW keys \in Seq(AllKeys), NEW r, Tame(r)
    PROVE  Rewrite4(v, keys, r) \in Doc4
<1> DEFINE below == [p \in Places(v) |-> Rewrite3(Child(v, p), keys, r)]
<1>1. v \in DocsOver(Doc3)
  BY DEF Doc4
<1>2. \A p \in Places(v) : Rewrite3(Child(v, p), keys, r) \in Doc3
  BY <1>1, ChildOf, Typed3
<1>3. below \in [Places(v) -> Doc3]
  BY <1>2
<1> HIDE DEF below
<1>4. RewriteOver(v, keys, r, below) \in DocsOver(Doc3)
  BY <1>1, <1>3, RewriteTyped
<1> QED
  BY <1>4 DEF below, Doc4, Rewrite4

\* Level 4: the leaves of a document are leaves.
LEMMA LeavesTyped4 ==
    ASSUME NEW v \in Doc4
    PROVE  Values(Leaves4(v)) \subseteq LeafDoc
<1> DEFINE below == [p \in Places(v) |-> Leaves3(Child(v, p))]
<1>1. v \in DocsOver(Doc3)
  BY DEF Doc4
<1>2. \A p \in Places(v) : Values(below[p]) \subseteq LeafDoc
  BY <1>1, ChildOf, LeavesTyped3
<1> HIDE DEF below
<1>3. Values(LeavesOver(v, below)) \subseteq LeafDoc
  BY <1>1, <1>2, LeavesAreLeaves
<1> QED
  BY <1>3 DEF below, Leaves4

\* Level 4: the leaves of the rewritten document are the old ones, replaced.
LEMMA LeavesRewritten4 ==
    ASSUME NEW v \in Doc4, NEW keys \in Seq(AllKeys), NEW r, Tame(r)
    PROVE  Values(Leaves4(Rewrite4(v, keys, r))) =
              {Replace(leaf, r) : leaf \in Values(Leaves4(v))}
<1> DEFINE below == [p \in Places(v) |-> Rewrite3(Child(v, p), keys, r)]
           old == [p \in Places(v) |-> Leaves3(Child(v, p))]
           made == RewriteOver(v, keys, r, below)
           new == [p \in Places(made) |-> Leaves3(Child(made, p))]
<1>1. v \in DocsOver(Doc3)
  BY DEF Doc4
<1>2. \A p \in Places(v) : Child(v, p) \in Doc3
  BY <1>1, ChildOf
<1>3. \A p \in Places(v) : Rewrite3(Child(v, p), keys, r) \in Doc3
  BY <1>2, Typed3
<1>4. below \in [Places(v) -> Doc3] /\ DOMAIN below = Places(v)
  BY <1>3
<1>5. \A p \in Places(v) : Values(Leaves3(Rewrite3(Child(v, p), keys, r))) =
                              {Replace(leaf, r) : leaf \in Values(Leaves3(Child(v, p)))}
  BY <1>2, LeavesRewritten3
<1>6. Places(made) = Places(v)
  <2> HIDE DEF below
  <2> QED  BY <1>1, <1>4, RewritePlaces
<1>7. \A p \in Places(v) : Child(made, p) = below[p]
  <2> HIDE DEF below
  <2> QED  BY <1>1, <1>4, RewriteChild
<1> HIDE DEF made
<1>8. \A p \in Places(v) : new[p] = Leaves3(Rewrite3(Child(v, p), keys, r))
  BY <1>6, <1>7
<1>9. Replaced(Places(v), old, new, r)
  BY <1>5, <1>8 DEF Replaced
<1> HIDE DEF old, new, below
<1>10. Values(LeavesOver(made, new)) =
          {Replace(leaf, r) : leaf \in Values(LeavesOver(v, old))}
  BY <1>1, <1>4, <1>9, RewriteLeavesOver DEF made
<1> QED
  BY <1>10 DEF Leaves4, Rewrite4, old, new, below, made

\* Level 4: the rewritten document is as long as the old one.
LEMMA BytesRewritten4 ==
    ASSUME NEW v \in Doc4, NEW keys \in Seq(AllKeys), NEW r, Tame(r)
    PROVE  Bytes4(Rewrite4(v, keys, r)) = Bytes4(v)
<1> DEFINE below == [p \in Places(v) |-> Rewrite3(Child(v, p), keys, r)]
           old == [p \in Places(v) |-> Bytes3(Child(v, p))]
           made == RewriteOver(v, keys, r, below)
           new == [p \in Places(made) |-> Bytes3(Child(made, p))]
<1>1. v \in DocsOver(Doc3)
  BY DEF Doc4
<1>2. \A p \in Places(v) : Child(v, p) \in Doc3
  BY <1>1, ChildOf
<1>3. \A p \in Places(v) : Bytes3(Rewrite3(Child(v, p), keys, r)) = Bytes3(Child(v, p))
  BY <1>2, BytesRewritten3
<1>4. DOMAIN below = Places(v)
  OBVIOUS
<1>5. Places(made) = Places(v) /\ \A p \in Places(v) : Child(made, p) = below[p]
  <2> HIDE DEF below
  <2>1. Places(made) = Places(v)
    BY <1>1, <1>4, RewritePlaces
  <2>2. \A p \in Places(v) : Child(made, p) = below[p]
    BY <1>1, <1>4, RewriteChild
  <2> QED  BY <2>1, <2>2
<1> HIDE DEF made
<1>6. new = old
  BY <1>3, <1>5
<1> HIDE DEF old, new, below
<1>7. BytesOver(made, old) = BytesOver(v, old)
  BY <1>1, <1>4, BytesParts DEF made
<1> QED
  BY <1>6, <1>7 DEF Bytes4, Rewrite4, old, new, below, made

\* Level 4: rewritten twice, once is enough.
LEMMA Twice4 ==
    ASSUME NEW v \in Doc4, NEW keys1 \in Seq(AllKeys), NEW keys2, NEW keys3,
           SameOrder(keys2, keys3), NEW r1, NEW r2, NEW r3, Tame(r1),
           Composed(r1, r2, r3)
    PROVE  Rewrite4(Rewrite4(v, keys1, r1), keys2, r2) = Rewrite4(v, keys3, r3)
<1> DEFINE below1 == [p \in Places(v) |-> Rewrite3(Child(v, p), keys1, r1)]
           made == RewriteOver(v, keys1, r1, below1)
           below2 == [p \in Places(made) |-> Rewrite3(Child(made, p), keys2, r2)]
           below3 == [p \in Places(v) |-> Rewrite3(Child(v, p), keys3, r3)]
<1>1. v \in DocsOver(Doc3)
  BY DEF Doc4
<1>2. \A p \in Places(v) : Child(v, p) \in Doc3
  BY <1>1, ChildOf
<1>3. \A p \in Places(v) : Rewrite3(Child(v, p), keys1, r1) \in Doc3
  BY <1>2, Typed3
<1>4. below1 \in [Places(v) -> Doc3] /\ DOMAIN below1 = Places(v)
  BY <1>3
<1>5. \A p \in Places(v) : Rewrite3(Rewrite3(Child(v, p), keys1, r1), keys2, r2) =
                              Rewrite3(Child(v, p), keys3, r3)
  BY <1>2, Twice3
<1>6. Places(made) = Places(v)
  <2> HIDE DEF below1
  <2> QED  BY <1>1, <1>4, RewritePlaces
<1>7. \A p \in Places(v) : Child(made, p) = below1[p]
  <2> HIDE DEF below1
  <2> QED  BY <1>1, <1>4, RewriteChild
<1> HIDE DEF made
<1>8. below2 = below3
  BY <1>5, <1>6, <1>7
<1> HIDE DEF below1, below2, below3
<1>9. RewriteOver(made, keys2, r2, below3) = RewriteOver(v, keys3, r3, below3)
  BY <1>1, <1>4, RewriteTwiceOver DEF made, Composed
<1> QED
  BY <1>8, <1>9 DEF Rewrite4, below1, below2, below3, made

\* Level 4: replacements that agree on the leaves of a document rewrite it alike.
LEMMA Alike4 ==
    ASSUME NEW v \in Doc4, NEW keys, NEW r1, NEW r2, SameOn(Values(Leaves4(v)), r1, r2)
    PROVE  Rewrite4(v, keys, r1) = Rewrite4(v, keys, r2)
<1> DEFINE below1 == [p \in Places(v) |-> Rewrite3(Child(v, p), keys, r1)]
           below2 == [p \in Places(v) |-> Rewrite3(Child(v, p), keys, r2)]
           old == [p \in Places(v) |-> Leaves3(Child(v, p))]
<1>1. v \in DocsOver(Doc3)
  BY DEF Doc4
<1>2. \A p \in Places(v) : Child(v, p) \in Doc3
  BY <1>1, ChildOf
<1>3. SameOn(Values(LeavesOver(v, old)), r1, r2)
  BY DEF Leaves4
<1>4. v \notin LeafDoc => \A p \in Places(v) : SameOn(Values(old[p]), r1, r2)
  <2> HIDE DEF old
  <2> QED  BY <1>1, <1>3, RewriteSameOver
<1>5. \A p \in Places(v) : SameOn(Values(Leaves3(Child(v, p))), r1, r2)
  BY <1>4, LeafIsSimple
<1>6. \A p \in Places(v) :
         Rewrite3(Child(v, p), keys, r1) = Rewrite3(Child(v, p), keys, r2)
  BY <1>2, <1>5, Alike3
<1>7. below1 = below2
  BY <1>6
<1> HIDE DEF below1, below2, old
<1>8. RewriteOver(v, keys, r1, below1) = RewriteOver(v, keys, r2, below1)
  BY <1>1, <1>3, RewriteSameOver
<1> QED
  BY <1>7, <1>8 DEF Rewrite4, below1, below2

\* Level 4: one level less of the walk finds the same leaves.
LEMMA OneLess4 ==
    ASSUME NEW v \in Doc4
    PROVE  Values(Leaves3(v)) = Values(Leaves4(v))
<1> DEFINE low == [p \in Places(v) |-> Leaves2(Child(v, p))]
           high == [p \in Places(v) |-> Leaves3(Child(v, p))]
<1>1. v \in DocsOver(Doc3)
  BY DEF Doc4
<1>2. \A p \in Places(v) : Values(low[p]) = Values(high[p])
  BY <1>1, ChildOf, OneLess3
<1> HIDE DEF low, high
<1>3. v \in LeafDoc => Values(LeavesOver(v, low)) = Values(LeavesOver(v, high))
  BY <1>1, LeavesParts
<1>4. v \notin LeafDoc => Values(LeavesOver(v, low)) = Values(LeavesOver(v, high))
  <2> SUFFICES ASSUME v \notin LeafDoc
               PROVE  Values(LeavesOver(v, low)) = Values(LeavesOver(v, high))
    OBVIOUS
  <2>1. Values(LeavesOver(v, low)) = UNION {Values(low[p]) : p \in Places(v)}
    BY <1>1, LeavesParts
  <2>2. Values(LeavesOver(v, high)) = UNION {Values(high[p]) : p \in Places(v)}
    BY <1>1, LeavesParts
  <2> QED  BY <1>2, <2>1, <2>2
<1> QED
  BY <1>3, <1>4 DEF low, high, Leaves3, Leaves4

\* Level 5: a document is rewritten to a document.
LEMMA Typed5 ==
    ASSUME NEW v \in Doc5, NEW keys \in Seq(AllKeys), NEW r, Tame(r)
    PROVE  Rewrite(v, keys, r) \in Doc5
<1> DEFINE below == [p \in Places(v) |-> Rewrite4(Child(v, p), keys, r)]
<1>1. v \in DocsOver(Doc4)
  BY DEF Doc5
<1>2. \A p \in Places(v) : Rewrite4(Child(v, p), keys, r) \in Doc4
  BY <1>1, ChildOf, Typed4
<1>3. below \in [Places(v) -> Doc4]
  BY <1>2
<1> HIDE DEF below
<1>4. RewriteOver(v, keys, r, below) \in DocsOver(Doc4)
  BY <1>1, <1>3, RewriteTyped
<1> QED
  BY <1>4 DEF below, Doc5, Rewrite

\* Level 5: the leaves of a document are leaves.
LEMMA LeavesTyped5 ==
    ASSUME NEW v \in Doc5
    PROVE  Values(Leaves(v)) \subseteq LeafDoc
<1> DEFINE below == [p \in Places(v) |-> Leaves4(Child(v, p))]
<1>1. v \in DocsOver(Doc4)
  BY DEF Doc5
<1>2. \A p \in Places(v) : Values(below[p]) \subseteq LeafDoc
  BY <1>1, ChildOf, LeavesTyped4
<1> HIDE DEF below
<1>3. Values(LeavesOver(v, below)) \subseteq LeafDoc
  BY <1>1, <1>2, LeavesAreLeaves
<1> QED
  BY <1>3 DEF below, Leaves

\* Level 5: the leaves of the rewritten document are the old ones, replaced.
LEMMA LeavesRewritten5 ==
    ASSUME NEW v \in Doc5, NEW keys \in Seq(AllKeys), NEW r, Tame(r)
    PROVE  Values(Leaves(Rewrite(v, keys, r))) =
              {Replace(leaf, r) : leaf \in Values(Leaves(v))}
<1> DEFINE below == [p \in Places(v) |-> Rewrite4(Child(v, p), keys, r)]
           old == [p \in Places(v) |-> Leaves4(Child(v, p))]
           made == RewriteOver(v, keys, r, below)
           new == [p \in Places(made) |-> Leaves4(Child(made, p))]
<1>1. v \in DocsOver(Doc4)
  BY DEF Doc5
<1>2. \A p \in Places(v) : Child(v, p) \in Doc4
  BY <1>1, ChildOf
<1>3. \A p \in Places(v) : Rewrite4(Child(v, p), keys, r) \in Doc4
  BY <1>2, Typed4
<1>4. below \in [Places(v) -> Doc4] /\ DOMAIN below = Places(v)
  BY <1>3
<1>5. \A p \in Places(v) : Values(Leaves4(Rewrite4(Child(v, p), keys, r))) =
                              {Replace(leaf, r) : leaf \in Values(Leaves4(Child(v, p)))}
  BY <1>2, LeavesRewritten4
<1>6. Places(made) = Places(v)
  <2> HIDE DEF below
  <2> QED  BY <1>1, <1>4, RewritePlaces
<1>7. \A p \in Places(v) : Child(made, p) = below[p]
  <2> HIDE DEF below
  <2> QED  BY <1>1, <1>4, RewriteChild
<1> HIDE DEF made
<1>8. \A p \in Places(v) : new[p] = Leaves4(Rewrite4(Child(v, p), keys, r))
  BY <1>6, <1>7
<1>9. Replaced(Places(v), old, new, r)
  BY <1>5, <1>8 DEF Replaced
<1> HIDE DEF old, new, below
<1>10. Values(LeavesOver(made, new)) =
          {Replace(leaf, r) : leaf \in Values(LeavesOver(v, old))}
  BY <1>1, <1>4, <1>9, RewriteLeavesOver DEF made
<1> QED
  BY <1>10 DEF Leaves, Rewrite, old, new, below, made

\* Level 5: the rewritten document is as long as the old one.
LEMMA BytesRewritten5 ==
    ASSUME NEW v \in Doc5, NEW keys \in Seq(AllKeys), NEW r, Tame(r)
    PROVE  PayloadBytes(Rewrite(v, keys, r)) = PayloadBytes(v)
<1> DEFINE below == [p \in Places(v) |-> Rewrite4(Child(v, p), keys, r)]
           old == [p \in Places(v) |-> Bytes4(Child(v, p))]
           made == RewriteOver(v, keys, r, below)
           new == [p \in Places(made) |-> Bytes4(Child(made, p))]
<1>1. v \in DocsOver(Doc4)
  BY DEF Doc5
<1>2. \A p \in Places(v) : Child(v, p) \in Doc4
  BY <1>1, ChildOf
<1>3. \A p \in Places(v) : Bytes4(Rewrite4(Child(v, p), keys, r)) = Bytes4(Child(v, p))
  BY <1>2, BytesRewritten4
<1>4. DOMAIN below = Places(v)
  OBVIOUS
<1>5. Places(made) = Places(v) /\ \A p \in Places(v) : Child(made, p) = below[p]
  <2> HIDE DEF below
  <2>1. Places(made) = Places(v)
    BY <1>1, <1>4, RewritePlaces
  <2>2. \A p \in Places(v) : Child(made, p) = below[p]
    BY <1>1, <1>4, RewriteChild
  <2> QED  BY <2>1, <2>2
<1> HIDE DEF made
<1>6. new = old
  BY <1>3, <1>5
<1> HIDE DEF old, new, below
<1>7. BytesOver(made, old) = BytesOver(v, old)
  BY <1>1, <1>4, BytesParts DEF made
<1> QED
  BY <1>6, <1>7 DEF PayloadBytes, Rewrite, old, new, below, made

\* Level 5: rewritten twice, once is enough.
LEMMA Twice5 ==
    ASSUME NEW v \in Doc5, NEW keys1 \in Seq(AllKeys), NEW keys2, NEW keys3,
           SameOrder(keys2, keys3), NEW r1, NEW r2, NEW r3, Tame(r1),
           Composed(r1, r2, r3)
    PROVE  Rewrite(Rewrite(v, keys1, r1), keys2, r2) = Rewrite(v, keys3, r3)
<1> DEFINE below1 == [p \in Places(v) |-> Rewrite4(Child(v, p), keys1, r1)]
           made == RewriteOver(v, keys1, r1, below1)
           below2 == [p \in Places(made) |-> Rewrite4(Child(made, p), keys2, r2)]
           below3 == [p \in Places(v) |-> Rewrite4(Child(v, p), keys3, r3)]
<1>1. v \in DocsOver(Doc4)
  BY DEF Doc5
<1>2. \A p \in Places(v) : Child(v, p) \in Doc4
  BY <1>1, ChildOf
<1>3. \A p \in Places(v) : Rewrite4(Child(v, p), keys1, r1) \in Doc4
  BY <1>2, Typed4
<1>4. below1 \in [Places(v) -> Doc4] /\ DOMAIN below1 = Places(v)
  BY <1>3
<1>5. \A p \in Places(v) : Rewrite4(Rewrite4(Child(v, p), keys1, r1), keys2, r2) =
                              Rewrite4(Child(v, p), keys3, r3)
  BY <1>2, Twice4
<1>6. Places(made) = Places(v)
  <2> HIDE DEF below1
  <2> QED  BY <1>1, <1>4, RewritePlaces
<1>7. \A p \in Places(v) : Child(made, p) = below1[p]
  <2> HIDE DEF below1
  <2> QED  BY <1>1, <1>4, RewriteChild
<1> HIDE DEF made
<1>8. below2 = below3
  BY <1>5, <1>6, <1>7
<1> HIDE DEF below1, below2, below3
<1>9. RewriteOver(made, keys2, r2, below3) = RewriteOver(v, keys3, r3, below3)
  BY <1>1, <1>4, RewriteTwiceOver DEF made, Composed
<1> QED
  BY <1>8, <1>9 DEF Rewrite, below1, below2, below3, made

\* Level 5: replacements that agree on the leaves of a document rewrite it alike.
LEMMA Alike5 ==
    ASSUME NEW v \in Doc5, NEW keys, NEW r1, NEW r2, SameOn(Values(Leaves(v)), r1, r2)
    PROVE  Rewrite(v, keys, r1) = Rewrite(v, keys, r2)
<1> DEFINE below1 == [p \in Places(v) |-> Rewrite4(Child(v, p), keys, r1)]
           below2 == [p \in Places(v) |-> Rewrite4(Child(v, p), keys, r2)]
           old == [p \in Places(v) |-> Leaves4(Child(v, p))]
<1>1. v \in DocsOver(Doc4)
  BY DEF Doc5
<1>2. \A p \in Places(v) : Child(v, p) \in Doc4
  BY <1>1, ChildOf
<1>3. SameOn(Values(LeavesOver(v, old)), r1, r2)
  BY DEF Leaves
<1>4. v \notin LeafDoc => \A p \in Places(v) : SameOn(Values(old[p]), r1, r2)
  <2> HIDE DEF old
  <2> QED  BY <1>1, <1>3, RewriteSameOver
<1>5. \A p \in Places(v) : SameOn(Values(Leaves4(Child(v, p))), r1, r2)
  BY <1>4, LeafIsSimple
<1>6. \A p \in Places(v) :
         Rewrite4(Child(v, p), keys, r1) = Rewrite4(Child(v, p), keys, r2)
  BY <1>2, <1>5, Alike4
<1>7. below1 = below2
  BY <1>6
<1> HIDE DEF below1, below2, old
<1>8. RewriteOver(v, keys, r1, below1) = RewriteOver(v, keys, r2, below1)
  BY <1>1, <1>3, RewriteSameOver
<1> QED
  BY <1>7, <1>8 DEF Rewrite, below1, below2

\* Level 5: one level less of the walk finds the same leaves.
LEMMA OneLess5 ==
    ASSUME NEW v \in Doc5
    PROVE  Values(Leaves4(v)) = Values(Leaves(v))
<1> DEFINE low == [p \in Places(v) |-> Leaves3(Child(v, p))]
           high == [p \in Places(v) |-> Leaves4(Child(v, p))]
<1>1. v \in DocsOver(Doc4)
  BY DEF Doc5
<1>2. \A p \in Places(v) : Values(low[p]) = Values(high[p])
  BY <1>1, ChildOf, OneLess4
<1> HIDE DEF low, high
<1>3. v \in LeafDoc => Values(LeavesOver(v, low)) = Values(LeavesOver(v, high))
  BY <1>1, LeavesParts
<1>4. v \notin LeafDoc => Values(LeavesOver(v, low)) = Values(LeavesOver(v, high))
  <2> SUFFICES ASSUME v \notin LeafDoc
               PROVE  Values(LeavesOver(v, low)) = Values(LeavesOver(v, high))
    OBVIOUS
  <2>1. Values(LeavesOver(v, low)) = UNION {Values(low[p]) : p \in Places(v)}
    BY <1>1, LeavesParts
  <2>2. Values(LeavesOver(v, high)) = UNION {Values(high[p]) : p \in Places(v)}
    BY <1>1, LeavesParts
  <2> QED  BY <1>2, <2>1, <2>2
<1> QED
  BY <1>3, <1>4 DEF low, high, Leaves4, Leaves
-----------------------------------------------------------------------------
(***************************************************************************)
(* Values that differ in the order of their keys and in what r replaces,   *)
(* down to a number of levels.                                             *)
(***************************************************************************)
LikeAt(v, w, r) ==
    \/ v \in LeafDoc /\ w \in LeafDoc /\ w = Replace(v, r)
    \/ v.tag \in {"object", "array"} /\ w.tag = v.tag /\ Places(w) = Places(v)

Like1(v, w, r) == LikeAt(v, w, r)
Like2(v, w, r) ==
    LikeAt(v, w, r) /\ \A p \in Places(v) : Like1(Child(v, p), Child(w, p), r)
Like3(v, w, r) ==
    LikeAt(v, w, r) /\ \A p \in Places(v) : Like2(Child(v, p), Child(w, p), r)
Like4(v, w, r) ==
    LikeAt(v, w, r) /\ \A p \in Places(v) : Like3(Child(v, p), Child(w, p), r)
Like5(v, w, r) ==
    LikeAt(v, w, r) /\ \A p \in Places(v) : Like4(Child(v, p), Child(w, p), r)

\* Like down to a level is like down to the level above it.
LEMMA Like2IsLike1 == ASSUME NEW v, NEW w, NEW r, Like2(v, w, r) PROVE Like1(v, w, r)
  BY DEF Like1, Like2

\* Alike three levels down is alike two levels down.
LEMMA Like3IsLike2 == ASSUME NEW v, NEW w, NEW r, Like3(v, w, r) PROVE Like2(v, w, r)
  BY Like2IsLike1 DEF Like2, Like3

\* Alike four levels down is alike three levels down.
LEMMA Like4IsLike3 == ASSUME NEW v, NEW w, NEW r, Like4(v, w, r) PROVE Like3(v, w, r)
  BY Like3IsLike2 DEF Like3, Like4

\* At one value, the rewritten value is like the old one.
LEMMA LikeRewriteOver ==
    ASSUME NEW S, NEW v \in DocsOver(S), NEW keys, NEW r, Tame(r),
           NEW below, DOMAIN below = Places(v)
    PROVE  LikeAt(v, RewriteOver(v, keys, r, below), r)
<1>1. CASE v \in LeafDoc
  BY <1>1, RewriteLeaf DEF LikeAt, Tame
<1>2. CASE v \notin LeafDoc
  <2>1. PICK w : w = RewriteOver(v, keys, r, below)
    OBVIOUS
  <2>2. v.tag \in {"object", "array"} /\ w.tag = v.tag
    BY <1>2, <2>1, ObjectParts, ArrayParts DEF DocsOver, RewriteOver, Object, Arr
  <2>3. Places(w) = Places(v)
    BY <1>2, <2>1, RewriteParts
  <2> QED  BY <2>1, <2>2, <2>3 DEF LikeAt
<1> QED
  BY <1>1, <1>2

\* A value is like itself.
LEMMA LikeItselfAt ==
    ASSUME NEW S, NEW v \in DocsOver(S)
    PROVE  LikeAt(v, v, AsTheyAre)
<1>1. CASE v \in LeafDoc
  BY <1>1 DEF LikeAt, Replace, AsTheyAre
<1>2. CASE v \notin LeafDoc
  BY <1>2, ObjectParts, ArrayParts DEF LikeAt, DocsOver
<1> QED
  BY <1>1, <1>2

\* At one value: like values, the same keys listed first, the same after that.
LEMMA RewriteLikeOver ==
    ASSUME NEW S, NEW v \in DocsOver(S), NEW w \in DocsOver(S),
           LikeAt(v, w, AsTheyAre), NEW keys \in Seq(AllKeys), DocKeys \subseteq ToSet(keys),
           NEW r, NEW below
    PROVE  RewriteOver(w, keys, r, below) = RewriteOver(v, keys, r, below)
<1>1. CASE v \in LeafDoc
  <2>1. w = v
    BY <1>1, LeafIsSimple DEF LikeAt, Replace, AsTheyAre
  <2> QED  BY <2>1
<1>2. CASE v \in ObjectsOver(S)
  <2>1. v.tag = "object" /\ Places(v) = Keys(v)
    BY <1>2, ObjectParts
  <2>2. w.tag = "object" /\ Places(w) = Places(v)
    BY <2>1, LeafIsSimple DEF LikeAt
  <2>3. w \in ObjectsOver(S)
    BY <2>2, LeafIsSimple, ArrayParts DEF DocsOver
  <2>4. Keys(w) = Keys(v)
    BY <2>1, <2>2, <2>3, ObjectParts
  <2>5. Reordered(v, keys) = Kept(keys, Keys(v)) /\ Reordered(w, keys) = Kept(keys, Keys(w))
    BY <1>2, <2>3, ReorderedByAll
  <2>6. /\ RewriteOver(w, keys, r, below) = Object(Reordered(w, keys), below)
        /\ RewriteOver(v, keys, r, below) = Object(Reordered(v, keys), below)
    BY <1>2, <2>3, RewriteObject
  <2> QED  BY <2>4, <2>5, <2>6
<1>3. CASE v \in ArraysOver(S)
  <2>1. v.tag = "array"
    BY <1>3, ArrayParts
  <2>2. w.tag = "array"
    BY <2>1, LeafIsSimple DEF LikeAt
  <2> QED  BY <2>1, <2>2 DEF RewriteOver
<1> QED
  BY <1>1, <1>2, <1>3 DEF DocsOver

\* Level 1: the rewritten document is like the old one.
LEMMA LikeRewritten1 ==
    ASSUME NEW v \in Doc1, NEW keys, NEW r, Tame(r)
    PROVE  Like1(v, Rewrite1(v, keys, r), r)
<1> DEFINE below == [p \in Places(v) |-> Rewrite0(Child(v, p), keys, r)]
<1>1. v \in DocsOver(Doc0)
  BY DEF Doc1
<1>2. LikeAt(v, RewriteOver(v, keys, r, below), r)
  BY <1>1, LikeRewriteOver
<1> QED
  BY <1>2 DEF Rewrite1, Like1

\* Level 1: a document is like itself.
LEMMA LikeItself1 ==
    ASSUME NEW v \in Doc1
    PROVE  Like1(v, v, AsTheyAre)
<1>1. v \in DocsOver(Doc0)
  BY DEF Doc1
<1> QED
  BY <1>1, LikeItselfAt, ChildOf DEF Like1

\* Level 1: like documents are rewritten alike, where every key is listed.
LEMMA RewriteLike1 ==
    ASSUME NEW v \in Doc1, NEW w \in Doc1, Like1(v, w, AsTheyAre),
           NEW keys \in Seq(AllKeys), DocKeys \subseteq ToSet(keys), NEW r
    PROVE  Rewrite1(w, keys, r) = Rewrite1(v, keys, r)
<1> DEFINE old == [p \in Places(v) |-> Rewrite0(Child(v, p), keys, r)]
           new == [p \in Places(w) |-> Rewrite0(Child(w, p), keys, r)]
<1>1. v \in DocsOver(Doc0) /\ w \in DocsOver(Doc0) /\ LikeAt(v, w, AsTheyAre)
  BY DEF Doc1, Like1
<1>2. Places(w) = Places(v)
  BY LeafIsSimple, <1>1 DEF LikeAt
<1>3. \A p \in Places(v) : Child(v, p) \in Doc0 /\ Child(w, p) \in Doc0
  BY <1>1, <1>2, ChildOf
<1>4. \A p \in Places(v) :
         Rewrite0(Child(w, p), keys, r) = Rewrite0(Child(v, p), keys, r)
  BY <1>3 DEF Like1, Doc0
<1>5. new = old
  BY <1>2, <1>4
<1> HIDE DEF old, new
<1>6. RewriteOver(w, keys, r, old) = RewriteOver(v, keys, r, old)
  BY <1>1, RewriteLikeOver
<1> QED
  BY <1>5, <1>6 DEF old, new, Rewrite1

\* Level 2: the rewritten document is like the old one.
LEMMA LikeRewritten2 ==
    ASSUME NEW v \in Doc2, NEW keys, NEW r, Tame(r)
    PROVE  Like2(v, Rewrite2(v, keys, r), r)
<1> DEFINE below == [p \in Places(v) |-> Rewrite1(Child(v, p), keys, r)]
<1>1. v \in DocsOver(Doc1) /\ DOMAIN below = Places(v)
  BY DEF Doc2
<1>2. LikeAt(v, RewriteOver(v, keys, r, below), r)
  BY <1>1, LikeRewriteOver
<1>3. ASSUME NEW p \in Places(v)
      PROVE  Like1(Child(v, p), Child(RewriteOver(v, keys, r, below), p), r)
  <2>1. Child(RewriteOver(v, keys, r, below), p) = below[p]
    <3> HIDE DEF below
    <3> QED  BY <1>1, RewriteChild
  <2>2. Child(v, p) \in Doc1
    BY <1>1, ChildOf
  <2> QED  BY <2>1, <2>2, LikeRewritten1
<1> QED
  BY <1>2, <1>3 DEF Rewrite2, Like2

\* Level 2: a document is like itself.
LEMMA LikeItself2 ==
    ASSUME NEW v \in Doc2
    PROVE  Like2(v, v, AsTheyAre)
<1>1. v \in DocsOver(Doc1)
  BY DEF Doc2
<1> QED
  BY <1>1, LikeItselfAt, ChildOf, LikeItself1 DEF Like2

\* Level 2: like documents are rewritten alike, where every key is listed.
LEMMA RewriteLike2 ==
    ASSUME NEW v \in Doc2, NEW w \in Doc2, Like2(v, w, AsTheyAre),
           NEW keys \in Seq(AllKeys), DocKeys \subseteq ToSet(keys), NEW r
    PROVE  Rewrite2(w, keys, r) = Rewrite2(v, keys, r)
<1> DEFINE old == [p \in Places(v) |-> Rewrite1(Child(v, p), keys, r)]
           new == [p \in Places(w) |-> Rewrite1(Child(w, p), keys, r)]
<1>1. v \in DocsOver(Doc1) /\ w \in DocsOver(Doc1) /\ LikeAt(v, w, AsTheyAre)
  BY DEF Doc2, Like2
<1>2. Places(w) = Places(v)
  BY LeafIsSimple, <1>1 DEF LikeAt
<1>3. \A p \in Places(v) : Child(v, p) \in Doc1 /\ Child(w, p) \in Doc1
  BY <1>1, <1>2, ChildOf
<1>4. \A p \in Places(v) :
         Rewrite1(Child(w, p), keys, r) = Rewrite1(Child(v, p), keys, r)
  BY <1>3, RewriteLike1 DEF Like2
<1>5. new = old
  BY <1>2, <1>4
<1> HIDE DEF old, new
<1>6. RewriteOver(w, keys, r, old) = RewriteOver(v, keys, r, old)
  BY <1>1, RewriteLikeOver
<1> QED
  BY <1>5, <1>6 DEF old, new, Rewrite2

\* Level 3: the rewritten document is like the old one.
LEMMA LikeRewritten3 ==
    ASSUME NEW v \in Doc3, NEW keys, NEW r, Tame(r)
    PROVE  Like3(v, Rewrite3(v, keys, r), r)
<1> DEFINE below == [p \in Places(v) |-> Rewrite2(Child(v, p), keys, r)]
<1>1. v \in DocsOver(Doc2) /\ DOMAIN below = Places(v)
  BY DEF Doc3
<1>2. LikeAt(v, RewriteOver(v, keys, r, below), r)
  BY <1>1, LikeRewriteOver
<1>3. ASSUME NEW p \in Places(v)
      PROVE  Like2(Child(v, p), Child(RewriteOver(v, keys, r, below), p), r)
  <2>1. Child(RewriteOver(v, keys, r, below), p) = below[p]
    <3> HIDE DEF below
    <3> QED  BY <1>1, RewriteChild
  <2>2. Child(v, p) \in Doc2
    BY <1>1, ChildOf
  <2> QED  BY <2>1, <2>2, LikeRewritten2
<1> QED
  BY <1>2, <1>3 DEF Rewrite3, Like3

\* Level 3: a document is like itself.
LEMMA LikeItself3 ==
    ASSUME NEW v \in Doc3
    PROVE  Like3(v, v, AsTheyAre)
<1>1. v \in DocsOver(Doc2)
  BY DEF Doc3
<1> QED
  BY <1>1, LikeItselfAt, ChildOf, LikeItself2 DEF Like3

\* Level 3: like documents are rewritten alike, where every key is listed.
LEMMA RewriteLike3 ==
    ASSUME NEW v \in Doc3, NEW w \in Doc3, Like3(v, w, AsTheyAre),
           NEW keys \in Seq(AllKeys), DocKeys \subseteq ToSet(keys), NEW r
    PROVE  Rewrite3(w, keys, r) = Rewrite3(v, keys, r)
<1> DEFINE old == [p \in Places(v) |-> Rewrite2(Child(v, p), keys, r)]
           new == [p \in Places(w) |-> Rewrite2(Child(w, p), keys, r)]
<1>1. v \in DocsOver(Doc2) /\ w \in DocsOver(Doc2) /\ LikeAt(v, w, AsTheyAre)
  BY DEF Doc3, Like3
<1>2. Places(w) = Places(v)
  BY LeafIsSimple, <1>1 DEF LikeAt
<1>3. \A p \in Places(v) : Child(v, p) \in Doc2 /\ Child(w, p) \in Doc2
  BY <1>1, <1>2, ChildOf
<1>4. \A p \in Places(v) :
         Rewrite2(Child(w, p), keys, r) = Rewrite2(Child(v, p), keys, r)
  BY <1>3, RewriteLike2 DEF Like3
<1>5. new = old
  BY <1>2, <1>4
<1> HIDE DEF old, new
<1>6. RewriteOver(w, keys, r, old) = RewriteOver(v, keys, r, old)
  BY <1>1, RewriteLikeOver
<1> QED
  BY <1>5, <1>6 DEF old, new, Rewrite3

\* Level 4: the rewritten document is like the old one.
LEMMA LikeRewritten4 ==
    ASSUME NEW v \in Doc4, NEW keys, NEW r, Tame(r)
    PROVE  Like4(v, Rewrite4(v, keys, r), r)
<1> DEFINE below == [p \in Places(v) |-> Rewrite3(Child(v, p), keys, r)]
<1>1. v \in DocsOver(Doc3) /\ DOMAIN below = Places(v)
  BY DEF Doc4
<1>2. LikeAt(v, RewriteOver(v, keys, r, below), r)
  BY <1>1, LikeRewriteOver
<1>3. ASSUME NEW p \in Places(v)
      PROVE  Like3(Child(v, p), Child(RewriteOver(v, keys, r, below), p), r)
  <2>1. Child(RewriteOver(v, keys, r, below), p) = below[p]
    <3> HIDE DEF below
    <3> QED  BY <1>1, RewriteChild
  <2>2. Child(v, p) \in Doc3
    BY <1>1, ChildOf
  <2> QED  BY <2>1, <2>2, LikeRewritten3
<1> QED
  BY <1>2, <1>3 DEF Rewrite4, Like4

\* Level 4: a document is like itself.
LEMMA LikeItself4 ==
    ASSUME NEW v \in Doc4
    PROVE  Like4(v, v, AsTheyAre)
<1>1. v \in DocsOver(Doc3)
  BY DEF Doc4
<1> QED
  BY <1>1, LikeItselfAt, ChildOf, LikeItself3 DEF Like4

\* Level 4: like documents are rewritten alike, where every key is listed.
LEMMA RewriteLike4 ==
    ASSUME NEW v \in Doc4, NEW w \in Doc4, Like4(v, w, AsTheyAre),
           NEW keys \in Seq(AllKeys), DocKeys \subseteq ToSet(keys), NEW r
    PROVE  Rewrite4(w, keys, r) = Rewrite4(v, keys, r)
<1> DEFINE old == [p \in Places(v) |-> Rewrite3(Child(v, p), keys, r)]
           new == [p \in Places(w) |-> Rewrite3(Child(w, p), keys, r)]
<1>1. v \in DocsOver(Doc3) /\ w \in DocsOver(Doc3) /\ LikeAt(v, w, AsTheyAre)
  BY DEF Doc4, Like4
<1>2. Places(w) = Places(v)
  BY LeafIsSimple, <1>1 DEF LikeAt
<1>3. \A p \in Places(v) : Child(v, p) \in Doc3 /\ Child(w, p) \in Doc3
  BY <1>1, <1>2, ChildOf
<1>4. \A p \in Places(v) :
         Rewrite3(Child(w, p), keys, r) = Rewrite3(Child(v, p), keys, r)
  BY <1>3, RewriteLike3 DEF Like4
<1>5. new = old
  BY <1>2, <1>4
<1> HIDE DEF old, new
<1>6. RewriteOver(w, keys, r, old) = RewriteOver(v, keys, r, old)
  BY <1>1, RewriteLikeOver
<1> QED
  BY <1>5, <1>6 DEF old, new, Rewrite4

\* Level 5: the rewritten document is like the old one.
LEMMA LikeRewritten5 ==
    ASSUME NEW v \in Doc5, NEW keys, NEW r, Tame(r)
    PROVE  Like5(v, Rewrite(v, keys, r), r)
<1> DEFINE below == [p \in Places(v) |-> Rewrite4(Child(v, p), keys, r)]
<1>1. v \in DocsOver(Doc4) /\ DOMAIN below = Places(v)
  BY DEF Doc5
<1>2. LikeAt(v, RewriteOver(v, keys, r, below), r)
  BY <1>1, LikeRewriteOver
<1>3. ASSUME NEW p \in Places(v)
      PROVE  Like4(Child(v, p), Child(RewriteOver(v, keys, r, below), p), r)
  <2>1. Child(RewriteOver(v, keys, r, below), p) = below[p]
    <3> HIDE DEF below
    <3> QED  BY <1>1, RewriteChild
  <2>2. Child(v, p) \in Doc4
    BY <1>1, ChildOf
  <2> QED  BY <2>1, <2>2, LikeRewritten4
<1> QED
  BY <1>2, <1>3 DEF Rewrite, Like5

\* Level 5: a document is like itself.
LEMMA LikeItself5 ==
    ASSUME NEW v \in Doc5
    PROVE  Like5(v, v, AsTheyAre)
<1>1. v \in DocsOver(Doc4)
  BY DEF Doc5
<1> QED
  BY <1>1, LikeItselfAt, ChildOf, LikeItself4 DEF Like5

\* Level 5: like documents are rewritten alike, where every key is listed.
LEMMA RewriteLike5 ==
    ASSUME NEW v \in Doc5, NEW w \in Doc5, Like5(v, w, AsTheyAre),
           NEW keys \in Seq(AllKeys), DocKeys \subseteq ToSet(keys), NEW r
    PROVE  Rewrite(w, keys, r) = Rewrite(v, keys, r)
<1> DEFINE old == [p \in Places(v) |-> Rewrite4(Child(v, p), keys, r)]
           new == [p \in Places(w) |-> Rewrite4(Child(w, p), keys, r)]
<1>1. v \in DocsOver(Doc4) /\ w \in DocsOver(Doc4) /\ LikeAt(v, w, AsTheyAre)
  BY DEF Doc5, Like5
<1>2. Places(w) = Places(v)
  BY LeafIsSimple, <1>1 DEF LikeAt
<1>3. \A p \in Places(v) : Child(v, p) \in Doc4 /\ Child(w, p) \in Doc4
  BY <1>1, <1>2, ChildOf
<1>4. \A p \in Places(v) :
         Rewrite4(Child(w, p), keys, r) = Rewrite4(Child(v, p), keys, r)
  BY <1>3, RewriteLike4 DEF Like5
<1>5. new = old
  BY <1>2, <1>4
<1> HIDE DEF old, new
<1>6. RewriteOver(w, keys, r, old) = RewriteOver(v, keys, r, old)
  BY <1>1, RewriteLikeOver
<1> QED
  BY <1>5, <1>6 DEF old, new, Rewrite
-----------------------------------------------------------------------------
(***************************************************************************)
(* What it is for a payload to decode.                                     *)
(***************************************************************************)

\* The first error of checks is Ok when every check is.
LEMMA FirstErrorOk ==
    ASSUME NEW n \in Nat, NEW checks, DOMAIN checks = 1..n
    PROVE  FirstError(checks) = Ok <=> \A i \in 1..n : checks[i] = Ok
<1> DEFINE failed == {i \in DOMAIN checks : checks[i] # Ok}
<1>1. FirstError(checks) = IF failed = {} THEN Ok ELSE checks[Min(failed)]
  BY DEF FirstError
<1>2. failed \in SUBSET (1..n)
  OBVIOUS
<1>3. failed # {} => Min(failed) \in failed
  <2> HIDE DEF failed
  <2> QED  BY <1>2, EndsOfASet
<1>4. failed # {} => checks[Min(failed)] # Ok
  BY <1>3
<1> QED
  BY <1>1, <1>4

\* A function that is a sequence of length n.
IsList(f, n) == f = [i \in 1..n |-> f[i]]

\* The same of two sequences of checks, one after the other.
LEMMA FirstErrorOfTwoOk ==
    ASSUME NEW n \in Nat, NEW m \in Nat, NEW f, NEW g,
           IsList(f, n), IsList(g, m)
    PROVE  FirstError(f \o g) = Ok <=>
              (\A i \in 1..n : f[i] = Ok) /\ (\A i \in 1..m : g[i] = Ok)
<1> DEFINE S == {f[i] : i \in 1..n} \cup {g[i] : i \in 1..m}
<1>1. f \in [1..n -> S] /\ g \in [1..m -> S]
  BY DEF IsList
<1> HIDE DEF S
<1>2. f \in Seq(S) /\ g \in Seq(S)
  BY <1>1, SeqDef
<1>3. Len(f) = n /\ Len(g) = m
  BY <1>1, <1>2, LenProperties
<1>4. /\ f \o g \in Seq(S) /\ Len(f \o g) = n + m
      /\ \A i \in 1..(n + m) :
            (f \o g)[i] = IF i <= n THEN f[i] ELSE g[i - n]
  BY <1>2, <1>3, ConcatProperties
<1>5. DOMAIN (f \o g) = 1..(n + m) /\ n + m \in Nat
  BY <1>4, LenProperties
<1> DEFINE both == f \o g
<1> HIDE DEF both
<1>6. FirstError(both) = Ok <=> \A i \in 1..(n + m) : both[i] = Ok
  BY <1>5, FirstErrorOk DEF both
<1>7. ASSUME \A i \in 1..(n + m) : both[i] = Ok
      PROVE  (\A i \in 1..n : f[i] = Ok) /\ (\A i \in 1..m : g[i] = Ok)
  <2>1. ASSUME NEW i \in 1..n PROVE f[i] = Ok
    <3>1. i \in 1..(n + m) /\ i <= n
      OBVIOUS
    <3> QED  BY <1>4, <1>7, <3>1 DEF both
  <2>2. ASSUME NEW i \in 1..m PROVE g[i] = Ok
    <3> DEFINE j == n + i
    <3>1. j \in 1..(n + m) /\ ~(j <= n) /\ j - n = i
      OBVIOUS
    <3> HIDE DEF j
    <3>2. both[j] = g[i]
      BY <1>4, <3>1 DEF both
    <3> QED  BY <1>7, <3>1, <3>2
  <2> QED  BY <2>1, <2>2
<1>8. ASSUME \A i \in 1..n : f[i] = Ok, \A i \in 1..m : g[i] = Ok,
             NEW i \in 1..(n + m)
      PROVE  both[i] = Ok
  <2>1. CASE i <= n
    <3>1. i \in 1..n
      BY <2>1
    <3> QED  BY <1>4, <1>8, <2>1, <3>1 DEF both
  <2>2. CASE ~(i <= n)
    <3>1. i - n \in 1..m
      BY <2>2
    <3> QED  BY <1>4, <1>8, <2>2, <3>1 DEF both
  <2> QED  BY <2>1, <2>2
<1> QED
  BY <1>6, <1>7, <1>8 DEF both

\* The structs: fields of known keys and shapes; a nested one has flat fields.
ScalarShapes == {"string", "boolean", "number", "count"}
FlatShapes == ScalarShapes \cup {"strings"}
NestedShapes == {"ceilings", "usage", "dossier"}
FieldShapes == FlatShapes \cup NestedShapes \cup {"options"}

Field(shapes) == [key : PlainKeys, shape : shapes, required : BOOLEAN]

\* Both SDKs declare the same fields in the same order.
LEMMA SameStructs ==
    /\ \A t \in KNOWN_TYPES : PayloadParser(t) = PayloadStruct(t)
    /\ \A shape \in NestedShapes : NestedParser(shape) = NestedStruct(shape)
    /\ ParseDecisionOption = DecisionOption
    /\ TS_KNOWN_TYPES = KNOWN_TYPES
<1>1. \A t \in KNOWN_TYPES : PayloadParser(t) = PayloadStruct(t)
  BY DEF KNOWN_TYPES, PayloadParser, PayloadStruct,
         ParseRunStarted, RunStartedPayload, ParseRunFinished, RunFinishedPayload,
         ParseAgentStarted, AgentStartedPayload, ParseAgentText, AgentTextPayload,
         ParseAgentToolUse, AgentToolUsePayload, ParseAgentToolResult,
         AgentToolResultPayload, ParseAgentCompleted, AgentCompletedPayload,
         ParseAgentWarning, AgentWarningPayload, ParseControlRequested,
         ControlRequestedPayload, ParseControlApplied, ControlAppliedPayload,
         ParseCaptureRefused, CaptureRefusedPayload, ParseDecisionRequested,
         DecisionRequestedPayload, ParseDecisionAnswered, DecisionAnsweredPayload
<1>2. \A shape \in NestedShapes : NestedParser(shape) = NestedStruct(shape)
  BY DEF NestedShapes, NestedParser, NestedStruct, ParseRunCeilings, RunCeilings,
         ParseRunUsage, RunUsage, ParseDecisionDossier, DecisionDossier
<1>3. ParseDecisionOption = DecisionOption
  BY DEF ParseDecisionOption, DecisionOption
<1>4. TS_KNOWN_TYPES = KNOWN_TYPES
  BY DEF TS_KNOWN_TYPES, KNOWN_TYPES
<1> QED
  BY <1>1, <1>2, <1>3, <1>4

\* Each payload struct is a sequence of fields.
LEMMA StructsTyped ==
    ASSUME NEW t \in KNOWN_TYPES
    PROVE  PayloadStruct(t) \in Seq(Field(FieldShapes))
<1> USE DEF Field, FieldShapes, FlatShapes, ScalarShapes, NestedShapes, PlainKeys, Req, Opt
<1>1. CASE t = "run.started"
  BY <1>1 DEF PayloadStruct, RunStartedPayload
<1>2. CASE t = "run.finished"
  BY <1>2 DEF PayloadStruct, RunFinishedPayload
<1>3. CASE t = "agent.started"
  BY <1>3 DEF PayloadStruct, AgentStartedPayload
<1>4. CASE t = "agent.text"
  BY <1>4 DEF PayloadStruct, AgentTextPayload
<1>5. CASE t = "agent.tool_use"
  BY <1>5 DEF PayloadStruct, AgentToolUsePayload
<1>6. CASE t = "agent.tool_result"
  BY <1>6 DEF PayloadStruct, AgentToolResultPayload
<1>7. CASE t = "agent.completed"
  BY <1>7 DEF PayloadStruct, AgentCompletedPayload
<1>8. CASE t = "agent.warning"
  BY <1>8 DEF PayloadStruct, AgentWarningPayload
<1>9. CASE t = "control.requested"
  BY <1>9 DEF PayloadStruct, ControlRequestedPayload
<1>10. CASE t = "control.applied"
  BY <1>10 DEF PayloadStruct, ControlAppliedPayload
<1>11. CASE t = "capture.refused"
  BY <1>11 DEF PayloadStruct, CaptureRefusedPayload
<1>12. CASE t = "decision.requested"
  BY <1>12 DEF PayloadStruct, DecisionRequestedPayload
<1>13. CASE t = "decision.answered"
  BY <1>13 DEF PayloadStruct, DecisionAnsweredPayload
<1> QED
  BY <1>1, <1>2, <1>3, <1>4, <1>5, <1>6, <1>7, <1>8, <1>9, <1>10, <1>11, <1>12,
     <1>13 DEF KNOWN_TYPES

\* And each struct nested in one is a sequence of flat fields.
LEMMA NestedTyped ==
    /\ DecisionOption \in Seq(Field(FlatShapes))
    /\ \A shape \in NestedShapes : NestedStruct(shape) \in Seq(Field(FlatShapes))
<1> USE DEF Field, FlatShapes, ScalarShapes, NestedShapes, PlainKeys, Req, Opt
<1>1. DecisionOption \in Seq(Field(FlatShapes))
  BY DEF DecisionOption
<1>2. NestedStruct("ceilings") \in Seq(Field(FlatShapes))
  BY DEF NestedStruct, RunCeilings
<1>3. NestedStruct("usage") \in Seq(Field(FlatShapes))
  BY DEF NestedStruct, RunUsage
<1>4. NestedStruct("dossier") \in Seq(Field(FlatShapes))
  BY DEF NestedStruct, DecisionDossier
<1> QED
  BY <1>1, <1>2, <1>3, <1>4

\* The field of a struct with a key of it.
LEMMA FieldOf ==
    ASSUME NEW shapes, NEW struct \in Seq(Field(shapes)), NEW key \in KeysOf(struct)
    PROVE  /\ FieldNamed(struct, key) \in Field(shapes)
           /\ FieldNamed(struct, key).shape \in shapes
           /\ FieldNamed(struct, key).key = key
<1>1. \E i \in DOMAIN struct : struct[i].key = key
  BY DEF KeysOf
<1>2. DOMAIN struct = 1..Len(struct)
  BY LenProperties
<1>3. \A i \in 1..Len(struct) : struct[i] \in Field(shapes)
  BY ElementOfSeq
<1>4. FieldNamed(struct, key) \in Field(shapes) /\ FieldNamed(struct, key).key = key
  BY <1>1, <1>2, <1>3 DEF FieldNamed
<1> QED
  BY <1>4 DEF Field

\* The keys of a struct are ones the model sorts.
LEMMA KeysOfStruct ==
    ASSUME NEW shapes, NEW struct \in Seq(Field(shapes))
    PROVE  KeysOf(struct) \subseteq PlainKeys
<1>1. DOMAIN struct = 1..Len(struct)
  BY LenProperties
<1>2. \A i \in 1..Len(struct) : struct[i] \in Field(shapes)
  BY ElementOfSeq
<1> QED
  BY <1>1, <1>2 DEF KeysOf, Field

(***************************************************************************)
(* A payload fits its struct: the declared fields that are there have the  *)
(* declared shape, and the required ones are there.  A number of `bad` is  *)
(* no number.                                                              *)
(***************************************************************************)
FitsScalar(shape, v, bad) ==
    /\ shape = "string" => v.tag = "string"
    /\ shape = "boolean" => v.tag = "boolean"
    /\ shape = "number" => v.tag = "number" /\ v \notin bad
    /\ shape = "count" => v \in {Num("zero"), Num("one"), Num("count")}

FitsSimple(shape, v, bad) ==
    IF shape = "strings"
    THEN v.tag = "array" /\ \A p \in Places(v) : Child(v, p).tag = "string"
    ELSE FitsScalar(shape, v, bad)

Complete(struct, v) ==
    \A i \in DOMAIN struct : struct[i].required => Has(v, struct[i].key)

FitsFlat(struct, v, bad) ==
    /\ v.tag = "object"
    /\ \A key \in Keys(v) \cap KeysOf(struct) :
          FitsSimple(FieldNamed(struct, key).shape, v.members[key], bad)
    /\ Complete(struct, v)

FitsField(shape, v, bad) ==
    IF shape = "options"
    THEN v.tag = "array" /\ \A p \in Places(v) : FitsFlat(DecisionOption, Child(v, p), bad)
    ELSE IF shape \in NestedShapes THEN FitsFlat(NestedStruct(shape), v, bad)
    ELSE FitsSimple(shape, v, bad)

FitsPayload(t, v, bad) ==
    /\ v.tag = "object"
    /\ \A key \in Keys(v) \cap KeysOf(PayloadStruct(t)) :
          FitsField(FieldNamed(PayloadStruct(t), key).shape, v.members[key], bad)
    /\ Complete(PayloadStruct(t), v)

\* No refusal is Ok.
LEMMA RefusalsAreNotOk ==
    /\ \A path, message : Malformed(path, message) # Ok /\ MissingField(path, message) # Ok
                          /\ Policy(path, message) # Ok
    /\ \A path, value : UnknownMember(path, value) # Ok
    /\ \A path, n, max : OverBound(path, n, max) # Ok
    /\ \A n : PayloadTooLarge(n) # Ok
    /\ \A path, expected, optional : wrong_type(path, expected, optional) # Ok
    /\ \A path, expected : Wrong(path, expected) # Ok /\ WrongWhenPresent(path, expected) # Ok
  BY DEF Malformed, MissingField, Policy, UnknownMember, OverBound, PayloadTooLarge, Ok,
         wrong_type, Wrong, WrongWhenPresent

\* A field that is no struct and no list.
LEMMA ScalarReads ==
    ASSUME NEW shape \in ScalarShapes, NEW v, NEW path, NEW optional
    PROVE  /\ decode_scalar(shape, v, path, optional) = Ok <=> FitsScalar(shape, v, {})
           /\ parseScalar(shape, v, path, optional) = Ok
                 <=> FitsScalar(shape, v, {Num("overflow")})
<1>1. decode_scalar(shape, v, path, optional) = Ok <=> FitsScalar(shape, v, {})
  BY RefusalsAreNotOk DEF decode_scalar, FitsScalar, is_safe_u64, ScalarShapes
<1>2. parseScalar(shape, v, path, optional) = Ok
         <=> FitsScalar(shape, v, {Num("overflow")})
  BY RefusalsAreNotOk DEF parseScalar, FitsScalar, ScalarShapes
<1> QED
  BY <1>1, <1>2

\* The fields of an object: Ok when those that are there are and none is missing.
LEMMA FieldsDecode ==
    ASSUME NEW S, NEW v \in ObjectsOver(S), NEW shapes, NEW struct \in Seq(Field(shapes)),
           NEW path, NEW fields
    PROVE  decode_fields(struct, v, path, fields) = Ok <=>
              /\ \A key \in Keys(v) \cap KeysOf(struct) : fields[key] = Ok
              /\ Complete(struct, v)
<1> DEFINE f == [i \in DOMAIN v.keys |->
                    IF v.keys[i] \in KeysOf(struct) THEN fields[v.keys[i]] ELSE Ok]
           g == [i \in DOMAIN struct |->
                    IF struct[i].required /\ ~Has(v, struct[i].key)
                    THEN MissingField(path \o <<struct[i].key>>,
                                      <<"missing field", struct[i].key>>)
                    ELSE Ok]
<1>1. /\ DOMAIN v.keys = 1..Len(v.keys) /\ Len(v.keys) \in Nat
      /\ Keys(v) = ToSet(v.keys)
  BY ObjectParts, LenProperties
<1>2. DOMAIN struct = 1..Len(struct) /\ Len(struct) \in Nat
  BY LenProperties
<1>3. FirstError(f \o g) = Ok <=>
         (\A i \in 1..Len(v.keys) : f[i] = Ok) /\ (\A i \in 1..Len(struct) : g[i] = Ok)
  <2>1. IsList(f, Len(v.keys)) /\ IsList(g, Len(struct))
    BY <1>1, <1>2 DEF IsList
  <2> HIDE DEF f, g
  <2> QED  BY <1>1, <1>2, <2>1, FirstErrorOfTwoOk
<1>4. (\A i \in 1..Len(v.keys) : f[i] = Ok) <=>
         \A key \in Keys(v) \cap KeysOf(struct) : fields[key] = Ok
  BY <1>1 DEF ToSet
<1>5. (\A i \in 1..Len(struct) : g[i] = Ok) <=> Complete(struct, v)
  BY <1>2, RefusalsAreNotOk DEF Complete
<1>6. decode_fields(struct, v, path, fields) = FirstError(f \o g)
  BY DEF decode_fields
<1> QED
  BY <1>3, <1>4, <1>5, <1>6

\* parseFields accepts an object when it accepts every declared field in it
\* and no required one is missing.
LEMMA FieldsParse ==
    ASSUME NEW v, NEW shapes, NEW struct \in Seq(Field(shapes)), NEW path, NEW fields
    PROVE  parseFields(struct, v, path, fields) = Ok <=>
              /\ \A key \in Keys(v) \cap KeysOf(struct) : fields[key] = Ok
              /\ Complete(struct, v)
<1> DEFINE f == [i \in DOMAIN struct |->
                    IF Has(v, struct[i].key) THEN fields[struct[i].key]
                    ELSE IF struct[i].required
                    THEN MissingField(path \o <<struct[i].key>>,
                                      <<"is missing required field", struct[i].key>>)
                    ELSE Ok]
<1>1. DOMAIN struct = 1..Len(struct) /\ Len(struct) \in Nat
  BY LenProperties
<1>2. FirstError(f) = Ok <=> \A i \in 1..Len(struct) : f[i] = Ok
  <2>1. DOMAIN f = 1..Len(struct)
    BY <1>1
  <2> HIDE DEF f
  <2> QED  BY <1>1, <2>1, FirstErrorOk
<1>3. (\A i \in 1..Len(struct) : f[i] = Ok) <=>
         (\A key \in Keys(v) \cap KeysOf(struct) : fields[key] = Ok) /\ Complete(struct, v)
  BY <1>1, RefusalsAreNotOk DEF Complete, KeysOf, Has
<1>4. parseFields(struct, v, path, fields) = FirstError(f)
  BY DEF parseFields
<1> QED
  BY <1>2, <1>3, <1>4

\* The items of an array.
LEMMA ItemsRead ==
    ASSUME NEW S, NEW v \in DocsOver(S), NEW path, NEW optional, NEW items,
           DOMAIN items = Places(v)
    PROVE  /\ decode_items(v, path, optional, items) = Ok <=>
                 v.tag = "array" /\ \A p \in Places(v) : items[p] = Ok
           /\ parseItems(v, path, items) = Ok <=>
                 v.tag = "array" /\ \A p \in Places(v) : items[p] = Ok
<1>1. CASE v.tag # "array"
  BY <1>1, RefusalsAreNotOk DEF decode_items, parseItems
<1>2. CASE v.tag = "array"
  <2>1. v \in ArraysOver(S)
    BY <1>2, LeafIsSimple, ObjectParts DEF DocsOver
  <2>2. Places(v) = 1..Len(v.items) /\ Len(v.items) \in Nat
    BY <2>1, ArrayParts
  <2>3. FirstError(items) = Ok <=> \A p \in Places(v) : items[p] = Ok
    BY <2>2, FirstErrorOk
  <2> QED  BY <1>2, <2>3 DEF decode_items, parseItems
<1> QED
  BY <1>1, <1>2

\* What is at a place of an array.
LEMMA ItemIsChild ==
    ASSUME NEW v, v.tag = "array"
    PROVE  \A p : v.items[p] = Child(v, p)
  BY DEF Child

\* A field that is no struct.
LEMMA SimpleReads ==
    ASSUME NEW S, NEW v \in DocsOver(S), NEW shape \in FlatShapes, NEW path, NEW optional
    PROVE  /\ decode_simple(shape, v, path, optional) = Ok <=> FitsSimple(shape, v, {})
           /\ parseSimple(shape, v, path, optional) = Ok
                 <=> FitsSimple(shape, v, {Num("overflow")})
<1>1. CASE shape # "strings"
  <2>1. shape \in ScalarShapes
    BY <1>1 DEF FlatShapes
  <2>2. /\ decode_simple(shape, v, path, optional) = decode_scalar(shape, v, path, optional)
        /\ parseSimple(shape, v, path, optional) = parseScalar(shape, v, path, optional)
        /\ \A bad : FitsSimple(shape, v, bad) <=> FitsScalar(shape, v, bad)
    BY <1>1 DEF decode_simple, parseSimple, FitsSimple
  <2> QED  BY <2>1, <2>2, ScalarReads
<1>2. CASE shape = "strings"
  <2> DEFINE d == [i \in Places(v) |->
                      decode_scalar("string", v.items[i], path \o <<Index(i)>>, FALSE)]
             s == [i \in Places(v) |->
                      parseScalar("string", v.items[i], path \o <<Index(i)>>, FALSE)]
  <2>1. \A p \in Places(v) :
           /\ d[p] = Ok <=> v.items[p].tag = "string"
           /\ s[p] = Ok <=> v.items[p].tag = "string"
    <3>1. "string" \in ScalarShapes
      BY DEF ScalarShapes
    <3>2. \A item, place :
             /\ decode_scalar("string", item, place, FALSE) = Ok
                   <=> FitsScalar("string", item, {})
             /\ parseScalar("string", item, place, FALSE) = Ok
                   <=> FitsScalar("string", item, {Num("overflow")})
      BY <3>1, ScalarReads, Zenon
    <3> QED  BY <3>2 DEF FitsScalar
  <2>2. /\ decode_simple(shape, v, path, optional) = decode_items(v, path, optional, d)
        /\ parseSimple(shape, v, path, optional) = parseItems(v, path, s)
    BY <1>2 DEF decode_simple, parseSimple
  <2>3. DOMAIN d = Places(v) /\ DOMAIN s = Places(v)
    OBVIOUS
  <2> HIDE DEF d, s
  <2>4. decode_items(v, path, optional, d) = Ok <=>
           v.tag = "array" /\ \A p \in Places(v) : d[p] = Ok
    BY <2>3, ItemsRead
  <2>5. parseItems(v, path, s) = Ok <=>
           v.tag = "array" /\ \A p \in Places(v) : s[p] = Ok
    BY <2>3, ItemsRead
  <2>6. \A bad : FitsSimple(shape, v, bad) <=>
           v.tag = "array" /\ \A p \in Places(v) : v.items[p].tag = "string"
    BY <1>2, ItemIsChild DEF FitsSimple
  <2> QED  BY <2>1, <2>2, <2>4, <2>5, <2>6
<1> QED
  BY <1>1, <1>2

\* A nested struct.
LEMMA FlatReads ==
    ASSUME NEW S, NEW v \in DocsOver(DocsOver(S)), NEW struct \in Seq(Field(FlatShapes)),
           NEW path, NEW optional
    PROVE  /\ decode_flat(struct, v, path, optional) = Ok <=> FitsFlat(struct, v, {})
           /\ parseFlat(struct, v, path) = Ok <=> FitsFlat(struct, v, {Num("overflow")})
<1>1. CASE v.tag # "object"
  BY <1>1, RefusalsAreNotOk DEF decode_flat, parseFlat, FitsFlat
<1>2. CASE v.tag = "object"
  <2> DEFINE d == [key \in Keys(v) \cap KeysOf(struct) |->
                      decode_simple(FieldNamed(struct, key).shape, v.members[key],
                                    path \o <<key>>, ~FieldNamed(struct, key).required)]
             s == [key \in Keys(v) \cap KeysOf(struct) |->
                      parseSimple(FieldNamed(struct, key).shape, v.members[key],
                                  path \o <<key>>, ~FieldNamed(struct, key).required)]
  <2>1. v \in ObjectsOver(DocsOver(S))
    BY <1>2, LeafIsSimple, ArrayParts DEF DocsOver
  <2>2. ASSUME NEW key \in Keys(v) \cap KeysOf(struct)
        PROVE  /\ d[key] = Ok <=>
                     FitsSimple(FieldNamed(struct, key).shape, v.members[key], {})
               /\ s[key] = Ok <=>
                     FitsSimple(FieldNamed(struct, key).shape, v.members[key],
                                {Num("overflow")})
    <3>1. FieldNamed(struct, key).shape \in FlatShapes
      BY FieldOf
    <3>2. v.members[key] \in DocsOver(S)
      BY <2>1, ObjectParts
    <3>3. \A optional2 :
             /\ decode_simple(FieldNamed(struct, key).shape, v.members[key],
                              path \o <<key>>, optional2) = Ok <=>
                   FitsSimple(FieldNamed(struct, key).shape, v.members[key], {})
             /\ parseSimple(FieldNamed(struct, key).shape, v.members[key],
                            path \o <<key>>, optional2) = Ok <=>
                   FitsSimple(FieldNamed(struct, key).shape, v.members[key],
                              {Num("overflow")})
      BY <3>1, <3>2, SimpleReads
    <3>4. /\ decode_simple(FieldNamed(struct, key).shape, v.members[key],
                            path \o <<key>>, ~FieldNamed(struct, key).required) = Ok <=>
                   FitsSimple(FieldNamed(struct, key).shape, v.members[key], {})
          /\ parseSimple(FieldNamed(struct, key).shape, v.members[key],
                          path \o <<key>>, ~FieldNamed(struct, key).required) = Ok <=>
                   FitsSimple(FieldNamed(struct, key).shape, v.members[key],
                              {Num("overflow")})
      BY <3>3, Zenon
    <3> QED  BY <3>4
  <2>3. decode_flat(struct, v, path, optional) = decode_fields(struct, v, path, d)
    BY <1>2 DEF decode_flat
  <2>4. parseFlat(struct, v, path) = parseFields(struct, v, path, s)
    BY <1>2 DEF parseFlat
  <2> HIDE DEF d, s
  <2>5. decode_fields(struct, v, path, d) = Ok <=>
           (\A key \in Keys(v) \cap KeysOf(struct) : d[key] = Ok) /\ Complete(struct, v)
    BY <2>1, FieldsDecode
  <2>6. parseFields(struct, v, path, s) = Ok <=>
           (\A key \in Keys(v) \cap KeysOf(struct) : s[key] = Ok) /\ Complete(struct, v)
    BY FieldsParse
  <2> QED  BY <1>2, <2>2, <2>3, <2>4, <2>5, <2>6 DEF FitsFlat
<1> QED
  BY <1>1, <1>2

\* A field of a payload.
LEMMA FieldReads ==
    ASSUME NEW S, NEW v \in DocsOver(DocsOver(DocsOver(S))), NEW shape \in FieldShapes,
           NEW path, NEW optional
    PROVE  /\ decode_field(shape, v, path, optional) = Ok <=> FitsField(shape, v, {})
           /\ parseField(shape, v, path, optional) = Ok
                 <=> FitsField(shape, v, {Num("overflow")})
<1>1. CASE shape = "options"
  <2> DEFINE d == [i \in Places(v) |->
                      decode_flat(DecisionOption, v.items[i], path \o <<Index(i)>>, FALSE)]
             s == [i \in Places(v) |->
                      parseFlat(DecisionOption, v.items[i], path \o <<Index(i)>>)]
  <2>1. ASSUME v.tag = "array", NEW p \in Places(v)
        PROVE  /\ d[p] = Ok <=> FitsFlat(DecisionOption, Child(v, p), {})
               /\ s[p] = Ok <=> FitsFlat(DecisionOption, Child(v, p), {Num("overflow")})
    <3>1. v.items[p] = Child(v, p) /\ Child(v, p) \in DocsOver(DocsOver(S))
      BY <2>1, ItemIsChild, ChildOf
    <3> QED  BY <3>1, FlatReads, NestedTyped
  <2>2. /\ decode_field(shape, v, path, optional) = decode_items(v, path, optional, d)
        /\ parseField(shape, v, path, optional) = parseItems(v, path, s)
    BY <1>1, SameStructs DEF decode_field, parseField
  <2>3. DOMAIN d = Places(v) /\ DOMAIN s = Places(v)
    OBVIOUS
  <2> HIDE DEF d, s
  <2>4. decode_items(v, path, optional, d) = Ok <=>
           v.tag = "array" /\ \A p \in Places(v) : d[p] = Ok
    BY <2>3, ItemsRead
  <2>5. parseItems(v, path, s) = Ok <=>
           v.tag = "array" /\ \A p \in Places(v) : s[p] = Ok
    BY <2>3, ItemsRead
  <2>6. \A bad : FitsField(shape, v, bad) <=>
           v.tag = "array" /\ \A p \in Places(v) : FitsFlat(DecisionOption, Child(v, p), bad)
    BY <1>1 DEF FitsField
  <2> QED  BY <2>1, <2>2, <2>4, <2>5, <2>6
<1>2. CASE shape \in NestedShapes
  <2>1. shape # "options"
    BY <1>2 DEF NestedShapes
  <2>2. /\ decode_field(shape, v, path, optional) =
              decode_flat(NestedStruct(shape), v, path, optional)
        /\ parseField(shape, v, path, optional) = parseFlat(NestedParser(shape), v, path)
    BY <1>2, <2>1 DEF decode_field, parseField, NestedShapes
  <2>3. NestedStruct(shape) \in Seq(Field(FlatShapes)) /\ NestedParser(shape) = NestedStruct(shape)
    BY <1>2, NestedTyped, SameStructs
  <2> QED  BY <1>2, <2>1, <2>2, <2>3, FlatReads DEF FitsField
<1>3. CASE shape \in FlatShapes
  <2>1. shape # "options" /\ shape \notin NestedShapes
    BY <1>3 DEF FlatShapes, ScalarShapes, NestedShapes
  <2>2. /\ decode_field(shape, v, path, optional) = decode_simple(shape, v, path, optional)
        /\ parseField(shape, v, path, optional) = parseSimple(shape, v, path, optional)
    BY <1>3, <2>1 DEF decode_field, parseField, NestedShapes
  <2> QED  BY <1>3, <2>1, <2>2, SimpleReads DEF FitsField
<1> QED
  BY <1>1, <1>2, <1>3 DEF FieldShapes

\* A payload of a known type: both SDKs read it when it fits, and Rust takes any
\* number.
LEMMA PayloadReads ==
    ASSUME NEW v \in Doc5, NEW t \in KNOWN_TYPES
    PROVE  /\ decode_payload(t, v) = Ok <=> FitsPayload(t, v, {})
           /\ parseKnownPayload(t, v) = Ok <=> FitsPayload(t, v, {Num("overflow")})
<1> DEFINE struct == PayloadStruct(t)
<1>1. struct \in Seq(Field(FieldShapes)) /\ PayloadParser(t) = struct
  BY StructsTyped, SameStructs
<1>2. CASE v.tag # "object"
  BY <1>2, RefusalsAreNotOk DEF decode_payload, parseKnownPayload, FitsPayload
<1>3. CASE v.tag = "object"
  <2> DEFINE d == [key \in Keys(v) \cap KeysOf(struct) |->
                      decode_field(FieldNamed(struct, key).shape, v.members[key],
                                   <<key>>, ~FieldNamed(struct, key).required)]
             s == [key \in Keys(v) \cap KeysOf(struct) |->
                      parseField(FieldNamed(struct, key).shape, v.members[key],
                                 <<key>>, ~FieldNamed(struct, key).required)]
  <2>1. v \in ObjectsOver(Doc4) /\ Doc4 = DocsOver(DocsOver(DocsOver(Doc1)))
    BY <1>3, LeafIsSimple, ArrayParts DEF DocsOver, Doc5, Doc4, Doc3, Doc2
  <2>2. ASSUME NEW key \in Keys(v) \cap KeysOf(struct)
        PROVE  /\ d[key] = Ok <=>
                     FitsField(FieldNamed(struct, key).shape, v.members[key], {})
               /\ s[key] = Ok <=>
                     FitsField(FieldNamed(struct, key).shape, v.members[key],
                               {Num("overflow")})
    <3>1. FieldNamed(struct, key).shape \in FieldShapes
      BY <1>1, FieldOf
    <3>2. v.members[key] \in DocsOver(DocsOver(DocsOver(Doc1)))
      BY <2>1, ObjectParts
    <3>3. \A optional2 :
             /\ decode_field(FieldNamed(struct, key).shape, v.members[key],
                              <<key>>, optional2) = Ok <=>
                   FitsField(FieldNamed(struct, key).shape, v.members[key], {})
             /\ parseField(FieldNamed(struct, key).shape, v.members[key],
                            <<key>>, optional2) = Ok <=>
                   FitsField(FieldNamed(struct, key).shape, v.members[key],
                              {Num("overflow")})
      BY <3>1, <3>2, FieldReads
    <3>4. /\ decode_field(FieldNamed(struct, key).shape, v.members[key],
                            <<key>>, ~FieldNamed(struct, key).required) = Ok <=>
                   FitsField(FieldNamed(struct, key).shape, v.members[key], {})
          /\ parseField(FieldNamed(struct, key).shape, v.members[key],
                          <<key>>, ~FieldNamed(struct, key).required) = Ok <=>
                   FitsField(FieldNamed(struct, key).shape, v.members[key],
                              {Num("overflow")})
      BY <3>3, Zenon
    <3> QED  BY <3>4
  <2>3. decode_payload(t, v) = decode_fields(struct, v, <<>>, d)
    BY <1>3 DEF decode_payload
  <2>4. parseKnownPayload(t, v) = parseFields(struct, v, <<>>, s)
    BY <1>1, <1>3 DEF parseKnownPayload
  <2> HIDE DEF d, s, struct
  <2>5. decode_fields(struct, v, <<>>, d) = Ok <=>
           (\A key \in Keys(v) \cap KeysOf(struct) : d[key] = Ok) /\ Complete(struct, v)
    BY <1>1, <2>1, FieldsDecode
  <2>6. parseFields(struct, v, <<>>, s) = Ok <=>
           (\A key \in Keys(v) \cap KeysOf(struct) : s[key] = Ok) /\ Complete(struct, v)
    BY <1>1, FieldsParse
  <2> QED  BY <1>3, <2>2, <2>3, <2>4, <2>5, <2>6 DEF FitsPayload, struct
<1> QED
  BY <1>2, <1>3
-----------------------------------------------------------------------------
(***************************************************************************)
(* Near values fit alike: `Keeps` what r must do to the leaves for a value *)
(* that fits to fit after it, `Shows` for one that fits after it to have   *)
(* fitted before.                                                          *)
(***************************************************************************)
Keeps(r, bad1, bad2) ==
    \A leaf \in LeafDoc, shape \in ScalarShapes :
        FitsScalar(shape, leaf, bad1) => FitsScalar(shape, Replace(leaf, r), bad2)

Shows(r, bad1, bad2) ==
    \A leaf \in LeafDoc, shape \in ScalarShapes :
        FitsScalar(shape, Replace(leaf, r), bad2) => FitsScalar(shape, leaf, bad1)

\* Like values have the same kind and the same places, leaves apart.
LEMMA LikeTags ==
    ASSUME NEW v, NEW w, NEW r, LikeAt(v, w, r)
    PROVE  /\ v.tag = "object" <=> w.tag = "object"
           /\ v.tag = "array" <=> w.tag = "array"
           /\ v.tag = "object" => Keys(w) = Keys(v)
           /\ Places(w) = Places(v)
<1>1. CASE v \in LeafDoc /\ w \in LeafDoc
  BY <1>1, LeafIsSimple
<1>2. CASE v.tag \in {"object", "array"} /\ w.tag = v.tag /\ Places(w) = Places(v)
  BY <1>2 DEF Places
<1> QED
  BY <1>1, <1>2 DEF LikeAt

\* What is under a key of an object.
LEMMA MemberIsChild ==
    ASSUME NEW v, v.tag = "object"
    PROVE  Places(v) = Keys(v) /\ \A key : v.members[key] = Child(v, key)
  BY DEF Places, Child

\* Near values are like values, save that an object may have lost what was
\* under the key __proto__.
NearAt(v, w, r) ==
    \/ v \in LeafDoc /\ w \in LeafDoc /\ w = Replace(v, r)
    \/ v.tag = "array" /\ w.tag = "array" /\ Places(w) = Places(v)
    \/ /\ v.tag = "object" /\ w.tag = "object"
       /\ Keys(w) \subseteq Keys(v) /\ Keys(v) \subseteq Keys(w) \cup {"__proto__"}

Near1(v, w, r) == NearAt(v, w, r)
Near2(v, w, r) ==
    NearAt(v, w, r) /\ \A p \in Places(w) : Near1(Child(v, p), Child(w, p), r)
Near3(v, w, r) ==
    NearAt(v, w, r) /\ \A p \in Places(w) : Near2(Child(v, p), Child(w, p), r)
Near4(v, w, r) ==
    NearAt(v, w, r) /\ \A p \in Places(w) : Near3(Child(v, p), Child(w, p), r)
Near5(v, w, r) ==
    NearAt(v, w, r) /\ \A p \in Places(w) : Near4(Child(v, p), Child(w, p), r)

\* Near down to a level is near down to the level above it.
LEMMA Near2IsNear1 == ASSUME NEW v, NEW w, NEW r, Near2(v, w, r) PROVE Near1(v, w, r)
  BY DEF Near1, Near2

\* Near three levels down is near two levels down.
LEMMA Near3IsNear2 == ASSUME NEW v, NEW w, NEW r, Near3(v, w, r) PROVE Near2(v, w, r)
  BY Near2IsNear1 DEF Near2, Near3

\* Near four levels down is near three levels down.
LEMMA Near4IsNear3 == ASSUME NEW v, NEW w, NEW r, Near4(v, w, r) PROVE Near3(v, w, r)
  BY Near3IsNear2 DEF Near3, Near4

\* Near values have the same kind and, __proto__ apart, the same places.
LEMMA NearTags ==
    ASSUME NEW v, NEW w, NEW r, NearAt(v, w, r)
    PROVE  /\ v.tag = "object" <=> w.tag = "object"
           /\ v.tag = "array" <=> w.tag = "array"
           /\ v.tag = "array" => Places(w) = Places(v)
           /\ Places(w) \subseteq Places(v)
<1>1. CASE v \in LeafDoc /\ w \in LeafDoc
  BY <1>1, LeafIsSimple
<1>2. CASE v.tag = "array" /\ w.tag = "array" /\ Places(w) = Places(v)
  BY <1>2
<1>3. CASE v.tag = "object" /\ w.tag = "object" /\ Keys(w) \subseteq Keys(v)
  BY <1>3 DEF Places
<1> QED
  BY <1>1, <1>2, <1>3 DEF NearAt

\* Near objects have the same declared fields.
LEMMA NearFields ==
    ASSUME NEW v, NEW w, NEW r, NearAt(v, w, r), v.tag = "object",
           NEW shapes, NEW struct \in Seq(Field(shapes))
    PROVE  /\ w.tag = "object" /\ Keys(w) \subseteq Keys(v)
           /\ \A key \in KeysOf(struct) : key \in Keys(w) <=> key \in Keys(v)
           /\ Complete(struct, v) => Complete(struct, w)
<1>1. w.tag = "object" /\ Keys(w) \subseteq Keys(v) /\ Keys(v) \subseteq Keys(w) \cup {"__proto__"}
  BY LeafIsSimple DEF NearAt
<1>2. "__proto__" \notin KeysOf(struct)
  <2>1. KeysOf(struct) \subseteq PlainKeys
    BY KeysOfStruct
  <2> QED  BY <2>1 DEF PlainKeys
<1>3. \A key \in KeysOf(struct) : key \in Keys(w) <=> key \in Keys(v)
  BY <1>1, <1>2
<1>4. \A i \in DOMAIN struct : struct[i].key \in KeysOf(struct)
  BY DEF KeysOf
<1> QED
  BY <1>1, <1>3, <1>4 DEF Complete, Has

\* Like values are near.
LEMMA LikeIsNearAt ==
    ASSUME NEW v, NEW w, NEW r, LikeAt(v, w, r)
    PROVE  NearAt(v, w, r) /\ Places(w) = Places(v)
<1>1. CASE v \in LeafDoc /\ w \in LeafDoc /\ w = Replace(v, r)
  BY <1>1, LeafIsSimple DEF NearAt
<1>2. CASE v.tag \in {"object", "array"} /\ w.tag = v.tag /\ Places(w) = Places(v)
  BY <1>2 DEF NearAt, Places
<1> QED
  BY <1>1, <1>2 DEF LikeAt

\* Level 1: like values are near.
LEMMA Like1IsNear1 == ASSUME NEW v, NEW w, NEW r, Like1(v, w, r) PROVE Near1(v, w, r)
  BY LikeIsNearAt DEF Like1, Near1

\* Level 2: like values are near.
LEMMA Like2IsNear2 == ASSUME NEW v, NEW w, NEW r, Like2(v, w, r) PROVE Near2(v, w, r)
  BY LikeIsNearAt, Like1IsNear1 DEF Like2, Near2

\* Level 3: like values are near.
LEMMA Like3IsNear3 == ASSUME NEW v, NEW w, NEW r, Like3(v, w, r) PROVE Near3(v, w, r)
  BY LikeIsNearAt, Like2IsNear2 DEF Like3, Near3

\* Level 4: like values are near.
LEMMA Like4IsNear4 == ASSUME NEW v, NEW w, NEW r, Like4(v, w, r) PROVE Near4(v, w, r)
  BY LikeIsNearAt, Like3IsNear3 DEF Like4, Near4

\* Level 5: like values are near.
LEMMA Like5IsNear5 == ASSUME NEW v, NEW w, NEW r, Like5(v, w, r) PROVE Near5(v, w, r)
  BY LikeIsNearAt, Like4IsNear4 DEF Like5, Near5

\* What a near value holds, where nothing was replaced, the value held.
LEMMA NearLeavesOver ==
    ASSUME NEW S, NEW v \in DocsOver(S), NEW w \in DocsOver(S), NearAt(v, w, AsTheyAre),
           NEW old, NEW new, \A p \in Places(w) : Values(new[p]) \subseteq Values(old[p])
    PROVE  Values(LeavesOver(w, new)) \subseteq Values(LeavesOver(v, old))
<1>1. CASE v \in LeafDoc
  <2>1. w = v
    BY <1>1, LeafIsSimple DEF NearAt, Replace, AsTheyAre
  <2> QED  BY <1>1, <2>1, LeavesParts
<1>2. CASE v \notin LeafDoc
  <2>1. w \notin LeafDoc
    BY <1>2, LeafIsSimple DEF NearAt
  <2>2. Values(LeavesOver(v, old)) = UNION {Values(old[p]) : p \in Places(v)}
    BY <1>2, LeavesParts
  <2>3. Values(LeavesOver(w, new)) = UNION {Values(new[p]) : p \in Places(w)}
    BY <2>1, LeavesParts
  <2>4. Places(w) \subseteq Places(v)
    BY NearTags
  <2> QED  BY <2>2, <2>3, <2>4
<1> QED
  BY <1>1, <1>2

\* Level 1: a near document holds nothing else.
LEMMA NearLeaves1 ==
    ASSUME NEW v \in Doc1, NEW w \in Doc1, Near1(v, w, AsTheyAre)
    PROVE  Values(Leaves1(w)) \subseteq Values(Leaves1(v))
<1> DEFINE old == [p \in Places(v) |-> Leaves0(Child(v, p))]
           new == [p \in Places(w) |-> Leaves0(Child(w, p))]
<1>1. v \in DocsOver(Doc0) /\ w \in DocsOver(Doc0) /\ NearAt(v, w, AsTheyAre)
  BY DEF Doc1, Near1
<1>2. Places(w) \subseteq Places(v)
  BY <1>1, NearTags
<1>3. ASSUME NEW p \in Places(w)
      PROVE  Values(new[p]) \subseteq Values(old[p])
  <2>1. Child(v, p) \in Doc0 /\ Child(w, p) \in Doc0
    BY <1>1, <1>2, ChildOf
  <2> QED  BY <2>1 DEF Doc0
<1> HIDE DEF old, new
<1>4. Values(LeavesOver(w, new)) \subseteq Values(LeavesOver(v, old))
  BY <1>1, <1>3, NearLeavesOver
<1> QED
  BY <1>4 DEF old, new, Leaves1

\* Level 2: a near document holds nothing else.
LEMMA NearLeaves2 ==
    ASSUME NEW v \in Doc2, NEW w \in Doc2, Near2(v, w, AsTheyAre)
    PROVE  Values(Leaves2(w)) \subseteq Values(Leaves2(v))
<1> DEFINE old == [p \in Places(v) |-> Leaves1(Child(v, p))]
           new == [p \in Places(w) |-> Leaves1(Child(w, p))]
<1>1. v \in DocsOver(Doc1) /\ w \in DocsOver(Doc1) /\ NearAt(v, w, AsTheyAre)
  BY DEF Doc2, Near2
<1>2. Places(w) \subseteq Places(v)
  BY <1>1, NearTags
<1>3. ASSUME NEW p \in Places(w)
      PROVE  Values(new[p]) \subseteq Values(old[p])
  <2>1. Child(v, p) \in Doc1 /\ Child(w, p) \in Doc1
    BY <1>1, <1>2, ChildOf
  <2>2. Values(Leaves1(Child(w, p))) \subseteq Values(Leaves1(Child(v, p)))
    BY <2>1, NearLeaves1 DEF Near2
  <2> QED  BY <1>2, <2>2
<1> HIDE DEF old, new
<1>4. Values(LeavesOver(w, new)) \subseteq Values(LeavesOver(v, old))
  BY <1>1, <1>3, NearLeavesOver
<1> QED
  BY <1>4 DEF old, new, Leaves2

\* Level 3: a near document holds nothing else.
LEMMA NearLeaves3 ==
    ASSUME NEW v \in Doc3, NEW w \in Doc3, Near3(v, w, AsTheyAre)
    PROVE  Values(Leaves3(w)) \subseteq Values(Leaves3(v))
<1> DEFINE old == [p \in Places(v) |-> Leaves2(Child(v, p))]
           new == [p \in Places(w) |-> Leaves2(Child(w, p))]
<1>1. v \in DocsOver(Doc2) /\ w \in DocsOver(Doc2) /\ NearAt(v, w, AsTheyAre)
  BY DEF Doc3, Near3
<1>2. Places(w) \subseteq Places(v)
  BY <1>1, NearTags
<1>3. ASSUME NEW p \in Places(w)
      PROVE  Values(new[p]) \subseteq Values(old[p])
  <2>1. Child(v, p) \in Doc2 /\ Child(w, p) \in Doc2
    BY <1>1, <1>2, ChildOf
  <2>2. Values(Leaves2(Child(w, p))) \subseteq Values(Leaves2(Child(v, p)))
    BY <2>1, NearLeaves2 DEF Near3
  <2> QED  BY <1>2, <2>2
<1> HIDE DEF old, new
<1>4. Values(LeavesOver(w, new)) \subseteq Values(LeavesOver(v, old))
  BY <1>1, <1>3, NearLeavesOver
<1> QED
  BY <1>4 DEF old, new, Leaves3

\* Level 4: a near document holds nothing else.
LEMMA NearLeaves4 ==
    ASSUME NEW v \in Doc4, NEW w \in Doc4, Near4(v, w, AsTheyAre)
    PROVE  Values(Leaves4(w)) \subseteq Values(Leaves4(v))
<1> DEFINE old == [p \in Places(v) |-> Leaves3(Child(v, p))]
           new == [p \in Places(w) |-> Leaves3(Child(w, p))]
<1>1. v \in DocsOver(Doc3) /\ w \in DocsOver(Doc3) /\ NearAt(v, w, AsTheyAre)
  BY DEF Doc4, Near4
<1>2. Places(w) \subseteq Places(v)
  BY <1>1, NearTags
<1>3. ASSUME NEW p \in Places(w)
      PROVE  Values(new[p]) \subseteq Values(old[p])
  <2>1. Child(v, p) \in Doc3 /\ Child(w, p) \in Doc3
    BY <1>1, <1>2, ChildOf
  <2>2. Values(Leaves3(Child(w, p))) \subseteq Values(Leaves3(Child(v, p)))
    BY <2>1, NearLeaves3 DEF Near4
  <2> QED  BY <1>2, <2>2
<1> HIDE DEF old, new
<1>4. Values(LeavesOver(w, new)) \subseteq Values(LeavesOver(v, old))
  BY <1>1, <1>3, NearLeavesOver
<1> QED
  BY <1>4 DEF old, new, Leaves4

\* Level 5: a near document holds nothing else.
LEMMA NearLeaves5 ==
    ASSUME NEW v \in Doc5, NEW w \in Doc5, Near5(v, w, AsTheyAre)
    PROVE  Values(Leaves(w)) \subseteq Values(Leaves(v))
<1> DEFINE old == [p \in Places(v) |-> Leaves4(Child(v, p))]
           new == [p \in Places(w) |-> Leaves4(Child(w, p))]
<1>1. v \in DocsOver(Doc4) /\ w \in DocsOver(Doc4) /\ NearAt(v, w, AsTheyAre)
  BY DEF Doc5, Near5
<1>2. Places(w) \subseteq Places(v)
  BY <1>1, NearTags
<1>3. ASSUME NEW p \in Places(w)
      PROVE  Values(new[p]) \subseteq Values(old[p])
  <2>1. Child(v, p) \in Doc4 /\ Child(w, p) \in Doc4
    BY <1>1, <1>2, ChildOf
  <2>2. Values(Leaves4(Child(w, p))) \subseteq Values(Leaves4(Child(v, p)))
    BY <2>1, NearLeaves4 DEF Near5
  <2> QED  BY <1>2, <2>2
<1> HIDE DEF old, new
<1>4. Values(LeavesOver(w, new)) \subseteq Values(LeavesOver(v, old))
  BY <1>1, <1>3, NearLeavesOver
<1> QED
  BY <1>4 DEF old, new, Leaves

\* A scalar fits, and then fits still.
LEMMA ScalarKeeps ==
    ASSUME NEW v, NEW w, NEW r, NearAt(v, w, r), NEW shape \in ScalarShapes,
           NEW bad1, NEW bad2, Keeps(r, bad1, bad2), FitsScalar(shape, v, bad1)
    PROVE  FitsScalar(shape, w, bad2)
<1>1. CASE v \in LeafDoc /\ w \in LeafDoc /\ w = Replace(v, r)
  BY <1>1 DEF Keeps
<1>2. CASE v.tag \in {"object", "array"}
  BY <1>2 DEF ScalarShapes, FitsScalar, Num
<1> QED
  BY <1>1, <1>2 DEF NearAt

\* So does a field that is no struct.
LEMMA SimpleKeeps ==
    ASSUME NEW v, NEW w, NEW r, Near2(v, w, r), NEW shape \in FlatShapes,
           NEW bad1, NEW bad2, Keeps(r, bad1, bad2), FitsSimple(shape, v, bad1)
    PROVE  FitsSimple(shape, w, bad2)
<1>1. NearAt(v, w, r)
  BY DEF Near2
<1>2. CASE shape = "strings"
  <2>1. v.tag = "array" /\ \A p \in Places(v) : Child(v, p).tag = "string"
    BY <1>2 DEF FitsSimple
  <2>2. w.tag = "array" /\ Places(v) = Places(w)
    BY <1>1, <2>1, NearTags
  <2>3. ASSUME NEW p \in Places(v)
        PROVE  Child(w, p).tag = "string"
    <3>1. NearAt(Child(v, p), Child(w, p), r)
      BY <2>2 DEF Near2, Near1
    <3>2. FitsScalar("string", Child(v, p), bad1)
      BY <2>1, <2>2 DEF FitsScalar
    <3>3. FitsScalar("string", Child(w, p), bad2)
      BY <3>1, <3>2, ScalarKeeps DEF ScalarShapes
    <3> QED  BY <3>3 DEF FitsScalar
  <2> QED  BY <1>2, <2>2, <2>3 DEF FitsSimple
<1>3. CASE shape # "strings"
  <2>1. shape \in ScalarShapes /\ FitsScalar(shape, v, bad1)
    BY <1>3 DEF FlatShapes, FitsSimple
  <2>2. FitsScalar(shape, w, bad2)
    BY <1>1, <2>1, ScalarKeeps
  <2> QED  BY <1>3, <2>2 DEF FitsSimple
<1> QED
  BY <1>2, <1>3

\* So does a nested struct.
LEMMA FlatKeeps ==
    ASSUME NEW v, NEW w, NEW r, Near3(v, w, r), NEW struct \in Seq(Field(FlatShapes)),
           NEW bad1, NEW bad2, Keeps(r, bad1, bad2), FitsFlat(struct, v, bad1)
    PROVE  FitsFlat(struct, w, bad2)
<1>1. NearAt(v, w, r) /\ v.tag = "object" /\ Complete(struct, v)
  BY DEF Near3, FitsFlat
<1>2. w.tag = "object" /\ Keys(w) \subseteq Keys(v) /\ Complete(struct, w)
  BY <1>1, NearFields
<1>3. ASSUME NEW key \in Keys(w) \cap KeysOf(struct)
      PROVE  FitsSimple(FieldNamed(struct, key).shape, w.members[key], bad2)
  <2>1. FitsSimple(FieldNamed(struct, key).shape, v.members[key], bad1)
    BY <1>2 DEF FitsFlat
  <2>2. FieldNamed(struct, key).shape \in FlatShapes
    BY FieldOf
  <2>3. Near2(Child(v, key), Child(w, key), r)
    BY <1>1, <1>2, MemberIsChild DEF Near3
  <2>4. v.members[key] = Child(v, key) /\ w.members[key] = Child(w, key)
    BY <1>1, <1>2, MemberIsChild
  <2> QED  BY <2>1, <2>2, <2>3, <2>4, SimpleKeeps
<1> QED
  BY <1>2, <1>3 DEF FitsFlat

\* So does a field of a payload.
LEMMA FieldKeeps ==
    ASSUME NEW v, NEW w, NEW r, Near4(v, w, r), NEW shape \in FieldShapes,
           NEW bad1, NEW bad2, Keeps(r, bad1, bad2), FitsField(shape, v, bad1)
    PROVE  FitsField(shape, w, bad2)
<1>1. CASE shape = "options"
  <2>1. v.tag = "array" /\ \A p \in Places(v) : FitsFlat(DecisionOption, Child(v, p), bad1)
    BY <1>1 DEF FitsField
  <2>2. w.tag = "array" /\ Places(v) = Places(w)
    BY <2>1, NearTags DEF Near4
  <2>3. ASSUME NEW p \in Places(v)
        PROVE  FitsFlat(DecisionOption, Child(w, p), bad2)
    <3>1. Near3(Child(v, p), Child(w, p), r)
      BY <2>2 DEF Near4
    <3>2. FitsFlat(DecisionOption, Child(v, p), bad1)
      BY <2>1, <2>2
    <3> QED  BY <3>1, <3>2, NestedTyped, FlatKeeps
  <2> QED  BY <1>1, <2>2, <2>3 DEF FitsField
<1>2. CASE shape \in NestedShapes
  <2>1. FitsFlat(NestedStruct(shape), v, bad1) /\ shape # "options"
    BY <1>2 DEF FitsField, NestedShapes
  <2>2. FitsFlat(NestedStruct(shape), w, bad2)
    BY <1>2, <2>1, Near4IsNear3, NestedTyped, FlatKeeps
  <2> QED  BY <1>2, <2>1, <2>2 DEF FitsField
<1>3. CASE shape \in FlatShapes
  <2>1. shape # "options" /\ shape \notin NestedShapes
    BY <1>3 DEF FlatShapes, ScalarShapes, NestedShapes
  <2>2. Near2(v, w, r)
    BY Near4IsNear3, Near3IsNear2
  <2>3. FitsSimple(shape, w, bad2)
    BY <1>3, <2>1, <2>2, SimpleKeeps DEF FitsField
  <2> QED  BY <2>1, <2>3 DEF FitsField
<1> QED
  BY <1>1, <1>2, <1>3 DEF FieldShapes

\* And so does a payload.
LEMMA PayloadKeeps ==
    ASSUME NEW v, NEW w, NEW r, Near5(v, w, r), NEW t \in KNOWN_TYPES,
           NEW bad1, NEW bad2, Keeps(r, bad1, bad2), FitsPayload(t, v, bad1)
    PROVE  FitsPayload(t, w, bad2)
<1> DEFINE struct == PayloadStruct(t)
<1>0. struct \in Seq(Field(FieldShapes))
  BY StructsTyped
<1>1. NearAt(v, w, r) /\ v.tag = "object" /\ Complete(struct, v)
  BY DEF Near5, FitsPayload
<1>2. w.tag = "object" /\ Keys(w) \subseteq Keys(v) /\ Complete(struct, w)
  <2> HIDE DEF struct
  <2> QED  BY <1>0, <1>1, NearFields
<1>3. ASSUME NEW key \in Keys(w) \cap KeysOf(struct)
      PROVE  FitsField(FieldNamed(struct, key).shape, w.members[key], bad2)
  <2>1. FitsField(FieldNamed(struct, key).shape, v.members[key], bad1)
    BY <1>2 DEF FitsPayload
  <2>2. FieldNamed(struct, key).shape \in FieldShapes
    BY <1>0, FieldOf
  <2>3. Near4(Child(v, key), Child(w, key), r)
    BY <1>1, <1>2, MemberIsChild DEF Near5
  <2>4. v.members[key] = Child(v, key) /\ w.members[key] = Child(w, key)
    BY <1>1, <1>2, MemberIsChild
  <2> HIDE DEF struct
  <2> QED  BY <2>1, <2>2, <2>3, <2>4, FieldKeeps
<1> QED
  BY <1>2, <1>3 DEF FitsPayload

\* A scalar fits afterwards, and so it did before.
LEMMA ScalarShows ==
    ASSUME NEW v, NEW w, NEW r, LikeAt(v, w, r), NEW shape \in ScalarShapes,
           NEW bad1, NEW bad2, Shows(r, bad1, bad2), FitsScalar(shape, w, bad2)
    PROVE  FitsScalar(shape, v, bad1)
<1>1. CASE v \in LeafDoc /\ w \in LeafDoc /\ w = Replace(v, r)
  BY <1>1 DEF Shows
<1>2. CASE v.tag \in {"object", "array"} /\ w.tag = v.tag
  BY <1>2 DEF ScalarShapes, FitsScalar, Num
<1> QED
  BY <1>1, <1>2 DEF LikeAt

\* So does a field that is no struct.
LEMMA SimpleShows ==
    ASSUME NEW v, NEW w, NEW r, Like2(v, w, r), NEW shape \in FlatShapes,
           NEW bad1, NEW bad2, Shows(r, bad1, bad2), FitsSimple(shape, w, bad2)
    PROVE  FitsSimple(shape, v, bad1)
<1>1. LikeAt(v, w, r)
  BY DEF Like2
<1>2. CASE shape = "strings"
  <2>1. w.tag = "array" /\ \A p \in Places(w) : Child(w, p).tag = "string"
    BY <1>2 DEF FitsSimple
  <2>2. v.tag = "array" /\ Places(v) = Places(w)
    BY <1>1, <2>1, LikeTags
  <2>3. ASSUME NEW p \in Places(v)
        PROVE  Child(v, p).tag = "string"
    <3>1. LikeAt(Child(v, p), Child(w, p), r)
      BY DEF Like2, Like1
    <3>2. FitsScalar("string", Child(w, p), bad2)
      BY <2>1, <2>2 DEF FitsScalar
    <3>3. FitsScalar("string", Child(v, p), bad1)
      BY <3>1, <3>2, ScalarShows DEF ScalarShapes
    <3> QED  BY <3>3 DEF FitsScalar
  <2> QED  BY <1>2, <2>2, <2>3 DEF FitsSimple
<1>3. CASE shape # "strings"
  <2>1. shape \in ScalarShapes /\ FitsScalar(shape, w, bad2)
    BY <1>3 DEF FlatShapes, FitsSimple
  <2>2. FitsScalar(shape, v, bad1)
    BY <1>1, <2>1, ScalarShows
  <2> QED  BY <1>3, <2>2 DEF FitsSimple
<1> QED
  BY <1>2, <1>3

\* So does a nested struct.
LEMMA FlatShows ==
    ASSUME NEW v, NEW w, NEW r, Like3(v, w, r), NEW struct \in Seq(Field(FlatShapes)),
           NEW bad1, NEW bad2, Shows(r, bad1, bad2), FitsFlat(struct, w, bad2)
    PROVE  FitsFlat(struct, v, bad1)
<1>1. LikeAt(v, w, r) /\ w.tag = "object" /\ Complete(struct, w)
  BY DEF Like3, FitsFlat
<1>2. v.tag = "object" /\ w.tag = "object" /\ Keys(w) = Keys(v)
  BY <1>1, LikeTags
<1>3. ASSUME NEW key \in Keys(v) \cap KeysOf(struct)
      PROVE  FitsSimple(FieldNamed(struct, key).shape, v.members[key], bad1)
  <2>1. FitsSimple(FieldNamed(struct, key).shape, w.members[key], bad2)
    BY <1>2 DEF FitsFlat
  <2>2. FieldNamed(struct, key).shape \in FlatShapes
    BY FieldOf
  <2>3. Like2(Child(v, key), Child(w, key), r)
    BY <1>2, MemberIsChild DEF Like3
  <2>4. v.members[key] = Child(v, key) /\ w.members[key] = Child(w, key)
    BY <1>2, MemberIsChild
  <2> QED  BY <2>1, <2>2, <2>3, <2>4, SimpleShows
<1>4. Complete(struct, v)
  BY <1>1, <1>2 DEF Complete, Has
<1> QED
  BY <1>2, <1>3, <1>4 DEF FitsFlat

\* So does a field of a payload.
LEMMA FieldShows ==
    ASSUME NEW v, NEW w, NEW r, Like4(v, w, r), NEW shape \in FieldShapes,
           NEW bad1, NEW bad2, Shows(r, bad1, bad2), FitsField(shape, w, bad2)
    PROVE  FitsField(shape, v, bad1)
<1>1. CASE shape = "options"
  <2>1. w.tag = "array" /\ \A p \in Places(w) : FitsFlat(DecisionOption, Child(w, p), bad2)
    BY <1>1 DEF FitsField
  <2>2. v.tag = "array" /\ Places(v) = Places(w)
    BY <2>1, LikeTags DEF Like4
  <2>3. ASSUME NEW p \in Places(v)
        PROVE  FitsFlat(DecisionOption, Child(v, p), bad1)
    <3>1. Like3(Child(v, p), Child(w, p), r)
      BY DEF Like4
    <3>2. FitsFlat(DecisionOption, Child(w, p), bad2)
      BY <2>1, <2>2
    <3> QED  BY <3>1, <3>2, NestedTyped, FlatShows
  <2> QED  BY <1>1, <2>2, <2>3 DEF FitsField
<1>2. CASE shape \in NestedShapes
  <2>1. FitsFlat(NestedStruct(shape), w, bad2) /\ shape # "options"
    BY <1>2 DEF FitsField, NestedShapes
  <2>2. FitsFlat(NestedStruct(shape), v, bad1)
    BY <1>2, <2>1, Like4IsLike3, NestedTyped, FlatShows
  <2> QED  BY <1>2, <2>1, <2>2 DEF FitsField
<1>3. CASE shape \in FlatShapes
  <2>1. shape # "options" /\ shape \notin NestedShapes
    BY <1>3 DEF FlatShapes, ScalarShapes, NestedShapes
  <2>2. Like2(v, w, r)
    BY Like4IsLike3, Like3IsLike2
  <2>3. FitsSimple(shape, v, bad1)
    BY <1>3, <2>1, <2>2, SimpleShows DEF FitsField
  <2> QED  BY <2>1, <2>3 DEF FitsField
<1> QED
  BY <1>1, <1>2, <1>3 DEF FieldShapes

\* And so does a payload.
LEMMA PayloadShows ==
    ASSUME NEW v, NEW w, NEW r, Like5(v, w, r), NEW t \in KNOWN_TYPES,
           NEW bad1, NEW bad2, Shows(r, bad1, bad2), FitsPayload(t, w, bad2)
    PROVE  FitsPayload(t, v, bad1)
<1> DEFINE struct == PayloadStruct(t)
<1>0. struct \in Seq(Field(FieldShapes))
  BY StructsTyped
<1>1. LikeAt(v, w, r) /\ w.tag = "object" /\ Complete(struct, w)
  BY DEF Like5, FitsPayload
<1>2. v.tag = "object" /\ w.tag = "object" /\ Keys(w) = Keys(v)
  BY <1>1, LikeTags
<1>3. ASSUME NEW key \in Keys(v) \cap KeysOf(struct)
      PROVE  FitsField(FieldNamed(struct, key).shape, v.members[key], bad1)
  <2>1. FitsField(FieldNamed(struct, key).shape, w.members[key], bad2)
    BY <1>2 DEF FitsPayload
  <2>2. FieldNamed(struct, key).shape \in FieldShapes
    BY <1>0, FieldOf
  <2>3. Like4(Child(v, key), Child(w, key), r)
    BY <1>2, MemberIsChild DEF Like5
  <2>4. v.members[key] = Child(v, key) /\ w.members[key] = Child(w, key)
    BY <1>2, MemberIsChild
  <2> HIDE DEF struct
  <2> QED  BY <2>1, <2>2, <2>3, <2>4, FieldShows
<1>4. Complete(struct, v)
  BY <1>1, <1>2 DEF Complete, Has
<1> QED
  BY <1>2, <1>3, <1>4 DEF FitsPayload
-----------------------------------------------------------------------------
(***************************************************************************)
(* What a TypeScript parser returns is what it read, in another order, save *)
(* for what was under the key __proto__ of an object it rebuilds.          *)
(***************************************************************************)

\* The object a parser returns.
LEMMA ReturnedOver ==
    ASSUME NEW S, NEW v \in ObjectsOver(S), NEW shapes, NEW struct \in Seq(Field(shapes)),
           NEW known, \A key \in Keys(v) \cap KeysOf(struct) : known[key] \in S
    PROVE  /\ returned(struct, v, known) \in ObjectsOver(S)
           /\ Keys(returned(struct, v, known)) = Keys(v) \ {"__proto__"}
           /\ \A key \in Keys(v) \ {"__proto__"} :
                 returned(struct, v, known).members[key] =
                    IF key \in KeysOf(struct) THEN known[key] ELSE v.members[key]
<1> DEFINE unknown == Keys(v) \ (KeysOf(struct) \union {"__proto__"})
           declared == [i \in DOMAIN struct |-> struct[i].key]
           first == Kept(declared, Keys(v))
           rest == Kept(v.keys, unknown)
           X == (Keys(v) \cap KeysOf(struct)) \union unknown
           members == [key \in X |->
                          IF key \in KeysOf(struct) THEN known[key] ELSE v.members[key]]
<1>1. /\ Keys(v) = ToSet(v.keys) /\ Keys(v) \subseteq DocKeys /\ v.keys \in Seq(DocKeys)
      /\ \A key \in Keys(v) : v.members[key] \in S
  BY ObjectParts
<1>2. DOMAIN struct = 1..Len(struct) /\ Len(struct) \in Nat
  BY LenProperties
<1>3. \A i \in 1..Len(struct) : struct[i].key \in PlainKeys
  <2>1. \A i \in 1..Len(struct) : struct[i] \in Field(shapes)
    BY ElementOfSeq
  <2> QED  BY <2>1 DEF Field
<1>4. declared \in [1..Len(struct) -> PlainKeys] /\ declared \in Seq(PlainKeys)
  <2>1. declared \in [1..Len(struct) -> PlainKeys]
    BY <1>2, <1>3
  <2> HIDE DEF declared
  <2> QED  BY <1>2, <2>1, SeqDef
<1>5. ToSet(declared) = KeysOf(struct)
  BY <1>2 DEF ToSet, KeysOf
<1>6. X = Keys(v) \ {"__proto__"} /\ X \in SUBSET DocKeys
  <2>1. KeysOf(struct) \subseteq PlainKeys
    BY KeysOfStruct
  <2>2. "__proto__" \notin KeysOf(struct)
    BY <2>1 DEF PlainKeys
  <2> QED  BY <1>1, <2>2
<1> HIDE DEF declared
<1>7. first \in Seq(PlainKeys) /\ ToSet(first) = KeysOf(struct) \cap Keys(v)
  <2>1. first \in Seq(PlainKeys) /\ ToSet(first) = ToSet(declared) \cap Keys(v)
    BY <1>4, KeptSet
  <2> QED  BY <1>5, <2>1
<1>8. rest \in Seq(DocKeys) /\ ToSet(rest) = unknown
  <2>1. rest \in Seq(DocKeys) /\ ToSet(rest) = ToSet(v.keys) \cap unknown
    BY <1>1, KeptSet
  <2> QED  BY <1>1, <2>1
<1> HIDE DEF first, rest
<1>9. first \in Seq(DocKeys)
  <2>1. ToSet(first) \subseteq DocKeys
    BY <1>1, <1>7
  <2> QED  BY <1>7, <2>1, SeqOfOwn
<1>10. first \o rest \in Seq(DocKeys) /\ ToSet(first \o rest) = X
  <2>1. ToSet(first \o rest) = ToSet(first) \cup ToSet(rest)
    BY <1>8, <1>9, ToSetOfConcat
  <2>2. first \o rest \in Seq(DocKeys)
    BY <1>8, <1>9, ConcatProperties
  <2> QED  BY <1>7, <1>8, <2>1, <2>2
<1>11. members \in [X -> S]
  BY <1>1
<1>12. returned(struct, v, known) = Object(first \o rest, members)
  BY DEF returned, extractUnknownFields, first, rest, declared
<1>13. \A key \in Keys(v) \ {"__proto__"} :
          members[key] = IF key \in KeysOf(struct) THEN known[key] ELSE v.members[key]
  BY <1>6
<1>14. DOMAIN members = Keys(v) \ {"__proto__"}
  BY <1>6
<1> HIDE DEF X, members
<1>15. Object(first \o rest, members) \in ObjectsOver(S)
  BY <1>6, <1>10, <1>11, ObjectMade
<1> QED
  BY <1>12, <1>13, <1>14, <1>15 DEF Object, Keys

\* Level 3: what the parser of a nested object returns.
LEMMA ParsedFlat3 ==
    ASSUME NEW v \in Doc3, NEW struct \in Seq(Field(FlatShapes)), v.tag = "object"
    PROVE  /\ parsedFlat(struct, v) \in Doc3
           /\ Near3(v, parsedFlat(struct, v), AsTheyAre)
           /\ ~Has(v, "__proto__") => Like3(v, parsedFlat(struct, v), AsTheyAre)
<1> DEFINE known == [key \in Keys(v) \cap KeysOf(struct) |-> v.members[key]]
<1>1. v \in ObjectsOver(Doc2)
  BY LeafIsSimple, ArrayParts DEF DocsOver, Doc3
<1>2. parsedFlat(struct, v) = returned(struct, v, known)
  BY DEF parsedFlat
<1>3. \A key \in Keys(v) : v.members[key] \in Doc2
  BY <1>1, ObjectParts
<1>4. \A key \in Keys(v) \cap KeysOf(struct) : known[key] = v.members[key]
  OBVIOUS
<1> HIDE DEF known
<1>5. PICK w : w = returned(struct, v, known)
  OBVIOUS
<1>6. /\ w \in ObjectsOver(Doc2) /\ Keys(w) = Keys(v) \ {"__proto__"}
      /\ \A key \in Keys(w) : w.members[key] = v.members[key]
  BY <1>1, <1>3, <1>4, <1>5, ReturnedOver
<1>7. v.tag = "object" /\ w.tag = "object" /\ Places(w) = Keys(w) /\ Places(v) = Keys(v)
  BY <1>1, <1>6, ObjectParts
<1>8. ASSUME NEW p \in Places(w)
      PROVE  Like2(Child(v, p), Child(w, p), AsTheyAre)
  <2>1. Child(v, p) = v.members[p] /\ Child(w, p) = w.members[p]
    BY <1>7, MemberIsChild
  <2>2. w.members[p] = v.members[p] /\ v.members[p] \in Doc2
    BY <1>3, <1>6, <1>7
  <2> QED  BY <2>1, <2>2, LikeItself2
<1>9. Near3(v, w, AsTheyAre)
  BY <1>6, <1>7, <1>8, Like2IsNear2 DEF Near3, NearAt
<1>10. ASSUME ~Has(v, "__proto__")
       PROVE  Like3(v, w, AsTheyAre)
  <2>1. Places(w) = Places(v)
    BY <1>6, <1>7, <1>10 DEF Has
  <2> QED  BY <1>7, <1>8, <2>1 DEF Like3, LikeAt
<1> QED
  BY <1>2, <1>5, <1>6, <1>9, <1>10 DEF Doc3, DocsOver

\* Level 4: what the parser of a nested object returns.
LEMMA ParsedFlat4 ==
    ASSUME NEW v \in Doc4, NEW struct \in Seq(Field(FlatShapes)), v.tag = "object"
    PROVE  /\ parsedFlat(struct, v) \in Doc4
           /\ Near4(v, parsedFlat(struct, v), AsTheyAre)
           /\ ~Has(v, "__proto__") => Like4(v, parsedFlat(struct, v), AsTheyAre)
<1> DEFINE known == [key \in Keys(v) \cap KeysOf(struct) |-> v.members[key]]
<1>1. v \in ObjectsOver(Doc3)
  BY LeafIsSimple, ArrayParts DEF DocsOver, Doc4
<1>2. parsedFlat(struct, v) = returned(struct, v, known)
  BY DEF parsedFlat
<1>3. \A key \in Keys(v) : v.members[key] \in Doc3
  BY <1>1, ObjectParts
<1>4. \A key \in Keys(v) \cap KeysOf(struct) : known[key] = v.members[key]
  OBVIOUS
<1> HIDE DEF known
<1>5. PICK w : w = returned(struct, v, known)
  OBVIOUS
<1>6. /\ w \in ObjectsOver(Doc3) /\ Keys(w) = Keys(v) \ {"__proto__"}
      /\ \A key \in Keys(w) : w.members[key] = v.members[key]
  BY <1>1, <1>3, <1>4, <1>5, ReturnedOver
<1>7. v.tag = "object" /\ w.tag = "object" /\ Places(w) = Keys(w) /\ Places(v) = Keys(v)
  BY <1>1, <1>6, ObjectParts
<1>8. ASSUME NEW p \in Places(w)
      PROVE  Like3(Child(v, p), Child(w, p), AsTheyAre)
  <2>1. Child(v, p) = v.members[p] /\ Child(w, p) = w.members[p]
    BY <1>7, MemberIsChild
  <2>2. w.members[p] = v.members[p] /\ v.members[p] \in Doc3
    BY <1>3, <1>6, <1>7
  <2> QED  BY <2>1, <2>2, LikeItself3
<1>9. Near4(v, w, AsTheyAre)
  BY <1>6, <1>7, <1>8, Like3IsNear3 DEF Near4, NearAt
<1>10. ASSUME ~Has(v, "__proto__")
       PROVE  Like4(v, w, AsTheyAre)
  <2>1. Places(w) = Places(v)
    BY <1>6, <1>7, <1>10 DEF Has
  <2> QED  BY <1>7, <1>8, <2>1 DEF Like4, LikeAt
<1> QED
  BY <1>2, <1>5, <1>6, <1>9, <1>10 DEF Doc4, DocsOver

\* The objects of a field that the parser of the field rebuilds.
RebuiltOf(shape, v) ==
    IF shape \in NestedShapes THEN {v} ELSE IF shape = "options" THEN ToSet(v.items) ELSE {}

Rebuildable(objects) == \A o \in objects : ~Has(o, "__proto__")

\* What the parser returns of a field that fits: nothing else than it read, if
\* it could rebuild all of it.
LEMMA ParsedField ==
    ASSUME NEW v \in Doc4, NEW shape \in FieldShapes, NEW bad, FitsField(shape, v, bad)
    PROVE  /\ parsedField(shape, v) \in Doc4
           /\ Near4(v, parsedField(shape, v), AsTheyAre)
           /\ Rebuildable(RebuiltOf(shape, v)) =>
                 Like4(v, parsedField(shape, v), AsTheyAre)
<1>1. CASE shape = "options"
  <2> DEFINE items == [i \in Places(v) |-> parsedFlat(DecisionOption, v.items[i])]
  <2>1. v.tag = "array" /\ \A p \in Places(v) : FitsFlat(DecisionOption, Child(v, p), bad)
    BY <1>1 DEF FitsField
  <2>2. v \in ArraysOver(Doc3)
    BY <2>1, LeafIsSimple, ObjectParts DEF DocsOver, Doc4
  <2>3. /\ Places(v) = 1..Len(v.items) /\ Len(v.items) \in Nat /\ Len(v.items) <= 2
        /\ \A p \in Places(v) : Child(v, p) = v.items[p] /\ v.items[p] \in Doc3
    BY <2>2, ArrayParts
  <2>4. ASSUME NEW p \in Places(v)
        PROVE  /\ items[p] \in Doc3 /\ Near3(v.items[p], items[p], AsTheyAre)
               /\ ~Has(v.items[p], "__proto__") => Like3(v.items[p], items[p], AsTheyAre)
    <3>1. v.items[p].tag = "object" /\ v.items[p] \in Doc3
      BY <2>1, <2>3 DEF FitsFlat
    <3>2. items[p] = parsedFlat(DecisionOption, v.items[p])
      OBVIOUS
    <3> HIDE DEF items
    <3> QED  BY <3>1, <3>2, ParsedFlat3, NestedTyped
  <2>5. parsedField(shape, v) = Arr(items)
    BY <1>1, SameStructs DEF parsedField
  <2>6. items \in [1..Len(v.items) -> Doc3]
    BY <2>3, <2>4
  <2> HIDE DEF items
  <2>7. items \in Seq(Doc3) /\ Len(items) = Len(v.items) /\ DOMAIN items = Places(v)
    <3>1. items \in Seq(Doc3)
      BY <2>3, <2>6, SeqDef
    <3> QED  BY <2>3, <2>6, <3>1, LenProperties
  <2>8. Arr(items) \in ArraysOver(Doc3)
    BY <2>3, <2>7, ArrayMade
  <2>9. PICK w : w = Arr(items)
    OBVIOUS
  <2>10. w.tag = "array" /\ Places(w) = DOMAIN items /\ \A p \in Places(v) : Child(w, p) = items[p]
    BY <2>9 DEF Arr, Places, Child
  <2>11. Near4(v, w, AsTheyAre)
    BY <2>1, <2>3, <2>4, <2>7, <2>10 DEF Near4, NearAt
  <2>12. ASSUME Rebuildable(RebuiltOf(shape, v))
         PROVE  Like4(v, w, AsTheyAre)
    <3>1. \A p \in Places(v) : v.items[p] \in ToSet(v.items)
      BY <2>1 DEF ToSet, Places
    <3>2. \A p \in Places(v) : ~Has(v.items[p], "__proto__")
      BY <1>1, <2>12, <3>1 DEF Rebuildable, RebuiltOf, NestedShapes
    <3> QED  BY <2>1, <2>3, <2>4, <2>7, <2>10, <3>2 DEF Like4, LikeAt
  <2> QED  BY <2>5, <2>8, <2>9, <2>11, <2>12 DEF Doc4, DocsOver
<1>2. CASE shape \in NestedShapes
  <2>1. FitsFlat(NestedStruct(shape), v, bad) /\ shape # "options"
    BY <1>2 DEF FitsField, NestedShapes
  <2>2. parsedField(shape, v) = parsedFlat(NestedStruct(shape), v)
    BY <1>2, <2>1, SameStructs DEF parsedField, NestedShapes
  <2>3. v.tag = "object" /\ NestedStruct(shape) \in Seq(Field(FlatShapes))
    BY <1>2, <2>1, NestedTyped DEF FitsFlat
  <2>4. Rebuildable(RebuiltOf(shape, v)) => ~Has(v, "__proto__")
    BY <1>2 DEF Rebuildable, RebuiltOf
  <2> QED  BY <2>2, <2>3, <2>4, ParsedFlat4
<1>3. CASE shape \in FlatShapes
  <2>1. parsedField(shape, v) = v
    BY <1>3 DEF parsedField, FlatShapes, ScalarShapes
  <2> QED  BY <2>1, LikeItself4, Like4IsNear4
<1> QED
  BY <1>1, <1>2, <1>3 DEF FieldShapes

\* When all objects of a payload can be rebuilt: its own and its fields'.
LEMMA RebuiltParts ==
    ASSUME NEW v, NEW t \in KNOWN_TYPES
    PROVE  CanRebuild(t, v) <=>
              /\ ~Has(v, "__proto__")
              /\ \A key \in Keys(v) \cap KeysOf(PayloadStruct(t)) :
                    Rebuildable(RebuiltOf(FieldNamed(PayloadStruct(t), key).shape,
                                          v.members[key]))
<1> DEFINE struct == PayloadStruct(t)
           below == {RebuiltOf(FieldNamed(struct, key).shape, v.members[key]) :
                        key \in Keys(v) \cap KeysOf(struct)}
<1>1. PayloadParser(t) = struct /\ t \in TS_KNOWN_TYPES
  BY SameStructs
<1>2. \A shape, field :
         RebuiltOf(shape, field) =
            CASE shape \in {"ceilings", "usage", "dossier"} -> {field}
              [] shape = "options" -> ToSet(field.items)
              [] OTHER -> {}
  BY DEF RebuiltOf, NestedShapes
<1>3. Rebuilt(t, v) = {v} \union UNION below
  BY <1>1, <1>2 DEF Rebuilt
<1>4. CanRebuild(t, v) <=> ~Has(v, "__proto__") /\ \A objects \in below : Rebuildable(objects)
  BY <1>3 DEF CanRebuild, Rebuildable
<1> QED
  BY <1>4

\* What can be rebuilt of a payload can be of a like one.
LEMMA RebuiltAlike ==
    ASSUME NEW v, NEW w, NEW r, Like5(v, w, r), NEW t \in KNOWN_TYPES, NEW bad,
           FitsPayload(t, w, bad), CanRebuild(t, v)
    PROVE  CanRebuild(t, w)
<1> DEFINE struct == PayloadStruct(t)
<1>0. struct \in Seq(Field(FieldShapes))
  BY StructsTyped
<1>1. LikeAt(v, w, r) /\ w.tag = "object"
  BY DEF Like5, FitsPayload
<1>2. v.tag = "object" /\ Keys(w) = Keys(v)
  BY <1>1, LikeTags
<1>3. ~Has(v, "__proto__") /\ ~Has(w, "__proto__")
  BY <1>2, RebuiltParts DEF Has
<1>4. ASSUME NEW key \in Keys(w) \cap KeysOf(struct)
      PROVE  Rebuildable(RebuiltOf(FieldNamed(struct, key).shape, w.members[key]))
  <2> DEFINE shape == FieldNamed(struct, key).shape
             a == v.members[key]
             b == w.members[key]
  <2> SUFFICES Rebuildable(RebuiltOf(shape, b))
    OBVIOUS
  <2>1. Like4(a, b, r)
    BY <1>1, <1>2, MemberIsChild DEF Like5
  <2>2. FitsField(shape, b, bad)
    BY DEF FitsPayload
  <2>3. Rebuildable(RebuiltOf(shape, a))
    BY <1>2, RebuiltParts
  <2> HIDE DEF shape, a, b
  <2>4. CASE shape \in NestedShapes
    <3>1. b.tag = "object"
      BY <2>2, <2>4 DEF FitsField, FitsFlat, NestedShapes
    <3>2. Keys(b) = Keys(a)
      BY <2>1, <3>1, LikeTags DEF Like4
    <3> QED  BY <2>3, <2>4, <3>2 DEF Rebuildable, RebuiltOf, Has
  <2>5. CASE shape = "options"
    <3>1. b.tag = "array" /\ \A p \in Places(b) : Child(b, p).tag = "object"
      BY <2>2, <2>5 DEF FitsField, FitsFlat
    <3>2. a.tag = "array" /\ Places(b) = Places(a)
      BY <2>1, <3>1, LikeTags DEF Like4
    <3>3. \A p \in Places(b) : Keys(Child(b, p)) = Keys(Child(a, p))
      BY <2>1, <3>1, <3>2, LikeTags DEF Like4, Like3
    <3>4. /\ Places(a) = DOMAIN a.items /\ Places(b) = DOMAIN b.items
          /\ \A p \in Places(b) : Child(a, p) = a.items[p] /\ Child(b, p) = b.items[p]
      BY <3>1, <3>2 DEF Places, Child
    <3>5. \A p \in DOMAIN a.items : ~Has(a.items[p], "__proto__")
      BY <2>3, <2>5 DEF Rebuildable, RebuiltOf, NestedShapes, ToSet
    <3>6. \A p \in DOMAIN b.items : ~Has(b.items[p], "__proto__")
      BY <3>2, <3>3, <3>4, <3>5 DEF Has
    <3> QED  BY <2>5, <3>6 DEF Rebuildable, RebuiltOf, NestedShapes, ToSet
  <2>6. CASE shape \notin NestedShapes /\ shape # "options"
    BY <2>6 DEF Rebuildable, RebuiltOf
  <2> QED  BY <2>4, <2>5, <2>6
<1> QED
  BY <1>3, <1>4, RebuiltParts

\* What the parser returns of a payload that fits is near the payload, and like
\* it if it can be rebuilt.
LEMMA ParsedPayload ==
    ASSUME NEW v \in Doc5, NEW t \in KNOWN_TYPES, NEW bad, FitsPayload(t, v, bad)
    PROVE  /\ parsed(t, v) \in Doc5 /\ Near5(v, parsed(t, v), AsTheyAre)
           /\ CanRebuild(t, v) => Like5(v, parsed(t, v), AsTheyAre)
<1> DEFINE struct == PayloadStruct(t)
           known == [key \in Keys(v) \cap KeysOf(struct) |->
                        parsedField(FieldNamed(struct, key).shape, v.members[key])]
<1>0. struct \in Seq(Field(FieldShapes)) /\ PayloadParser(t) = struct
  BY StructsTyped, SameStructs
<1>1. v.tag = "object" /\ v \in ObjectsOver(Doc4)
  BY LeafIsSimple, ArrayParts DEF DocsOver, Doc5, FitsPayload
<1>2. parsed(t, v) = returned(struct, v, known)
  BY <1>0 DEF parsed
<1>3. \A key \in Keys(v) : v.members[key] \in Doc4
  BY <1>1, ObjectParts
<1>4. ASSUME NEW key \in Keys(v) \cap KeysOf(struct)
      PROVE  /\ known[key] \in Doc4 /\ Near4(v.members[key], known[key], AsTheyAre)
             /\ CanRebuild(t, v) => Like4(v.members[key], known[key], AsTheyAre)
  <2>1. FieldNamed(struct, key).shape \in FieldShapes
    BY <1>0, FieldOf
  <2>2. FitsField(FieldNamed(struct, key).shape, v.members[key], bad)
    BY DEF FitsPayload
  <2>3. v.members[key] \in Doc4
    BY <1>3
  <2>4. known[key] = parsedField(FieldNamed(struct, key).shape, v.members[key])
    OBVIOUS
  <2>5. CanRebuild(t, v) =>
           Rebuildable(RebuiltOf(FieldNamed(struct, key).shape, v.members[key]))
    BY RebuiltParts
  <2> HIDE DEF known, struct
  <2> QED  BY <2>1, <2>2, <2>3, <2>4, <2>5, ParsedField
<1> HIDE DEF known, struct
<1>5. PICK w : w = returned(struct, v, known)
  OBVIOUS
<1>6. /\ w \in ObjectsOver(Doc4) /\ Keys(w) = Keys(v) \ {"__proto__"}
      /\ \A key \in Keys(w) : w.members[key] =
                                IF key \in KeysOf(struct) THEN known[key] ELSE v.members[key]
  BY <1>0, <1>1, <1>4, <1>5, ReturnedOver
<1>7. w.tag = "object" /\ Places(w) = Keys(w) /\ Places(v) = Keys(v)
  BY <1>1, <1>6, ObjectParts
<1>8. \A p \in Places(w) : Child(v, p) = v.members[p] /\ Child(w, p) = w.members[p]
  BY <1>1, <1>7, MemberIsChild
<1>9. \A p \in Places(w) : Near4(Child(v, p), Child(w, p), AsTheyAre)
  BY <1>3, <1>4, <1>6, <1>7, <1>8, LikeItself4, Like4IsNear4
<1>10. Near5(v, w, AsTheyAre)
  BY <1>1, <1>6, <1>7, <1>9 DEF Near5, NearAt
<1>11. ASSUME CanRebuild(t, v)
       PROVE  Like5(v, w, AsTheyAre)
  <2>1. Places(w) = Places(v)
    BY <1>6, <1>7, <1>11, RebuiltParts DEF Has
  <2>2. \A p \in Places(w) : Like4(Child(v, p), Child(w, p), AsTheyAre)
    BY <1>3, <1>4, <1>6, <1>7, <1>8, <1>11, LikeItself4
  <2> QED  BY <1>1, <1>7, <2>1, <2>2 DEF Like5, LikeAt
<1> QED
  BY <1>2, <1>5, <1>6, <1>10, <1>11 DEF Doc5, DocsOver
-----------------------------------------------------------------------------
(***************************************************************************)
(* The rules of a payload read its declared texts and booleans only, which *)
(* are the same in near payloads.                                          *)
(***************************************************************************)

\* A text or a boolean is the same in a near value.
LEMMA TextIsSame ==
    ASSUME NEW v, NEW w, NEW r, Tame(r), NearAt(v, w, r),
           NEW shape \in {"string", "boolean"}, NEW bad, FitsSimple(shape, v, bad)
    PROVE  w = v
<1>1. v.tag \in {"string", "boolean"}
  BY DEF FitsSimple, FitsScalar
<1> QED
  BY <1>1 DEF NearAt, Tame

\* A struct declares a field, with a shape.
Declares(struct, key, shape) ==
    /\ \E i \in DOMAIN struct : struct[i].key = key
    /\ \A i \in DOMAIN struct : struct[i].key = key => struct[i].shape = shape

\* A field that a struct declares with one shape has that shape.
LEMMA DeclaredField ==
    ASSUME NEW shapes, NEW struct \in Seq(Field(shapes)), NEW key, NEW shape,
           Declares(struct, key, shape)
    PROVE  key \in KeysOf(struct) /\ FieldNamed(struct, key).shape = shape
  BY DEF Declares, KeysOf, FieldNamed

\* The fields the rules read.
Texts(t) ==
    CASE t = "run.started" -> {"kind"}
      [] t = "run.finished" -> {"outcome", "reason"}
      [] t = "agent.text" -> {"text"}
      [] t = "agent.tool_use" -> {"inputExcerpt"}
      [] t = "agent.tool_result" -> {"resultExcerpt"}
      [] t = "agent.warning" -> {"message"}
      [] t = "control.requested" -> {"kind", "decisionId", "optionId", "text"}
      [] t = "control.applied" -> {"ok", "reason"}
      [] t = "capture.refused" -> {"cause", "detail"}
      [] t = "decision.requested" -> {"kind", "decisionId", "onTimeout"}
      [] OTHER -> {}

\* The fields the rules of a type read are declared as texts or booleans.
LEMMA TextsDeclared ==
    ASSUME NEW t \in KNOWN_TYPES, NEW key \in Texts(t)
    PROVE  \E shape \in {"string", "boolean"} : Declares(PayloadStruct(t), key, shape)
<1>1. CASE t = "run.started"
  BY <1>1 DEF Declares, Texts, PayloadStruct, Req, Opt, RunStartedPayload
<1>2. CASE t = "run.finished"
  BY <1>2 DEF Declares, Texts, PayloadStruct, Req, Opt, RunFinishedPayload
<1>3. CASE t = "agent.text"
  BY <1>3 DEF Declares, Texts, PayloadStruct, Req, Opt, AgentTextPayload
<1>4. CASE t = "agent.tool_use"
  BY <1>4 DEF Declares, Texts, PayloadStruct, Req, Opt, AgentToolUsePayload
<1>5. CASE t = "agent.tool_result"
  BY <1>5 DEF Declares, Texts, PayloadStruct, Req, Opt, AgentToolResultPayload
<1>6. CASE t = "agent.warning"
  BY <1>6 DEF Declares, Texts, PayloadStruct, Req, Opt, AgentWarningPayload
<1>7. CASE t = "control.requested"
  BY <1>7 DEF Declares, Texts, PayloadStruct, Req, Opt, ControlRequestedPayload
<1>8. CASE t = "control.applied"
  BY <1>8 DEF Declares, Texts, PayloadStruct, Req, Opt, ControlAppliedPayload
<1>9. CASE t = "capture.refused"
  BY <1>9 DEF Declares, Texts, PayloadStruct, Req, Opt, CaptureRefusedPayload
<1>10. CASE t = "decision.requested"
  BY <1>10 DEF Declares, Texts, PayloadStruct, Req, Opt, DecisionRequestedPayload
<1>11. CASE t \in {"agent.started", "agent.completed", "decision.answered"}
  BY <1>11 DEF Texts
<1> QED
  BY <1>1, <1>2, <1>3, <1>4, <1>5, <1>6, <1>7, <1>8, <1>9, <1>10, <1>11
     DEF KNOWN_TYPES

\* The texts of near payloads.
LEMMA TextsAreSame ==
    ASSUME NEW v, NEW w, NEW r, Tame(r), Near5(v, w, r), NEW t \in KNOWN_TYPES,
           NEW bad, FitsPayload(t, v, bad), NEW key \in Texts(t)
    PROVE  Get(w, key) = Get(v, key) /\ (Has(w, key) <=> Has(v, key))
<1> DEFINE struct == PayloadStruct(t)
<1>2. PICK shape \in {"string", "boolean"} : Declares(struct, key, shape)
  BY TextsDeclared
<1>3. struct \in Seq(Field(FieldShapes))
  BY StructsTyped
<1>4. key \in KeysOf(struct) /\ FieldNamed(struct, key).shape = shape
  <2> HIDE DEF struct
  <2> QED  BY <1>2, <1>3, DeclaredField
<1>1. v.tag = "object" /\ w.tag = "object" /\ (key \in Keys(w) <=> key \in Keys(v))
  <2>1. NearAt(v, w, r) /\ v.tag = "object"
    BY DEF Near5, FitsPayload
  <2> HIDE DEF struct
  <2> QED  BY <1>3, <1>4, <2>1, NearFields
<1>5. CASE key \in Keys(v)
  <2>1. FitsField(shape, v.members[key], bad)
    BY <1>4, <1>5 DEF FitsPayload
  <2>2. FitsSimple(shape, v.members[key], bad)
    BY <2>1 DEF FitsField, NestedShapes
  <2>3. NearAt(v.members[key], w.members[key], r)
    BY <1>1, <1>5, MemberIsChild DEF Near5, Near4
  <2>4. w.members[key] = v.members[key]
    BY <2>2, <2>3, TextIsSame
  <2> QED  BY <1>1, <1>5, <2>4 DEF Get, Has
<1>6. CASE key \notin Keys(v)
  BY <1>1, <1>6 DEF Get, Has
<1> QED
  BY <1>5, <1>6

\* The texts of a nested struct.
LEMMA FlatTextsAreSame ==
    ASSUME NEW v, NEW w, NEW r, Tame(r), Near3(v, w, r),
           NEW struct \in Seq(Field(FlatShapes)), NEW bad, FitsFlat(struct, v, bad),
           NEW key, Declares(struct, key, "string")
    PROVE  Get(w, key) = Get(v, key)
<1>2. key \in KeysOf(struct) /\ FieldNamed(struct, key).shape = "string"
  BY DeclaredField
<1>1. v.tag = "object" /\ w.tag = "object" /\ (key \in Keys(w) <=> key \in Keys(v))
  <2>1. NearAt(v, w, r) /\ v.tag = "object"
    BY DEF Near3, FitsFlat
  <2> QED  BY <1>2, <2>1, NearFields
<1>3. CASE key \in Keys(v)
  <2>1. FitsSimple("string", v.members[key], bad)
    BY <1>2, <1>3 DEF FitsFlat
  <2>2. NearAt(v.members[key], w.members[key], r)
    BY <1>1, <1>3, MemberIsChild DEF Near3, Near2
  <2>3. w.members[key] = v.members[key]
    BY <2>1, <2>2, TextIsSame
  <2> QED  BY <1>1, <1>3, <2>3 DEF Get, Has
<1>4. CASE key \notin Keys(v)
  BY <1>1, <1>4 DEF Get, Has
<1> QED
  BY <1>3, <1>4

\* A list of texts.
LEMMA ListIsSame ==
    ASSUME NEW S, NEW v \in DocsOver(S), NEW w \in DocsOver(S), NEW r, Tame(r),
           Near2(v, w, r), NEW bad, FitsSimple("strings", v, bad)
    PROVE  w.items = v.items
<1>1. v.tag = "array" /\ \A p \in Places(v) : Child(v, p).tag = "string"
  BY DEF FitsSimple
<1>2. w.tag = "array" /\ Places(w) = Places(v)
  BY <1>1, NearTags DEF Near2
<1>3. v \in ArraysOver(S) /\ w \in ArraysOver(S)
  BY <1>1, <1>2, LeafIsSimple, ObjectParts DEF DocsOver
<1>4. /\ Places(v) = 1..Len(v.items) /\ Places(w) = 1..Len(w.items)
      /\ v.items \in Seq(S) /\ w.items \in Seq(S)
      /\ \A p \in Places(v) : Child(v, p) = v.items[p] /\ Child(w, p) = w.items[p]
      /\ DOMAIN v.items = Places(v) /\ DOMAIN w.items = Places(v)
  BY <1>2, <1>3, ArrayParts
<1>5. ASSUME NEW p \in Places(v)
      PROVE  w.items[p] = v.items[p]
  <2>1. NearAt(Child(v, p), Child(w, p), r)
    BY <1>2 DEF Near2, Near1
  <2>2. FitsSimple("string", Child(v, p), bad)
    BY <1>1 DEF FitsSimple, FitsScalar
  <2> QED  BY <1>4, <2>1, <2>2, TextIsSame
<1>6. v.items = [p \in Places(v) |-> v.items[p]] /\ w.items = [p \in Places(v) |-> w.items[p]]
  <2>1. v.items \in [1..Len(v.items) -> S] /\ w.items \in [1..Len(w.items) -> S]
    BY <1>4, LenProperties
  <2> QED  BY <1>2, <1>4, <2>1
<1> QED
  BY <1>5, <1>6

\* The rules of a requested decision.
LEMMA DecisionRulesAreSame ==
    ASSUME NEW v \in Doc5, NEW w \in Doc5, NEW r, Tame(r), Near5(v, w, r),
           NEW bad, FitsPayload("decision.requested", v, bad)
    PROVE  decision_requested_rules(w) = decision_requested_rules(v)
<1> DEFINE t == "decision.requested"
           struct == PayloadStruct(t)
<1>0. t \in KNOWN_TYPES /\ struct = DecisionRequestedPayload
  BY DEF KNOWN_TYPES, PayloadStruct
<1>4. struct \in Seq(Field(FieldShapes))
  BY <1>0, StructsTyped
<1>1. /\ v.tag = "object" /\ w.tag = "object" /\ Keys(w) \subseteq Keys(v)
      /\ Complete(struct, v) /\ Complete(struct, w)
  <2>1. NearAt(v, w, r) /\ v.tag = "object" /\ Complete(struct, v)
    BY DEF Near5, FitsPayload
  <2> HIDE DEF struct
  <2> QED  BY <1>4, <2>1, NearFields
<1>2. /\ Get(w, "kind") = Get(v, "kind") /\ Get(w, "onTimeout") = Get(v, "onTimeout")
      /\ Has(w, "onTimeout") <=> Has(v, "onTimeout")
  BY <1>0, TextsAreSame DEF Texts
<1>3. /\ Declares(struct, "dossier", "dossier") /\ Declares(struct, "options", "options")
      /\ "dossier" \in Keys(w) /\ "options" \in Keys(w)
      /\ "dossier" \in Keys(v) /\ "options" \in Keys(v)
  <2>1. Declares(struct, "dossier", "dossier") /\ Declares(struct, "options", "options")
    BY <1>0 DEF Declares, DecisionRequestedPayload, Req, Opt
  <2>2. DecisionRequestedPayload[3] = Req("dossier", "dossier")
        /\ DecisionRequestedPayload[4] = Req("options", "options")
        /\ 3 \in DOMAIN DecisionRequestedPayload /\ 4 \in DOMAIN DecisionRequestedPayload
    BY DEF DecisionRequestedPayload
  <2> QED  BY <1>0, <1>1, <2>1, <2>2 DEF Complete, Has, Req
<1>5. /\ FitsField("dossier", v.members["dossier"], bad)
      /\ FitsField("options", v.members["options"], bad)
  <2>1. /\ "dossier" \in KeysOf(struct) /\ FieldNamed(struct, "dossier").shape = "dossier"
        /\ "options" \in KeysOf(struct) /\ FieldNamed(struct, "options").shape = "options"
    <3> HIDE DEF struct
    <3> QED  BY <1>3, <1>4, DeclaredField
  <2> QED  BY <1>3, <2>1 DEF FitsPayload
<1> DEFINE vd == v.members["dossier"]
           wd == w.members["dossier"]
           vo == v.members["options"]
           wo == w.members["options"]
<1>6. Near4(vd, wd, r) /\ Near4(vo, wo, r)
  BY <1>1, <1>3, MemberIsChild DEF Near5
<1>7. vd \in Doc4 /\ wd \in Doc4 /\ vo \in Doc4 /\ wo \in Doc4
  <2>1. v \in ObjectsOver(Doc4) /\ w \in ObjectsOver(Doc4)
    BY <1>1, LeafIsSimple, ArrayParts DEF Doc5, DocsOver
  <2> QED  BY <1>1, <1>3, <2>1, ObjectParts
<1>8. FitsFlat(DecisionDossier, vd, bad)
  BY <1>5 DEF FitsField, NestedShapes, NestedStruct
<1>9. vo.tag = "array" /\ \A p \in Places(vo) : FitsFlat(DecisionOption, Child(vo, p), bad)
  BY <1>5 DEF FitsField
<1>10. /\ Get(v, "dossier") = vd /\ Get(w, "dossier") = wd
       /\ Get(v, "options") = vo /\ Get(w, "options") = wo
  BY <1>1, <1>3 DEF Get, Has
<1> HIDE DEF struct, vd, wd, vo, wo
<1>11. DecisionDossier \in Seq(Field(FlatShapes)) /\ DecisionOption \in Seq(Field(FlatShapes))
  <2>1. NestedStruct("dossier") = DecisionDossier /\ "dossier" \in NestedShapes
    BY DEF NestedStruct, NestedShapes
  <2> QED  BY <2>1, NestedTyped
<1>12. ASSUME NEW key \in {"question", "recommendedAction", "blastRadius"}
       PROVE  Get(wd, key) = Get(vd, key)
  <2>1. Declares(DecisionDossier, key, "string")
    BY DEF Declares, DecisionDossier, Req, Opt
  <2>2. Near3(vd, wd, r)
    BY <1>6, Near4IsNear3
  <2> QED  BY <1>8, <1>11, <2>1, <2>2, FlatTextsAreSame
<1>13. Get(wd, "optionsRuledOut").items = Get(vd, "optionsRuledOut").items
  <2>1. Declares(DecisionDossier, "optionsRuledOut", "strings")
    BY DEF Declares, DecisionDossier, Req, Opt
  <2>2. /\ vd.tag = "object" /\ wd.tag = "object" /\ Keys(wd) \subseteq Keys(vd)
        /\ Complete(DecisionDossier, wd)
    <3>1. NearAt(vd, wd, r) /\ vd.tag = "object" /\ Complete(DecisionDossier, vd)
      BY <1>6, <1>8 DEF Near4, FitsFlat
    <3> QED  BY <1>11, <3>1, NearFields
  <2>3. "optionsRuledOut" \in Keys(wd) /\ "optionsRuledOut" \in Keys(vd)
    <3>1. DecisionDossier[2] = Req("optionsRuledOut", "strings")
          /\ 2 \in DOMAIN DecisionDossier
      BY DEF DecisionDossier
    <3> QED  BY <2>2, <3>1 DEF Complete, Has, Req
  <2>4. FitsSimple("strings", vd.members["optionsRuledOut"], bad)
    <3>1. /\ "optionsRuledOut" \in KeysOf(DecisionDossier)
          /\ FieldNamed(DecisionDossier, "optionsRuledOut").shape = "strings"
      BY <1>11, <2>1, DeclaredField
    <3> QED  BY <1>8, <2>3, <3>1 DEF FitsFlat
  <2>5. Near2(vd.members["optionsRuledOut"], wd.members["optionsRuledOut"], r)
    <3>1. Near3(vd, wd, r)
      BY <1>6, Near4IsNear3
    <3> QED  BY <2>2, <2>3, <3>1, MemberIsChild DEF Near3
  <2>6. vd.members["optionsRuledOut"] \in Doc3 /\ wd.members["optionsRuledOut"] \in Doc3
    <3>1. vd \in ObjectsOver(Doc3) /\ wd \in ObjectsOver(Doc3)
      BY <1>7, <2>2, LeafIsSimple, ArrayParts DEF Doc4, DocsOver
    <3> QED  BY <2>2, <2>3, <3>1, ObjectParts
  <2>7. wd.members["optionsRuledOut"].items = vd.members["optionsRuledOut"].items
    BY <2>4, <2>5, <2>6, ListIsSame DEF Doc3
  <2> QED  BY <2>2, <2>3, <2>7 DEF Get, Has
<1>14. /\ DOMAIN wo.items = DOMAIN vo.items
       /\ \A p \in DOMAIN vo.items :
             /\ Get(wo.items[p], "id") = Get(vo.items[p], "id")
             /\ Get(wo.items[p], "label") = Get(vo.items[p], "label")
  <2>1. wo.tag = "array" /\ Places(wo) = Places(vo)
    BY <1>6, <1>9, NearTags DEF Near4
  <2>2. Places(vo) = DOMAIN vo.items /\ Places(wo) = DOMAIN wo.items
    BY <1>9, <2>1 DEF Places
  <2>3. ASSUME NEW p \in Places(vo)
        PROVE  /\ Get(wo.items[p], "id") = Get(vo.items[p], "id")
               /\ Get(wo.items[p], "label") = Get(vo.items[p], "label")
    <3>1. vo.items[p] = Child(vo, p) /\ wo.items[p] = Child(wo, p)
      BY <1>9, <2>1, ItemIsChild
    <3>2. FitsFlat(DecisionOption, vo.items[p], bad) /\ Near3(vo.items[p], wo.items[p], r)
      BY <1>6, <1>9, <2>1, <3>1 DEF Near4
    <3>3. Declares(DecisionOption, "id", "string") /\ Declares(DecisionOption, "label", "string")
      BY DEF Declares, DecisionOption, Req
    <3> QED  BY <1>11, <3>2, <3>3, FlatTextsAreSame
  <2> QED  BY <2>1, <2>2, <2>3
<1>15. {o \in ToSet(wo.items) : Get(o, "id") = Get(v, "onTimeout")} = {} <=>
          {o \in ToSet(vo.items) : Get(o, "id") = Get(v, "onTimeout")} = {}
  BY <1>14 DEF ToSet
<1>16. [i \in DOMAIN wo.items |->
           WithinBound(Get(wo.items[i], "label"), <<"options", Index(i), "label">>,
                       MAX_EXCERPT_SCALARS)] =
       [i \in DOMAIN vo.items |->
           WithinBound(Get(vo.items[i], "label"), <<"options", Index(i), "label">>,
                       MAX_EXCERPT_SCALARS)]
  BY <1>14
<1>17. check_closedness(t, w) = check_closedness(t, v)
  BY <1>2 DEF check_closedness, UnionRules, UnionRule
<1> QED
  BY <1>2, <1>10, <1>12, <1>13, <1>15, <1>16, <1>17 DEF decision_requested_rules

\* The rules of any known payload.
LEMMA RulesAreSame ==
    ASSUME NEW v \in Doc5, NEW w \in Doc5, NEW r, Tame(r), Near5(v, w, r),
           NEW t \in KNOWN_TYPES, NEW bad, FitsPayload(t, v, bad)
    PROVE  payload_rules(t, w) = payload_rules(t, v)
<1>0. \A key \in Texts(t) : Get(w, key) = Get(v, key) /\ (Has(w, key) <=> Has(v, key))
  BY TextsAreSame
<1>1. CASE t = "run.started"
  BY <1>0, <1>1 DEF payload_rules, Texts, check_closedness, UnionRules, UnionRule
<1>2. CASE t = "run.finished"
  BY <1>0, <1>2 DEF payload_rules, Texts, check_closedness, UnionRules, UnionRule
<1>3. CASE t = "agent.text"
  BY <1>0, <1>3 DEF payload_rules, Texts
<1>4. CASE t = "agent.tool_use"
  BY <1>0, <1>4 DEF payload_rules, Texts
<1>5. CASE t = "agent.tool_result"
  BY <1>0, <1>5 DEF payload_rules, Texts
<1>6. CASE t = "agent.warning"
  BY <1>0, <1>6 DEF payload_rules, Texts
<1>7. CASE t = "control.requested"
  <2>1. control_requested_rules(w) = control_requested_rules(v)
    BY <1>0, <1>7 DEF Texts, control_requested_rules, check_closedness, UnionRules, UnionRule
  <2> QED  BY <1>7, <2>1 DEF payload_rules
<1>8. CASE t = "control.applied"
  <2>1. control_applied_rules(w) = control_applied_rules(v)
    BY <1>0, <1>8 DEF Texts, control_applied_rules, check_closedness, UnionRules, UnionRule
  <2> QED  BY <1>8, <2>1 DEF payload_rules
<1>9. CASE t = "capture.refused"
  BY <1>0, <1>9 DEF payload_rules, Texts, check_closedness, UnionRules, UnionRule
<1>10. CASE t = "decision.requested"
  BY <1>10, DecisionRulesAreSame DEF payload_rules
<1>11. CASE t \in {"agent.started", "agent.completed", "decision.answered"}
  BY <1>11 DEF payload_rules
<1> QED
  BY <1>1, <1>2, <1>3, <1>4, <1>5, <1>6, <1>7, <1>8, <1>9, <1>10, <1>11
     DEF KNOWN_TYPES

\* The two SDKs have the same rules.
LEMMA SameRules ==
    ASSUME NEW p, NEW t \in KNOWN_TYPES
    PROVE  validatePayload(t, p) = Ok <=> payload_rules(t, p) = Ok
<1>1. CASE t = "run.started"
  BY <1>1 DEF payload_rules, validatePayload, check_closedness, oneOf, UnionRules, UnionRule,
              RunKind, RUN_KINDS
<1>2. CASE t = "run.finished"
  BY <1>2 DEF payload_rules, validatePayload, check_closedness, oneOf, UnionRules, UnionRule,
              RunOutcome, RUN_OUTCOMES
<1>3. CASE t \in {"agent.text", "agent.tool_use", "agent.tool_result", "agent.warning"}
  BY <1>3 DEF payload_rules, validatePayload
<1>4. CASE t = "control.requested"
  <2>1. check_closedness("control.requested", p) = oneOf(p, "kind", CONTROL_KINDS)
    BY DEF check_closedness, oneOf, UnionRules, UnionRule, ControlKind, CONTROL_KINDS
  <2>2. control_requested_rules(p) = rulesOfControlRequested(p)
    BY <2>1 DEF control_requested_rules, rulesOfControlRequested
  <2> QED  BY <1>4, <2>2 DEF payload_rules, validatePayload
<1>5. CASE t = "control.applied"
  <2> DEFINE a == IF Get(p, "ok") = Bool(FALSE) /\ ~Has(p, "reason")
                  THEN MissingField(<<"reason">>, <<"required when ok is false">>) ELSE Ok
             b == IF Has(p, "reason") THEN check_closedness("control.applied", p) ELSE Ok
             c == IF Has(p, "reason") /\ Get(p, "reason").is \notin ControlAppliedReason
                  THEN WithinBound(Get(p, "reason"), <<"reason">>, MAX_EXCERPT_SCALARS) ELSE Ok
  <2>1. control_applied_rules(p) = FirstError(<<a, b, c>>)
    BY DEF control_applied_rules
  <2>2. rulesOfControlApplied(p) = FirstError(<<a, c>>)
    BY DEF rulesOfControlApplied, ControlAppliedReason, CONTROL_APPLIED_REASONS
  <2>3. b = Ok
    BY DEF check_closedness, UnionRules, UnionRule
  <2> HIDE DEF a, b, c
  <2>4. FirstError(<<a, b, c>>) = Ok <=> a = Ok /\ b = Ok /\ c = Ok
    <3>1. DOMAIN <<a, b, c>> = 1..3 /\ 3 \in Nat
      OBVIOUS
    <3>2. FirstError(<<a, b, c>>) = Ok <=> \A i \in 1..3 : <<a, b, c>>[i] = Ok
      BY <3>1, FirstErrorOk
    <3> QED  BY <3>2
  <2>5. FirstError(<<a, c>>) = Ok <=> a = Ok /\ c = Ok
    <3>1. DOMAIN <<a, c>> = 1..2 /\ 2 \in Nat
      OBVIOUS
    <3>2. FirstError(<<a, c>>) = Ok <=> \A i \in 1..2 : <<a, c>>[i] = Ok
      BY <3>1, FirstErrorOk
    <3> QED  BY <3>2
  <2> QED  BY <1>5, <2>1, <2>2, <2>3, <2>4, <2>5 DEF payload_rules, validatePayload
<1>6. CASE t = "capture.refused"
  BY <1>6 DEF payload_rules, validatePayload, check_closedness, oneOf, UnionRules, UnionRule,
              CaptureRefusalCause, CAPTURE_REFUSAL_CAUSES
<1>7. CASE t = "decision.requested"
  <2>1. check_closedness("decision.requested", p) = oneOf(p, "kind", DECISION_KINDS)
    BY DEF check_closedness, oneOf, UnionRules, UnionRule, DecisionKind, DECISION_KINDS
  <2>2. decision_requested_rules(p) = rulesOfDecisionRequested(p)
    BY <2>1 DEF decision_requested_rules, rulesOfDecisionRequested
  <2> QED  BY <1>7, <2>2 DEF payload_rules, validatePayload
<1>8. CASE t \in {"agent.started", "agent.completed", "decision.answered"}
  BY <1>8 DEF payload_rules, validatePayload
<1> QED
  BY <1>1, <1>2, <1>3, <1>4, <1>5, <1>6, <1>7, <1>8 DEF KNOWN_TYPES
-----------------------------------------------------------------------------
(***************************************************************************)
(* What readers and serialisers do to leaves and to the order of keys.     *)
(***************************************************************************)
NumberTooLarge == {Num("overflow")}

\* The numbers validate refuses.
Unsafe == {Num("unsafe"), Num("inexact"), Num("unsafe_wide"), Num("unsafe_float")}

\* JSON.parse, where no number is an integer written with a fraction.
roundedNumber == [v \in {Num("inexact")} |-> Num("unsafe")]

\* No replacement makes anything but a leaf of a leaf, nor touches a text.
LEMMA Replacements ==
    /\ Tame(AsTheyAre) /\ Tame(canonicalise_number) /\ Tame(valueOfNumber)
    /\ Tame(notFinite) /\ Tame(roundedNumber)
<1> USE DEF LeafDoc, Str, Num, Bool, Null, NumberKinds, Replace
<1>1. Tame(AsTheyAre)
  BY DEF Tame, AsTheyAre
<1>2. Tame(canonicalise_number)
  BY DEF Tame, canonicalise_number
<1>3. Tame(valueOfNumber)
  BY DEF Tame, valueOfNumber
<1>4. Tame(notFinite)
  BY DEF Tame, notFinite
<1>5. Tame(roundedNumber)
  BY DEF Tame, roundedNumber
<1> QED
  BY <1>1, <1>2, <1>3, <1>4, <1>5

\* What they do to a field that fits.
LEMMA ReplacementsKeep ==
    /\ \A bad : Keeps(AsTheyAre, bad, bad) /\ Shows(AsTheyAre, bad, bad)
    /\ Keeps(AsTheyAre, NumberTooLarge, {})
    /\ Keeps(canonicalise_number, NumberTooLarge, NumberTooLarge)
    /\ Keeps(valueOfNumber, NumberTooLarge, NumberTooLarge)
    /\ Keeps(notFinite, NumberTooLarge, NumberTooLarge)
    /\ Shows(notFinite, NumberTooLarge, {})
    /\ Keeps(roundedNumber, NumberTooLarge, NumberTooLarge)
    /\ Shows(roundedNumber, NumberTooLarge, NumberTooLarge)
<1> USE DEF LeafDoc, Str, Num, Bool, Null, NumberKinds, Replace, ScalarShapes, FitsScalar,
            Keeps, Shows, NumberTooLarge
<1>1. \A bad : Keeps(AsTheyAre, bad, bad) /\ Shows(AsTheyAre, bad, bad)
  BY DEF AsTheyAre
<1>2. Keeps(AsTheyAre, NumberTooLarge, {})
  BY DEF AsTheyAre
<1>3. Keeps(canonicalise_number, NumberTooLarge, NumberTooLarge)
  BY DEF canonicalise_number
<1>4. Keeps(valueOfNumber, NumberTooLarge, NumberTooLarge)
  BY DEF valueOfNumber
<1>5. Keeps(notFinite, NumberTooLarge, NumberTooLarge)
  BY DEF notFinite
<1>6. Shows(notFinite, NumberTooLarge, {})
  BY DEF notFinite
<1>7. Keeps(roundedNumber, NumberTooLarge, NumberTooLarge)
  BY DEF roundedNumber
<1>8. Shows(roundedNumber, NumberTooLarge, NumberTooLarge)
  BY DEF roundedNumber
<1> QED
  BY <1>1, <1>2, <1>3, <1>4, <1>5, <1>6, <1>7, <1>8

\* The orders the SDKs put keys in.
LEMMA Orders ==
    /\ KeyOrder \in Seq(AllKeys) /\ ToSet(KeyOrder) = AllKeys
    /\ IntegerKeys \in Seq(AllKeys) /\ ToSet(IntegerKeys) = {"9", "10"}
    /\ <<>> \in Seq(AllKeys)
    /\ sortObjectKeysByUtf8Bytes \in Seq(AllKeys)
    /\ ToSet(sortObjectKeysByUtf8Bytes) = AllKeys
<1>1. KeyOrder \in Seq(AllKeys) /\ ToSet(KeyOrder) = AllKeys
  BY KeyOrderKeys
<1>2. IntegerKeys \in Seq(AllKeys) /\ ToSet(IntegerKeys) = {"9", "10"}
  BY DEF IntegerKeys, AllKeys, ToSet
<1>3. <<>> \in Seq(AllKeys)
  BY EmptySeq
<1> DEFINE rest == Kept(KeyOrder, ToSet(KeyOrder) \ ToSet(IntegerKeys))
<1>4. rest \in Seq(AllKeys) /\ ToSet(rest) = AllKeys \ {"9", "10"}
  <2>1. rest \in Seq(AllKeys)
        /\ ToSet(rest) = ToSet(KeyOrder) \cap (ToSet(KeyOrder) \ ToSet(IntegerKeys))
    BY <1>1, KeptSet
  <2> QED  BY <1>1, <1>2, <2>1
<1>5. sortObjectKeysByUtf8Bytes = IntegerKeys \o rest
  BY DEF sortObjectKeysByUtf8Bytes
<1> HIDE DEF rest
<1>6. IntegerKeys \o rest \in Seq(AllKeys)
  BY <1>2, <1>4, ConcatProperties
<1>7. ToSet(IntegerKeys \o rest) = ToSet(IntegerKeys) \cup ToSet(rest)
  BY <1>2, <1>4, ToSetOfConcat
<1>8. {"9", "10"} \subseteq AllKeys
  BY DEF AllKeys
<1> QED
  BY <1>1, <1>2, <1>3, <1>4, <1>5, <1>6, <1>7, <1>8

\* Without keys that look like array indices, the two SDKs sort alike.
LEMMA SortedAlike ==
    ASSUME "indices" \notin Odd
    PROVE  /\ SameOrder(KeyOrder, sortObjectKeysByUtf8Bytes)
           /\ SameOrder(sortObjectKeysByUtf8Bytes, KeyOrder)
<1> DEFINE others == ToSet(KeyOrder) \ ToSet(IntegerKeys)
           rest == Kept(KeyOrder, others)
<1>1. /\ DocKeys \subseteq PlainKeys \cup {"__proto__"}
      /\ {"9", "10"} \cap (PlainKeys \cup {"__proto__"}) = {}
  BY DEF DocKeys, OddKeys, PlainKeys
<1>2. DocKeys \subseteq others /\ DocKeys \subseteq AllKeys
  BY <1>1, Orders DEF AllKeys
<1> HIDE DEF others
<1>3. rest \in Seq(AllKeys)
  BY Orders, KeptSet
<1> HIDE DEF rest
<1>4. ASSUME NEW X \in SUBSET DocKeys
      PROVE  Kept(sortObjectKeysByUtf8Bytes, X) = Kept(KeyOrder, X)
  <2>1. Kept(IntegerKeys \o rest, X) = Kept(IntegerKeys, X) \o Kept(rest, X)
    BY <1>3, Orders, KeptOfConcat
  <2>2. Kept(IntegerKeys, X) = <<>>
    <3>1. ToSet(IntegerKeys) \cap X = {}
      BY <1>1, Orders
    <3> QED  BY <3>1, Orders, KeptNothing
  <2>3. Kept(rest, X) = Kept(KeyOrder, others \cap X)
    BY Orders, KeptTwice DEF rest
  <2>4. others \cap X = X
    BY <1>1, <1>2
  <2>5. Kept(KeyOrder, X) \in Seq(AllKeys)
    BY Orders, KeptSet
  <2>6. <<>> \o Kept(KeyOrder, X) = Kept(KeyOrder, X)
    BY <2>5, ConcatEmptySeq
  <2> QED  BY <2>1, <2>2, <2>3, <2>4, <2>6 DEF sortObjectKeysByUtf8Bytes, rest, others
<1> QED
  BY <1>2, <1>4, Orders DEF SameOrder
-----------------------------------------------------------------------------
(***************************************************************************)
(* What it is for a payload to be accepted, and to be read.                *)
(***************************************************************************)
TextsFit(leaves) ==
    \A leaf \in leaves : leaf.tag = "string" => ~(Scalars(leaf.is) > MAX_TEXT_SCALARS)

WithinSize(v) ==
    TextsFit(LeafValues(v)) /\ ~(PayloadBytes(v) > MAX_PAYLOAD_BYTES)

Accepts(t, v, bad) ==
    /\ WithinSize(v)
    /\ t \in KNOWN_TYPES =>
          /\ LeafValues(v) \cap Unsafe = {}
          /\ FitsPayload(t, v, bad)
          /\ payload_rules(t, v) = Ok

\* Two checks in a row.
LEMMA FirstErrorOfPair ==
    ASSUME NEW a, NEW b
    PROVE  FirstError(<<a, b>>) = Ok <=> a = Ok /\ b = Ok
<1>1. DOMAIN <<a, b>> = 1..2 /\ 2 \in Nat
  OBVIOUS
<1>2. FirstError(<<a, b>>) = Ok <=> \A i \in 1..2 : <<a, b>>[i] = Ok
  BY <1>1, FirstErrorOk
<1> QED
  BY <1>2

\* The leaves of a document, before and after rewriting.
LEMMA LeafValuesRewritten ==
    ASSUME NEW v \in Doc5, NEW keys \in Seq(AllKeys), NEW r, Tame(r)
    PROVE  /\ LeafValues(Rewrite(v, keys, r)) = {Replace(leaf, r) : leaf \in LeafValues(v)}
           /\ LeafValues(v) \subseteq LeafDoc
<1>1. \A w : LeafValues(w) = Values(Leaves(w))
  BY DEF LeafValues, Values
<1> QED
  BY <1>1, LeavesRewritten5, LeavesTyped5

\* Rewriting changes no size.
LEMMA SizeRewritten ==
    ASSUME NEW v \in Doc5, NEW keys \in Seq(AllKeys), NEW r, Tame(r)
    PROVE  WithinSize(Rewrite(v, keys, r)) <=> WithinSize(v)
<1>1. PayloadBytes(Rewrite(v, keys, r)) = PayloadBytes(v)
  BY BytesRewritten5
<1>2. TextsFit(LeafValues(Rewrite(v, keys, r))) <=> TextsFit(LeafValues(v))
  <2>1. LeafValues(Rewrite(v, keys, r)) = {Replace(leaf, r) : leaf \in LeafValues(v)}
        /\ LeafValues(v) \subseteq LeafDoc
    BY LeafValuesRewritten
  <2>2. \A leaf \in LeafValues(v) :
           /\ leaf.tag = "string" => Replace(leaf, r) = leaf
           /\ Replace(leaf, r).tag = "string" => leaf.tag = "string"
    BY <2>1 DEF Tame
  <2>3. ASSUME TextsFit(LeafValues(v))
        PROVE  TextsFit({Replace(leaf, r) : leaf \in LeafValues(v)})
    BY <2>2, <2>3 DEF TextsFit
  <2>4. ASSUME TextsFit({Replace(leaf, r) : leaf \in LeafValues(v)})
        PROVE  TextsFit(LeafValues(v))
    BY <2>2, <2>4 DEF TextsFit
  <2> QED  BY <2>1, <2>3, <2>4
<1> QED
  BY <1>1, <1>2 DEF WithinSize

\* The universal checks of both SDKs.
LEMMA UniversalChecks ==
    ASSUME NEW v \in Doc5
    PROVE  /\ FirstError(<<validate_payload_text_scalars(v), validate_payload_size(v)>>) = Ok
                 <=> WithinSize(v)
           /\ FirstError(<<validatePayloadTextScalars(v), validatePayloadSize(v)>>) = Ok
                 <=> WithinSize(v)
<1> DEFINE refused == {leaf \in Leaves(v) :
                          /\ leaf.value.tag = "string"
                          /\ Scalars(leaf.value.is) > MAX_TEXT_SCALARS}
<1>1. refused = {} <=> TextsFit(LeafValues(v))
  BY DEF TextsFit, LeafValues
<1>2. validate_payload_text_scalars(v) = Ok <=> refused = {}
  BY RefusalsAreNotOk DEF validate_payload_text_scalars
<1>3. validatePayloadTextScalars(v) = Ok <=> refused = {}
  BY RefusalsAreNotOk DEF validatePayloadTextScalars
<1>4. PayloadBytes(canonicalise_numbers(v)) = PayloadBytes(v)
  BY BytesRewritten5, Orders, Replacements DEF canonicalise_numbers
<1>5. PayloadBytes(serialisePayloadCanonical(v)) = PayloadBytes(v)
  BY BytesRewritten5, Orders, Replacements DEF serialisePayloadCanonical
<1>6. validate_payload_size(v) = Ok <=> ~(PayloadBytes(v) > MAX_PAYLOAD_BYTES)
  BY <1>4, RefusalsAreNotOk DEF validate_payload_size
<1>7. validatePayloadSize(v) = Ok <=> ~(PayloadBytes(v) > MAX_PAYLOAD_BYTES)
  BY <1>5, RefusalsAreNotOk DEF validatePayloadSize
<1> QED
  BY <1>1, <1>2, <1>3, <1>6, <1>7, FirstErrorOfPair DEF WithinSize

\* The numbers both SDKs refuse.
LEMMA NumberChecks ==
    ASSUME NEW v
    PROVE  /\ validate_payload_numbers(v) = Ok <=> LeafValues(v) \cap Unsafe = {}
           /\ validatePayloadNumbers(v) = Ok
                 <=> LeafValues(v) \cap (Unsafe \ {Num("inexact")}) = {}
<1>1. validate_payload_numbers(v) = Ok <=> {leaf \in Leaves(v) : leaf.value \in Unsafe} = {}
  BY RefusalsAreNotOk
  DEF validate_payload_numbers, number_exceeds_safe_integer_magnitude, Unsafe
<1>2. \A n : exceedsSafeMagnitude(n) <=> n \in Unsafe \ {Num("inexact")}
  BY DEF exceedsSafeMagnitude, Unsafe, Num
<1>3. validatePayloadNumbers(v) = Ok
         <=> {leaf \in Leaves(v) : leaf.value \in Unsafe \ {Num("inexact")}} = {}
  BY <1>2, RefusalsAreNotOk DEF validatePayloadNumbers
<1>4. \A S : {leaf \in Leaves(v) : leaf.value \in S} = {} <=> LeafValues(v) \cap S = {}
  BY DEF LeafValues
<1> QED
  BY <1>1, <1>2, <1>3, <1>4

\* validate of the Rust SDK.
LEMMA RustAccepts ==
    ASSUME NEW v \in Doc5, NEW t
    PROVE  validate_event(t, v, FALSE) = Ok <=> Accepts(t, v, {})
<1>1. check_representability(t, v, FALSE) = Ok
  BY DEF check_representability
<1> DEFINE universal == FirstError(<<validate_payload_text_scalars(v),
                                     validate_payload_size(v)>>)
           decoded == FirstError(<<validate_payload_numbers(v), decode_payload(t, v)>>)
<1>2. validate_event(t, v, FALSE) =
         IF universal # Ok THEN universal
         ELSE IF t \notin KNOWN_TYPES THEN Ok
         ELSE IF decoded # Ok THEN decoded
         ELSE payload_rules(t, v)
  BY <1>1 DEF validate_event
<1>3. universal = Ok <=> WithinSize(v)
  BY UniversalChecks
<1>4. decoded = Ok <=> validate_payload_numbers(v) = Ok /\ decode_payload(t, v) = Ok
  BY FirstErrorOfPair
<1>5. t \in KNOWN_TYPES => (decode_payload(t, v) = Ok <=> FitsPayload(t, v, {}))
  BY PayloadReads
<1>6. validate_payload_numbers(v) = Ok <=> LeafValues(v) \cap Unsafe = {}
  BY NumberChecks
<1> HIDE DEF universal, decoded
<1> QED
  BY <1>2, <1>3, <1>4, <1>5, <1>6 DEF Accepts

\* validate of the TypeScript SDK, of what JSON.parse returns.
LEMMA TsAccepts ==
    ASSUME NEW v \in Doc5, NEW t, Num("inexact") \notin LeafValues(v)
    PROVE  validateEvent(t, v) = Ok <=> Accepts(t, v, NumberTooLarge)
<1> DEFINE universal == FirstError(<<validatePayloadTextScalars(v), validatePayloadSize(v)>>)
           checked == FirstError(<<validatePayloadNumbers(v), parseKnownPayload(t, v)>>)
<1>1. t \in TS_KNOWN_TYPES <=> t \in KNOWN_TYPES
  BY SameStructs
<1>2. validateEvent(t, v) =
         IF universal # Ok THEN universal
         ELSE IF t \notin TS_KNOWN_TYPES THEN Ok
         ELSE IF checked # Ok THEN checked
         ELSE validatePayload(t, parsed(t, v))
  BY DEF validateEvent
<1>3. universal = Ok <=> WithinSize(v)
  BY UniversalChecks
<1>4. checked = Ok <=> validatePayloadNumbers(v) = Ok /\ parseKnownPayload(t, v) = Ok
  BY FirstErrorOfPair
<1>5. t \in KNOWN_TYPES => (parseKnownPayload(t, v) = Ok <=> FitsPayload(t, v, NumberTooLarge))
  BY PayloadReads DEF NumberTooLarge
<1>6. validatePayloadNumbers(v) = Ok <=> LeafValues(v) \cap Unsafe = {}
  BY NumberChecks
<1>7. ASSUME t \in KNOWN_TYPES, FitsPayload(t, v, NumberTooLarge)
      PROVE  validatePayload(t, parsed(t, v)) = Ok <=> payload_rules(t, v) = Ok
  <2>1. parsed(t, v) \in Doc5 /\ Near5(v, parsed(t, v), AsTheyAre)
    BY <1>7, ParsedPayload
  <2>2. payload_rules(t, parsed(t, v)) = payload_rules(t, v)
    BY <1>7, <2>1, RulesAreSame, Replacements
  <2> QED  BY <1>7, <2>2, SameRules
<1> HIDE DEF universal, checked
<1> QED
  BY <1>1, <1>2, <1>3, <1>4, <1>5, <1>6, <1>7 DEF Accepts

\* A replacement makes no number unsafe, or hides no unsafe one.
MakesSafe(r) == \A leaf \in LeafDoc : Replace(leaf, r) \in Unsafe => leaf \in Unsafe
HidesNone(r) == \A leaf \in LeafDoc : leaf \in Unsafe => Replace(leaf, r) \in Unsafe

\* No replacement makes a number unsafe or hides one that is.
LEMMA ReplacementsSafe ==
    /\ MakesSafe(AsTheyAre) /\ HidesNone(AsTheyAre)
    /\ MakesSafe(canonicalise_number) /\ HidesNone(canonicalise_number)
    /\ MakesSafe(valueOfNumber) /\ HidesNone(valueOfNumber)
    /\ MakesSafe(notFinite) /\ HidesNone(notFinite)
    /\ MakesSafe(roundedNumber) /\ HidesNone(roundedNumber)
<1> USE DEF LeafDoc, Str, Num, Bool, Null, NumberKinds, Replace, MakesSafe, HidesNone, Unsafe
<1>1. MakesSafe(AsTheyAre) /\ HidesNone(AsTheyAre)
  BY DEF AsTheyAre
<1>2. MakesSafe(canonicalise_number) /\ HidesNone(canonicalise_number)
  BY DEF canonicalise_number
<1>3. MakesSafe(valueOfNumber) /\ HidesNone(valueOfNumber)
  BY DEF valueOfNumber
<1>4. MakesSafe(notFinite) /\ HidesNone(notFinite)
  BY DEF notFinite
<1>5. MakesSafe(roundedNumber) /\ HidesNone(roundedNumber)
  BY DEF roundedNumber
<1> QED
  BY <1>1, <1>2, <1>3, <1>4, <1>5

\* A walk neither makes a number unsafe nor hides one that is.
LEMMA SafeRewritten ==
    ASSUME NEW v \in Doc5, NEW keys \in Seq(AllKeys), NEW r, Tame(r)
    PROVE  /\ MakesSafe(r) => (LeafValues(v) \cap Unsafe = {} =>
                                  LeafValues(Rewrite(v, keys, r)) \cap Unsafe = {})
           /\ HidesNone(r) => (LeafValues(Rewrite(v, keys, r)) \cap Unsafe = {} =>
                                  LeafValues(v) \cap Unsafe = {})
<1>1. LeafValues(Rewrite(v, keys, r)) = {Replace(leaf, r) : leaf \in LeafValues(v)}
      /\ LeafValues(v) \subseteq LeafDoc
  BY LeafValuesRewritten
<1>2. MakesSafe(r) => (LeafValues(v) \cap Unsafe = {} =>
                          {Replace(leaf, r) : leaf \in LeafValues(v)} \cap Unsafe = {})
  BY <1>1 DEF MakesSafe
<1>3. HidesNone(r) => ({Replace(leaf, r) : leaf \in LeafValues(v)} \cap Unsafe = {} =>
                          LeafValues(v) \cap Unsafe = {})
  BY <1>1 DEF HidesNone
<1> QED
  BY <1>1, <1>2, <1>3

\* What is accepted is accepted rewritten.
LEMMA AcceptedRewritten ==
    ASSUME NEW v \in Doc5, NEW keys \in Seq(AllKeys), NEW r, Tame(r), MakesSafe(r), NEW t,
           NEW bad1, NEW bad2, Keeps(r, bad1, bad2), Accepts(t, v, bad1)
    PROVE  Accepts(t, Rewrite(v, keys, r), bad2)
<1>1. PICK w : w = Rewrite(v, keys, r)
  OBVIOUS
<1>2. w \in Doc5 /\ Like5(v, w, r)
  BY <1>1, Typed5, LikeRewritten5
<1>3. WithinSize(w)
  BY <1>1, SizeRewritten DEF Accepts
<1>4. ASSUME t \in KNOWN_TYPES
      PROVE  /\ LeafValues(w) \cap Unsafe = {}
             /\ FitsPayload(t, w, bad2)
             /\ payload_rules(t, w) = Ok
  <2>1. LeafValues(v) \cap Unsafe = {} /\ FitsPayload(t, v, bad1) /\ payload_rules(t, v) = Ok
    BY <1>4 DEF Accepts
  <2>2. LeafValues(w) \cap Unsafe = {}
    BY <1>1, <2>1, SafeRewritten
  <2>3. FitsPayload(t, w, bad2)
    BY <1>2, <1>4, <2>1, Like5IsNear5, PayloadKeeps
  <2>4. payload_rules(t, w) = payload_rules(t, v)
    BY <1>2, <1>4, <2>1, Like5IsNear5, RulesAreSame
  <2> QED  BY <2>1, <2>2, <2>3, <2>4
<1> QED
  BY <1>1, <1>3, <1>4 DEF Accepts

\* And what is accepted rewritten was accepted before.
LEMMA AcceptedBefore ==
    ASSUME NEW v \in Doc5, NEW keys \in Seq(AllKeys), NEW r, Tame(r), HidesNone(r), NEW t,
           NEW bad1, NEW bad2, Shows(r, bad1, bad2), Accepts(t, Rewrite(v, keys, r), bad2)
    PROVE  Accepts(t, v, bad1)
<1>1. PICK w : w = Rewrite(v, keys, r)
  OBVIOUS
<1>2. w \in Doc5 /\ Like5(v, w, r) /\ Accepts(t, w, bad2)
  BY <1>1, Typed5, LikeRewritten5
<1>3. WithinSize(v)
  BY <1>1, SizeRewritten DEF Accepts
<1>4. ASSUME t \in KNOWN_TYPES
      PROVE  /\ LeafValues(v) \cap Unsafe = {}
             /\ FitsPayload(t, v, bad1)
             /\ payload_rules(t, v) = Ok
  <2>1. LeafValues(w) \cap Unsafe = {} /\ FitsPayload(t, w, bad2) /\ payload_rules(t, w) = Ok
    BY <1>2, <1>4 DEF Accepts
  <2>2. LeafValues(v) \cap Unsafe = {}
    BY <1>1, <2>1, SafeRewritten
  <2>3. FitsPayload(t, v, bad1)
    BY <1>2, <1>4, <2>1, PayloadShows
  <2>4. payload_rules(t, w) = payload_rules(t, v)
    BY <1>2, <1>4, <2>3, Like5IsNear5, RulesAreSame
  <2> QED  BY <2>1, <2>2, <2>3, <2>4
<1> QED
  BY <1>3, <1>4 DEF Accepts

\* parse_event and parseEvent, of a payload.
Reads(t, v) ==
    /\ LeafValues(v) \cap Unsafe = {}
    /\ t \in KNOWN_TYPES => FitsPayload(t, v, NumberTooLarge)

\* A document without a number that is too large, as a reader that drops them
\* would leave it.
LEMMA ReadAsFinite ==
    ASSUME NEW v \in Doc5, NEW keys, can_be_read(v)
    PROVE  Rewrite(v, keys, AsTheyAre) = Rewrite(v, keys, notFinite)
<1>1. LeafValues(v) = Values(Leaves(v))
  BY DEF LeafValues, Values
<1>2. SameOn(Values(Leaves(v)), AsTheyAre, notFinite)
  BY <1>1 DEF SameOn, Replace, AsTheyAre, notFinite, can_be_read
<1> QED
  BY <1>2, Alike5

\* parse_payload (Rust): the number check and the decoder.
LEMMA RustReads ==
    ASSUME NEW v \in Doc5, NEW t
    PROVE  parses_payload(t, v) <=> can_be_read(v) /\ Reads(t, v)
<1> SUFFICES ASSUME can_be_read(v)
             PROVE  parses_payload(t, v) <=> Reads(t, v)
  BY DEF parses_payload
<1>1. PICK w : w = Rewrite(v, KeyOrder, AsTheyAre)
  OBVIOUS
<1>2. w = Rewrite(v, KeyOrder, notFinite)
  BY <1>1, ReadAsFinite
<1>3. w \in Doc5 /\ Like5(v, w, AsTheyAre) /\ Like5(v, w, notFinite)
  BY <1>1, <1>2, Typed5, LikeRewritten5, Orders, Replacements
<1>4. LeafValues(w) \cap Unsafe = {} <=> LeafValues(v) \cap Unsafe = {}
  BY <1>1, SafeRewritten, ReplacementsSafe, Orders, Replacements
<1>5. validate_payload_numbers(w) = Ok <=> LeafValues(v) \cap Unsafe = {}
  BY <1>4, NumberChecks
<1>6. ASSUME t \in KNOWN_TYPES
      PROVE  decode_payload(t, w) = Ok <=> FitsPayload(t, v, NumberTooLarge)
  <2>1. decode_payload(t, w) = Ok <=> FitsPayload(t, w, {})
    BY <1>3, <1>6, PayloadReads
  <2>2. FitsPayload(t, w, {}) => FitsPayload(t, v, NumberTooLarge)
    BY <1>3, <1>6, ReplacementsKeep, PayloadShows
  <2>3. FitsPayload(t, v, NumberTooLarge) => FitsPayload(t, w, {})
    BY <1>3, <1>6, ReplacementsKeep, Like5IsNear5, PayloadKeeps
  <2> QED  BY <2>1, <2>2, <2>3
<1> QED
  BY <1>1, <1>5, <1>6 DEF parses_payload, from_str, Reads

\* JSON.parse leaves no number it cannot hold, nor one written as no integer
\* when it is one.
LEMMA NoneInexact ==
    ASSUME NEW v \in Doc5
    PROVE  /\ jsonParse(v) \in Doc5
           /\ Num("inexact") \notin LeafValues(jsonParse(v))
           /\ Num("integral_float") \notin LeafValues(jsonParse(v))
<1>1. jsonParse(v) \in Doc5
  BY Typed5, Orders, Replacements DEF jsonParse
<1>2. LeafValues(jsonParse(v)) = {Replace(leaf, valueOfNumber) : leaf \in LeafValues(v)}
      /\ LeafValues(v) \subseteq LeafDoc
  BY LeafValuesRewritten, Orders, Replacements DEF jsonParse
<1>3. \A leaf \in LeafDoc :
         Replace(leaf, valueOfNumber) \notin {Num("inexact"), Num("integral_float")}
  BY DEF LeafDoc, Str, Num, Bool, Null, NumberKinds, Replace, valueOfNumber
<1> QED
  BY <1>1, <1>2, <1>3

\* parsePayload (TypeScript), of what JSON.parse made of the text.
LEMMA TsReads ==
    ASSUME NEW v \in Doc5, NEW t
    PROVE  parsesPayload(t, v) <=> Reads(t, jsonParse(v))
<1>1. jsonParse(v) \in Doc5 /\ Num("inexact") \notin LeafValues(jsonParse(v))
  BY NoneInexact
<1>2. validatePayloadNumbers(jsonParse(v)) = Ok <=> LeafValues(jsonParse(v)) \cap Unsafe = {}
  BY <1>1, NumberChecks
<1>3. t \in TS_KNOWN_TYPES <=> t \in KNOWN_TYPES
  BY SameStructs
<1>4. t \in KNOWN_TYPES => (parseKnownPayload(t, jsonParse(v)) = Ok
                              <=> FitsPayload(t, jsonParse(v), NumberTooLarge))
  BY <1>1, PayloadReads DEF NumberTooLarge
<1> QED
  BY <1>2, <1>3, <1>4 DEF parsesPayload, Reads

\* What can be read can be read rewritten.
LEMMA ReadRewritten ==
    ASSUME NEW v \in Doc5, NEW keys \in Seq(AllKeys), NEW r, Tame(r), MakesSafe(r), NEW t,
           Keeps(r, NumberTooLarge, NumberTooLarge), Reads(t, v)
    PROVE  Reads(t, Rewrite(v, keys, r))
<1>1. PICK w : w = Rewrite(v, keys, r)
  OBVIOUS
<1>2. w \in Doc5 /\ Like5(v, w, r)
  BY <1>1, Typed5, LikeRewritten5
<1>3. LeafValues(w) \cap Unsafe = {}
  BY <1>1, SafeRewritten DEF Reads
<1>4. t \in KNOWN_TYPES => FitsPayload(t, w, NumberTooLarge)
  BY <1>2, Like5IsNear5, PayloadKeeps DEF Reads
<1> QED
  BY <1>1, <1>3, <1>4 DEF Reads
-----------------------------------------------------------------------------
(***************************************************************************)
(* The properties, of any document as the payload.                         *)
(***************************************************************************)

\* What the Rust SDK emits of a text it read, it would emit of any order of the
\* keys; and its verdict is the same.
LEMMA OrderChangesNothing ==
    ASSUME NEW v \in Doc5, NEW t
    PROVE  /\ canonicalise_numbers(from_str(v)) = Rewrite(v, KeyOrder, canonicalise_number)
           /\ canonicalise_numbers(from_str_preserving_order(v)) =
                 Rewrite(v, KeyOrder, canonicalise_number)
           /\ validate_event(t, from_str(v), FALSE) = Ok <=> Accepts(t, v, {})
           /\ validate_event(t, from_str_preserving_order(v), FALSE) = Ok
                 <=> Accepts(t, v, {})
<1>1. SameOrder(KeyOrder, KeyOrder)
  BY Orders, OrderIsItself, KeyOrderKeys
<1>2. Composed(AsTheyAre, canonicalise_number, canonicalise_number)
  BY DEF Composed, Replace, AsTheyAre
<1>3. ASSUME NEW keys \in Seq(AllKeys)
      PROVE  /\ Rewrite(Rewrite(v, keys, AsTheyAre), KeyOrder, canonicalise_number) =
                   Rewrite(v, KeyOrder, canonicalise_number)
             /\ validate_event(t, Rewrite(v, keys, AsTheyAre), FALSE) = Ok
                   <=> Accepts(t, v, {})
  <2>1. Rewrite(Rewrite(v, keys, AsTheyAre), KeyOrder, canonicalise_number) =
           Rewrite(v, KeyOrder, canonicalise_number)
    BY <1>1, <1>2, Twice5, Replacements
  <2>2. Rewrite(v, keys, AsTheyAre) \in Doc5
    BY Typed5, Replacements
  <2>3. validate_event(t, Rewrite(v, keys, AsTheyAre), FALSE) = Ok
           <=> Accepts(t, Rewrite(v, keys, AsTheyAre), {})
    BY <2>2, RustAccepts
  <2>4. Accepts(t, v, {}) => Accepts(t, Rewrite(v, keys, AsTheyAre), {})
    BY AcceptedRewritten, Replacements, ReplacementsKeep, ReplacementsSafe
  <2>5. Accepts(t, Rewrite(v, keys, AsTheyAre), {}) => Accepts(t, v, {})
    BY AcceptedBefore, Replacements, ReplacementsKeep, ReplacementsSafe
  <2> QED  BY <2>1, <2>3, <2>4, <2>5
<1> QED
  BY <1>3, Orders DEF canonicalise_numbers, from_str, from_str_preserving_order

\* The verdict of the Rust SDK on a text it can read.
LEMMA RustVerdictIs ==
    ASSUME NEW v \in Doc5, NEW t, can_be_read(v)
    PROVE  validate_event(t, from_str(v), FALSE) = Ok <=> Accepts(t, v, NumberTooLarge)
<1>1. PICK w : w = Rewrite(v, KeyOrder, AsTheyAre)
  OBVIOUS
<1>2. w = Rewrite(v, KeyOrder, notFinite)
  BY <1>1, ReadAsFinite
<1>3. w \in Doc5
  BY <1>1, Typed5, Orders, Replacements
<1>4. validate_event(t, w, FALSE) = Ok <=> Accepts(t, w, {})
  BY <1>3, RustAccepts
<1>5. Accepts(t, w, {}) => Accepts(t, v, NumberTooLarge)
  BY <1>2, AcceptedBefore, Orders, Replacements, ReplacementsKeep, ReplacementsSafe
<1>6. Accepts(t, v, NumberTooLarge) => Accepts(t, w, {})
  BY <1>1, AcceptedRewritten, Orders, Replacements, ReplacementsKeep, ReplacementsSafe
<1> QED
  BY <1>1, <1>4, <1>5, <1>6 DEF from_str

\* The verdict of the TypeScript SDK.
LEMMA TsVerdictIs ==
    ASSUME NEW v \in Doc5, NEW t
    PROVE  /\ validateEvent(t, jsonParse(v)) = Ok <=> Accepts(t, jsonParse(v), NumberTooLarge)
           /\ Num("integral_float") \notin LeafValues(v) =>
                 (validateEvent(t, jsonParse(v)) = Ok <=> Accepts(t, v, NumberTooLarge))
<1>1. validateEvent(t, jsonParse(v)) = Ok <=> Accepts(t, jsonParse(v), NumberTooLarge)
  BY NoneInexact, TsAccepts
<1>2. ASSUME Num("integral_float") \notin LeafValues(v)
      PROVE  Accepts(t, jsonParse(v), NumberTooLarge) <=> Accepts(t, v, NumberTooLarge)
  <2>1. SameOn(Values(Leaves(v)), valueOfNumber, roundedNumber)
    <3>1. Values(Leaves(v)) \subseteq LeafDoc /\ Num("integral_float") \notin Values(Leaves(v))
      BY <1>2, LeavesTyped5 DEF LeafValues, Values
    <3> QED  BY <3>1 DEF SameOn, Replace, valueOfNumber, roundedNumber, Num
  <2>2. jsonParse(v) = Rewrite(v, IntegerKeys, roundedNumber)
    BY <2>1, Alike5 DEF jsonParse
  <2>3. Accepts(t, v, NumberTooLarge) =>
           Accepts(t, Rewrite(v, IntegerKeys, roundedNumber), NumberTooLarge)
    BY AcceptedRewritten, Orders, Replacements, ReplacementsKeep, ReplacementsSafe
  <2>4. Accepts(t, Rewrite(v, IntegerKeys, roundedNumber), NumberTooLarge) =>
           Accepts(t, v, NumberTooLarge)
    BY AcceptedBefore, Orders, Replacements, ReplacementsKeep, ReplacementsSafe
  <2> QED  BY <2>2, <2>3, <2>4
<1> QED
  BY <1>1, <1>2

\* What is accepted of a known type can be read.
LEMMA AcceptedReads ==
    ASSUME NEW v, NEW t \in KNOWN_TYPES, Accepts(t, v, NumberTooLarge)
    PROVE  Reads(t, v)
  BY DEF Accepts, Reads

\* What JSON.stringify writes can be read, if it is Unicode.
LEMMA WrittenFinite ==
    ASSUME NEW v \in Doc5, NEW keys \in Seq(AllKeys), IsUnicode(Rewrite(v, keys, notFinite))
    PROVE  can_be_read(Rewrite(v, keys, notFinite))
<1>1. LeafValues(Rewrite(v, keys, notFinite)) = {Replace(leaf, notFinite) : leaf \in LeafValues(v)}
  BY LeafValuesRewritten, Replacements
<1>2. \A leaf : Replace(leaf, notFinite) # Num("overflow")
  BY DEF Replace, notFinite, Num, Null
<1> QED
  BY <1>1, <1>2 DEF can_be_read, IsUnicode

\* What the Rust SDK accepts and emits.
LEMMA RustForwards ==
    ASSUME NEW v \in Doc5, NEW t \in KNOWN_TYPES, can_be_read(v),
           validate_event(t, from_str(v), FALSE) = Ok
    PROVE  /\ parses_payload(t, v)
           /\ parsesPayload(t, canonicalise_numbers(from_str(v)))
           /\ validateEvent(t, jsonParse(canonicalise_numbers(from_str(v)))) = Ok
<1>1. Accepts(t, v, NumberTooLarge)
  BY RustVerdictIs
<1>2. parses_payload(t, v)
  BY <1>1, AcceptedReads, RustReads
<1>3. PICK w : w = Rewrite(v, KeyOrder, canonicalise_number)
  OBVIOUS
<1>4. w = canonicalise_numbers(from_str(v))
  BY <1>3, OrderChangesNothing
<1>5. w \in Doc5 /\ Accepts(t, w, NumberTooLarge)
  BY <1>1, <1>3, Typed5, AcceptedRewritten, Orders, Replacements, ReplacementsKeep,
     ReplacementsSafe
<1>6. Accepts(t, jsonParse(w), NumberTooLarge)
  BY <1>5, AcceptedRewritten, Orders, Replacements, ReplacementsKeep, ReplacementsSafe
     DEF jsonParse
<1>7. validateEvent(t, jsonParse(w)) = Ok
  BY <1>5, <1>6, TsVerdictIs
<1>8. parsesPayload(t, w)
  BY <1>5, <1>6, AcceptedReads, TsReads
<1> QED
  BY <1>2, <1>4, <1>7, <1>8

\* What the TypeScript SDK accepts and emits.
LEMMA TsForwards ==
    ASSUME NEW v \in Doc5, NEW t \in KNOWN_TYPES, validateEvent(t, jsonParse(v)) = Ok
    PROVE  LET emitted == serialisePayloadCanonical(jsonParse(v))
           IN  /\ parsesPayload(t, v)
               /\ IsUnicode(emitted) =>
                     /\ parses_payload(t, emitted)
                     /\ validate_event(t, from_str(emitted), FALSE) = Ok
<1>1. PICK w : w = jsonParse(v)
  OBVIOUS
<1>2. w \in Doc5 /\ Accepts(t, w, NumberTooLarge)
  BY <1>1, NoneInexact, TsVerdictIs
<1>3. parsesPayload(t, v)
  BY <1>1, <1>2, AcceptedReads, TsReads
<1>4. PICK e : e = Rewrite(w, sortObjectKeysByUtf8Bytes, notFinite)
  OBVIOUS
<1>5. e = serialisePayloadCanonical(jsonParse(v))
  BY <1>1, <1>4 DEF serialisePayloadCanonical
<1>6. e \in Doc5 /\ Accepts(t, e, NumberTooLarge)
  BY <1>2, <1>4, Typed5, AcceptedRewritten, Orders, Replacements, ReplacementsKeep,
     ReplacementsSafe
<1>7. ASSUME IsUnicode(e)
      PROVE  parses_payload(t, e) /\ validate_event(t, from_str(e), FALSE) = Ok
  <2>1. can_be_read(e)
    BY <1>2, <1>4, <1>7, WrittenFinite, Orders
  <2> QED  BY <1>6, <2>1, AcceptedReads, RustReads, RustVerdictIs
<1> QED
  BY <1>3, <1>5, <1>7

\* JSON.parse and then JSON.stringify, as one replacement.
emittedNumber ==
    [v \in {Num("integral_float"), Num("inexact"), Num("overflow")} |->
        IF v = Num("inexact") THEN Num("unsafe")
        ELSE IF v = Num("overflow") THEN Null ELSE Num("count")]

\* JSON.stringify, and then what the Rust SDK emits.
writtenNumber ==
    [v \in {Num("integral_float"), Num("overflow")} |->
        IF v = Num("overflow") THEN Null ELSE Num("count")]

\* They are what reading and then writing comes to, in either SDK.
LEMMA EmittedNumber ==
    /\ Tame(emittedNumber)
    /\ Composed(valueOfNumber, notFinite, emittedNumber)
    /\ Composed(canonicalise_number, emittedNumber, emittedNumber)
    /\ Composed(notFinite, canonicalise_number, writtenNumber)
    /\ Composed(AsTheyAre, canonicalise_number, canonicalise_number)
<1> USE DEF LeafDoc, Str, Num, Bool, Null, NumberKinds, Replace, emittedNumber
<1>1. Tame(emittedNumber)
  BY DEF Tame
<1>2. Composed(valueOfNumber, notFinite, emittedNumber)
  BY DEF Composed, valueOfNumber, notFinite
<1>3. Composed(canonicalise_number, emittedNumber, emittedNumber)
  BY DEF Composed, canonicalise_number
<1>4. Composed(notFinite, canonicalise_number, writtenNumber)
  BY DEF Composed, canonicalise_number, notFinite, writtenNumber
<1>5. Composed(AsTheyAre, canonicalise_number, canonicalise_number)
  BY DEF Composed, AsTheyAre
<1> QED
  BY <1>1, <1>2, <1>3, <1>4, <1>5

\* The payload parseEvent returns, and what is emitted of it.
LEMMA ParsedIsEmitted ==
    ASSUME "indices" \notin Odd, NEW v \in Doc5, NEW t, parsesPayload(t, v)
    PROVE  /\ Reads(t, jsonParse(v))
           /\ parsedPayload(t, v) \in Doc5
           /\ Near5(jsonParse(v), parsedPayload(t, v), AsTheyAre)
           /\ CanRebuild(t, v) =>
                 serialisePayloadCanonical(parsedPayload(t, v)) =
                    Rewrite(v, KeyOrder, emittedNumber)
<1>1. PICK w : w = jsonParse(v)
  OBVIOUS
<1>2. /\ w \in Doc5 /\ w = Rewrite(v, IntegerKeys, valueOfNumber) /\ Reads(t, w)
      /\ Like5(v, w, valueOfNumber)
  BY <1>1, NoneInexact, TsReads, LikeRewritten5, Replacements DEF jsonParse
<1>3. PICK q : q = parsedPayload(t, v)
  OBVIOUS
<1>4. /\ q \in Doc5 /\ Near5(w, q, AsTheyAre)
      /\ CanRebuild(t, v) => Like5(w, q, AsTheyAre)
  <2>1. CASE t \in KNOWN_TYPES
    <3>1. q = parsed(t, w) /\ FitsPayload(t, w, NumberTooLarge)
      BY <1>1, <1>2, <1>3, <2>1, SameStructs DEF parsedPayload, Reads
    <3>2. CanRebuild(t, v) => CanRebuild(t, w)
      BY <1>2, <2>1, <3>1, RebuiltAlike
    <3> QED  BY <1>2, <2>1, <3>1, <3>2, ParsedPayload
  <2>2. CASE t \notin KNOWN_TYPES
    <3>1. q = w
      BY <1>1, <1>3, <2>2, SameStructs DEF parsedPayload
    <3> QED  BY <1>2, <3>1, LikeItself5, Like5IsNear5
  <2> QED  BY <2>1, <2>2
<1>5. ASSUME CanRebuild(t, v)
      PROVE  Rewrite(q, sortObjectKeysByUtf8Bytes, notFinite) = Rewrite(v, KeyOrder, emittedNumber)
  <2>1. DocKeys \subseteq ToSet(sortObjectKeysByUtf8Bytes)
    BY Orders, KeyOrderKeys
  <2>2. Rewrite(q, sortObjectKeysByUtf8Bytes, notFinite) =
           Rewrite(w, sortObjectKeysByUtf8Bytes, notFinite)
    BY <1>2, <1>4, <1>5, <2>1, RewriteLike5, Orders
  <2>3. Rewrite(w, sortObjectKeysByUtf8Bytes, notFinite) = Rewrite(v, KeyOrder, emittedNumber)
    BY <1>2, Twice5, SortedAlike, EmittedNumber, Orders, Replacements
  <2> QED  BY <2>2, <2>3
<1> QED
  BY <1>1, <1>2, <1>3, <1>4, <1>5 DEF serialisePayloadCanonical

\* What Rust emits of what it parsed passes through TypeScript unchanged.
LEMMA RustBytesAreKept ==
    ASSUME "indices" \notin Odd, NEW v \in Doc5, NEW t, parses_payload(t, v)
    PROVE  LET emitted == canonicalise_numbers(from_str(v))
           IN  /\ parsesPayload(t, emitted)
               /\ CanRebuild(t, emitted) =>
                     serialisePayloadCanonical(parsedPayload(t, emitted)) = emitted
<1>1. can_be_read(v) /\ Reads(t, v)
  BY RustReads
<1>2. PICK e : e = Rewrite(v, KeyOrder, canonicalise_number)
  OBVIOUS
<1>3. e = canonicalise_numbers(from_str(v))
  BY <1>2, OrderChangesNothing
<1>4. e \in Doc5 /\ Reads(t, e)
  BY <1>1, <1>2, Typed5, ReadRewritten, Orders, Replacements, ReplacementsKeep, ReplacementsSafe
<1>5. Reads(t, jsonParse(e))
  BY <1>4, ReadRewritten, Orders, Replacements, ReplacementsKeep, ReplacementsSafe
     DEF jsonParse
<1>6. parsesPayload(t, e)
  BY <1>4, <1>5, TsReads
<1>7. CanRebuild(t, e) =>
         serialisePayloadCanonical(parsedPayload(t, e)) = Rewrite(e, KeyOrder, emittedNumber)
  BY <1>4, <1>6, ParsedIsEmitted
<1>8. SameOrder(KeyOrder, KeyOrder)
  BY Orders, OrderIsItself, KeyOrderKeys
<1>9. Rewrite(e, KeyOrder, emittedNumber) = Rewrite(v, KeyOrder, emittedNumber)
  BY <1>2, <1>8, Twice5, EmittedNumber, Orders, Replacements
<1>10. Rewrite(v, KeyOrder, emittedNumber) = Rewrite(v, KeyOrder, canonicalise_number)
  <2>1. LeafValues(v) = Values(Leaves(v)) /\ LeafValues(v) \cap Unsafe = {}
        /\ Num("overflow") \notin LeafValues(v)
    BY <1>1 DEF LeafValues, Values, Reads, can_be_read
  <2>2. SameOn(Values(Leaves(v)), emittedNumber, canonicalise_number)
    BY <2>1 DEF SameOn, Replace, emittedNumber, canonicalise_number, Unsafe, Num, Null
  <2> QED  BY <2>2, Alike5
<1> QED
  BY <1>2, <1>3, <1>6, <1>7, <1>9, <1>10

\* What TypeScript emits of what it parsed passes through Rust unchanged, if it
\* is Unicode.
LEMMA TsBytesAreKept ==
    ASSUME "indices" \notin Odd, NEW v \in Doc5, NEW t, parsesPayload(t, v),
           IsUnicode(serialisePayloadCanonical(parsedPayload(t, v)))
    PROVE  LET emitted == serialisePayloadCanonical(parsedPayload(t, v))
           IN  /\ parses_payload(t, emitted)
               /\ canonicalise_numbers(from_str(emitted)) = emitted
<1>1. PICK w : w = jsonParse(v)
  OBVIOUS
<1>2. PICK q : q = parsedPayload(t, v)
  OBVIOUS
<1>3. PICK e : e = Rewrite(q, sortObjectKeysByUtf8Bytes, notFinite)
  OBVIOUS
<1>4. e = serialisePayloadCanonical(parsedPayload(t, v)) /\ IsUnicode(e)
  BY <1>2, <1>3 DEF serialisePayloadCanonical
<1>5. /\ w \in Doc5 /\ Reads(t, w) /\ Num("integral_float") \notin LeafValues(w)
      /\ q \in Doc5 /\ Near5(w, q, AsTheyAre)
  BY <1>1, <1>2, ParsedIsEmitted, NoneInexact
<1>6. LeafValues(q) \subseteq LeafValues(w)
  BY <1>5, NearLeaves5 DEF LeafValues, Values
<1>7. Reads(t, q)
  <2>1. LeafValues(q) \cap Unsafe = {}
    BY <1>5, <1>6 DEF Reads
  <2>2. t \in KNOWN_TYPES => FitsPayload(t, q, NumberTooLarge)
    BY <1>5, ReplacementsKeep, PayloadKeeps DEF Reads
  <2> QED  BY <2>1, <2>2 DEF Reads
<1>8. e \in Doc5 /\ can_be_read(e) /\ Reads(t, e)
  BY <1>3, <1>4, <1>5, <1>7, Typed5, WrittenFinite, ReadRewritten, Orders, Replacements,
     ReplacementsKeep, ReplacementsSafe
<1>9. parses_payload(t, e)
  BY <1>8, RustReads
<1>10. canonicalise_numbers(from_str(e)) = Rewrite(e, KeyOrder, canonicalise_number)
  BY <1>8, OrderChangesNothing
<1>11. Rewrite(e, KeyOrder, canonicalise_number) =
          Rewrite(q, sortObjectKeysByUtf8Bytes, writtenNumber)
  BY <1>3, <1>5, Twice5, SortedAlike, EmittedNumber, Orders, Replacements
<1>12. Rewrite(q, sortObjectKeysByUtf8Bytes, writtenNumber) = e
  <2>1. Values(Leaves(q)) = LeafValues(q) /\ Num("integral_float") \notin LeafValues(q)
    BY <1>5, <1>6 DEF LeafValues, Values
  <2>2. SameOn(Values(Leaves(q)), writtenNumber, notFinite)
    BY <2>1 DEF SameOn, Replace, writtenNumber, notFinite, Num, Null
  <2> QED  BY <1>3, <1>5, <2>2, Alike5
<1> QED
  BY <1>4, <1>9, <1>10, <1>11, <1>12

\* A text after a replacement was the same text before.
LEMMA TextWasSame ==
    ASSUME NEW v, NEW w, NEW r, Tame(r), LikeAt(v, w, r), w.tag = "string"
    PROVE  v = w
<1>1. v \in LeafDoc /\ w \in LeafDoc /\ w = Replace(v, r)
  BY DEF LikeAt
<1> QED
  BY <1>1 DEF Tame

\* A request that passes the rules offers what its onTimeout names.
LEMMA RulesOffer ==
    ASSUME NEW w, Has(w, "onTimeout"), payload_rules("decision.requested", w) = Ok
    PROVE  \E o \in ToSet(Get(w, "options").items) : Get(o, "id") = Get(w, "onTimeout")
<1> DEFINE Offered == {o \in ToSet(Get(w, "options").items) :
                           Get(o, "id") = Get(w, "onTimeout")}
           dossier == Get(w, "dossier")
           ruledOut == Get(dossier, "optionsRuledOut").items
           options == Get(w, "options").items
           InDossier(field) ==
               WithinBound(Get(dossier, field), <<"dossier", field>>, MAX_EXCERPT_SCALARS)
           a == check_closedness("decision.requested", w)
           b == IF ~Has(w, "onTimeout") THEN Ok
                ELSE IF Get(w, "kind") # Str("permission")
                     THEN Policy(<<"onTimeout">>, <<"only for permission">>)
                ELSE IF Get(w, "onTimeout") # Str("deny")
                     THEN Policy(<<"onTimeout">>, <<"only deny">>)
                ELSE IF Offered = {} THEN Policy(<<"onTimeout">>, <<"not offered">>) ELSE Ok
           c == InDossier("question")
           d == FirstError([i \in DOMAIN ruledOut |->
                    WithinBound(ruledOut[i], <<"dossier", "optionsRuledOut", Index(i)>>,
                                MAX_EXCERPT_SCALARS)])
           e == InDossier("recommendedAction")
           f == InDossier("blastRadius")
           g == FirstError([i \in DOMAIN options |->
                    WithinBound(Get(options[i], "label"), <<"options", Index(i), "label">>,
                                MAX_EXCERPT_SCALARS)])
           checks == <<a, b, c, d, e, f, g>>
<1>1. decision_requested_rules(w) = FirstError(checks)
  BY DEF decision_requested_rules
<1>2. decision_requested_rules(w) = Ok
  BY DEF payload_rules
<1>3. b = Ok
  <2> HIDE DEF a, b, c, d, e, f, g
  <2>1. DOMAIN checks = 1..7 /\ 7 \in Nat /\ checks[2] = b
    OBVIOUS
  <2>2. FirstError(checks) = Ok <=> \A i \in 1..7 : checks[i] = Ok
    BY <2>1, FirstErrorOk
  <2> QED  BY <1>1, <1>2, <2>1, <2>2
<1>4. Offered # {}
  BY <1>3, RefusalsAreNotOk
<1> QED
  BY <1>4

\* A request that validates offers what its onTimeout names, as it is written.
LEMMA TimeoutIsOffered ==
    ASSUME NEW v, NEW w \in Doc5, NEW r, Tame(r), Like5(v, w, r), NEW bad,
           FitsPayload("decision.requested", w, bad),
           payload_rules("decision.requested", w) = Ok,
           NEW option, Get(v, "onTimeout") = Str(option)
    PROVE  \E o \in ToSet(Get(v, "options").items) : Get(o, "id") = Str(option)
<1> DEFINE struct == DecisionRequestedPayload
<1>1. PayloadStruct("decision.requested") = struct /\ "decision.requested" \in KNOWN_TYPES
  BY DEF PayloadStruct, KNOWN_TYPES
<1>2. w.tag = "object" /\ v.tag = "object" /\ Keys(w) = Keys(v)
  BY LikeTags DEF Like5, FitsPayload
<1>3. ASSUME NEW key \in Keys(v)
      PROVE  /\ Get(v, key) = Child(v, key) /\ Get(w, key) = Child(w, key)
             /\ Like4(Child(v, key), Child(w, key), r)
  BY <1>2, <1>3, MemberIsChild DEF Like5, Get, Has
<1>4. "onTimeout" \in Keys(v)
  BY DEF Get, Has, Str, Absent
<1>5. Get(w, "onTimeout") = Str(option) /\ Has(w, "onTimeout")
  <2>1. LikeAt(Str(option), Get(w, "onTimeout"), r)
    BY <1>3, <1>4 DEF Like4
  <2>2. Str(option).tag = "string"
    BY DEF Str
  <2>3. /\ Str(option) \in LeafDoc
        /\ Get(w, "onTimeout") = Replace(Str(option), r)
    BY <2>1, <2>2 DEF LikeAt
  <2> QED  BY <1>2, <1>4, <2>2, <2>3 DEF Tame, Has
<1>6. PICK ow \in ToSet(Get(w, "options").items) : Get(ow, "id") = Str(option)
  BY <1>5, RulesOffer
<1>7. /\ Declares(struct, "options", "options")
      /\ Complete(struct, w) => "options" \in Keys(w)
  <2>1. Declares(struct, "options", "options")
    BY DEF Declares, DecisionRequestedPayload, Req, Opt
  <2>2. DecisionRequestedPayload[4] = Req("options", "options")
        /\ 4 \in DOMAIN DecisionRequestedPayload
    BY DEF DecisionRequestedPayload
  <2> QED  BY <2>1, <2>2 DEF Complete, Has, Req
<1>8. "options" \in Keys(w) /\ "options" \in Keys(v)
  BY <1>1, <1>2, <1>7 DEF FitsPayload
<1> DEFINE vo == Get(v, "options")
           wo == Get(w, "options")
<1>9. Like4(vo, wo, r) /\ wo = Child(w, "options") /\ wo = w.members["options"]
  BY <1>2, <1>3, <1>8, MemberIsChild
<1>10. FitsField("options", wo, bad)
  <2>1. struct \in Seq(Field(FieldShapes))
    BY <1>1, StructsTyped
  <2>2. "options" \in KeysOf(struct) /\ FieldNamed(struct, "options").shape = "options"
    <3> HIDE DEF struct
    <3> QED  BY <1>7, <2>1, DeclaredField
  <2>3. \A key \in Keys(w) \cap KeysOf(struct) :
           FitsField(FieldNamed(struct, key).shape, w.members[key], bad)
    BY <1>1 DEF FitsPayload
  <2> QED  BY <1>8, <1>9, <2>2, <2>3
<1> HIDE DEF vo, wo, struct
<1>11. wo.tag = "array" /\ \A p \in Places(wo) : FitsFlat(DecisionOption, Child(wo, p), bad)
  BY <1>10 DEF FitsField
<1>12. vo.tag = "array" /\ Places(vo) = Places(wo)
  BY <1>9, <1>11, LikeTags DEF Like4
<1>13. Places(vo) = DOMAIN vo.items /\ Places(wo) = DOMAIN wo.items
  BY <1>11, <1>12 DEF Places
<1>14. PICK i \in Places(wo) : ow = Child(wo, i)
  BY <1>6, <1>11, <1>13, ItemIsChild DEF ToSet, wo
<1> DEFINE ov == Child(vo, i)
<1>15. Like3(ov, ow, r) /\ ov \in ToSet(vo.items)
  <2>1. Like3(ov, ow, r)
    BY <1>9, <1>12, <1>14 DEF Like4
  <2>2. ov = vo.items[i]
    BY <1>12, ItemIsChild
  <2> QED  BY <1>12, <1>13, <2>1, <2>2 DEF ToSet
<1> HIDE DEF ov
<1>16. FitsFlat(DecisionOption, ow, bad)
  BY <1>11, <1>14
<1>17. ow.tag = "object" /\ ov.tag = "object" /\ Keys(ow) = Keys(ov)
  BY <1>15, <1>16, LikeTags DEF Like3, FitsFlat
<1>18. "id" \in Keys(ow)
  BY <1>6 DEF Get, Has, Str, Absent
<1>19. LikeAt(Get(ov, "id"), Get(ow, "id"), r)
  BY <1>15, <1>17, <1>18, MemberIsChild DEF Like3, Like2, Get, Has
<1>20. Get(ow, "id").tag = "string"
  BY <1>6 DEF Str
<1>21. Get(ov, "id") = Str(option)
  BY <1>6, <1>19, <1>20, TextWasSame
<1> QED
  BY <1>15, <1>21 DEF vo
-----------------------------------------------------------------------------
(***************************************************************************)
(* The payload of every state is a document of the model.                  *)
(***************************************************************************)

\* The elements of a sequence may be taken from a larger set.
LEMMA SeqOfMore ==
    ASSUME NEW S, NEW T, S \subseteq T, NEW s \in Seq(S)
    PROVE  s \in Seq(T)
<1>1. s \in [1..Len(s) -> S] /\ Len(s) \in Nat
  BY LenProperties
<1>2. s \in [1..Len(s) -> T]
  BY <1>1
<1> QED
  BY <1>1, <1>2, SeqDef

\* A document of a level is one of the next.
LEMMA DocsOfMore ==
    ASSUME NEW S, NEW T, S \subseteq T
    PROVE  DocsOver(S) \subseteq DocsOver(T)
<1>1. ASSUME NEW v \in ObjectsOver(S)
      PROVE  v \in ObjectsOver(T)
  <2>1. /\ v = Object(v.keys, v.members) /\ Keys(v) = ToSet(v.keys) /\ Keys(v) \subseteq DocKeys
        /\ v.keys \in Seq(DocKeys) /\ v.members \in [Keys(v) -> S]
    BY ObjectParts
  <2>2. v.members \in [Keys(v) -> T]
    BY <2>1
  <2>3. Object(v.keys, v.members) \in ObjectsOver(T)
    BY <2>1, <2>2, ObjectMade
  <2> QED  BY <2>1, <2>3
<1>2. ASSUME NEW v \in ArraysOver(S)
      PROVE  v \in ArraysOver(T)
  <2>1. v = Arr(v.items) /\ v.items \in Seq(S) /\ Len(v.items) <= 2
    BY ArrayParts
  <2>2. v.items \in Seq(T)
    BY <2>1, SeqOfMore
  <2>3. Arr(v.items) \in ArraysOver(T)
    BY <2>1, <2>2, ArrayMade
  <2> QED  BY <2>1, <2>3
<1> QED
  BY <1>1, <1>2 DEF DocsOver

\* A document of fewer levels is one of more.
LEMMA DocsNested ==
    /\ LeafDoc \subseteq Doc1
    /\ Doc1 \subseteq Doc2 /\ Doc2 \subseteq Doc3 /\ Doc3 \subseteq Doc4 /\ Doc4 \subseteq Doc5
<1>1. Doc0 \subseteq Doc1
  BY DEF Doc0
<1>2. Doc1 \subseteq Doc2
  BY <1>1, DocsOfMore DEF Doc1, Doc2
<1>3. Doc2 \subseteq Doc3
  BY <1>2, DocsOfMore DEF Doc2, Doc3
<1>4. Doc3 \subseteq Doc4
  BY <1>3, DocsOfMore DEF Doc3, Doc4
<1>5. Doc4 \subseteq Doc5
  BY <1>4, DocsOfMore DEF Doc4, Doc5
<1> QED
  BY <1>2, <1>3, <1>4, <1>5 DEF Doc1, DocsOver

\* The object without members.
LEMMA EmptyIsObject ==
    ASSUME NEW S
    PROVE  EmptyObject \in ObjectsOver(S) /\ Keys(EmptyObject) = {}
<1>1. <<>> \in [{} -> S] /\ {} \in SUBSET DocKeys
  OBVIOUS
<1>2. <<>> \in Seq(DocKeys) /\ ToSet(<<>>) = {}
  BY EmptySeq DEF ToSet
<1> QED
  BY <1>1, <1>2, ObjectMade DEF EmptyObject, Keys, Object

\* An object with one more field.
LEMMA WithTyped ==
    ASSUME NEW S, NEW o \in ObjectsOver(S), NEW key \in DocKeys, NEW value \in S
    PROVE  With(o, key, value) \in ObjectsOver(S)
<1> DEFINE keys == IF Has(o, key) THEN o.keys ELSE Append(o.keys, key)
           X == Keys(o) \union {key}
           members == [k \in X |-> IF k = key THEN value ELSE o.members[k]]
<1>1. /\ Keys(o) = ToSet(o.keys) /\ Keys(o) \subseteq DocKeys
      /\ o.keys \in Seq(DocKeys) /\ \A p \in Keys(o) : o.members[p] \in S
  BY ObjectParts
<1>2. keys \in Seq(DocKeys) /\ ToSet(keys) = X
  <2>1. CASE Has(o, key)
    BY <1>1, <2>1 DEF Has
  <2>2. CASE ~Has(o, key)
    BY <1>1, <2>2, AppendProperties, ToSetOfAppend
  <2> QED  BY <2>1, <2>2
<1>3. X \in SUBSET DocKeys /\ members \in [X -> S]
  BY <1>1
<1>4. With(o, key, value) = Object(keys, members)
  BY DEF With
<1> HIDE DEF keys, X, members
<1> QED
  BY <1>2, <1>3, <1>4, ObjectMade

\* And without some.
LEMMA WithoutTyped ==
    ASSUME NEW S, NEW o \in ObjectsOver(S), NEW keys
    PROVE  Without(o, keys) \in ObjectsOver(S)
<1> DEFINE left == Keys(o) \ keys
           members == [key \in left |-> o.members[key]]
<1>1. /\ Keys(o) = ToSet(o.keys) /\ Keys(o) \subseteq DocKeys
      /\ o.keys \in Seq(DocKeys) /\ \A p \in Keys(o) : o.members[p] \in S
  BY ObjectParts
<1>2. Kept(o.keys, left) \in Seq(DocKeys) /\ ToSet(Kept(o.keys, left)) = left
  BY <1>1, KeptSet
<1>3. left \in SUBSET DocKeys /\ members \in [left -> S]
  BY <1>1
<1>4. Without(o, keys) = Object(Kept(o.keys, left), members)
  BY DEF Without
<1> HIDE DEF left, members
<1> QED
  BY <1>2, <1>3, <1>4, ObjectMade

\* Nothing is no document, and what is there is one of the level below.
LEMMA BelowTyped ==
    ASSUME NEW S, Absent \notin S, NEW v \in DocsOver(S), NEW step
    PROVE  /\ Absent \notin DocsOver(S)
           /\ Below(v, step) # Absent => Below(v, step) \in S
           /\ Below(v, step) # Absent /\ v.tag # "array" => v.tag = "object" /\ step \in Keys(v)
<1>1. Absent \notin DocsOver(S)
  BY LeafIsSimple, ObjectParts, ArrayParts DEF DocsOver, Absent
<1>2. CASE v \in LeafDoc
  BY <1>1, <1>2, LeafIsSimple DEF Below
<1>3. CASE v \in ObjectsOver(S)
  BY <1>1, <1>3, ObjectParts DEF Below, Get, Has
<1>4. CASE v \in ArraysOver(S)
  <2>1. v.tag = "array" /\ \A p \in DOMAIN v.items : v.items[p] \in S
    BY <1>4, ArrayParts
  <2> QED  BY <1>1, <2>1 DEF Below
<1> QED
  BY <1>2, <1>3, <1>4 DEF DocsOver

\* A document with another value at a place that is there, or that may be.
LEMMA PutBelowTyped ==
    ASSUME NEW S, Absent \notin S, NEW v \in DocsOver(S), NEW step, NEW new \in S,
           Below(v, step) # Absent \/ (v.tag = "object" /\ step \in DocKeys)
    PROVE  PutBelow(v, step, new) \in DocsOver(S)
<1>1. CASE v \in LeafDoc
  BY <1>1, LeafIsSimple DEF Below
<1>2. CASE v \in ObjectsOver(S)
  <2>1. v.tag = "object" /\ Keys(v) \subseteq DocKeys
    BY <1>2, ObjectParts
  <2>2. step \in DocKeys
    BY <2>1, BelowTyped
  <2>3. PutBelow(v, step, new) = With(v, step, new)
    BY <2>1 DEF PutBelow
  <2> QED  BY <1>2, <2>2, <2>3, WithTyped DEF DocsOver
<1>3. CASE v \in ArraysOver(S)
  <2> DEFINE items == [i \in DOMAIN v.items |-> IF Index(i) = step THEN new ELSE v.items[i]]
  <2>1. /\ v.tag = "array" /\ DOMAIN v.items = 1..Len(v.items) /\ Len(v.items) \in Nat
        /\ Len(v.items) <= 2 /\ \A i \in DOMAIN v.items : v.items[i] \in S
    BY <1>3, ArrayParts
  <2>2. items \in [1..Len(v.items) -> S]
    BY <2>1
  <2>3. PutBelow(v, step, new) = Arr(items)
    BY <2>1 DEF PutBelow
  <2> HIDE DEF items
  <2>4. items \in Seq(S) /\ DOMAIN items = 1..Len(v.items)
    BY <2>1, <2>2, SeqDef
  <2>5. Len(items) = Len(v.items)
    BY <2>1, <2>4, LenProperties
  <2> QED  BY <2>1, <2>3, <2>4, <2>5, ArrayMade DEF DocsOver
<1> QED
  BY <1>1, <1>2, <1>3 DEF DocsOver

\* A document without what is at a place, under an object.
LEMMA TakeBelowTyped ==
    ASSUME NEW S, Absent \notin S, NEW v \in DocsOver(S), NEW step \in DocKeys,
           Below(v, step) # Absent
    PROVE  PutBelow(v, step, Absent) \in DocsOver(S)
<1>1. v.tag # "array"
  <2>1. CASE v \in ArraysOver(S)
    <3>1. v.tag = "array" /\ DOMAIN v.items \subseteq 1..2
      BY <2>1, ArrayParts
    <3>2. step \notin {"[0]", "[1]"}
      BY DEF DocKeys, OddKeys, PlainKeys
    <3>3. \A i \in 1..2 : Index(i) \in {"[0]", "[1]"}
      BY DEF Index
    <3> QED  BY <3>1, <3>2, <3>3 DEF Below
  <2>2. CASE v \notin ArraysOver(S)
    BY <2>2, LeafIsSimple, ObjectParts DEF DocsOver
  <2> QED  BY <2>1, <2>2
<1>2. v.tag = "object"
  BY <1>1, BelowTyped
<1>3. v \in ObjectsOver(S)
  BY <1>2, LeafIsSimple, ArrayParts DEF DocsOver
<1>4. PutBelow(v, step, Absent) = Without(v, {step})
  BY <1>2 DEF PutBelow
<1> QED
  BY <1>3, <1>4, WithoutTyped DEF DocsOver

\* Values a producer may write.
LEMMA Scalars1 ==
    /\ \A s \in Spelling : Str(s) \in LeafDoc
    /\ \A k \in NumberKinds : Num(k) \in LeafDoc
    /\ Bool(TRUE) \in LeafDoc /\ Bool(FALSE) \in LeafDoc /\ Null \in LeafDoc
  BY DEF LeafDoc

\* An array of up to two values.
LEMMA ShortArrays ==
    ASSUME NEW S
    PROVE  /\ Arr(<<>>) \in DocsOver(S)
           /\ \A a \in S : Arr(<<a>>) \in DocsOver(S)
           /\ \A a \in S, b \in S : Arr(<<a, b>>) \in DocsOver(S)
<1>1. Arr(<<>>) \in DocsOver(S)
  <2>1. <<>> \in Seq(S) /\ Len(<<>>) <= 2
    BY EmptySeq
  <2> QED  BY <2>1, ArrayMade DEF DocsOver
<1>2. ASSUME NEW a \in S PROVE Arr(<<a>>) \in DocsOver(S)
  <2>1. <<a>> \in Seq(S) /\ Len(<<a>>) <= 2
    OBVIOUS
  <2> QED  BY <2>1, ArrayMade DEF DocsOver
<1>3. ASSUME NEW a \in S, NEW b \in S PROVE Arr(<<a, b>>) \in DocsOver(S)
  <2>1. <<a, b>> \in Seq(S) /\ Len(<<a, b>>) <= 2
    OBVIOUS
  <2> QED  BY <2>1, ArrayMade DEF DocsOver
<1> QED
  BY <1>1, <1>2, <1>3

\* The unusual numbers and strings are leaves, the unusual objects have one level.
LEMMA OddTyped ==
    OddNumbers \subseteq LeafDoc /\ OddStrings \subseteq LeafDoc /\ OddObjects \subseteq Doc2
<1>1. OddNumbers \subseteq LeafDoc /\ OddStrings \subseteq LeafDoc
  BY Scalars1 DEF OddNumbers, OddNumberKinds, OddStrings, NumberKinds, Spelling
<1>2. CASE "indices" \in Odd
  <2>1. "10" \in DocKeys /\ "9" \in DocKeys
    BY <1>2 DEF DocKeys
  <2>2. Num("count") \in Doc1
    BY Scalars1, DocsNested DEF NumberKinds
  <2>3. With(EmptyObject, "10", Num("count")) \in ObjectsOver(Doc1)
    BY <2>1, <2>2, EmptyIsObject, WithTyped
  <2>4. With(With(EmptyObject, "10", Num("count")), "9", Num("count")) \in ObjectsOver(Doc1)
    BY <2>1, <2>2, <2>3, WithTyped
  <2> QED  BY <1>1, <1>2, <2>4 DEF OddObjects, Doc2, DocsOver
<1>3. CASE "indices" \notin Odd
  BY <1>1, <1>3 DEF OddObjects
<1> QED
  BY <1>2, <1>3

\* Options are three levels, everything else is two.
LEMMA ValuesAtTyped ==
    ASSUME NEW key, NEW shape
    PROVE  /\ ValuesAt(key, shape) \subseteq Doc3
           /\ shape # "options" => ValuesAt(key, shape) \subseteq Doc2
<1>0. /\ LeafDoc \subseteq Doc2 /\ LeafDoc \subseteq Doc1 /\ Doc2 \subseteq Doc3
      /\ Str("some") \in LeafDoc /\ Str("long") \in LeafDoc /\ Null \in LeafDoc
  BY DocsNested, Scalars1 DEF Spelling
<1>9. CASE key \in OddKeys
  <2>1. ValuesAt(key, shape) = {EmptyObject, Num("unsafe")} \union OddStrings
    BY <1>9 DEF ValuesAt
  <2>2. EmptyObject \in Doc2
    BY EmptyIsObject DEF Doc2, DocsOver
  <2> QED  BY <1>0, <2>1, <2>2, Scalars1, OddTyped DEF NumberKinds
<1>1. CASE key \notin OddKeys /\ shape = "string"
  <2>1. Spellings(key) \subseteq Spelling /\ {"", "long", "huge"} \subseteq Spelling
    BY DEF Spellings, Spelling
  <2>2. ValuesAt(key, shape) = {Str(s) : s \in {"", "long", "huge"} \union Spellings(key)}
                                  \union {Null} \union OddStrings
    BY <1>1 DEF ValuesAt
  <2>3. ValuesAt(key, shape) \subseteq LeafDoc
    BY <2>1, <2>2, Scalars1, OddTyped
  <2> QED  BY <1>0, <2>3
<1>2. CASE key \notin OddKeys /\ shape = "boolean"
  <2>1. ValuesAt(key, shape) = {Bool(FALSE), Str("some")}
    BY <1>2 DEF ValuesAt
  <2> QED  BY <1>0, <2>1, Scalars1
<1>3. CASE key \notin OddKeys /\ shape = "number"
  <2>1. ValuesAt(key, shape) = {Num("negative"), Num("unsafe_float"), Null} \union OddNumbers
    BY <1>3 DEF ValuesAt
  <2> QED  BY <1>0, <2>1, Scalars1, OddTyped DEF NumberKinds
<1>4. CASE key \notin OddKeys /\ shape = "count"
  <2>1. ValuesAt(key, shape) = {Num(n) : n \in {"negative", "fraction", "unsafe"}}
                                  \union {Null} \union OddNumbers
    BY <1>4 DEF ValuesAt
  <2> QED  BY <1>0, <2>1, Scalars1, OddTyped DEF NumberKinds
<1>5. CASE key \notin OddKeys /\ shape = "strings"
  <2>1. ValuesAt(key, shape) =
           {Null, Arr(<<>>), Arr(<<Str("some"), Null>>), Arr(<<Str("long")>>)}
    BY <1>5 DEF ValuesAt
  <2>2. Arr(<<>>) \in Doc2 /\ Arr(<<Str("some"), Null>>) \in Doc2 /\ Arr(<<Str("long")>>) \in Doc2
    BY <1>0, ShortArrays DEF Doc2
  <2> QED  BY <1>0, <2>1, <2>2
<1>6. CASE key \notin OddKeys /\ shape = "options"
  <2> DEFINE option == With(EmptyObject, "id", Str("allow"))
  <2>1. ValuesAt(key, shape) = {Null, Arr(<<>>), Arr(<<option>>)}
    BY <1>6 DEF ValuesAt
  <2>2. "id" \in DocKeys /\ Str("allow") \in Doc1
    BY <1>0, Scalars1 DEF DocKeys, AllKeys, PlainKeys, Spelling
  <2>3. option \in Doc2
    BY <2>2, EmptyIsObject, WithTyped DEF Doc2, DocsOver
  <2> HIDE DEF option
  <2>4. Arr(<<>>) \in Doc3 /\ Arr(<<option>>) \in Doc3
    BY <2>3, ShortArrays DEF Doc3
  <2> QED  BY <1>0, <1>6, <2>1, <2>4
<1>7. CASE key \notin OddKeys /\ shape = "any"
  <2>1. ValuesAt(key, shape) = {Str("wide"), Str("huge"), Num("unsafe_wide"), Null}
                                  \union OddNumbers \union OddStrings \union OddObjects
    BY <1>7 DEF ValuesAt
  <2>2. Str("wide") \in LeafDoc /\ Str("huge") \in LeafDoc /\ Num("unsafe_wide") \in LeafDoc
    BY Scalars1 DEF Spelling, NumberKinds
  <2> QED  BY <1>0, <2>1, <2>2, OddTyped
<1>8. CASE key \notin OddKeys /\ shape \notin {"string", "boolean", "number", "count", "strings", "options", "any"}
  <2>1. ValuesAt(key, shape) = {Null, EmptyObject}
    BY <1>8 DEF ValuesAt
  <2>2. EmptyObject \in Doc2
    BY EmptyIsObject DEF Doc2, DocsOver
  <2> QED  BY <1>0, <2>1, <2>2
<1> QED
  BY <1>1, <1>2, <1>3, <1>4, <1>5, <1>6, <1>7, <1>8, <1>9

\* Nothing is on no level.
LEMMA NothingAbsent ==
    /\ Absent \notin Doc0 /\ Absent \notin Doc1 /\ Absent \notin Doc2
    /\ Absent \notin Doc3 /\ Absent \notin Doc4 /\ Absent \notin Doc5
<1>1. Absent \notin Doc0
  BY DEF Doc0
<1>2. \A S : Absent \notin DocsOver(S)
  BY LeafIsSimple, ObjectParts, ArrayParts DEF DocsOver, Absent
<1> QED
  BY <1>1, <1>2 DEF Doc1, Doc2, Doc3, Doc4, Doc5

\* The places of a type: a field or an unknown key of the payload; of a nested
\* object; or of the first option.
ShortPath(path, last) == path = <<last>>
NestedPath(path, last) == \E step \in DocKeys : path = <<step, last>>
OptionPath(path, last) == \E step \in DocKeys : path = <<step, "[0]", last>>

\* What such a place is under.
LEMMA FrontOfPath ==
    /\ \A a, b : Front(<<a, b>>) = <<a>>
    /\ \A a, b, c : Front(<<a, b, c>>) = <<a, b>>
<1>1. ASSUME NEW a, NEW b
      PROVE  Front(<<a, b>>) = <<a>>
  <2> DEFINE s == <<a, b>>
             f == SubSeq(s, 1, 1)
  <2>1. s \in Seq({a, b}) /\ Len(s) = 2 /\ s[1] = a
    OBVIOUS
  <2> HIDE DEF s
  <2>2. f \in Seq({a, b}) /\ Len(f) = 1 /\ f[1] = a
    BY <2>1, SubSeqProperties
  <2>3. Front(s) = f
    BY <2>1 DEF Front
  <2> HIDE DEF f
  <2>4. f = <<a>>
    BY <2>2
  <2> QED  BY <2>3, <2>4 DEF s
<1>2. ASSUME NEW a, NEW b, NEW c
      PROVE  Front(<<a, b, c>>) = <<a, b>>
  <2> DEFINE s == <<a, b, c>>
             f == SubSeq(s, 1, 2)
  <2>1. s \in Seq({a, b, c}) /\ Len(s) = 3 /\ s[1] = a /\ s[2] = b
    OBVIOUS
  <2> HIDE DEF s
  <2>2. f \in Seq({a, b, c}) /\ Len(f) = 2 /\ f[1] = a /\ f[2] = b
    BY <2>1, SubSeqProperties
  <2>3. Front(s) = f
    BY <2>1 DEF Front
  <2> HIDE DEF f
  <2>4. f = <<a, b>>
    BY <2>2
  <2> QED  BY <2>3, <2>4 DEF s
<1> QED
  BY <1>1, <1>2

\* At such a place, what is there may be replaced.
LEMMA PutTyped ==
    ASSUME NEW p \in Doc5, NEW path, NEW last \in DocKeys, NEW new,
           \/ ShortPath(path, last) /\ new \in Doc4
           \/ NestedPath(path, last) /\ new \in Doc3
           \/ OptionPath(path, last) /\ new \in Doc2,
           At(p, Front(path)).tag = "object"
    PROVE  Put(p, path, new) \in Doc5
<1>1. CASE ShortPath(path, last) /\ new \in Doc4
  <2>1. path = <<last>> /\ Len(path) = 1 /\ path[1] = last
    BY <1>1 DEF ShortPath
  <2>2. Front(path) = <<>>
    BY <2>1 DEF Front
  <2>3. p.tag = "object"
    BY <2>2 DEF At
  <2>4. PutBelow(p, last, new) \in Doc5
    BY <1>1, <2>3, PutBelowTyped, NothingAbsent DEF Doc5
  <2> QED  BY <2>1, <2>4 DEF Put
<1>2. CASE NestedPath(path, last) /\ new \in Doc3
  <2>1. PICK step \in DocKeys : path = <<step, last>>
    BY <1>2 DEF NestedPath
  <2>2. Len(path) = 2 /\ path[1] = step /\ path[2] = last
    BY <2>1
  <2>3. Front(path) = <<step>>
    BY <2>1, FrontOfPath
  <2>4. Below(p, step).tag = "object"
    BY <2>3 DEF At
  <2>5. Below(p, step) # Absent
    BY <2>4 DEF Absent
  <2>6. Below(p, step) \in Doc4
    BY <2>5, BelowTyped, NothingAbsent DEF Doc5
  <2>7. PutBelow(Below(p, step), last, new) \in Doc4
    BY <1>2, <2>4, <2>6, PutBelowTyped, NothingAbsent DEF Doc4
  <2>8. PutBelow(p, step, PutBelow(Below(p, step), last, new)) \in Doc5
    BY <2>5, <2>7, PutBelowTyped, NothingAbsent DEF Doc5
  <2> QED  BY <2>2, <2>8 DEF Put
<1>3. CASE OptionPath(path, last) /\ new \in Doc2
  <2>1. PICK step \in DocKeys : path = <<step, "[0]", last>>
    BY <1>3 DEF OptionPath
  <2>2. Len(path) = 3 /\ path[1] = step /\ path[2] = "[0]" /\ path[3] = last
    BY <2>1
  <2>3. Front(path) = <<step, "[0]">>
    BY <2>1, FrontOfPath
  <2> DEFINE list == Below(p, step)
             option == Below(list, "[0]")
  <2>4. option.tag = "object"
    BY <2>3 DEF At
  <2>5. option # Absent
    BY <2>4 DEF Absent
  <2>6. list # Absent
    BY <2>5 DEF Below, Absent
  <2>7. list \in Doc4
    BY <2>6, BelowTyped, NothingAbsent DEF Doc5
  <2>8. option \in Doc3
    BY <2>5, <2>7, BelowTyped, NothingAbsent DEF Doc4
  <2>9. PutBelow(option, last, new) \in Doc3
    BY <1>3, <2>4, <2>8, PutBelowTyped, NothingAbsent DEF Doc3
  <2>10. PutBelow(list, "[0]", PutBelow(option, last, new)) \in Doc4
    BY <2>5, <2>7, <2>9, PutBelowTyped, NothingAbsent DEF Doc4
  <2>11. PutBelow(p, step, PutBelow(list, "[0]", PutBelow(option, last, new))) \in Doc5
    BY <2>6, <2>10, PutBelowTyped, NothingAbsent DEF Doc5
  <2> QED  BY <2>2, <2>11 DEF Put
<1> QED
  BY <1>1, <1>2, <1>3

\* And taken away.
LEMMA TakeTyped ==
    ASSUME NEW p \in Doc5, NEW path, NEW last \in DocKeys,
           ShortPath(path, last) \/ NestedPath(path, last) \/ OptionPath(path, last),
           At(p, path) # Absent
    PROVE  Put(p, path, Absent) \in Doc5
<1>1. CASE ShortPath(path, last)
  <2>1. Len(path) = 1 /\ path[1] = last
    BY <1>1 DEF ShortPath
  <2>2. Below(p, last) # Absent
    BY <2>1 DEF At
  <2>3. PutBelow(p, last, Absent) \in Doc5
    BY <2>2, TakeBelowTyped, NothingAbsent DEF Doc5
  <2> QED  BY <2>1, <2>3 DEF Put
<1>2. CASE NestedPath(path, last)
  <2>1. PICK step \in DocKeys : path = <<step, last>>
    BY <1>2 DEF NestedPath
  <2>2. Len(path) = 2 /\ path[1] = step /\ path[2] = last
    BY <2>1
  <2>3. Below(Below(p, step), last) # Absent
    BY <2>2 DEF At
  <2>4. Below(p, step) # Absent
    BY <2>3 DEF Below, Absent
  <2>5. Below(p, step) \in Doc4
    BY <2>4, BelowTyped, NothingAbsent DEF Doc5
  <2>6. PutBelow(Below(p, step), last, Absent) \in Doc4
    BY <2>3, <2>5, TakeBelowTyped, NothingAbsent DEF Doc4
  <2>7. PutBelow(p, step, PutBelow(Below(p, step), last, Absent)) \in Doc5
    BY <2>4, <2>6, PutBelowTyped, NothingAbsent DEF Doc5
  <2> QED  BY <2>2, <2>7 DEF Put
<1>3. CASE OptionPath(path, last)
  <2>0. PICK step \in DocKeys : path = <<step, "[0]", last>>
    BY <1>3 DEF OptionPath
  <2>1. Len(path) = 3 /\ path[1] = step /\ path[2] = "[0]" /\ path[3] = last
    BY <2>0
  <2> DEFINE list == Below(p, step)
             option == Below(list, "[0]")
  <2>2. Below(option, last) # Absent
    BY <2>1 DEF At
  <2>3. option # Absent
    <3> HIDE DEF option
    <3> QED  BY <2>2 DEF Below, Absent
  <2>4. list # Absent
    BY <2>3 DEF Below, Absent
  <2>5. list \in Doc4
    BY <2>4, BelowTyped, NothingAbsent DEF Doc5
  <2>6. option \in Doc3
    BY <2>3, <2>5, BelowTyped, NothingAbsent DEF Doc4
  <2>7. PutBelow(option, last, Absent) \in Doc3
    BY <2>2, <2>6, TakeBelowTyped, NothingAbsent DEF Doc3
  <2>8. PutBelow(list, "[0]", PutBelow(option, last, Absent)) \in Doc4
    BY <2>3, <2>5, <2>7, PutBelowTyped, NothingAbsent DEF Doc4
  <2>9. PutBelow(p, step, PutBelow(list, "[0]", PutBelow(option, last, Absent))) \in Doc5
    BY <2>4, <2>8, PutBelowTyped, NothingAbsent DEF Doc5
  <2> QED  BY <2>1, <2>9 DEF Put
<1> QED
  BY <1>1, <1>2, <1>3

\* Where a producer may write: under the payload, a nested object or an option.
PlaceIs(place, last) ==
    \/ ShortPath(place[1], last)
    \/ NestedPath(place[1], last)
    \/ OptionPath(place[1], last) /\ place[2] # "options"

\* A step added to a path.
LEMMA PathMade ==
    /\ \A a, b : <<a>> \o <<b>> = <<a, b>>
    /\ \A a, b, c : <<a, b>> \o <<c>> = <<a, b, c>>
<1>1. ASSUME NEW a, NEW b
      PROVE  <<a>> \o <<b>> = <<a, b>>
  <2> DEFINE s == <<a>>
             t == <<b>>
             f == s \o t
  <2>1. /\ s \in Seq({a, b}) /\ Len(s) = 1 /\ s[1] = a
        /\ t \in Seq({a, b}) /\ Len(t) = 1 /\ t[1] = b
    OBVIOUS
  <2> HIDE DEF s, t
  <2>2. f \in Seq({a, b}) /\ Len(f) = 2 /\ f[1] = a /\ f[2] = b
    <3>1. /\ f \in Seq({a, b}) /\ Len(f) = Len(s) + Len(t)
          /\ \A i \in 1..(Len(s) + Len(t)) :
                f[i] = IF i <= Len(s) THEN s[i] ELSE t[i - Len(s)]
      BY <2>1, ConcatProperties
    <3> HIDE DEF f
    <3>2. f[2] = t[1] /\ \A i \in 1..1 : f[i] = s[i]
      BY <2>1, <3>1
    <3> QED  BY <2>1, <3>1, <3>2
  <2> HIDE DEF f
  <2>3. f = <<a, b>>
    BY <2>2
  <2> QED  BY <2>3 DEF f, s, t
<1>2. ASSUME NEW a, NEW b, NEW c
      PROVE  <<a, b>> \o <<c>> = <<a, b, c>>
  <2> DEFINE s == <<a, b>>
             t == <<c>>
             f == s \o t
  <2>1. /\ s \in Seq({a, b, c}) /\ Len(s) = 2 /\ s[1] = a /\ s[2] = b
        /\ t \in Seq({a, b, c}) /\ Len(t) = 1 /\ t[1] = c
    OBVIOUS
  <2> HIDE DEF s, t
  <2>2. f \in Seq({a, b, c}) /\ Len(f) = 3 /\ f[1] = a /\ f[2] = b /\ f[3] = c
    <3>1. /\ f \in Seq({a, b, c}) /\ Len(f) = Len(s) + Len(t)
          /\ \A i \in 1..(Len(s) + Len(t)) :
                f[i] = IF i <= Len(s) THEN s[i] ELSE t[i - Len(s)]
      BY <2>1, ConcatProperties
    <3> HIDE DEF f
    <3>2. f[3] = t[1] /\ \A i \in 1..2 : f[i] = s[i]
      BY <2>1, <3>1
    <3> QED  BY <2>1, <3>1, <3>2
  <2> HIDE DEF f
  <2>3. f = <<a, b, c>>
    BY <2>2
  <2> QED  BY <2>3 DEF f, s, t
<1> QED
  BY <1>1, <1>2

\* Every place of a payload is one of those.
LEMMA PlacesTyped ==
    ASSUME NEW t \in Types, NEW place \in PlacesOf(t)
    PROVE  \E last \in DocKeys : PlaceIs(place, last)
<1> DEFINE Fields(struct, under) == {<<under \o <<s.key>>, s.shape>> : s \in ToSet(struct)}
           Unknown(under, keys) == {<<under \o <<k>>, "any">> : k \in keys}
           Nested(under, struct) ==
               Fields(struct, under) \union Unknown(under, {"zzzTail"} \union OddKeys)
<1>0. /\ PlainKeys \subseteq DocKeys /\ UnknownKeys \subseteq DocKeys
      /\ {"0alpha"} \union OddKeys \subseteq DocKeys
      /\ {"zzzTail"} \union OddKeys \subseteq DocKeys
      /\ "usage" \in PlainKeys
  BY DEF DocKeys, PlainKeys, UnknownKeys
<1>1. ASSUME NEW k \in DocKeys, NEW shape
      PROVE  PlaceIs(<<(<<>> \o <<k>>), shape>>, k)
  BY DEF PlaceIs, ShortPath
<1>2. ASSUME NEW a \in PlainKeys, NEW k \in DocKeys, NEW shape
      PROVE  PlaceIs(<<(<<a>> \o <<k>>), shape>>, k)
  <2>1. <<a>> \o <<k>> = <<a, k>>
    BY PathMade
  <2> QED  BY <1>0, <2>1 DEF PlaceIs, NestedPath
<1>3. ASSUME NEW a \in PlainKeys, NEW k \in DocKeys, NEW shape, shape # "options"
      PROVE  PlaceIs(<<(<<a, "[0]">> \o <<k>>), shape>>, k)
  <2>1. <<a, "[0]">> \o <<k>> = <<a, "[0]", k>>
    BY PathMade
  <2> QED  BY <1>0, <1>3, <2>1 DEF PlaceIs, OptionPath
<1>4. ASSUME NEW shapes, NEW struct \in Seq(Field(shapes))
      PROVE  \A s \in ToSet(struct) : s.key \in PlainKeys /\ s.shape \in shapes
  <2>1. \A i \in DOMAIN struct : struct[i] \in Field(shapes)
    BY LenProperties, ElementOfSeq
  <2> QED  BY <2>1 DEF ToSet, Field
<1>5. CASE t = UnknownType
  <2>1. place \in Unknown(<<>>, UnknownKeys) \/ place \in Unknown(<<"usage">>, UnknownKeys)
    BY <1>5 DEF PlacesOf
  <2>2. CASE place \in Unknown(<<>>, UnknownKeys)
    BY <1>0, <1>1, <2>2
  <2>3. CASE place \in Unknown(<<"usage">>, UnknownKeys)
    BY <1>0, <1>2, <2>3
  <2> QED  BY <2>1, <2>2, <2>3
<1>6. CASE t # UnknownType
  <2>1. t \in KNOWN_TYPES
    BY <1>6 DEF Types
  <2> DEFINE struct == PayloadStruct(t)
  <2>2. \A s \in ToSet(struct) : s.key \in PlainKeys /\ s.shape \in FieldShapes
    BY <1>4, <2>1, StructsTyped
  <2> DEFINE Deeper(s) ==
                CASE s.shape \in {"ceilings", "usage", "dossier"} ->
                        Nested(<<s.key>>, NestedStruct(s.shape))
                  [] s.shape = "options" -> Nested(<<s.key, "[0]">>, DecisionOption)
                  [] OTHER -> {}
  <2>3. PlacesOf(t) = Fields(struct, <<>>) \union Unknown(<<>>, {"0alpha"} \union OddKeys)
                      \union UNION {Deeper(s) : s \in ToSet(struct)}
    BY <1>6 DEF PlacesOf
  <2> HIDE DEF struct, Deeper
  <2>4. CASE place \in Fields(struct, <<>>)
    BY <1>0, <1>1, <2>2, <2>4
  <2>5. CASE place \in Unknown(<<>>, {"0alpha"} \union OddKeys)
    BY <1>0, <1>1, <2>5
  <2>6. CASE place \in UNION {Deeper(s) : s \in ToSet(struct)}
    <3>1. PICK s \in ToSet(struct) : place \in Deeper(s)
      BY <2>6
    <3>2. CASE s.shape \in {"ceilings", "usage", "dossier"}
      <4>1. NestedStruct(s.shape) \in Seq(Field(FlatShapes))
        BY <3>2, NestedTyped DEF NestedShapes
      <4>2. \A f \in ToSet(NestedStruct(s.shape)) : f.key \in PlainKeys
        BY <1>4, <4>1
      <4>3. place \in Nested(<<s.key>>, NestedStruct(s.shape))
        BY <3>1, <3>2 DEF Deeper
      <4>4. CASE place \in Fields(NestedStruct(s.shape), <<s.key>>)
        BY <1>0, <1>2, <2>2, <4>2, <4>4
      <4>5. CASE place \in Unknown(<<s.key>>, {"zzzTail"} \union OddKeys)
        BY <1>0, <1>2, <2>2, <4>5
      <4> QED  BY <4>3, <4>4, <4>5
    <3>3. CASE s.shape = "options"
      <4>1. \A f \in ToSet(DecisionOption) : f.key \in PlainKeys /\ f.shape # "options"
        BY <1>4, NestedTyped DEF FlatShapes, ScalarShapes
      <4>2. place \in Nested(<<s.key, "[0]">>, DecisionOption)
        BY <3>1, <3>3 DEF Deeper
      <4>3. CASE place \in Fields(DecisionOption, <<s.key, "[0]">>)
        BY <1>0, <1>3, <2>2, <4>1, <4>3
      <4>4. CASE place \in Unknown(<<s.key, "[0]">>, {"zzzTail"} \union OddKeys)
        BY <1>0, <1>3, <2>2, <4>4
      <4> QED  BY <4>2, <4>3, <4>4
    <3>4. CASE s.shape \notin {"ceilings", "usage", "dossier", "options"}
      BY <3>1, <3>4 DEF Deeper
    <3> QED  BY <3>2, <3>3, <3>4
  <2> QED  BY <2>3, <2>4, <2>5, <2>6
<1> QED
  BY <1>5, <1>6

\* An object made of the fields of a struct.
LEMMA MadeTyped ==
    ASSUME NEW shapes, NEW struct \in Seq(Field(shapes)), NEW S,
           NEW chosen \in SUBSET KeysOf(struct), NEW members \in [chosen -> S]
    PROVE  Object(Kept([i \in DOMAIN struct |-> struct[i].key], chosen), members)
              \in ObjectsOver(S)
<1> DEFINE declared == [i \in DOMAIN struct |-> struct[i].key]
<1>1. /\ DOMAIN struct = 1..Len(struct) /\ Len(struct) \in Nat
      /\ \A i \in DOMAIN struct : struct[i] \in Field(shapes)
  BY LenProperties, ElementOfSeq
<1>2. PlainKeys \subseteq DocKeys
  BY DEF DocKeys
<1>3. declared \in [1..Len(struct) -> DocKeys]
  BY <1>1, <1>2 DEF Field
<1>4. declared \in Seq(DocKeys)
  BY <1>1, <1>3, SeqDef
<1>5. ToSet(declared) = KeysOf(struct) /\ KeysOf(struct) \subseteq DocKeys
  BY <1>1, <1>3 DEF ToSet, KeysOf
<1> HIDE DEF declared
<1>6. Kept(declared, chosen) \in Seq(DocKeys) /\ ToSet(Kept(declared, chosen)) = chosen
  <2>1. Kept(declared, chosen) \in Seq(DocKeys)
        /\ ToSet(Kept(declared, chosen)) = ToSet(declared) \cap chosen
    BY <1>4, KeptSet
  <2> QED  BY <1>5, <2>1
<1> QED
  BY <1>5, <1>6, ObjectMade DEF declared

\* What a well-formed payload has in a field that is no object.
LEMMA PlainTyped ==
    ASSUME NEW s, s.shape \in FlatShapes, NEW kind \in Spelling
    PROVE  PlainValue(s, kind) \in Doc2
<1>0. LeafDoc \subseteq Doc2 /\ LeafDoc \subseteq Doc1
  BY DocsNested
<1>1. CASE s.shape = "string"
  <2>1. PlainValue(s, kind) = Str(Member(s.key, kind))
    BY <1>1 DEF PlainValue
  <2>2. Member(s.key, kind) \in Spelling
    BY DEF Member, Spelling
  <2> QED  BY <1>0, <2>1, <2>2, Scalars1
<1>2. CASE s.shape = "boolean"
  BY <1>0, <1>2, Scalars1 DEF PlainValue, NumberKinds
<1>3. CASE s.shape = "number"
  BY <1>0, <1>3, Scalars1 DEF PlainValue, NumberKinds
<1>4. CASE s.shape = "count"
  BY <1>0, <1>4, Scalars1 DEF PlainValue, NumberKinds
<1>5. CASE s.shape = "strings"
  <2>1. PlainValue(s, kind) = Arr(<<Str("some")>>)
    BY <1>5 DEF PlainValue
  <2>2. Str("some") \in Doc1
    BY <1>0, Scalars1 DEF Spelling
  <2> QED  BY <2>1, <2>2, ShortArrays DEF Doc2
<1> QED
  BY <1>1, <1>2, <1>3, <1>4, <1>5 DEF FlatShapes, ScalarShapes

\* A well-formed nested object is a document.
LEMMA WellFormedFlatTyped ==
    ASSUME NEW struct \in Seq(Field(FlatShapes)), NEW kind \in Spelling, NEW all
    PROVE  WellFormedFlat(struct, kind, all) \in Doc3
<1> DEFINE declared == [i \in DOMAIN struct |-> struct[i].key]
           chosen == {key \in ToSet(declared) : FieldNamed(struct, key).required \/ all}
           members == [key \in chosen |-> PlainValue(FieldNamed(struct, key), kind)]
<1>1. WellFormedFlat(struct, kind, all) = Object(Kept(declared, chosen), members)
  BY DEF WellFormedFlat, Made
<1>2. ToSet(declared) = KeysOf(struct)
  BY DEF ToSet, KeysOf
<1>3. chosen \in SUBSET KeysOf(struct)
  BY <1>2
<1>4. members \in [chosen -> Doc2]
  BY <1>3, FieldOf, PlainTyped
<1> HIDE DEF chosen, members
<1>5. Object(Kept(declared, chosen), members) \in ObjectsOver(Doc2)
  BY <1>3, <1>4, MadeTyped
<1> QED
  BY <1>1, <1>5 DEF Doc3, DocsOver

\* A well-formed payload is a document.
LEMMA WellFormedTyped ==
    ASSUME NEW struct \in Seq(Field(FieldShapes)), NEW kind \in Spelling, NEW all
    PROVE  WellFormed(struct, kind, all) \in ObjectsOver(Doc4)
<1> DEFINE ValueOf(s) ==
              CASE s.shape = "options" -> Arr(<<WellFormedFlat(DecisionOption, kind, all)>>)
                [] s.shape \in {"ceilings", "usage", "dossier"} ->
                      WellFormedFlat(NestedStruct(s.shape), kind, all)
                [] OTHER -> PlainValue(s, kind)
           declared == [i \in DOMAIN struct |-> struct[i].key]
           chosen == {key \in ToSet(declared) : FieldNamed(struct, key).required \/ all}
           members == [key \in chosen |-> ValueOf(FieldNamed(struct, key))]
<1>1. WellFormed(struct, kind, all) = Object(Kept(declared, chosen), members)
  BY DEF WellFormed, Made
<1>2. ToSet(declared) = KeysOf(struct)
  BY DEF ToSet, KeysOf
<1>3. chosen \in SUBSET KeysOf(struct)
  BY <1>2
<1>4. ASSUME NEW s, s.shape \in FieldShapes
      PROVE  ValueOf(s) \in Doc4
  <2>1. CASE s.shape = "options"
    <3>1. WellFormedFlat(DecisionOption, kind, all) \in Doc3
      BY NestedTyped, WellFormedFlatTyped
    <3>2. Arr(<<WellFormedFlat(DecisionOption, kind, all)>>) \in Doc4
      BY <3>1, ShortArrays DEF Doc4
    <3> QED  BY <2>1, <3>2
  <2>2. CASE s.shape \in {"ceilings", "usage", "dossier"}
    <3>1. NestedStruct(s.shape) \in Seq(Field(FlatShapes))
      BY <2>2, NestedTyped DEF NestedShapes
    <3>2. WellFormedFlat(NestedStruct(s.shape), kind, all) \in Doc3
      BY <3>1, WellFormedFlatTyped
    <3> QED  BY <2>2, <3>2, DocsNested
  <2>3. CASE s.shape \in FlatShapes
    <3>1. s.shape \notin {"options", "ceilings", "usage", "dossier"}
      BY <2>3 DEF FlatShapes, ScalarShapes
    <3>2. ValueOf(s) = PlainValue(s, kind)
      BY <3>1
    <3> QED  BY <2>3, <3>2, PlainTyped, DocsNested
  <2> QED  BY <1>4, <2>1, <2>2, <2>3 DEF FieldShapes, NestedShapes
<1> HIDE DEF ValueOf
<1>5. members \in [chosen -> Doc4]
  BY <1>3, <1>4, FieldOf
<1> HIDE DEF chosen, members
<1>6. Object(Kept(declared, chosen), members) \in ObjectsOver(Doc4)
  BY <1>3, <1>5, MadeTyped
<1> QED
  BY <1>1, <1>6

\* Every payload the producer starts from is a document.
LEMMA SamplesTyped ==
    ASSUME NEW t \in Types, NEW sample \in Samples(t)
    PROVE  sample \in Doc5
<1>1. CASE t = UnknownType
  <2>1. sample = With(EmptyObject, "usage", EmptyObject)
    BY <1>1 DEF Samples
  <2>2. "usage" \in DocKeys /\ EmptyObject \in Doc4
    BY EmptyIsObject DEF DocKeys, PlainKeys, Doc4, DocsOver
  <2>3. sample \in ObjectsOver(Doc4)
    BY <2>1, <2>2, EmptyIsObject, WithTyped
  <2> QED  BY <2>3 DEF Doc5, DocsOver
<1>2. CASE t # UnknownType
  <2>1. t \in KNOWN_TYPES
    BY <1>2 DEF Types
  <2>2. PICK v \in Variants(t) :
           sample = Fitting(t, v[1], WellFormed(PayloadStruct(t), v[1], v[2]))
    BY <1>2 DEF Samples
  <2>3. v[1] \in Spelling
    <3>1. CASE t = "control.requested"
      <4>1. v \in {"answer", "steer", "interrupt"} \X BOOLEAN
        BY <3>1 DEF Variants
      <4> QED  BY <4>1 DEF Spelling
    <3>2. CASE t = "decision.requested"
      <4>1. v = <<"permission", TRUE>> \/ v = <<"budget", FALSE>>
        BY <3>2 DEF Variants
      <4>2. <<"permission", TRUE>>[1] = "permission" /\ <<"budget", FALSE>>[1] = "budget"
        OBVIOUS
      <4>3. v[1] = "permission" \/ v[1] = "budget"
        BY <4>1, <4>2
      <4> QED  BY <4>3 DEF Spelling
    <3>3. CASE t \notin {"control.requested", "decision.requested"}
      <4>1. v \in {"loop"} \X BOOLEAN
        BY <3>3 DEF Variants
      <4> QED  BY <4>1 DEF Spelling
    <3> QED  BY <3>1, <3>2, <3>3
  <2>4. WellFormed(PayloadStruct(t), v[1], v[2]) \in ObjectsOver(Doc4)
    BY <2>1, <2>3, StructsTyped, WellFormedTyped
  <2>5. \E keys : sample = Without(WellFormed(PayloadStruct(t), v[1], v[2]), keys)
    BY <2>2 DEF Fitting
  <2>6. sample \in ObjectsOver(Doc4)
    BY <2>4, <2>5, WithoutTyped
  <2> QED  BY <2>6 DEF Doc5, DocsOver
<1> QED
  BY <1>1, <1>2
-----------------------------------------------------------------------------
(***************************************************************************)
(* The type invariant.                                                     *)
(***************************************************************************)
TypeInv == type \in Types /\ payload \in Doc5

\* Whatever a producer writes, leaves out or puts in the place of its payload,
\* the payload is a document of the model, five levels deep.
THEOREM TypeInvHolds == Spec => []TypeInv
<1>1. Init => TypeInv
  BY SamplesTyped DEF Init, TypeInv
<1>2. TypeInv /\ [Next]_vars => TypeInv'
  <2> SUFFICES ASSUME TypeInv, [Next]_vars
               PROVE  TypeInv'
    OBVIOUS
  <2> USE DEF TypeInv
  <2>1. CASE WriteField
    <3>0. PICK place \in PlacesOf(type) :
             /\ At(payload, Front(place[1])).tag = "object"
             /\ \E v \in ValuesAt(Last(place[1]), place[2]) :
                   Edited(Put(payload, place[1], v))
      BY <2>1 DEF WriteField
    <3>1. PICK v \in ValuesAt(Last(place[1]), place[2]) : Edited(Put(payload, place[1], v))
      BY <3>0
    <3>2. PICK last \in DocKeys : PlaceIs(place, last)
      BY PlacesTyped
    <3>3. v \in Doc3 /\ (place[2] # "options" => v \in Doc2)
      BY ValuesAtTyped
    <3>4. Put(payload, place[1], v) \in Doc5
      BY <3>0, <3>2, <3>3, PutTyped, DocsNested DEF PlaceIs
    <3> QED  BY <3>1, <3>4 DEF Edited
  <2>2. CASE LeaveOut
    <3>1. PICK place \in PlacesOf(type) :
             /\ At(payload, place[1]) # Absent
             /\ Edited(Put(payload, place[1], Absent))
      BY <2>2 DEF LeaveOut
    <3>2. PICK last \in DocKeys : PlaceIs(place, last)
      BY PlacesTyped
    <3>3. Put(payload, place[1], Absent) \in Doc5
      BY <3>1, <3>2, TakeTyped DEF PlaceIs
    <3> QED  BY <3>1, <3>3 DEF Edited
  <2>3. CASE NotAnObject
    <3>1. Null \in Doc5 /\ Arr(<<>>) \in Doc5 /\ Str("some") \in Doc5
      BY Scalars1, DocsNested, ShortArrays DEF Spelling, Doc5
    <3> QED  BY <2>3, <3>1 DEF NotAnObject, Edited
  <2>4. CASE WriteEnvelopeField \/ LeaveOutEnvelopeField \/ NotAnEvent
    BY <2>4 DEF WriteEnvelopeField, LeaveOutEnvelopeField, NotAnEvent, EditedAround
  <2>5. CASE UNCHANGED vars
    BY <2>5 DEF vars
  <2> QED  BY <2>1, <2>2, <2>3, <2>4, <2>5 DEF Next
<1> QED
  BY <1>1, <1>2, PTL DEF Spec
-----------------------------------------------------------------------------
(***************************************************************************)
(* The properties, of every state.                                         *)
(***************************************************************************)

\* validate says the same in both SDKs (validate_event, lib.rs and
\* validation.rs; validateEvent, index.ts): of a payload of any type with its
\* numbers written plainly, whatever else is wrong with it, and however many
\* departures it has, either both SDKs accept it or both refuse it.
THEOREM VerdictsAgree == Spec => []SdksAgreeOnVerdict
<1>1. TypeInv => SdksAgreeOnVerdict
  <2> SUFFICES ASSUME TypeInv, PlainlyWritten
               PROVE  RustVerdict = Ok <=> TsVerdict = Ok
    BY DEF SdksAgreeOnVerdict
  <2>1. RustVerdict = Ok <=> Accepts(type, payload, NumberTooLarge)
    BY RustVerdictIs DEF TypeInv, PlainlyWritten, RustVerdict
  <2>2. TsVerdict = Ok <=> Accepts(type, payload, NumberTooLarge)
    BY TsVerdictIs DEF TypeInv, PlainlyWritten, Holds, TsVerdict
  <2> QED  BY <2>1, <2>2
<1> QED
  BY <1>1, TypeInvHolds, PTL

\* What validate of one SDK accepts, both parse, and the canonical bytes it
\* emits are accepted by the other if they are Unicode (ValidIsForwardable),
\* whatever the spelling of its numbers and the order of its keys.
THEOREM ValidTravels == Spec => []ValidIsForwardable
<1>1. TypeInv => ValidIsForwardable
  BY RustForwards, TsForwards
     DEF TypeInv, ValidIsForwardable, Known, RustVerdict, TsVerdict
<1> QED
  BY <1>1, TypeInvHolds, PTL

\* What one SDK parses and emits, the other parses and emits again without a
\* change of a byte (RelayKeepsBytes), where no key looks like an array index;
\* also an event that validate would refuse.  TypeScript has to be able to
\* rebuild what it parses (no own __proto__ at the fields of a payload), and
\* what it emits has to be Unicode.
THEOREM BytesTravel == ASSUME "indices" \notin Odd PROVE Spec => []RelayKeepsBytes
<1>1. TypeInv => RelayKeepsBytes
  BY RustBytesAreKept, TsBytesAreKept DEF TypeInv, RelayKeepsBytes
<1> QED
  BY <1>1, TypeInvHolds, PTL

\* Whether serde_json keeps the order of keys changes neither a canonical form
\* nor a verdict of the Rust SDK (FeatureChangesNothing).
THEOREM FeatureIsUnseen == Spec => []FeatureChangesNothing
<1>1. TypeInv => FeatureChangesNothing
  BY OrderChangesNothing DEF TypeInv, FeatureChangesNothing, RustVerdict
<1> QED
  BY <1>1, TypeInvHolds, PTL

\* An answer the pair check admits names an option of the request, if the
\* request validates; and both SDKs admit the same answers (AnswerWasOffered).
THEOREM AnswersAreOffered == Spec => []AnswerWasOffered
<1>1. TypeInv => AnswerWasOffered
  <2> SUFFICES ASSUME TypeInv, type = "decision.requested"
               PROVE  /\ \A answer \in Answers :
                            answers_request(payload, answer) <=> answersRequest(payload, answer)
                      /\ TsVerdict = Ok =>
                            \A answer \in Answers :
                                answersRequest(payload, answer) =>
                                    \E o \in ToSet(Get(payload, "options").items) :
                                        Get(o, "id") = Get(answer, "optionId")
    BY DEF AnswerWasOffered
  <2>1. \A answer \in Answers :
           answers_request(payload, answer) <=> answersRequest(payload, answer)
    BY DEF answers_request, answersRequest
  <2>2. ASSUME TsVerdict = Ok, NEW answer \in Answers, answersRequest(payload, answer)
        PROVE  \E o \in ToSet(Get(payload, "options").items) :
                  Get(o, "id") = Get(answer, "optionId")
    <3>1. type \in KNOWN_TYPES
      BY DEF KNOWN_TYPES
    <3>2. PICK w : w = jsonParse(payload)
      OBVIOUS
    <3>3. w \in Doc5 /\ Like5(payload, w, valueOfNumber)
      BY <3>2, Typed5, LikeRewritten5, Orders, Replacements DEF TypeInv, jsonParse
    <3>4. Accepts(type, w, NumberTooLarge)
      BY <2>2, <3>2, TsVerdictIs DEF TypeInv, TsVerdict
    <3>5. /\ FitsPayload("decision.requested", w, NumberTooLarge)
          /\ payload_rules("decision.requested", w) = Ok
      BY <3>1, <3>4 DEF Accepts
    <3>6. PICK option : Get(answer, "optionId") = Str(option)
      <4>1. PICK option, late : answer =
               Object(<<"decisionId", "optionId", "by", "byTimeout">>,
                   [key \in {"decisionId", "optionId", "by", "byTimeout"} |->
                       CASE key = "optionId" -> Str(option)
                         [] key = "byTimeout" -> Bool(late)
                         [] OTHER -> Str("some")])
        BY DEF Answers
      <4>2. Get(answer, "optionId") = Str(option)
        BY <4>1 DEF Get, Has, Keys, Object
      <4> QED  BY <4>2
    <3>7. CASE Get(payload, "onTimeout") = Get(answer, "optionId")
      BY <3>3, <3>5, <3>6, <3>7, TimeoutIsOffered, Replacements
    <3>8. CASE Get(payload, "onTimeout") # Get(answer, "optionId")
      BY <2>2, <3>8 DEF answersRequest
    <3> QED  BY <3>7, <3>8
  <2> QED  BY <2>1, <2>2
<1> QED
  BY <1>1, TypeInvHolds, PTL
-----------------------------------------------------------------------------
(***************************************************************************)
(* The event around the payload.                                           *)
(***************************************************************************)

\* An event without the value of its payload.
EnvelopeDoc(e) ==
    \/ e \in {Null, Arr(<<>>), Str("some")}
    \/ /\ e.tag = "object" /\ Keys(e) \subseteq EnvelopeFields
       /\ \A key \in Keys(e) : e.members[key] \in LeafDoc
       /\ "payload" \in Keys(e) => e.members["payload"] = Null

EnvelopeInv == EnvelopeDoc(envelope)

\* Every envelope the producer starts from is one of those.
LEMMA EnvelopesTyped ==
    ASSUME NEW t \in Types, NEW e \in Envelopes(t)
    PROVE  EnvelopeDoc(e)
<1>1. ASSUME NEW captured \in BOOLEAN
      PROVE  /\ Envelope(t, captured).tag = "object"
             /\ Keys(Envelope(t, captured)) \subseteq EnvelopeFields
             /\ \A key \in Keys(Envelope(t, captured)) :
                   Envelope(t, captured).members[key] \in LeafDoc
             /\ "payload" \in Keys(Envelope(t, captured)) =>
                   Envelope(t, captured).members["payload"] = Null
  <2> DEFINE chosen == IF captured THEN ToSet(EnvelopeKeys)
                       ELSE ToSet(EnvelopeKeys) \ {"capturedAt"}
             keys == Kept(EnvelopeKeys, chosen)
             value(key) == CASE key = "v" -> Num("one")
                             [] key = "type" -> Str(t)
                             [] key = "seq" -> Num("count")
                             [] key = "payload" -> Null
                             [] OTHER -> Str("some")
             members == [key \in ToSet(keys) |-> value(key)]
  <2>1. Envelope(t, captured) = Object(keys, members)
    BY DEF Envelope
  <2>2. EnvelopeKeys \in Seq(EnvelopeFields)
    BY DEF EnvelopeKeys, Event, Req, Opt, EnvelopeFields
  <2>3. ToSet(keys) \subseteq EnvelopeFields
    <3>1. ToSet(keys) = ToSet(EnvelopeKeys) \cap chosen
      BY <2>2, KeptSet
    <3>2. ToSet(EnvelopeKeys) \subseteq EnvelopeFields
      BY <2>2, LenProperties, ElementOfSeq DEF ToSet
    <3> QED  BY <3>1, <3>2
  <2>4. \A key : value(key) \in LeafDoc
    BY Scalars1 DEF Spelling, NumberKinds
  <2>5. value("payload") = Null
    OBVIOUS
  <2> HIDE DEF value, keys
  <2>6. members["payload"] = Null \/ "payload" \notin ToSet(keys)
    BY <2>5
  <2> QED  BY <2>1, <2>3, <2>4, <2>6 DEF Keys, Object
<1>2. e = Envelope(t, TRUE) \/ e = Envelope(t, FALSE) \/ e = Backwards(Envelope(t, TRUE))
  BY DEF Envelopes
<1>3. CASE e = Envelope(t, TRUE)
  BY <1>1, <1>3 DEF EnvelopeDoc
<1>4. CASE e = Envelope(t, FALSE)
  BY <1>1, <1>4 DEF EnvelopeDoc
<1>5. CASE e = Backwards(Envelope(t, TRUE))
  <2>1. PICK o : o = Envelope(t, TRUE)
    OBVIOUS
  <2>2. e = Object(Reverse(o.keys), o.members)
    BY <1>5, <2>1 DEF Backwards
  <2>3. e.tag = "object" /\ e.members = o.members
    BY <2>2 DEF Object
  <2> QED  BY <1>1, <2>1, <2>3 DEF EnvelopeDoc, Keys
<1> QED
  BY <1>2, <1>3, <1>4, <1>5

\* Whatever is done to it, the envelope is one of those.
THEOREM EnvelopeInvHolds == Spec => []EnvelopeInv
<1>1. Init => EnvelopeInv
  BY EnvelopesTyped DEF Init, EnvelopeInv
<1>2. EnvelopeInv /\ [Next]_vars => EnvelopeInv'
  <2> SUFFICES ASSUME EnvelopeInv, [Next]_vars
               PROVE  EnvelopeInv'
    OBVIOUS
  <2>1. CASE WriteField \/ LeaveOut \/ NotAnObject
    BY <2>1 DEF WriteField, LeaveOut, NotAnObject, Edited, EnvelopeInv
  <2>2. CASE WriteEnvelopeField
    <3>1. PICK key \in EnvelopeFields :
             /\ envelope.tag = "object"
             /\ \E v \in EnvelopeValues(key) : EditedAround(Put(envelope, <<key>>, v))
      BY <2>2 DEF WriteEnvelopeField
    <3>2. PICK v \in EnvelopeValues(key) : envelope' = Put(envelope, <<key>>, v)
      BY <3>1 DEF EditedAround
    <3>3. key # "payload"
      BY DEF EnvelopeValues
    <3>4. v \in LeafDoc
      BY Scalars1, OddTyped DEF EnvelopeValues, Spelling, NumberKinds
    <3>5. v # Absent
      BY <3>4, LeafIsSimple DEF Absent
    <3>6. envelope' = With(envelope, key, v)
      <4>1. Len(<<key>>) = 1 /\ <<key>>[1] = key
        OBVIOUS
      <4>2. envelope' = PutBelow(envelope, key, v)
        BY <3>2, <4>1 DEF Put
      <4> QED  BY <3>1, <3>5, <4>2 DEF PutBelow
    <3>7. /\ envelope'.tag = "object"
          /\ envelope'.members = [k \in Keys(envelope) \union {key} |->
                                     IF k = key THEN v ELSE envelope.members[k]]
      BY <3>6 DEF With, Object
    <3>8. envelope \notin {Null, Arr(<<>>), Str("some")}
      BY <3>1 DEF Null, Arr, Str
    <3> QED  BY <3>3, <3>4, <3>7, <3>8 DEF EnvelopeInv, EnvelopeDoc, Keys
  <2>3. CASE LeaveOutEnvelopeField
    <3>1. PICK key \in Keys(envelope) :
             envelope.tag = "object" /\ envelope' = Put(envelope, <<key>>, Absent)
      BY <2>3 DEF LeaveOutEnvelopeField, EditedAround
    <3>2. envelope' = Without(envelope, {key})
      BY <3>1 DEF Put, PutBelow
    <3>3. /\ envelope'.tag = "object"
          /\ envelope'.members = [k \in Keys(envelope) \ {key} |-> envelope.members[k]]
      BY <3>2 DEF Without, Object
    <3>4. envelope \notin {Null, Arr(<<>>), Str("some")}
      BY <3>1 DEF Null, Arr, Str
    <3> QED  BY <3>3, <3>4 DEF EnvelopeInv, EnvelopeDoc, Keys
  <2>4. CASE NotAnEvent
    BY <2>4 DEF NotAnEvent, EditedAround, EnvelopeInv, EnvelopeDoc
  <2>5. CASE UNCHANGED vars
    BY <2>5 DEF vars, EnvelopeInv
  <2> QED  BY <2>1, <2>2, <2>3, <2>4, <2>5 DEF Next
<1> QED
  BY <1>1, <1>2, PTL DEF Spec

\* An event with a payload: an object, with leaves around the payload.
EventDoc(e, p) ==
    /\ e.tag = "object" /\ Keys(e) \subseteq EnvelopeFields
    /\ \A key \in Keys(e) \ {"payload"} : e.members[key] \in LeafDoc
    /\ "payload" \in Keys(e) => e.members["payload"] = p

RequiredNames == {"v", "type", "runId", "seq", "ts", "payload"}
EventNames == RequiredNames \cup {"capturedAt"}

\* Its envelope is one both SDKs take; what they take for seq differs.
FitsEvent(e, seqs) ==
    /\ Keys(e) \subseteq EventNames /\ RequiredNames \subseteq Keys(e)
    /\ e.members["v"] = Num("one")
    /\ e.members["seq"] \in seqs
    /\ \A key \in {"type", "runId", "ts"} : e.members[key].tag = "string"
    /\ "capturedAt" \in Keys(e) => e.members["capturedAt"].tag = "string"

WholeSeqs == {Num("one"), Num("count")}
ReadSeqs == WholeSeqs \cup {Num("integral_float")}

\* The fields of an event are the same in both SDKs.
LEMMA EventFields ==
    /\ EVENT_FIELDS = EnvelopeKeys
    /\ EnvelopeKeys \in Seq(EventNames) /\ ToSet(EnvelopeKeys) = EventNames
    /\ ToSet(REQUIRED_EVENT_FIELDS) = RequiredNames
<1>1. EnvelopeKeys = <<"v", "type", "runId", "seq", "ts", "payload", "capturedAt">>
  BY DEF EnvelopeKeys, Event, Req, Opt
<1>2. EVENT_FIELDS = <<"v", "type", "runId", "seq", "ts", "payload", "capturedAt">>
  <2> DEFINE names == {"v", "type", "runId", "seq", "ts", "payload", "capturedAt"}
             whole == <<"v", "type", "runId", "seq", "ts", "payload", "capturedAt">>
  <2>1. PICK s : s = REQUIRED_EVENT_FIELDS
    OBVIOUS
  <2>2. /\ s \in Seq(names) /\ Len(s) = 6
        /\ s[1] = "v" /\ s[2] = "type" /\ s[3] = "runId"
        /\ s[4] = "seq" /\ s[5] = "ts" /\ s[6] = "payload"
    BY <2>1 DEF REQUIRED_EVENT_FIELDS
  <2>3. PICK w : w = EVENT_FIELDS
    OBVIOUS
  <2>4. w = Append(s, "capturedAt")
    BY <2>1, <2>3 DEF EVENT_FIELDS
  <2>5. /\ w \in Seq(names) /\ Len(w) = 7 /\ w[7] = "capturedAt"
        /\ \A i \in 1..6 : w[i] = s[i]
    <3>1. "capturedAt" \in names
      OBVIOUS
    <3> HIDE DEF names
    <3>2. PICK last : last = "capturedAt"
      OBVIOUS
    <3>3. s \in Seq(names) /\ last \in names
      BY <2>2, <3>1, <3>2
    <3>4. /\ Append(s, last) \in Seq(names)
          /\ Len(Append(s, last)) = Len(s) + 1
          /\ \A i \in 1..Len(s) : Append(s, last)[i] = s[i]
          /\ Append(s, last)[Len(s) + 1] = last
      BY <3>3, AppendProperties
    <3>5. Len(s) + 1 = 7 /\ w = Append(s, last)
      BY <2>2, <2>4, <3>2
    <3> QED  BY <2>2, <3>2, <3>4, <3>5
  <2>6. whole \in Seq(names) /\ Len(whole) = 7
    OBVIOUS
  <2>7. \A i \in 1..7 : w[i] = whole[i]
    <3> SUFFICES ASSUME NEW i \in 1..7
                 PROVE  w[i] = whole[i]
      OBVIOUS
    <3>1. i \in {1, 2, 3, 4, 5, 6, 7}
      OBVIOUS
    <3> QED  BY <2>2, <2>5, <3>1
  <2> HIDE DEF whole
  <2>8. w = whole
    BY <2>5, <2>6, <2>7, SeqEqual
  <2> QED  BY <2>3, <2>8 DEF whole
<1>3. /\ EnvelopeKeys \in Seq(EventNames) /\ ToSet(EnvelopeKeys) = EventNames
  BY <1>1 DEF ToSet, EventNames, RequiredNames
<1>4. ToSet(REQUIRED_EVENT_FIELDS) = RequiredNames
  BY DEF ToSet, REQUIRED_EVENT_FIELDS, RequiredNames
<1> QED
  BY <1>1, <1>2, <1>3, <1>4

\* The leaves of an event are those of its fields.
LEMMA EventLeaves ==
    ASSUME NEW e, NEW p \in Doc5, EventDoc(e, p)
    PROVE  /\ \A key \in Keys(e) \ {"payload"} : e.members[key] \in LeafValues(e)
           /\ \A leaf \in LeafValues(e) :
                 \/ leaf \in LeafValues(p) /\ "payload" \in Keys(e)
                 \/ \E key \in Keys(e) \ {"payload"} : leaf = e.members[key]
           /\ "payload" \in Keys(e) => LeafValues(p) \subseteq LeafValues(e)
<1> DEFINE below == [place \in Places(e) |-> Leaves4(Child(e, place))]
<1>1. e.tag = "object" /\ Places(e) = Keys(e) /\ \A key : e.members[key] = Child(e, key)
  BY MemberIsChild DEF EventDoc
<1>2. Leaves(e) =
         UNION {{Under(e, place, leaf) : leaf \in below[place]} : place \in Keys(e)}
  BY <1>1 DEF Leaves, LeavesOver
<1>3. \A place, leaf : Under(e, place, leaf).value = leaf.value
  BY DEF Under, Leaf
<1>5. \A place \in Keys(e) : below[place] = Leaves4(e.members[place])
  BY <1>1
<1> HIDE DEF below
<1>4. LeafValues(e) = UNION {Values(below[place]) : place \in Keys(e)}
  <2>1. Values(Leaves(e)) = UNION {Values(below[place]) : place \in Keys(e)}
    BY <1>2, <1>3 DEF Values
  <2> QED  BY <2>1 DEF LeafValues, Values
<1>6. ASSUME NEW key \in Keys(e) \ {"payload"}
      PROVE  Values(below[key]) = {e.members[key]}
  <2>1. e.members[key] \in LeafDoc /\ e.members[key] \in DocsOver(Doc3)
    BY DEF EventDoc, DocsOver
  <2>2. Values(Leaves4(e.members[key])) = {e.members[key]}
    BY <2>1, LeavesParts DEF Leaves4
  <2> QED  BY <1>5, <2>2
<1>7. "payload" \in Keys(e) => Values(below["payload"]) = LeafValues(p)
  <2>1. Values(Leaves4(p)) = LeafValues(p)
    BY OneLess5 DEF LeafValues, Values
  <2> QED  BY <1>5, <2>1 DEF EventDoc
<1> QED
  BY <1>4, <1>6, <1>7

\* parse_event, of an event.
LEMMA RustReadsEvent ==
    ASSUME NEW e, NEW p \in Doc5, EventDoc(e, p)
    PROVE  parses_event(e) <=>
              /\ can_be_read(e) /\ FitsEvent(e, WholeSeqs)
              /\ parses_payload(e.members["type"].is, p)
<1>0. e.tag = "object" /\ \A key : Get(e, key) = IF key \in Keys(e) THEN e.members[key] ELSE Absent
  BY DEF EventDoc, Get, Has
<1>1. (\A s \in ToSet(Event) :
          IF Has(e, s.key) THEN deserialize_as(s.shape, Get(e, s.key)) ELSE ~s.required)
      <=> /\ RequiredNames \subseteq Keys(e)
          /\ e.members["v"] = Num("one") /\ e.members["seq"] \in WholeSeqs
          /\ \A key \in {"type", "runId", "ts"} : e.members[key].tag = "string"
          /\ "capturedAt" \in Keys(e) => e.members["capturedAt"].tag = "string"
  <2> DEFINE Taken(s) == IF Has(e, s.key) THEN deserialize_as(s.shape, Get(e, s.key))
                         ELSE ~s.required
  <2>1. ToSet(Event) = {Req("v", "version"), Req("type", "string"), Req("runId", "string"),
                        Req("seq", "seq"), Req("ts", "string"), Req("payload", "any"),
                        Opt("capturedAt", "string")}
    BY DEF ToSet, Event
  <2>2. Taken(Req("v", "version")) <=> "v" \in Keys(e) /\ e.members["v"] = Num("one")
    BY <1>0 DEF Req, Has, deserialize_as, deserialize_version
  <2>3. \A key : Taken(Req(key, "string")) <=> key \in Keys(e) /\ e.members[key].tag = "string"
    BY <1>0 DEF Req, Has, deserialize_as
  <2>4. Taken(Req("seq", "seq")) <=> "seq" \in Keys(e) /\ e.members["seq"] \in WholeSeqs
    BY <1>0 DEF Req, Has, deserialize_as, deserialize_seq, is_safe_u64, WholeSeqs, Num
  <2>5. Taken(Req("payload", "any")) <=> "payload" \in Keys(e)
    BY <1>0 DEF Req, Has, deserialize_as
  <2>6. Taken(Opt("capturedAt", "string")) <=>
           ("capturedAt" \in Keys(e) => e.members["capturedAt"].tag = "string")
    BY <1>0 DEF Opt, Has, deserialize_as
  <2> HIDE DEF Taken
  <2>7. (\A s \in ToSet(Event) : Taken(s)) <=>
           /\ Taken(Req("v", "version")) /\ Taken(Req("type", "string"))
           /\ Taken(Req("runId", "string")) /\ Taken(Req("seq", "seq"))
           /\ Taken(Req("ts", "string")) /\ Taken(Req("payload", "any"))
           /\ Taken(Opt("capturedAt", "string"))
    BY <2>1
  <2>8. (\A s \in ToSet(Event) : Taken(s)) <=>
           /\ RequiredNames \subseteq Keys(e)
           /\ e.members["v"] = Num("one") /\ e.members["seq"] \in WholeSeqs
           /\ \A key \in {"type", "runId", "ts"} : e.members[key].tag = "string"
           /\ "capturedAt" \in Keys(e) => e.members["capturedAt"].tag = "string"
    BY <2>2, <2>3, <2>4, <2>5, <2>6, <2>7 DEF RequiredNames
  <2> QED  BY <2>8 DEF Taken
<1>2. reads_event(e) <=> can_be_read(e) /\ FitsEvent(e, WholeSeqs)
  BY <1>0, <1>1, EventFields DEF reads_event, FitsEvent
<1>3. ASSUME FitsEvent(e, WholeSeqs)
      PROVE  Get(e, "type").is = e.members["type"].is /\ Get(e, "payload") = p
  <2>1. "type" \in Keys(e) /\ "payload" \in Keys(e)
    BY <1>3 DEF FitsEvent, RequiredNames
  <2> QED  BY <1>0, <2>1 DEF EventDoc
<1> QED
  BY <1>2, <1>3 DEF parses_event

\* An event can be read if its payload can, and its fields are ones of an event
\* and Unicode.
LEMMA EventCanBeRead ==
    ASSUME NEW e, NEW p \in Doc5, EventDoc(e, p), FitsEvent(e, ReadSeqs),
           can_be_read(p),
           \A key \in Keys(e) \ {"payload"} : e.members[key] # Str("lone")
    PROVE  can_be_read(e)
<1>1. ASSUME NEW key \in Keys(e) \ {"payload"}
      PROVE  e.members[key] # Num("overflow")
  <2>1. Keys(e) \ {"payload"} \subseteq {"v", "type", "runId", "seq", "ts", "capturedAt"}
    BY DEF FitsEvent, EventNames, RequiredNames
  <2> QED  BY <1>1, <2>1 DEF FitsEvent, ReadSeqs, WholeSeqs, Num
<1> QED
  BY <1>1, EventLeaves DEF can_be_read

\* What JSON.parse makes of an event.
LEMMA EventParsed ==
    ASSUME NEW e, NEW p, EventDoc(e, p)
    PROVE  /\ jsonParse(e).tag = "object" /\ Keys(jsonParse(e)) = Keys(e)
           /\ \A key \in Keys(e) \ {"payload"} :
                 jsonParse(e).members[key] = Replace(e.members[key], valueOfNumber)
<1> DEFINE below == [q \in Places(e) |-> Rewrite4(Child(e, q), IntegerKeys, valueOfNumber)]
<1>1. e.tag = "object" /\ Places(e) = Keys(e) /\ \A key : e.members[key] = Child(e, key)
  BY MemberIsChild DEF EventDoc
<1>2. jsonParse(e) = Object(Reordered(e, IntegerKeys), below)
  BY <1>1 DEF jsonParse, Rewrite, RewriteOver
<1>3. ASSUME NEW key \in Keys(e) \ {"payload"}
      PROVE  below[key] = Replace(e.members[key], valueOfNumber)
  <2>1. e.members[key] \in LeafDoc
    BY DEF EventDoc
  <2>2. below[key] = Rewrite4(e.members[key], IntegerKeys, valueOfNumber)
    BY <1>1
  <2> QED  BY <2>1, <2>2, RewriteLeaf DEF Rewrite4
<1>4. DOMAIN below = Keys(e)
  BY <1>1
<1> HIDE DEF below
<1> QED
  BY <1>2, <1>3, <1>4 DEF Keys, Object

\* parseEvent, of an event.
LEMMA TsReadsEvent ==
    ASSUME NEW e, NEW p, EventDoc(e, p)
    PROVE  parsesEvent(e) <=>
              FitsEvent(e, ReadSeqs) /\ parsesPayload(e.members["type"].is, p)
<1>1. PICK w : w = jsonParse(e)
  OBVIOUS
<1>2. /\ w.tag = "object" /\ Keys(w) = Keys(e)
      /\ \A key \in Keys(e) \ {"payload"} : w.members[key] = Replace(e.members[key], valueOfNumber)
      /\ \A key \in Keys(e) \ {"payload"} : e.members[key] \in LeafDoc
  BY <1>1, EventParsed DEF EventDoc
<1>3. \A leaf \in LeafDoc :
         /\ Replace(leaf, valueOfNumber) = Num("one") <=> leaf = Num("one")
         /\ Replace(leaf, valueOfNumber) \in {Num("one"), Num("count")} <=> leaf \in ReadSeqs
         /\ Replace(leaf, valueOfNumber).tag = "string" <=> leaf.tag = "string"
         /\ leaf.tag = "string" => Replace(leaf, valueOfNumber) = leaf
  BY DEF LeafDoc, Str, Num, Bool, Null, NumberKinds, Replace, valueOfNumber, ReadSeqs, WholeSeqs
<1>4. envelopeFieldsFit(w) <=> Keys(e) \subseteq EventNames /\ RequiredNames \subseteq Keys(e)
  BY <1>2, EventFields DEF envelopeFieldsFit
<1>5. \A key : Get(w, key) = IF key \in Keys(e) THEN w.members[key] ELSE Absent
  BY <1>2 DEF Get, Has
<1>6. ASSUME RequiredNames \subseteq Keys(e)
      PROVE  /\ Get(w, "v") = Num("one") <=> e.members["v"] = Num("one")
             /\ Get(w, "seq") \in {Num("one"), Num("count")} <=> e.members["seq"] \in ReadSeqs
             /\ \A key \in {"type", "runId", "ts"} :
                   Get(w, key).tag = "string" <=> e.members[key].tag = "string"
             /\ e.members["type"].tag = "string" => Get(w, "type") = e.members["type"]
             /\ Get(e, "payload") = p
  <2>1. {"v", "type", "runId", "seq", "ts"} \subseteq Keys(e) \ {"payload"} /\ "payload" \in Keys(e)
    BY <1>6 DEF RequiredNames
  <2>2. \A key \in {"v", "type", "runId", "seq", "ts"} :
           Get(w, key) = Replace(e.members[key], valueOfNumber) /\ e.members[key] \in LeafDoc
    BY <1>2, <1>5, <2>1
  <2>3. Get(e, "payload") = p
    BY <2>1 DEF EventDoc, Get, Has
  <2> QED  BY <1>3, <2>2, <2>3
<1>7. (Has(w, "capturedAt") => Get(w, "capturedAt").tag = "string")
      <=> ("capturedAt" \in Keys(e) => e.members["capturedAt"].tag = "string")
  BY <1>2, <1>3, <1>5 DEF Has
<1>8. parsesEvent(e) <=>
         /\ w.tag = "object"
         /\ envelopeFieldsFit(w)
         /\ Get(w, "v") = Num("one")
         /\ \A key \in {"type", "runId", "ts"} : Get(w, key).tag = "string"
         /\ Get(w, "seq") \in {Num("one"), Num("count")}
         /\ Has(w, "capturedAt") => Get(w, "capturedAt").tag = "string"
         /\ parsesPayload(Get(w, "type").is, Get(e, "payload"))
  BY <1>1 DEF parsesEvent
<1> QED
  BY <1>2, <1>4, <1>6, <1>7, <1>8 DEF FitsEvent

-----------------------------------------------------------------------------
(***************************************************************************)
(* Events: both SDKs take the same ones, and emit the same text of them.   *)
(***************************************************************************)

\* A payload without an integer written as a fraction is read by both SDKs or
\* by none.
LEMMA SameReads ==
    ASSUME NEW v \in Doc5, NEW t, can_be_read(v), Num("integral_float") \notin LeafValues(v)
    PROVE  parses_payload(t, v) <=> parsesPayload(t, v)
<1>1. SameOn(Values(Leaves(v)), valueOfNumber, roundedNumber)
  <2>1. Values(Leaves(v)) \subseteq LeafDoc /\ Num("integral_float") \notin Values(Leaves(v))
    BY LeavesTyped5 DEF LeafValues, Values
  <2> QED  BY <2>1 DEF SameOn, Replace, valueOfNumber, roundedNumber, Num
<1>2. jsonParse(v) = Rewrite(v, IntegerKeys, roundedNumber)
  BY <1>1, Alike5 DEF jsonParse
<1>3. Reads(t, v) => Reads(t, jsonParse(v))
  BY <1>2, ReadRewritten, Orders, Replacements, ReplacementsKeep, ReplacementsSafe
<1>4. ASSUME Reads(t, jsonParse(v))
      PROVE  Reads(t, v)
  <2>1. PICK w : w = Rewrite(v, IntegerKeys, roundedNumber)
    OBVIOUS
  <2>2. Like5(v, w, roundedNumber)
    BY <2>1, LikeRewritten5, Replacements
  <2>3. LeafValues(w) \cap Unsafe = {} /\ (t \in KNOWN_TYPES => FitsPayload(t, w, NumberTooLarge))
    BY <1>2, <1>4, <2>1 DEF Reads
  <2>4. LeafValues(v) \cap Unsafe = {}
    BY <2>1, <2>3, SafeRewritten, Orders, Replacements, ReplacementsSafe
  <2>5. t \in KNOWN_TYPES => FitsPayload(t, v, NumberTooLarge)
    BY <2>2, <2>3, PayloadShows, ReplacementsKeep
  <2> QED  BY <2>4, <2>5 DEF Reads
<1> QED
  BY <1>3, <1>4, RustReads, TsReads

\* What the fields of an event that fits are, payload aside.
LEMMA FittingFields ==
    ASSUME NEW e, NEW seqs, FitsEvent(e, seqs), NEW key \in Keys(e) \ {"payload"}
    PROVE  \/ e.members[key].tag = "string" /\ key \in {"type", "runId", "ts", "capturedAt"}
           \/ e.members[key] = Num("one") /\ key = "v"
           \/ e.members[key] \in seqs /\ key = "seq"
  BY DEF FitsEvent, EventNames, RequiredNames

\* What Rust emits of an event it read, TypeScript reads and emits unchanged.
LEMMA RustEventIsKept ==
    ASSUME "indices" \notin Odd, NEW e, NEW p \in Doc5, EventDoc(e, p), parses_event(e)
    PROVE  LET emitted == serialise_event(e)
           IN  /\ parsesEvent(emitted)
               /\ CanRebuild(Get(emitted, "type").is, Get(emitted, "payload")) =>
                     serialiseEvent(emitted) = emitted
<1>1. PICK t : t = e.members["type"].is
  OBVIOUS
<1>2. FitsEvent(e, WholeSeqs) /\ parses_payload(t, p)
  BY <1>1, RustReadsEvent
<1>3. {"type", "payload"} \subseteq Keys(e) /\ e.members["payload"] = p
  BY <1>2 DEF FitsEvent, RequiredNames, EventDoc
<1>4. PICK c : c = canonicalise_numbers(from_str(p))
  OBVIOUS
<1>5. /\ c \in Doc5
      /\ parsesPayload(t, c)
      /\ CanRebuild(t, c) => serialisePayloadCanonical(parsedPayload(t, c)) = c
  <2>1. c = Rewrite(p, KeyOrder, canonicalise_number)
    BY <1>4, OrderChangesNothing
  <2>2. c \in Doc5
    BY <2>1, Typed5, Orders, Replacements
  <2> QED  BY <1>2, <1>4, <2>2, RustBytesAreKept
<1>6. PICK E : E = serialise_event(e)
  OBVIOUS
<1> DEFINE members == [key \in Keys(e) |-> IF key = "payload" THEN c ELSE e.members[key]]
<1>7. E = Object(Kept(EnvelopeKeys, Keys(e)), members)
  BY <1>3, <1>4, <1>6 DEF serialise_event
<1>8. /\ E.tag = "object" /\ E.members = members /\ Keys(E) = Keys(e)
  BY <1>7 DEF Object, Keys
<1>9. /\ E.members["payload"] = c
      /\ \A key \in Keys(e) \ {"payload"} : E.members[key] = e.members[key]
  BY <1>3, <1>8
<1>10. EventDoc(E, c) /\ FitsEvent(E, WholeSeqs) /\ FitsEvent(E, ReadSeqs)
       /\ E.members["type"].is = t
  BY <1>1, <1>2, <1>3, <1>8, <1>9 DEF EventDoc, FitsEvent, RequiredNames, ReadSeqs
<1>11. parsesEvent(E)
  BY <1>5, <1>10, TsReadsEvent
<1>12. PICK w : w = jsonParse(E)
  OBVIOUS
<1>13. /\ Keys(w) = Keys(e)
       /\ \A key \in Keys(e) \ {"payload"} : w.members[key] = E.members[key]
  <2>1. /\ w.tag = "object" /\ Keys(w) = Keys(e)
        /\ \A key \in Keys(e) \ {"payload"} :
              w.members[key] = Replace(E.members[key], valueOfNumber)
    BY <1>8, <1>10, <1>12, EventParsed
  <2>2. ASSUME NEW key \in Keys(e) \ {"payload"}
        PROVE  Replace(E.members[key], valueOfNumber) = E.members[key]
    <3>1. E.members[key].tag = "string" \/ E.members[key] \in WholeSeqs
      BY <1>8, <1>10, FittingFields DEF WholeSeqs
    <3>2. E.members[key] \notin DOMAIN valueOfNumber
      BY <3>1 DEF valueOfNumber, WholeSeqs, Num
    <3> QED  BY <3>2 DEF Replace
  <2> QED  BY <2>1, <2>2
<1>14. Get(w, "type").is = t /\ Get(E, "payload") = c
  <2>1. "type" \in Keys(w) /\ "payload" \in Keys(E)
    BY <1>3, <1>8, <1>13
  <2>2. Get(w, "type") = w.members["type"] /\ Get(E, "payload") = E.members["payload"]
    BY <2>1 DEF Get, Has
  <2> QED  BY <1>3, <1>9, <1>10, <1>13, <2>2
<1>15. Keys(w) \cap ToSet(EVENT_FIELDS) = Keys(e)
  BY <1>2, <1>13, EventFields DEF FitsEvent
<1>16. serialiseEvent(E) =
          Object(Kept(EVENT_FIELDS, Keys(w)),
                 [key \in Keys(w) \cap ToSet(EVENT_FIELDS) |->
                    IF key = "payload"
                    THEN serialisePayloadCanonical(parsedPayload(Get(w, "type").is, Get(E, "payload")))
                    ELSE w.members[key]])
  BY <1>12 DEF serialiseEvent
<1>17. ASSUME CanRebuild(t, c)
       PROVE  serialiseEvent(E) = E
  <2>1. [key \in Keys(w) \cap ToSet(EVENT_FIELDS) |->
            IF key = "payload"
            THEN serialisePayloadCanonical(parsedPayload(Get(w, "type").is, Get(E, "payload")))
            ELSE w.members[key]] = members
    BY <1>5, <1>9, <1>13, <1>14, <1>15, <1>17
  <2> HIDE DEF members
  <2> QED  BY <1>7, <1>13, <1>16, <2>1, EventFields
<1>18. Get(E, "type").is = t /\ Get(E, "payload") = c
  BY <1>3, <1>8, <1>9, <1>10, <1>14 DEF Get, Has
<1> QED
  BY <1>6, <1>11, <1>17, <1>18

\* What TypeScript emits of an event it read, Rust reads and emits unchanged.
LEMMA TsEventIsKept ==
    ASSUME "indices" \notin Odd, NEW e, NEW p \in Doc5, EventDoc(e, p), parsesEvent(e)
    PROVE  LET emitted == serialiseEvent(e)
           IN  IsUnicode(emitted) =>
                  parses_event(emitted) /\ serialise_event(emitted) = emitted
<1>1. PICK t : t = e.members["type"].is
  OBVIOUS
<1>2. FitsEvent(e, ReadSeqs) /\ parsesPayload(t, p)
  BY <1>1, TsReadsEvent
<1>3. {"type", "payload"} \subseteq Keys(e) /\ e.members["payload"] = p
  BY <1>2 DEF FitsEvent, RequiredNames, EventDoc
<1>4. PICK c : c = serialisePayloadCanonical(parsedPayload(t, p))
  OBVIOUS
<1>5. /\ c \in Doc5
      /\ IsUnicode(c) => parses_payload(t, c) /\ canonicalise_numbers(from_str(c)) = c
  <2>1. PICK q : q = parsedPayload(t, p)
    OBVIOUS
  <2>2. q \in Doc5 /\ c = Rewrite(q, sortObjectKeysByUtf8Bytes, notFinite)
    BY <1>2, <1>4, <2>1, ParsedIsEmitted DEF serialisePayloadCanonical
  <2>3. c \in Doc5
    BY <2>2, Typed5, Orders, Replacements
  <2> QED  BY <1>2, <1>4, <2>3, TsBytesAreKept
<1>6. PICK w : w = jsonParse(e)
  OBVIOUS
<1>7. /\ Keys(w) = Keys(e)
      /\ \A key \in Keys(e) \ {"payload"} : w.members[key] = Replace(e.members[key], valueOfNumber)
  BY <1>6, EventParsed
<1>8. ASSUME NEW key \in Keys(e) \ {"payload"}
      PROVE  /\ w.members[key] \in LeafDoc
             /\ e.members[key].tag = "string" => w.members[key] = e.members[key]
             /\ e.members[key] = Num("one") => w.members[key] = Num("one")
             /\ e.members[key] \in ReadSeqs => w.members[key] \in WholeSeqs
  <2>1. e.members[key] \in LeafDoc
    BY DEF EventDoc
  <2>2. w.members[key] = Replace(e.members[key], valueOfNumber)
    BY <1>7
  <2>3. w.members[key] \in LeafDoc
    BY <2>1, <2>2, Replacements DEF Tame
  <2>4. \A v : /\ v.tag = "string" => Replace(v, valueOfNumber) = v
               /\ v = Num("one") => Replace(v, valueOfNumber) = v
               /\ v \in ReadSeqs => Replace(v, valueOfNumber) \in WholeSeqs
    BY DEF Replace, valueOfNumber, Num, ReadSeqs, WholeSeqs
  <2> QED  BY <2>2, <2>3, <2>4
<1>9. Get(w, "type").is = t /\ Get(e, "payload") = p
  <2>1. "type" \in Keys(w) /\ "payload" \in Keys(e)
    BY <1>3, <1>7
  <2>2. Get(w, "type") = w.members["type"] /\ Get(e, "payload") = e.members["payload"]
    BY <2>1 DEF Get, Has
  <2>3. w.members["type"] = e.members["type"]
    BY <1>2, <1>3, <1>8 DEF FitsEvent
  <2> QED  BY <1>1, <1>3, <2>2, <2>3
<1>10. Keys(w) \cap ToSet(EVENT_FIELDS) = Keys(e)
  BY <1>2, <1>7, EventFields DEF FitsEvent
<1> DEFINE members == [key \in Keys(e) |-> IF key = "payload" THEN c ELSE w.members[key]]
<1>11. PICK E : E = serialiseEvent(e)
  OBVIOUS
<1>12. E = Object(Kept(EnvelopeKeys, Keys(e)), members)
  BY <1>4, <1>6, <1>7, <1>9, <1>10, <1>11, EventFields DEF serialiseEvent
<1>13. E.tag = "object" /\ E.members = members /\ Keys(E) = Keys(e)
  BY <1>12 DEF Object, Keys
<1>14. /\ E.members["payload"] = c
       /\ \A key \in Keys(e) \ {"payload"} : E.members[key] = w.members[key]
  BY <1>3, <1>13
<1>15. /\ EventDoc(E, c) /\ FitsEvent(E, WholeSeqs) /\ E.members["type"].is = t
  <2>1. EventDoc(E, c)
    BY <1>8, <1>13, <1>14 DEF EventDoc
  <2>2. FitsEvent(E, WholeSeqs)
    BY <1>2, <1>8, <1>13, <1>14 DEF FitsEvent, RequiredNames
  <2>3. E.members["type"] = e.members["type"]
    BY <1>2, <1>3, <1>8, <1>14 DEF FitsEvent
  <2> QED  BY <1>1, <2>1, <2>2, <2>3
<1>16. ASSUME IsUnicode(E)
       PROVE  parses_event(E) /\ serialise_event(E) = E
  <2>1. IsUnicode(c)
    BY <1>3, <1>5, <1>13, <1>15, <1>16, EventLeaves DEF IsUnicode
  <2>2. parses_payload(t, c) /\ canonicalise_numbers(from_str(c)) = c
    BY <1>5, <2>1
  <2>3. can_be_read(E)
    <3>1. can_be_read(c)
      BY <1>5, <2>2, RustReads
    <3>2. \A key \in Keys(E) \ {"payload"} : E.members[key] # Str("lone")
      BY <1>5, <1>15, <1>16, EventLeaves DEF IsUnicode
    <3>3. FitsEvent(E, ReadSeqs)
      BY <1>15 DEF FitsEvent, ReadSeqs
    <3> QED  BY <1>5, <1>15, <3>1, <3>2, <3>3, EventCanBeRead
  <2>4. parses_event(E)
    BY <1>5, <1>15, <2>2, <2>3, RustReadsEvent
  <2>5. [key \in Keys(E) |-> IF key = "payload"
                             THEN canonicalise_numbers(from_str(E.members[key]))
                             ELSE E.members[key]] = members
    BY <1>13, <1>14, <2>2
  <2> HIDE DEF members
  <2>6. serialise_event(E) = E
    BY <1>12, <1>13, <2>5 DEF serialise_event
  <2> QED  BY <2>4, <2>6
<1> QED
  BY <1>11, <1>16

\* The text of the event is no object, or an envelope around the payload.
LEMMA DocumentIs ==
    ASSUME TypeInv, EnvelopeInv
    PROVE  \/ Document \in {Null, Arr(<<>>), Str("some")}
           \/ EventDoc(Document, payload)
<1>0. PICK o : o = envelope
  OBVIOUS
<1>1. CASE o \in {Null, Arr(<<>>), Str("some")}
  BY <1>0, <1>1 DEF Document, Null, Arr, Str
<1>4. ASSUME o \notin {Null, Arr(<<>>), Str("some")}
      PROVE  /\ o.tag = "object" /\ Keys(o) \subseteq EnvelopeFields
             /\ \A key \in Keys(o) : o.members[key] \in LeafDoc
  BY <1>0, <1>4 DEF EnvelopeInv, EnvelopeDoc
<1>2. CASE o \notin {Null, Arr(<<>>), Str("some")} /\ ~Has(o, "payload")
  BY <1>0, <1>2, <1>4 DEF Document, EventDoc, Has
<1>3. CASE o \notin {Null, Arr(<<>>), Str("some")} /\ Has(o, "payload")
  <2>1. PICK d : d = Document
    OBVIOUS
  <2>2. d = With(o, "payload", payload)
    BY <1>0, <1>3, <1>4, <2>1 DEF Document
  <2>3. /\ d.tag = "object"
        /\ d.members = [k \in Keys(o) \union {"payload"} |->
                           IF k = "payload" THEN payload ELSE o.members[k]]
    BY <2>2 DEF With, Object
  <2>5. Keys(d) = Keys(o) \cup {"payload"}
    BY <2>3 DEF Keys
  <2>4. EventDoc(d, payload)
    BY <1>3, <1>4, <2>3, <2>5 DEF EventDoc, EnvelopeFields
  <2> QED  BY <2>1, <2>4
<1> QED
  BY <1>1, <1>2, <1>3

\* Where no number is an integer written as a fraction and Rust can read the
\* text, both SDKs take the same events.
LEMMA SameEvents ==
    ASSUME TypeInv, EnvelopeInv, EventDoc(Document, payload),
           Num("integral_float") \notin LeafValues(envelope), can_be_read(envelope),
           PlainlyWritten
    PROVE  parses_event(Document) <=> parsesEvent(Document)
<1>1. payload \in Doc5 /\ can_be_read(payload) /\ Num("integral_float") \notin LeafValues(payload)
  BY DEF TypeInv, PlainlyWritten, Holds
<1>2. PICK d : d = Document
  OBVIOUS
<1>3. PICK t : t = d.members["type"].is
  OBVIOUS
<1>4. parses_event(d) <=>
         can_be_read(d) /\ FitsEvent(d, WholeSeqs) /\ parses_payload(t, payload)
  BY <1>1, <1>2, <1>3, RustReadsEvent
<1>5. parsesEvent(d) <=> FitsEvent(d, ReadSeqs) /\ parsesPayload(t, payload)
  BY <1>1, <1>2, <1>3, TsReadsEvent
<1>6. parses_payload(t, payload) <=> parsesPayload(t, payload)
  BY <1>1, SameReads
<1>7. ASSUME NEW key \in Keys(d) \ {"payload"}
      PROVE  d.members[key] \in LeafValues(envelope)
  <2>0. envelope \notin {Null, Arr(<<>>), Str("some")}
    BY <1>2 DEF EventDoc, Document, Null, Arr, Str
  <2>1. /\ envelope.tag = "object" /\ Keys(envelope) \subseteq EnvelopeFields
        /\ \A k \in Keys(envelope) : envelope.members[k] \in LeafDoc
        /\ "payload" \in Keys(envelope) => envelope.members["payload"] = Null
    BY <2>0 DEF EnvelopeInv, EnvelopeDoc
  <2>2. key \in Keys(envelope) /\ d.members[key] = envelope.members[key]
    <3>1. CASE ~Has(envelope, "payload")
      BY <1>2, <1>7, <3>1 DEF Document
    <3>2. CASE Has(envelope, "payload")
      <4>1. d = With(envelope, "payload", payload)
        BY <1>2, <2>1, <3>2 DEF Document
      <4>2. d.members = [k \in Keys(envelope) \union {"payload"} |->
                           IF k = "payload" THEN payload ELSE envelope.members[k]]
        BY <4>1 DEF With, Object
      <4> QED  BY <1>7, <4>2 DEF Keys
    <3> QED  BY <3>1, <3>2
  <2>3. EventDoc(envelope, Null) /\ Null \in Doc5
    <3>1. Null \in Doc5
      BY Scalars1, DocsNested
    <3> QED  BY <2>1, <3>1 DEF EventDoc
  <2>4. envelope.members[key] \in LeafValues(envelope)
    BY <1>7, <2>2, <2>3, EventLeaves
  <2> QED  BY <2>2, <2>4
<1>8. can_be_read(d)
  <2>1. \A leaf \in LeafValues(d) : leaf \in LeafValues(payload) \cup LeafValues(envelope)
    BY <1>1, <1>2, <1>7, EventLeaves
  <2> QED  BY <1>1, <2>1 DEF can_be_read
<1>9. FitsEvent(d, WholeSeqs) <=> FitsEvent(d, ReadSeqs)
  <2>1. "seq" \in Keys(d) => d.members["seq"] # Num("integral_float")
    BY <1>7
  <2> QED  BY <2>1 DEF FitsEvent, ReadSeqs, RequiredNames
<1> QED
  BY <1>2, <1>4, <1>5, <1>6, <1>8, <1>9

\* Both SDKs parse the same events, and what one emits of an event it parsed
\* the other parses and emits unchanged (parse_event and parseEvent, lib.rs and
\* index.ts; serialise_event and serialiseEvent), whatever the envelope and the
\* payload went through, under the conditions BytesTravel has.
THEOREM EventsAgree ==
    ASSUME "indices" \notin Odd
    PROVE  Spec => []EnvelopesAgree
<1>1. TypeInv /\ EnvelopeInv => EnvelopesAgree
  <2> SUFFICES ASSUME TypeInv, EnvelopeInv
               PROVE  EnvelopesAgree
    OBVIOUS
  <2>1. CASE Document \in {Null, Arr(<<>>), Str("some")}
    <3>1. PICK d : d = Document
      OBVIOUS
    <3>2. d \in LeafDoc \/ d = Arr(<<>>)
      BY <2>1, <3>1, Scalars1 DEF Spelling
    <3>3. d.tag # "object"
      BY <2>1, <3>1 DEF Null, Arr, Str
    <3>4. ~parses_event(d)
      BY <3>3 DEF parses_event, reads_event
    <3>5. ~parsesEvent(d)
      <4>1. CASE d.tag = "array"
        BY <4>1 DEF parsesEvent, jsonParse, Rewrite, RewriteOver, Arr
      <4>2. CASE d \in {Null, Str("some")}
        <5>1. jsonParse(d) = Replace(d, valueOfNumber)
          BY <4>2 DEF jsonParse, Rewrite, RewriteOver, Null, Str
        <5>2. Replace(d, valueOfNumber) = d
          BY <4>2 DEF Replace, valueOfNumber, Num, Null, Str
        <5> QED  BY <3>3, <5>1, <5>2 DEF parsesEvent
      <4> QED  BY <2>1, <3>1, <4>1, <4>2 DEF Arr
    <3> QED  BY <3>1, <3>4, <3>5 DEF EnvelopesAgree
  <2>2. CASE EventDoc(Document, payload)
    <3>1. payload \in Doc5
      BY DEF TypeInv
    <3>2. PICK d : d = Document
      OBVIOUS
    <3>3. parses_event(d) =>
             LET emitted == serialise_event(d)
             IN  /\ parsesEvent(emitted)
                 /\ CanRebuild(Get(emitted, "type").is, Get(emitted, "payload")) =>
                       serialiseEvent(emitted) = emitted
      BY <2>2, <3>1, <3>2, RustEventIsKept
    <3>4. parsesEvent(d) =>
             LET emitted == serialiseEvent(d)
             IN  IsUnicode(emitted) =>
                    parses_event(emitted) /\ serialise_event(emitted) = emitted
      BY <2>2, <3>1, <3>2, TsEventIsKept
    <3>5. (/\ Num("integral_float") \notin LeafValues(envelope)
           /\ can_be_read(envelope) /\ PlainlyWritten)
             => (parses_event(d) <=> parsesEvent(d))
      BY <2>2, <3>2, SameEvents
    <3> QED  BY <3>2, <3>3, <3>4, <3>5 DEF EnvelopesAgree
  <2> QED  BY <2>1, <2>2, DocumentIs
<1> QED
  BY <1>1, TypeInvHolds, EnvelopeInvHolds, PTL
=============================================================================
