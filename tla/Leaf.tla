-------------------------------- MODULE Leaf --------------------------------
(***************************************************************************)
(* One leaf of a payload on its way from a producer through several        *)
(* carriers, each of them built on the Rust or on the TypeScript SDK.      *)
(*                                                                         *)
(* A number is written by the producer's SDK, read and written again by    *)
(* every carrier, and must stay the number it was and keep one spelling    *)
(* from then on.  A text is cut to a bound by the producer's excerpt and   *)
(* perhaps cut again on the way; what is left must be the same whoever     *)
(* cut, and the flag that travels with it must tell whether any was lost.  *)
(***************************************************************************)
EXTENDS Notation, Excerpt

CONSTANTS
    Literals,   \* the numbers a producer may hold, as texts a double keeps
    Strings,    \* the texts a producer may hold, as code units
    Limits,     \* the bounds they are cut to
    MaxHops     \* bound on the SDKs a leaf passes through

ASSUME LeafAssumption ==
    /\ Literals \subseteq Texts
    /\ Strings \subseteq Seq(Unit)
    /\ Limits \subseteq Nat
    /\ MaxHops \in Nat

VARIABLES
    kind,       \* "number" or "text"
    origin,     \* what the producer held: a number's text or a string
    limit,      \* the bound of the string; 0 for a number
    leaf,       \* what the last SDK made of it
    hops        \* how many SDKs have handled it

vars == <<kind, origin, limit, leaf, hops>>

IsNumber == kind = "number"

Init ==
    /\ hops = 0
    /\ \/ /\ kind = "number"
          /\ origin \in Literals
          /\ limit = 0
          /\ leaf = origin
       \/ /\ kind = "text"
          /\ origin \in Strings
          /\ limit \in Limits
          /\ leaf = [text |-> origin, truncated |-> FALSE]

Handled ==
    /\ hops < MaxHops
    /\ hops' = hops + 1
    /\ UNCHANGED <<kind, origin, limit>>

\* A producer emits the number it holds; a carrier first parses what it got,
\* and the parser refuses an integral number out of bounds.
MayBeRead == hops = 0 \/ ~NumberExceedsSafeIntegerMagnitude(ValueOf(leaf))

RustWritesNumber ==
    /\ IsNumber /\ MayBeRead /\ Handled
    /\ leaf' \in RustWrites(leaf)

TsWritesNumber ==
    /\ IsNumber /\ MayBeRead /\ Handled
    /\ leaf' = TsWrites(leaf)

\* Who cuts again keeps the flag up.
CutTo(kept) ==
    leaf' = [kept EXCEPT !.truncated = leaf.truncated \/ @]

\* A Rust string holds no lone surrogate, so such a text never gets there.
RustCutsText ==
    /\ ~IsNumber /\ Handled
    /\ WellFormed(leaf.text)
    /\ CutTo(RustExcerpt(leaf.text, limit))

TsCutsText ==
    /\ ~IsNumber /\ Handled
    /\ CutTo(TsExcerpt(leaf.text, limit))

Next == RustWritesNumber \/ TsWritesNumber \/ RustCutsText \/ TsCutsText

Spec == Init /\ [][Next]_vars
-----------------------------------------------------------------------------
(***************************************************************************)
(* Properties.                                                             *)
(***************************************************************************)

\* The digit a text has at 10^p.
DigitAt(t, p) ==
    LET digits == DigitsOf(t)
        i == Len(t.whole) + t.exponent - p
    IN  IF i \in DOMAIN digits THEN digits[i] ELSE 0

\* Every place at which one of the texts has a digit.
PlacesOf(t) ==
    {Len(t.whole) + t.exponent - i : i \in DOMAIN DigitsOf(t)}

\* Whoever writes and however often, a number a double keeps (Texts) has each
\* of its digits at its place, and its sign unless it is zero: re-laying the
\* digits loses nothing at either end of the plain notation.
NumberIsKept ==
    IsNumber =>
        /\ \A p \in PlacesOf(origin) \union PlacesOf(leaf) :
              DigitAt(leaf, p) = DigitAt(origin, p)
        /\ leaf.negative = origin.negative \/ IsZero(ValueOf(origin))

\* Rust's re-laid notation is the one JSON.stringify writes, for every number
\* a double keeps and whichever way serde_json spelled it first; also for 2^53
\* and the powers of ten past it, which a producer can emit and no parser takes.
SdksWriteAlike == IsNumber => RustWrites(leaf) = {TsWrites(leaf)}

\* Once emitted, a leaf never changes again on its way, in whichever order the
\* SDKs carry it: the canonical notation is a fixed point of both, and cutting
\* to the same bound a second time neither removes nor replaces anything.
EmittedFormIsFinal == [][hops > 0 => leaf' = leaf]_vars

\* An excerpt is as long as its bound allows and no longer, is well-formed
\* whatever the text was, and its flag says exactly whether scalars are missing;
\* those that are left are the first of the text, a lone surrogate being the
\* only thing replaced.
ExcerptIsTrue ==
    (~IsNumber /\ hops > 0) =>
        LET before == CodePoints(origin)
            after == CodePoints(leaf.text)
        IN  /\ WellFormed(leaf.text)
            /\ ScalarCount(leaf.text) = IF Len(before) > limit THEN limit ELSE Len(before)
            /\ leaf.truncated <=> Len(after) < Len(before)
            /\ \A i \in DOMAIN after :
                  \/ after[i] = before[i]
                  \/ IsLoneSurrogateScalar(before[i]) /\ after[i] = <<"U+FFFD">>

\* Of a text both can hold, the SDKs keep the same and say the same.
SdksCutAlike ==
    (~IsNumber /\ WellFormed(origin)) =>
        RustExcerpt(origin, limit) = TsExcerpt(origin, limit)
=============================================================================
