------------------------------ MODULE Payload ------------------------------
(***************************************************************************)
(* Event payloads and validation errors, as far as the checks of the two   *)
(* SDKs tell them apart.                                                   *)
(*                                                                         *)
(* A payload is a JSON document.  A string is the name of its spelling or  *)
(* of its size; a number is the name of its kind.  The modules RustSdk and *)
(* TsSdk say what each SDK makes of a document.                            *)
(***************************************************************************)
EXTENDS Naturals, Sequences, SequencesExt

(***************************************************************************)
(* JSON values.  An object is its members and the order its keys are in.   *)
(***************************************************************************)
Str(spelling) == [tag |-> "string", is |-> spelling]
Num(kind) == [tag |-> "number", is |-> kind]
Bool(b) == [tag |-> "boolean", holds |-> b]
Null == [tag |-> "null"]
Arr(items) == [tag |-> "array", items |-> items]
Object(keys, members) ==
    [tag |-> "object", keys |-> keys, members |-> members]
Absent == [tag |-> "absent"]

EmptyObject == Object(<<>>, <<>>)

Keys(o) == DOMAIN o.members
Has(o, key) == key \in Keys(o)
Get(o, key) == IF Has(o, key) THEN o.members[key] ELSE Absent

\* The values a value is made of: by key, or by index.
Places(v) ==
    CASE v.tag = "object" -> Keys(v)
      [] v.tag = "array" -> DOMAIN v.items
      [] OTHER -> {}

Child(v, place) == IF v.tag = "object" THEN v.members[place] ELSE v.items[place]

\* The elements of a sequence that are in a set, in their order.
Kept(s, S) ==
    LET kept[i \in 0..Len(s)] ==
            IF i = 0 THEN <<>>
            ELSE IF s[i] \in S THEN Append(kept[i - 1], s[i]) ELSE kept[i - 1]
    IN  kept[Len(s)]

(***************************************************************************)
(* Strings.  "long" is one scalar over the excerpt bound, "huge" one over  *)
(* the text bound, "wide" as many four-byte scalars as the text bound      *)
(* allows; every other spelling is short.  "lone" holds half a surrogate   *)
(* pair, written \ud800: a text JavaScript has and Rust has not.           *)
(***************************************************************************)
MAX_TEXT_SCALARS == 16384
MAX_EXCERPT_SCALARS == 4096
MAX_PAYLOAD_BYTES == 131072

Scalars(s) ==
    CASE s = "" -> 0
      [] s = "long" -> MAX_EXCERPT_SCALARS + 1
      [] s = "wide" -> MAX_TEXT_SCALARS
      [] s = "huge" -> MAX_TEXT_SCALARS + 1
      [] OTHER -> 8

StringBytes(s) == IF s = "wide" THEN 4 * MAX_TEXT_SCALARS ELSE Scalars(s)

(***************************************************************************)
(* Numbers, by the literal they are written as.                            *)
(*    "count"           a natural up to 2^53 - 1                           *)
(*    "negative"        a negative integer above -2^53                     *)
(*    "fraction"        2.5                                                *)
(*    "integral_float"  2.0, -0, 1e3: an integer not written as one        *)
(*    "unsafe"          2^53                                               *)
(*    "inexact"         2^53 + 1, which no f64 holds                       *)
(*    "unsafe_wide"     2^56, which has more digits than it takes to tell  *)
(*                      it from other f64s                                 *)
(*    "unsafe_float"    2^64, which no u64 holds                           *)
(*    "overflow"        1e999                                              *)
(*    "zero", "one"     the naturals the envelope tells apart; "count" is  *)
(*                      any other                                          *)
(***************************************************************************)
\* Every key the model uses, by UTF-8 bytes; and those JavaScript takes for
\* array indices, by value.
KeyOrder == <<
    "0alpha", "10", "9", "__proto__", "actor", "blastRadius", "by", "byTimeout",
    "cacheCreationTokens", "cacheReadTokens", "cause", "ceilings",
    "controlId", "costUsd", "count", "decisionId", "detail", "dossier",
    "durationMs", "estimated", "expiresAt", "field", "harness", "id",
    "idleMs", "inputExcerpt", "inputTokens", "isError", "kind", "label",
    "landedIn", "max", "message", "model", "ok", "onTimeout", "optionId",
    "options", "optionsRuledOut", "outcome", "outputTokens", "parentRunId",
    "parentToolUseId", "pid", "question", "reason", "recommendedAction",
    "repository", "requestedRunId", "resultExcerpt", "reversal", "schedule",
    "sessionId", "sourceRunId", "sourceSeq", "sourceType", "stage",
    "subject", "text", "tokens", "tool", "toolUseId", "truncated", "turns",
    "unit", "usage", "wallMs", "workOrder", "zzzTail" >>
IntegerKeys == <<"9", "10">>

\* How a path names an index.
Index(i) == <<"[0]", "[1]">>[i]

(***************************************************************************)
(* The walks.  The code walks a value recursively; here a walk is what it  *)
(* does at one value, given what it made of the values below, and as many  *)
(* levels of it as a document of the model has: five, the event, its       *)
(* payload, a list of options, an option, and an object under one of the   *)
(* option's unknown keys.  (A deeper document would stop TLC: the lowest   *)
(* level asks for what is below of nothing.)                               *)
(***************************************************************************)

\* The leaves of a value, each with its path and its rank: the positions the
\* walk goes through to get to it, so that ranks are in the order of the walk.
Leaf(path, rank, value) == [path |-> path, rank |-> rank, value |-> value]

Under(v, place, leaf) ==
    IF v.tag = "object"
    THEN Leaf(<<place>> \o leaf.path,
              <<CHOOSE i \in DOMAIN v.keys : v.keys[i] = place>> \o leaf.rank,
              leaf.value)
    ELSE Leaf(<<Index(place)>> \o leaf.path, <<place>> \o leaf.rank, leaf.value)

LeavesOver(v, below) ==
    IF v.tag \in {"object", "array"}
    THEN UNION {{Under(v, place, leaf) : leaf \in below[place]} : place \in Places(v)}
    ELSE {Leaf(<<>>, <<>>, v)}

Leaves0(v) == LeavesOver(v, <<>>)
Leaves1(v) == LeavesOver(v, [place \in Places(v) |-> Leaves0(Child(v, place))])
Leaves2(v) == LeavesOver(v, [place \in Places(v) |-> Leaves1(Child(v, place))])
Leaves3(v) == LeavesOver(v, [place \in Places(v) |-> Leaves2(Child(v, place))])
Leaves4(v) == LeavesOver(v, [place \in Places(v) |-> Leaves3(Child(v, place))])
Leaves(v) == LeavesOver(v, [place \in Places(v) |-> Leaves4(Child(v, place))])

LeafValues(v) == {leaf.value : leaf \in Leaves(v)}

\* The leaf of a set the walk meets first.
MetBefore(a, b) ==
    \E i \in DOMAIN a \cap DOMAIN b :
        a[i] < b[i] /\ \A j \in 1..(i - 1) : a[j] = b[j]
FirstMet(leaves) ==
    CHOOSE leaf \in leaves :
        \A other \in leaves \ {leaf} : MetBefore(leaf.rank, other.rank)

\* A document as a reader or a serialiser leaves it: in every object the listed
\* keys first and the others as they were, and the leaves in the domain of
\* `replaced` replaced.
Replace(leaf, replaced) == IF leaf \in DOMAIN replaced THEN replaced[leaf] ELSE leaf

Reordered(o, keys) ==
    Kept(keys, Keys(o)) \o Kept(o.keys, Keys(o) \ ToSet(keys))

RewriteOver(v, keys, replaced, below) ==
    CASE v.tag = "object" -> Object(Reordered(v, keys), below)
      [] v.tag = "array" -> Arr(below)
      [] OTHER -> Replace(v, replaced)

Rewrite0(v, keys, r) == RewriteOver(v, keys, r, <<>>)
Rewrite1(v, keys, r) ==
    RewriteOver(v, keys, r, [p \in Places(v) |-> Rewrite0(Child(v, p), keys, r)])
Rewrite2(v, keys, r) ==
    RewriteOver(v, keys, r, [p \in Places(v) |-> Rewrite1(Child(v, p), keys, r)])
Rewrite3(v, keys, r) ==
    RewriteOver(v, keys, r, [p \in Places(v) |-> Rewrite2(Child(v, p), keys, r)])
Rewrite4(v, keys, r) ==
    RewriteOver(v, keys, r, [p \in Places(v) |-> Rewrite3(Child(v, p), keys, r)])
Rewrite(v, keys, r) ==
    RewriteOver(v, keys, r, [p \in Places(v) |-> Rewrite4(Child(v, p), keys, r)])

\* The length of the canonical form.  A key counts 12 bytes: every payload of
\* the model is far from the bound on either side, so its real length does not
\* decide.
BytesOver(v, below) ==
    CASE v.tag = "object" -> 2 + SumFunction([p \in Places(v) |-> 12 + below[p]])
      [] v.tag = "array" -> 2 + SumFunction([p \in Places(v) |-> 1 + below[p]])
      [] v.tag = "string" -> 2 + StringBytes(v.is)
      [] OTHER -> 5

Bytes0(v) == BytesOver(v, <<>>)
Bytes1(v) == BytesOver(v, [place \in Places(v) |-> Bytes0(Child(v, place))])
Bytes2(v) == BytesOver(v, [place \in Places(v) |-> Bytes1(Child(v, place))])
Bytes3(v) == BytesOver(v, [place \in Places(v) |-> Bytes2(Child(v, place))])
Bytes4(v) == BytesOver(v, [place \in Places(v) |-> Bytes3(Child(v, place))])
PayloadBytes(v) == BytesOver(v, [place \in Places(v) |-> Bytes4(Child(v, place))])

(***************************************************************************)
(* Answers of validate.  The message is the wording, named by what varies  *)
(* in it; `Serialised` is what serialise_validation_error emits of it.     *)
(***************************************************************************)
Ok == [kind |-> "Ok"]
OverBound(path, n, max) ==
    [kind |-> "OverBound", path |-> path, count |-> n, max |-> max]
PayloadTooLarge(n) ==
    [kind |-> "PayloadTooLarge", bytes |-> n, max |-> MAX_PAYLOAD_BYTES]
UnknownMember(path, value) ==
    [kind |-> "UnknownMember", path |-> path, value |-> value]
MissingField(path, message) ==
    [kind |-> "MissingField", path |-> path, message |-> message]
Policy(path, message) ==
    [kind |-> "Policy", path |-> path, message |-> message]
Malformed(path, message) ==
    [kind |-> "Malformed", path |-> path, message |-> message]

Serialised(error) ==
    IF error.kind = "MissingField"
    THEN [kind |-> "MissingField", path |-> error.path]
    ELSE error

\* The first check that fails decides.
FirstError(checks) ==
    LET failed == {i \in DOMAIN checks : checks[i] # Ok}
    IN  IF failed = {} THEN Ok ELSE checks[Min(failed)]

\* A field of a known payload.
Req(key, shape) == [key |-> key, shape |-> shape, required |-> TRUE]
Opt(key, shape) == [key |-> key, shape |-> shape, required |-> FALSE]

KeysOf(struct) == {struct[i].key : i \in DOMAIN struct}
FieldNamed(struct, key) ==
    struct[CHOOSE i \in DOMAIN struct : struct[i].key = key]

\* A text field against its own bound; an absent one is within it.
WithinBound(text, path, max) ==
    IF text # Absent /\ Scalars(text.is) > max
    THEN OverBound(path, Scalars(text.is), max) ELSE Ok
=============================================================================
