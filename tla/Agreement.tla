----------------------------- MODULE Agreement -----------------------------
(***************************************************************************)
(* One payload in front of three programs: a Rust producer or relay, the   *)
(* same built into a binary where another crate turned serde_json's        *)
(* preserve_order feature on, and a TypeScript one.  The two SDKs are      *)
(* written by hand and separately; the repository promises that they take  *)
(* the same events, refuse the same ones for the same reason, and emit the *)
(* same bytes.                                                             *)
(*                                                                         *)
(* The state is an event some producer is writing: its type, its payload   *)
(* and the envelope around it.  It starts as one both SDKs should accept   *)
(* and is edited up to MaxEdits times, so that every combination of up to  *)
(* MaxEdits departures in the payload, and of as many in the envelope, is  *)
(* met.                                                                    *)
(***************************************************************************)
EXTENDS RustSdk, TsSdk

CONSTANTS
    MaxEdits,   \* bound on the departures from a well-formed payload
    Odd         \* the unusual spellings a producer may use, of OddSpellings

VARIABLES
    type, payload,
    envelope,   \* the fields of the event, with Null where its payload goes
    edits

vars == <<type, payload, envelope, edits>>

OddNumberKinds == {"integral_float", "inexact", "overflow"}
OddSpellings == OddNumberKinds \union {"lone", "indices", "__proto__"}

ASSUME AgreementAssumption == MaxEdits \in Nat /\ Odd \subseteq OddSpellings
-----------------------------------------------------------------------------
(***************************************************************************)
(* Well-formed payloads: all the fields the type declares, or the required *)
(* ones only.                                                              *)
(***************************************************************************)
UnknownType == "team.custom"
Types == KNOWN_TYPES \union {UnknownType}

Member(key, kind) ==
    CASE key = "kind" -> kind
      [] key = "outcome" -> "completed"
      [] key = "cause" -> "gap"
      [] key \in {"onTimeout", "id"} -> "deny"
      [] key = "reason" -> "rejected"
      [] OTHER -> "some"

\* An object with the fields of a struct.
Made(struct, all, ValueOf(_)) ==
    LET declared == [i \in DOMAIN struct |-> struct[i].key]
        chosen == {key \in ToSet(declared) : FieldNamed(struct, key).required \/ all}
    IN  Object(Kept(declared, chosen),
               [key \in chosen |-> ValueOf(FieldNamed(struct, key))])

PlainValue(s, kind) ==
    CASE s.shape = "string" -> Str(Member(s.key, kind))
      [] s.shape = "boolean" -> Bool(TRUE)
      [] s.shape = "number" -> Num("fraction")
      [] s.shape = "count" -> Num("count")
      [] s.shape = "strings" -> Arr(<<Str("some")>>)

WellFormedFlat(struct, kind, all) ==
    Made(struct, all, LAMBDA s : PlainValue(s, kind))

WellFormed(struct, kind, all) ==
    Made(struct, all, LAMBDA s :
        CASE s.shape = "options" -> Arr(<<WellFormedFlat(DecisionOption, kind, all)>>)
          [] s.shape \in {"ceilings", "usage", "dossier"} ->
                WellFormedFlat(NestedStruct(s.shape), kind, all)
          [] OTHER -> PlainValue(s, kind))

\* An object with one more field, or another value in it; and without some.
With(o, key, value) ==
    Object(IF Has(o, key) THEN o.keys ELSE Append(o.keys, key),
           [k \in Keys(o) \union {key} |-> IF k = key THEN value ELSE o.members[k]])

Without(o, keys) ==
    LET left == Keys(o) \ keys
    IN  Object(Kept(o.keys, left), [key \in left |-> o.members[key]])

\* The kinds a sample is of, and whether it has all fields.
Variants(t) ==
    CASE t = "control.requested" -> {"answer", "steer", "interrupt"} \X BOOLEAN
      [] t = "decision.requested" -> {<<"permission", TRUE>>, <<"budget", FALSE>>}
      [] OTHER -> {"loop"} \X BOOLEAN

\* The fields that go together with one kind only.
Fitting(t, kind, o) ==
    LET unfit == CASE kind = "answer" -> {"text"}
                   [] kind \in {"steer", "interrupt"} -> {"decisionId", "optionId"}
                   [] kind = "budget" -> {"onTimeout"}
                   [] OTHER -> {}
    IN  Without(o, unfit)

Samples(t) ==
    IF t = UnknownType THEN {With(EmptyObject, "usage", EmptyObject)}
    ELSE {Fitting(t, v[1], WellFormed(PayloadStruct(t), v[1], v[2])) : v \in Variants(t)}
-----------------------------------------------------------------------------
(***************************************************************************)
(* What a producer may write at a place: for each shape, values of that    *)
(* shape at its edges and one of another shape.  What is under __proto__   *)
(* only matters while it is there.                                         *)
(***************************************************************************)
OddNumbers == {Num(o) : o \in Odd \cap OddNumberKinds}
OddStrings == {Str(o) : o \in Odd \cap {"lone"}}
OddKeys == Odd \cap {"__proto__"}
OddObjects ==
    IF "indices" \in Odd
    THEN {With(With(EmptyObject, "10", Num("count")), "9", Num("count"))} ELSE {}

Spellings(key) ==
    CASE key = "kind" -> {"steer", "answer", "budget", "x.other"}
      [] key \in {"outcome", "cause", "reason"} -> {"x.other"}
      [] key \in {"onTimeout", "id"} -> {"allow"}
      [] OTHER -> {}

ValuesAt(key, shape) ==
    IF key \in OddKeys THEN {EmptyObject, Num("unsafe")} \union OddStrings ELSE
    CASE shape = "string" ->
            {Str(s) : s \in {"", "long", "huge"} \union Spellings(key)} \union {Null}
            \union OddStrings
      [] shape = "boolean" -> {Bool(FALSE), Str("some")}
      [] shape = "number" ->
            {Num("negative"), Num("unsafe_float"), Null} \union OddNumbers
      [] shape = "count" ->
            {Num(n) : n \in {"negative", "fraction", "unsafe"}} \union {Null}
            \union OddNumbers
      [] shape = "strings" ->
            {Null, Arr(<<>>), Arr(<<Str("some"), Null>>), Arr(<<Str("long")>>)}
      [] shape = "options" ->
            {Null, Arr(<<>>), Arr(<<With(EmptyObject, "id", Str("allow"))>>)}
      [] shape = "any" ->
            {Str("wide"), Str("huge"), Num("unsafe_wide"), Null}
            \union OddNumbers \union OddStrings \union OddObjects
      [] OTHER -> {Null, EmptyObject}

UnknownKeys == {"0alpha", "zzzTail"} \union OddKeys

PlacesOf(t) ==
    LET Fields(struct, under) ==
            {<<under \o <<s.key>>, s.shape>> : s \in ToSet(struct)}
        Unknown(under, keys) == {<<under \o <<k>>, "any">> : k \in keys}
        Nested(under, struct) ==
            Fields(struct, under) \union Unknown(under, {"zzzTail"} \union OddKeys)
    IN  IF t = UnknownType
        THEN Unknown(<<>>, UnknownKeys) \union Unknown(<<"usage">>, UnknownKeys)
        ELSE Fields(PayloadStruct(t), <<>>) \union Unknown(<<>>, {"0alpha"} \union OddKeys)
             \union UNION {CASE s.shape \in {"ceilings", "usage", "dossier"} ->
                                    Nested(<<s.key>>, NestedStruct(s.shape))
                             [] s.shape = "options" ->
                                    Nested(<<s.key, "[0]">>, DecisionOption)
                             [] OTHER -> {} : s \in ToSet(PayloadStruct(t))}

\* What is at a place, Absent if nothing is.
Below(v, step) ==
    CASE v.tag = "object" -> Get(v, step)
      [] v.tag = "array" ->
            IF \E i \in DOMAIN v.items : Index(i) = step
            THEN v.items[CHOOSE i \in DOMAIN v.items : Index(i) = step] ELSE Absent
      [] OTHER -> Absent
At(v, path) ==      \* a place is one to three steps down
    CASE Len(path) = 0 -> v
      [] Len(path) = 1 -> Below(v, path[1])
      [] Len(path) = 2 -> Below(Below(v, path[1]), path[2])
      [] Len(path) = 3 -> Below(Below(Below(v, path[1]), path[2]), path[3])

\* A value with another one at a place, or with nothing there.
PutBelow(v, step, new) ==
    CASE v.tag = "array" ->
            Arr([i \in DOMAIN v.items |-> IF Index(i) = step THEN new ELSE v.items[i]])
      [] v.tag = "object" /\ new = Absent -> Without(v, {step})
      [] v.tag = "object" /\ new # Absent -> With(v, step, new)

Put(v, path, new) ==
    LET first == Below(v, path[1])
    IN  CASE Len(path) = 1 -> PutBelow(v, path[1], new)
          [] Len(path) = 2 -> PutBelow(v, path[1], PutBelow(first, path[2], new))
          [] Len(path) = 3 ->
                PutBelow(v, path[1],
                    PutBelow(first, path[2],
                        PutBelow(Below(first, path[2]), path[3], new)))
-----------------------------------------------------------------------------
(***************************************************************************)
(* The envelope: all of its fields or the required ones, in declared order *)
(* or the other way round.  It is the same for every type, so only one     *)
(* type's is edited.                                                       *)
(***************************************************************************)
Envelope(t, captured) ==
    LET keys == Kept(EnvelopeKeys,
                     IF captured THEN ToSet(EnvelopeKeys)
                     ELSE ToSet(EnvelopeKeys) \ {"capturedAt"})
    IN  Object(keys, [key \in ToSet(keys) |->
            CASE key = "v" -> Num("one")
              [] key = "type" -> Str(t)
              [] key = "seq" -> Num("count")
              [] key = "payload" -> Null
              [] OTHER -> Str("some")])

Backwards(o) == Object(Reverse(o.keys), o.members)

Envelopes(t) ==
    IF t = UnknownType
    THEN {Envelope(t, TRUE), Envelope(t, FALSE), Backwards(Envelope(t, TRUE))}
    ELSE {Envelope(t, TRUE)}

EnvelopeValues(key) ==
    CASE key = "v" -> {Num("zero"), Num("count"), Str("some"), Null}
      [] key = "seq" ->
            {Num(n) : n \in {"zero", "one", "negative", "fraction", "unsafe"}}
            \union {Str("some"), Null} \union OddNumbers
      [] key = "payload" -> {}
      [] OTHER -> {Str(""), Num("count"), Null} \union OddStrings

EnvelopeFields ==
    {"v", "type", "runId", "seq", "ts", "payload", "capturedAt", "zzzTail"}
-----------------------------------------------------------------------------
Init ==
    /\ type \in Types
    /\ payload \in Samples(type)
    /\ envelope \in Envelopes(type)
    /\ edits = 0

Edited(new) ==
    /\ edits < MaxEdits
    /\ payload' = new
    /\ payload' # payload
    /\ envelope \in Envelopes(type)
    /\ edits' = edits + 1
    /\ UNCHANGED <<type, envelope>>

\* Objects only have fields: the place must be under one.
WriteField ==
    \E place \in PlacesOf(type) :
        /\ At(payload, Front(place[1])).tag = "object"
        /\ \E v \in ValuesAt(Last(place[1]), place[2]) :
                Edited(Put(payload, place[1], v))

LeaveOut ==
    \E place \in PlacesOf(type) :
        /\ At(payload, place[1]) # Absent
        /\ Edited(Put(payload, place[1], Absent))

NotAnObject == \E v \in {Null, Arr(<<>>), Str("some")} : Edited(v)

EditedAround(new) ==
    /\ edits < MaxEdits
    /\ type = UnknownType
    /\ payload \in Samples(type)
    /\ envelope' = new
    /\ envelope' # envelope
    /\ edits' = edits + 1
    /\ UNCHANGED <<type, payload>>

WriteEnvelopeField ==
    /\ envelope.tag = "object"
    /\ \E key \in EnvelopeFields : \E v \in EnvelopeValues(key) :
          EditedAround(Put(envelope, <<key>>, v))

LeaveOutEnvelopeField ==
    /\ envelope.tag = "object"
    /\ \E key \in Keys(envelope) : EditedAround(Put(envelope, <<key>>, Absent))

NotAnEvent == \E v \in {Null, Arr(<<>>), Str("some")} : EditedAround(v)

Next ==
    \/ WriteField \/ LeaveOut \/ NotAnObject
    \/ WriteEnvelopeField \/ LeaveOutEnvelopeField \/ NotAnEvent

Spec == Init /\ [][Next]_vars
-----------------------------------------------------------------------------
Known == type \in KNOWN_TYPES
Holds(v) == v \in LeafValues(payload)

RustVerdict == validate_event(type, from_str(payload), FALSE)
TsVerdict == validateEvent(type, jsonParse(payload))

\* A number is written as the integer it is, if it is one, and Rust can read
\* the text: it has no verdict on one it cannot.
PlainlyWritten == ~Holds(Num("integral_float")) /\ can_be_read(payload)

\* JavaScript wrote no string that is not Unicode.
IsUnicode(doc) == Str("lone") \notin LeafValues(doc)

\* The objects of a payload that the TypeScript parsers rebuild field by field:
\* it, the ones under its declared fields, and the options.
Rebuilt(t, v) ==
    LET fields == PayloadParser(t)
        RebuiltAt(key) ==
            CASE FieldNamed(fields, key).shape \in {"ceilings", "usage", "dossier"} ->
                    {v.members[key]}
              [] FieldNamed(fields, key).shape = "options" -> ToSet(v.members[key].items)
              [] OTHER -> {}
    IN  IF t \notin TS_KNOWN_TYPES THEN {}
        ELSE {v} \union UNION {RebuiltAt(key) : key \in Keys(v) \cap KeysOf(fields)}

\* None of them has a field whose name TypeScript cannot rebuild.
CanRebuild(t, v) == \A o \in Rebuilt(t, v) : ~Has(o, "__proto__")

\* A producer is told the same by both SDKs: validate accepts a payload in
\* Rust exactly when it does in TypeScript, whatever is wrong with it.
SdksAgreeOnVerdict == PlainlyWritten => (RustVerdict = Ok <=> TsVerdict = Ok)

\* With one thing wrong, both SDKs emit the same refusal: kind, path, numbers
\* and, where the kind carries it, the message, save that each quotes an integer
\* out of range as it displays numbers, TypeScript after rounding it.
SdksAgreeOnOneDefect ==
    (edits <= 1 /\ PlainlyWritten) =>
        LET rust == Serialised(RustVerdict)
            ts == Serialised(TsVerdict)
        IN  \/ rust = ts
            \/ \E leaf \in Leaves(payload) :
                  /\ number_exceeds_safe_integer_magnitude(leaf.value)
                  /\ rust = Malformed(leaf.path, <<"actual", number_text(leaf.value)>>)
                  /\ ts = Malformed(leaf.path,
                           <<"actual", numberText(Replace(leaf.value, valueOfNumber))>>)

\* A relay may carry what validate accepted: parsing takes it, in either SDK,
\* and the canonical bytes one SDK emits of it are valid in the other, if they
\* are Unicode.
ValidIsForwardable ==
    /\ (Known /\ can_be_read(payload) /\ RustVerdict = Ok) =>
        /\ parses_payload(type, payload)
        /\ LET emitted == canonicalise_numbers(from_str(payload))
           IN  parsesPayload(type, emitted) /\ validateEvent(type, jsonParse(emitted)) = Ok
    /\ (Known /\ TsVerdict = Ok) =>
        /\ parsesPayload(type, payload)
        /\ LET emitted == serialisePayloadCanonical(jsonParse(payload))
           IN  IsUnicode(emitted) =>
                  /\ parses_payload(type, emitted)
                  /\ validate_event(type, from_str(emitted), FALSE) = Ok

\* Policy is not representation: with one thing wrong, an event refused for a
\* bound, a policy or an unknown member still parses in both SDKs.
OverBoundIsForwardable ==
    (/\ edits <= 1 /\ can_be_read(payload)
     /\ RustVerdict.kind \in {"OverBound", "PayloadTooLarge", "UnknownMember", "Policy"}) =>
        parses_payload(type, payload) /\ parsesPayload(type, payload)

\* A relay changes no byte: what one SDK emits the other parses and emits
\* again unchanged, the fields neither knows included, also when the event is
\* one validate would refuse.  A field named __proto__ that TypeScript has to
\* rebuild is lost, and Rust parses Unicode only.
RelayKeepsBytes ==
    /\ parses_payload(type, payload) =>
        LET emitted == canonicalise_numbers(from_str(payload))
        IN  /\ parsesPayload(type, emitted)
            /\ CanRebuild(type, emitted) =>
                  serialisePayloadCanonical(parsedPayload(type, emitted)) = emitted
    /\ parsesPayload(type, payload) =>
        LET emitted == serialisePayloadCanonical(parsedPayload(type, payload))
        IN  IsUnicode(emitted) =>
               /\ parses_payload(type, emitted)
               /\ canonicalise_numbers(from_str(emitted)) = emitted

\* The text of the event.
Document ==
    IF envelope.tag = "object" /\ Has(envelope, "payload")
    THEN With(envelope, "payload", payload) ELSE envelope

\* An event passes from hand to hand whole: both SDKs parse the same envelopes,
\* whatever is missing, foreign, null or out of range in them, and emit what
\* they parsed in one field order, which the other SDK leaves as it is, the two
\* exceptions of RelayKeepsBytes apart.  (Events with more than one departure in
\* the payload are left to the properties of the payload.)
EnvelopesAgree ==
    (edits <= 1 \/ payload \in Samples(type)) =>
        LET plain == /\ Num("integral_float") \notin LeafValues(envelope)
                    /\ can_be_read(envelope)
                    /\ PlainlyWritten
            rust == parses_event(Document)
            ts == parsesEvent(Document)
        IN  /\ plain => (rust <=> ts)
            /\ rust => LET emitted == serialise_event(Document)
                       IN  /\ parsesEvent(emitted)
                           /\ CanRebuild(Get(emitted, "type").is, Get(emitted, "payload")) =>
                                 serialiseEvent(emitted) = emitted
            /\ ts => LET emitted == serialiseEvent(Document)
                     IN  IsUnicode(emitted) =>
                            /\ parses_event(emitted)
                            /\ serialise_event(emitted) = emitted

\* The canonical form and the verdict do not depend on what other crates of the
\* build ask of serde_json (lib.rs, canonicalise_numbers; Cargo.toml,
\* preserve-order-probe).
FeatureChangesNothing ==
    can_be_read(payload) =>
        LET asWritten == from_str_preserving_order(payload)
        IN  /\ canonicalise_numbers(from_str(payload)) = canonicalise_numbers(asWritten)
            /\ RustVerdict = Ok <=> validate_event(type, asWritten, FALSE) = Ok

\* An answer that a validated request admits names an option of that request,
\* by timeout or not; and both SDKs admit the same answers to any request they
\* can parse.
Answers ==
    {Object(<<"decisionId", "optionId", "by", "byTimeout">>,
            [key \in {"decisionId", "optionId", "by", "byTimeout"} |->
                CASE key = "optionId" -> Str(option)
                  [] key = "byTimeout" -> Bool(late)
                  [] OTHER -> Str("some")]) :
        option \in {"deny", "allow", "other", "x.other"}, late \in BOOLEAN}

AnswerWasOffered ==
    (type = "decision.requested" /\ parsesPayload(type, payload)) =>
        /\ \A answer \in Answers :
              answers_request(payload, answer) <=> answersRequest(payload, answer)
        /\ TsVerdict = Ok =>
              \A answer \in Answers :
                  answersRequest(payload, answer) =>
                      \E o \in ToSet(Get(payload, "options").items) :
                          Get(o, "id") = Get(answer, "optionId")
-----------------------------------------------------------------------------
(***************************************************************************)
(* What the documents say and the code does not do.                        *)
(***************************************************************************)

\* index.ts, parseEvent: it rejects "values either SDK cannot represent".
TsParsesOnlyWhatRustCan == parsesPayload(type, payload) => parses_payload(type, payload)

\* lib.rs, serialise_event: "Both SDKs commit to emitting exactly these bytes
\* for the same event", keys sorted by UTF-8 bytes.
SameCanonicalForm ==
    (parses_payload(type, payload) /\ parsesPayload(type, payload)) =>
        canonicalise_numbers(from_str(payload)) = serialisePayloadCanonical(jsonParse(payload))
=============================================================================
