------------------------------ MODULE RustSdk ------------------------------
(***************************************************************************)
(* What the Rust SDK makes of a payload: reading it, validate, parse_event *)
(* and the canonical form (crates/ethogram/src/lib.rs, validation.rs,      *)
(* union_unknown_validation.rs).  Functions have the names, or the style   *)
(* of the names, of the source: snake_case here, camelCase in module       *)
(* TsSdk; validate is validate_event here and validateEvent there.         *)
(***************************************************************************)
EXTENDS Payload

KNOWN_TYPES ==
    {"run.started", "run.finished", "agent.started", "agent.text",
     "agent.tool_use", "agent.tool_result", "agent.completed", "agent.warning",
     "control.requested", "control.applied", "capture.refused",
     "decision.requested", "decision.answered"}

(***************************************************************************)
(* The unions' known spellings, and the registration that says which       *)
(* event's field holds one and whether other spellings are refused.        *)
(***************************************************************************)
RunKind == {"loop", "handoff", "subagent", "session", "judgment", "relay"}
RunOutcome ==
    {"completed", "failed", "no-op", "timed-out", "interrupted",
     "permission-denied", "canceled", "capped", "blocked", "unstarted"}
ControlKind == {"interrupt", "steer", "answer"}
ControlAppliedReason ==
    {"no-such-decision", "already-answered", "option-not-offered",
     "unsupported", "not-live", "rejected"}
CaptureRefusalCause == {"over_bound", "gap", "duplicate", "finished", "malformed"}
DecisionKind ==
    {"permission", "tripwire", "gate_inconclusive", "human_decides", "budget"}

UnionRule(field, known, membership) ==
    [field |-> field, known |-> known, membership |-> membership]

UnionRules ==
    [type \in {"run.started", "run.finished", "control.requested",
               "control.applied", "capture.refused", "decision.requested"} |->
        CASE type = "run.started" -> UnionRule("kind", RunKind, "Closed")
          [] type = "run.finished" -> UnionRule("outcome", RunOutcome, "Closed")
          [] type = "control.requested" -> UnionRule("kind", ControlKind, "Closed")
          [] type = "control.applied" ->
                UnionRule("reason", ControlAppliedReason, "Open")
          [] type = "capture.refused" ->
                UnionRule("cause", CaptureRefusalCause, "Closed")
          [] type = "decision.requested" ->
                UnionRule("kind", DecisionKind, "Closed")]

(***************************************************************************)
(* The payload structs: the fields in declaration order.                   *)
(***************************************************************************)
RunCeilings ==
    << Opt("costUsd", "number"), Opt("tokens", "count"), Opt("wallMs", "count"),
       Opt("idleMs", "count"), Opt("turns", "count") >>
RunStartedPayload ==
    << Req("kind", "string"), Req("actor", "string"), Req("harness", "string"),
       Opt("model", "string"), Opt("parentRunId", "string"),
       Opt("parentToolUseId", "string"), Opt("schedule", "string"),
       Opt("repository", "string"), Opt("workOrder", "string"),
       Opt("ceilings", "ceilings") >>
RunUsage ==
    << Opt("inputTokens", "count"), Opt("outputTokens", "count"),
       Opt("cacheReadTokens", "count"), Opt("cacheCreationTokens", "count"),
       Opt("unit", "string") >>
\* Mutant: durationMs as the other counts are.
RunFinishedPayloadUntimed ==
    << Req("outcome", "string"), Opt("durationMs", "count") >>
RunFinishedPayload ==
    << Req("outcome", "string"), Opt("reason", "string"),
       Opt("truncated", "boolean"), Opt("costUsd", "number"),
       Opt("usage", "usage"), Req("durationMs", "count"),
       Opt("estimated", "boolean") >>
AgentStartedPayload ==
    << Opt("stage", "string"), Opt("model", "string"),
       Opt("sessionId", "string"), Opt("pid", "count") >>
AgentTextPayload ==
    << Opt("stage", "string"), Req("text", "string"),
       Opt("truncated", "boolean"), Opt("parentToolUseId", "string") >>
AgentToolUsePayload ==
    << Opt("stage", "string"), Req("tool", "string"),
       Opt("inputExcerpt", "string"), Opt("truncated", "boolean"),
       Opt("toolUseId", "string"), Opt("parentToolUseId", "string") >>
AgentToolResultPayload ==
    << Opt("stage", "string"), Req("tool", "string"), Opt("isError", "boolean"),
       Opt("resultExcerpt", "string"), Opt("truncated", "boolean"),
       Opt("toolUseId", "string"), Opt("parentToolUseId", "string") >>
AgentCompletedPayload ==
    << Opt("stage", "string"), Opt("turns", "count"), Opt("sessionId", "string"),
       Opt("costUsd", "number"), Opt("model", "string"), Opt("usage", "usage"),
       Opt("durationMs", "count"), Opt("estimated", "boolean") >>
AgentWarningPayload == << Opt("stage", "string"), Req("message", "string") >>
ControlRequestedPayload ==
    << Req("controlId", "string"), Req("kind", "string"),
       Opt("decisionId", "string"), Opt("optionId", "string"),
       Opt("text", "string"), Opt("truncated", "boolean"), Req("by", "string") >>
ControlAppliedPayload ==
    << Req("controlId", "string"), Req("ok", "boolean"), Opt("by", "string"),
       Opt("reason", "string"), Opt("truncated", "boolean"),
       Opt("landedIn", "string") >>
CaptureRefusedPayload ==
    << Req("cause", "string"), Req("sourceRunId", "string"),
       Opt("sourceSeq", "count"), Opt("sourceType", "string"),
       Opt("field", "string"), Opt("count", "count"), Opt("max", "count"),
       Opt("detail", "string"), Opt("truncated", "boolean") >>
DecisionDossier ==
    << Req("question", "string"), Req("optionsRuledOut", "strings"),
       Req("recommendedAction", "string"), Req("blastRadius", "string"),
       Opt("truncated", "boolean") >>
DecisionOption == << Req("id", "string"), Req("label", "string") >>
DecisionRequestedPayload ==
    << Req("decisionId", "string"), Req("kind", "string"),
       Req("dossier", "dossier"), Req("options", "options"),
       Opt("subject", "string"), Opt("expiresAt", "string"),
       Opt("onTimeout", "string") >>
DecisionAnsweredPayload ==
    << Req("decisionId", "string"), Req("optionId", "string"),
       Req("by", "string"), Opt("byTimeout", "boolean"),
       Opt("reversal", "string"), Opt("requestedRunId", "string") >>

PayloadStruct(type) ==
    CASE type = "run.started" -> RunStartedPayload
      [] type = "run.finished" -> RunFinishedPayload
      [] type = "agent.started" -> AgentStartedPayload
      [] type = "agent.text" -> AgentTextPayload
      [] type = "agent.tool_use" -> AgentToolUsePayload
      [] type = "agent.tool_result" -> AgentToolResultPayload
      [] type = "agent.completed" -> AgentCompletedPayload
      [] type = "agent.warning" -> AgentWarningPayload
      [] type = "control.requested" -> ControlRequestedPayload
      [] type = "control.applied" -> ControlAppliedPayload
      [] type = "capture.refused" -> CaptureRefusedPayload
      [] type = "decision.requested" -> DecisionRequestedPayload
      [] type = "decision.answered" -> DecisionAnsweredPayload

NestedStruct(shape) ==
    CASE shape = "ceilings" -> RunCeilings
      [] shape = "usage" -> RunUsage
      [] shape = "dossier" -> DecisionDossier
-----------------------------------------------------------------------------
(***************************************************************************)
(* Reading and writing JSON.  serde_json's map keeps its keys sorted, or   *)
(* as written when some crate of the build turns preserve_order on; a      *)
(* number keeps how it was written, and a literal no f64 holds is refused, *)
(* as is a string no String holds.                                         *)
(***************************************************************************)
AsTheyAre == <<>>    \* nothing is replaced

can_be_read(doc) == {Num("overflow"), Str("lone")} \cap LeafValues(doc) = {}

from_str(doc) == Rewrite(doc, KeyOrder, AsTheyAre)
from_str_preserving_order(doc) == Rewrite(doc, <<>>, AsTheyAre)

\* An f64 without a fraction is written as an integer.
canonicalise_number == [v \in {Num("integral_float")} |-> Num("count")]

\* Mutant: no explicit sort, trusting the map of serde_json.
canonicalise_as_mapped(value) == Rewrite(value, <<>>, canonicalise_number)
canonicalise_numbers(value) == Rewrite(value, KeyOrder, canonicalise_number)
-----------------------------------------------------------------------------
(***************************************************************************)
(* decode_payload: the fields that are there, in the order of the map, and *)
(* then the ones that should be, in the order of the struct.  A nested     *)
(* struct has only fields that are no structs themselves (decode_flat).    *)
(***************************************************************************)
wrong_type(path, expected, optional) ==
    Malformed(path, << expected, IF optional /\ expected # "an object"
                                 THEN "when present" ELSE "" >>)

\* deserialize_safe_u64: a literal u64 takes, up to 2^53 - 1.
is_safe_u64(v) == v \in {Num("zero"), Num("one"), Num("count")}

decode_scalar(shape, v, path, optional) ==
    LET Scalar(isOne, expected) ==
            IF isOne THEN Ok ELSE wrong_type(path, expected, optional)
    IN  CASE shape = "string" -> Scalar(v.tag = "string", "a string")
          [] shape = "boolean" -> Scalar(v.tag = "boolean", "a boolean")
          [] shape = "number" -> Scalar(v.tag = "number", "a finite number")
          [] shape = "count" ->
                Scalar(is_safe_u64(v), "a non-negative safe integer")

\* An array, given what each of its items decodes to.
decode_items(v, path, optional, items) ==
    IF v.tag # "array" THEN wrong_type(path, "an array", optional)
    ELSE FirstError(items)

\* An object, given what each declared field that is there decodes to.
decode_fields(struct, v, path, fields) ==
    LET Missing(s) ==
            IF s.required /\ ~Has(v, s.key)
            THEN MissingField(path \o <<s.key>>, <<"missing field", s.key>>)
            ELSE Ok
    IN  FirstError([i \in DOMAIN v.keys |->
                        IF v.keys[i] \in KeysOf(struct) THEN fields[v.keys[i]] ELSE Ok]
                   \o [i \in DOMAIN struct |-> Missing(struct[i])])

decode_simple(shape, v, path, optional) ==
    IF shape = "strings"
    THEN decode_items(v, path, optional,
            [i \in Places(v) |->
                decode_scalar("string", v.items[i], path \o <<Index(i)>>, FALSE)])
    ELSE decode_scalar(shape, v, path, optional)

decode_flat(struct, v, path, optional) ==
    IF v.tag # "object" THEN wrong_type(path, "an object", optional)
    ELSE decode_fields(struct, v, path,
            [key \in Keys(v) \cap KeysOf(struct) |->
                LET s == FieldNamed(struct, key)
                IN  decode_simple(s.shape, v.members[key], path \o <<key>>, ~s.required)])

decode_field(shape, v, path, optional) ==
    CASE shape = "options" ->
            decode_items(v, path, optional,
                [i \in Places(v) |->
                    decode_flat(DecisionOption, v.items[i], path \o <<Index(i)>>, FALSE)])
      [] shape \in {"ceilings", "usage", "dossier"} ->
            decode_flat(NestedStruct(shape), v, path, optional)
      [] OTHER -> decode_simple(shape, v, path, optional)

decode_payload(type, value) ==
    LET struct == PayloadStruct(type)
    IN  IF value.tag # "object" THEN wrong_type(<<>>, "an object", FALSE)
        ELSE decode_fields(struct, value, <<>>,
                [key \in Keys(value) \cap KeysOf(struct) |->
                    LET s == FieldNamed(struct, key)
                    IN  decode_field(s.shape, value.members[key], <<key>>, ~s.required)])
-----------------------------------------------------------------------------
number_exceeds_safe_integer_magnitude(v) ==
    v \in {Num("unsafe"), Num("inexact"), Num("unsafe_wide"), Num("unsafe_float")}

\* A number as serde_json displays it: an integer by its digits, an f64 by the
\* shortest ones.
number_text(v) ==
    CASE v = Num("unsafe") -> "9007199254740992"
      [] v = Num("inexact") -> "9007199254740993"
      [] v = Num("unsafe_wide") -> "72057594037927936"
      [] v = Num("unsafe_float") -> "1.8446744073709552e19"

\* Mutant: no recursion into nested objects.
validate_numbers_at_top(value) ==
    LET refused == {leaf \in Leaves(value) :
                       /\ Len(leaf.path) <= 1
                       /\ number_exceeds_safe_integer_magnitude(leaf.value)}
        first == FirstMet(refused)
    IN  IF refused = {} THEN Ok
        ELSE Malformed(first.path, <<"actual", number_text(first.value)>>)
validate_payload_numbers(value) ==
    LET refused == {leaf \in Leaves(value) :
                       number_exceeds_safe_integer_magnitude(leaf.value)}
        first == FirstMet(refused)
    IN  IF refused = {} THEN Ok
        ELSE Malformed(first.path, <<"actual", number_text(first.value)>>)

validate_payload_text_scalars(value) ==
    LET refused == {leaf \in Leaves(value) :
                       /\ leaf.value.tag = "string"
                       /\ Scalars(leaf.value.is) > MAX_TEXT_SCALARS}
        first == FirstMet(refused)
    IN  IF refused = {} THEN Ok
        ELSE OverBound(first.path, Scalars(first.value.is), MAX_TEXT_SCALARS)

validate_payload_size(value) ==
    LET n == PayloadBytes(canonicalise_numbers(value))
    IN  IF n > MAX_PAYLOAD_BYTES THEN PayloadTooLarge(n) ELSE Ok

\* The probe of a typed payload, before it becomes JSON.  `asUnknown`: the
\* union field was built as the Unknown variant.
check_representability(type, payload, asUnknown) ==
    IF /\ asUnknown
       /\ type \in DOMAIN UnionRules
       /\ Has(payload, UnionRules[type].field)
       /\ Get(payload, UnionRules[type].field).is \in UnionRules[type].known
    THEN Malformed(<<UnionRules[type].field>>, <<"Unknown for known value">>)
    ELSE Ok

check_closedness(type, value) ==
    LET rule == UnionRules[type]
        member == Get(value, rule.field)
    IN  IF rule.membership = "Closed" /\ member.is \notin rule.known
        THEN UnknownMember(<<rule.field>>, member.is) ELSE Ok

\* The rules of a decoded payload, in the order validate applies them.
control_requested_rules(p) ==
    LET kind == Get(p, "kind").is
        AnswerOnly(field) ==
            IF kind = "answer"
            THEN IF Has(p, field) THEN Ok
                 ELSE MissingField(<<field>>, <<"required for answer", field>>)
            ELSE IF Has(p, field)
                 THEN Policy(<<field>>, <<"only for answer", field>>) ELSE Ok
    IN  FirstError(<<
            check_closedness("control.requested", p),
            AnswerOnly("decisionId"),
            AnswerOnly("optionId"),
            IF kind = "answer" /\ Has(p, "text")
            THEN Policy(<<"text">>, <<"absent for answer">>) ELSE Ok,
            IF kind = "steer" /\ Get(p, "text") \in {Absent, Str("")}
            THEN Policy(<<"text">>, <<"steer says nothing">>) ELSE Ok,
            WithinBound(Get(p, "text"), <<"text">>, MAX_EXCERPT_SCALARS) >>)

control_applied_rules(p) ==
    FirstError(<<
        IF Get(p, "ok") = Bool(FALSE) /\ ~Has(p, "reason")
        THEN MissingField(<<"reason">>, <<"required when ok is false">>) ELSE Ok,
        IF Has(p, "reason") THEN check_closedness("control.applied", p) ELSE Ok,
        IF Has(p, "reason") /\ Get(p, "reason").is \notin ControlAppliedReason
        THEN WithinBound(Get(p, "reason"), <<"reason">>, MAX_EXCERPT_SCALARS) ELSE Ok >>)

decision_requested_rules(p) ==
    LET Offered == {o \in ToSet(Get(p, "options").items) :
                        Get(o, "id") = Get(p, "onTimeout")}
        dossier == Get(p, "dossier")
        ruledOut == Get(dossier, "optionsRuledOut").items
        options == Get(p, "options").items
        InDossier(field) ==
            WithinBound(Get(dossier, field), <<"dossier", field>>, MAX_EXCERPT_SCALARS)
        OnTimeout(why) == Policy(<<"onTimeout">>, <<why>>)
    IN  FirstError(<<
            check_closedness("decision.requested", p),
            IF ~Has(p, "onTimeout") THEN Ok
            ELSE IF Get(p, "kind") # Str("permission")
                 THEN OnTimeout("only for permission")
            ELSE IF Get(p, "onTimeout") # Str("deny") THEN OnTimeout("only deny")
            ELSE IF Offered = {} THEN OnTimeout("not offered") ELSE Ok,
            InDossier("question"),
            FirstError([i \in DOMAIN ruledOut |->
                WithinBound(ruledOut[i], <<"dossier", "optionsRuledOut", Index(i)>>,
                            MAX_EXCERPT_SCALARS)]),
            InDossier("recommendedAction"),
            InDossier("blastRadius"),
            FirstError([i \in DOMAIN options |->
                WithinBound(Get(options[i], "label"), <<"options", Index(i), "label">>,
                            MAX_EXCERPT_SCALARS)]) >>)

payload_rules(type, p) ==
    CASE type = "run.started" -> check_closedness(type, p)
      [] type = "run.finished" ->
            FirstError(<<check_closedness(type, p),
                         WithinBound(Get(p, "reason"), <<"reason">>, MAX_EXCERPT_SCALARS)>>)
      [] type = "agent.text" -> WithinBound(Get(p, "text"), <<"text">>, MAX_TEXT_SCALARS)
      [] type = "agent.tool_use" ->
            WithinBound(Get(p, "inputExcerpt"), <<"inputExcerpt">>, MAX_EXCERPT_SCALARS)
      [] type = "agent.tool_result" ->
            WithinBound(Get(p, "resultExcerpt"), <<"resultExcerpt">>, MAX_EXCERPT_SCALARS)
      [] type = "agent.warning" ->
            WithinBound(Get(p, "message"), <<"message">>, MAX_EXCERPT_SCALARS)
      [] type = "control.requested" -> control_requested_rules(p)
      [] type = "control.applied" -> control_applied_rules(p)
      [] type = "capture.refused" ->
            FirstError(<<check_closedness(type, p),
                         WithinBound(Get(p, "detail"), <<"detail">>, MAX_EXCERPT_SCALARS)>>)
      [] type = "decision.requested" -> decision_requested_rules(p)
      [] type \in {"agent.started", "agent.completed", "decision.answered"} -> Ok

\* validate: each phase only when the one before it passed.
validate_event(type, value, asUnknown) ==
    LET probed == check_representability(type, value, asUnknown)
        universal == FirstError(<<validate_payload_text_scalars(value),
                                  validate_payload_size(value)>>)
        decoded == FirstError(<<validate_payload_numbers(value),
                                decode_payload(type, value)>>)
    IN  IF probed # Ok THEN probed
        ELSE IF universal # Ok THEN universal
        ELSE IF type \notin KNOWN_TYPES THEN Ok
        ELSE IF decoded # Ok THEN decoded
        ELSE payload_rules(type, value)

\* parse_event, from the text of the payload.
parses_payload(type, doc) ==
    /\ can_be_read(doc)
    /\ validate_payload_numbers(from_str(doc)) = Ok
    /\ type \in KNOWN_TYPES => decode_payload(type, from_str(doc)) = Ok

(***************************************************************************)
(* The event around the payload.  Event derives its reader: no field but   *)
(* these, each once, and null is no value of an optional one.  (The reader *)
(* also takes an array of the fields in this order; documents here are     *)
(* objects.)                                                               *)
(***************************************************************************)
Event ==
    << Req("v", "version"), Req("type", "string"), Req("runId", "string"),
       Req("seq", "seq"), Req("ts", "string"), Req("payload", "any"),
       Opt("capturedAt", "string") >>

EnvelopeKeys == [i \in DOMAIN Event |-> Event[i].key]

deserialize_version(v) == v = Num("one")                   \* a u32, and 1
deserialize_seq(v) == is_safe_u64(v) /\ v # Num("zero")

deserialize_as(shape, v) ==
    CASE shape = "version" -> deserialize_version(v)
      [] shape = "seq" -> deserialize_seq(v)
      [] shape = "string" -> v.tag = "string"
      [] shape = "any" -> TRUE

reads_event(doc) ==
    /\ doc.tag = "object"
    /\ can_be_read(doc)
    /\ Keys(doc) \subseteq ToSet(EnvelopeKeys)
    /\ \A s \in ToSet(Event) :
          IF Has(doc, s.key) THEN deserialize_as(s.shape, Get(doc, s.key))
          ELSE ~s.required

\* parse_event, from the text of the event.
parses_event(doc) ==
    /\ reads_event(doc)
    /\ parses_payload(Get(doc, "type").is, Get(doc, "payload"))

\* serialise_event of an event read from doc: the fields in declared order.
serialise_event(doc) ==
    Object(Kept(EnvelopeKeys, Keys(doc)),
           [key \in Keys(doc) |->
                IF key = "payload"
                THEN canonicalise_numbers(from_str(doc.members[key]))
                ELSE doc.members[key]])

\* validate_decision_answer_against_request, of two decoded payloads.
answers_request(request, answer) ==
    /\ Get(request, "decisionId") = Get(answer, "decisionId")
    /\ \/ \E o \in ToSet(Get(request, "options").items) :
             Get(o, "id") = Get(answer, "optionId")
       \/ /\ Get(answer, "byTimeout") = Bool(TRUE)
          /\ Get(request, "onTimeout") = Get(answer, "optionId")
=============================================================================
