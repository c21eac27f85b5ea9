------------------------------- MODULE TsSdk -------------------------------
(***************************************************************************)
(* What the TypeScript SDK makes of a payload: reading it, validate,       *)
(* parseEvent and the canonical form (packages/ethogram/src/index.ts).     *)
(* It is the second, hand-written copy of module RustSdk's source, and is  *)
(* translated on its own so that the two can be compared.  Functions are   *)
(* in camelCase; validate is validateEvent here and validate_event there.  *)
(***************************************************************************)
EXTENDS Payload

TS_KNOWN_TYPES ==
    {"run.started", "run.finished", "agent.started", "agent.text",
     "agent.tool_use", "agent.tool_result", "agent.completed", "agent.warning",
     "control.requested", "control.applied", "capture.refused",
     "decision.requested", "decision.answered"}

RUN_KINDS == {"loop", "handoff", "subagent", "session", "judgment", "relay"}
RUN_OUTCOMES ==
    {"completed", "failed", "no-op", "timed-out", "interrupted",
     "permission-denied", "canceled", "capped", "blocked", "unstarted"}
CONTROL_KINDS == {"interrupt", "steer", "answer"}
CONTROL_APPLIED_REASONS ==
    {"no-such-decision", "already-answered", "option-not-offered",
     "unsupported", "not-live", "rejected"}
CAPTURE_REFUSAL_CAUSES ==
    {"over_bound", "gap", "duplicate", "finished", "malformed"}
DECISION_KINDS ==
    {"permission", "tripwire", "gate_inconclusive", "human_decides", "budget"}

(***************************************************************************)
(* The payload parsers: the fields in the order the parser reads them.     *)
(***************************************************************************)
ParseRunCeilings ==
    << Opt("costUsd", "number"), Opt("tokens", "count"), Opt("wallMs", "count"),
       Opt("idleMs", "count"), Opt("turns", "count") >>
ParseRunUsage ==
    << Opt("inputTokens", "count"), Opt("outputTokens", "count"),
       Opt("cacheReadTokens", "count"), Opt("cacheCreationTokens", "count"),
       Opt("unit", "string") >>
ParseRunStarted ==
    << Req("kind", "string"), Req("actor", "string"), Req("harness", "string"),
       Opt("model", "string"), Opt("parentRunId", "string"),
       Opt("parentToolUseId", "string"), Opt("schedule", "string"),
       Opt("repository", "string"), Opt("workOrder", "string"),
       Opt("ceilings", "ceilings") >>
ParseRunFinished ==
    << Req("outcome", "string"), Opt("reason", "string"),
       Opt("truncated", "boolean"), Opt("costUsd", "number"),
       Opt("usage", "usage"), Req("durationMs", "count"),
       Opt("estimated", "boolean") >>
ParseAgentStarted ==
    << Opt("stage", "string"), Opt("model", "string"),
       Opt("sessionId", "string"), Opt("pid", "count") >>
ParseAgentText ==
    << Opt("stage", "string"), Req("text", "string"),
       Opt("truncated", "boolean"), Opt("parentToolUseId", "string") >>
ParseAgentToolUse ==
    << Opt("stage", "string"), Req("tool", "string"),
       Opt("inputExcerpt", "string"), Opt("truncated", "boolean"),
       Opt("toolUseId", "string"), Opt("parentToolUseId", "string") >>
ParseAgentToolResult ==
    << Opt("stage", "string"), Req("tool", "string"), Opt("isError", "boolean"),
       Opt("resultExcerpt", "string"), Opt("truncated", "boolean"),
       Opt("toolUseId", "string"), Opt("parentToolUseId", "string") >>
ParseAgentCompleted ==
    << Opt("stage", "string"), Opt("turns", "count"), Opt("sessionId", "string"),
       Opt("costUsd", "number"), Opt("model", "string"), Opt("usage", "usage"),
       Opt("durationMs", "count"), Opt("estimated", "boolean") >>
ParseAgentWarning == << Opt("stage", "string"), Req("message", "string") >>
ParseControlRequested ==
    << Req("controlId", "string"), Req("kind", "string"),
       Opt("decisionId", "string"), Opt("optionId", "string"),
       Opt("text", "string"), Opt("truncated", "boolean"), Req("by", "string") >>
ParseControlApplied ==
    << Req("controlId", "string"), Req("ok", "boolean"), Opt("by", "string"),
       Opt("reason", "string"), Opt("truncated", "boolean"),
       Opt("landedIn", "string") >>
ParseCaptureRefused ==
    << Req("cause", "string"), Req("sourceRunId", "string"),
       Opt("sourceSeq", "count"), Opt("sourceType", "string"),
       Opt("field", "string"), Opt("count", "count"), Opt("max", "count"),
       Opt("detail", "string"), Opt("truncated", "boolean") >>
ParseDecisionDossier ==
    << Req("question", "string"), Req("optionsRuledOut", "strings"),
       Req("recommendedAction", "string"), Req("blastRadius", "string"),
       Opt("truncated", "boolean") >>
ParseDecisionOption == << Req("id", "string"), Req("label", "string") >>
ParseDecisionRequested ==
    << Req("decisionId", "string"), Req("kind", "string"),
       Req("dossier", "dossier"), Req("options", "options"),
       Opt("subject", "string"), Opt("expiresAt", "string"),
       Opt("onTimeout", "string") >>
ParseDecisionAnswered ==
    << Req("decisionId", "string"), Req("optionId", "string"),
       Req("by", "string"), Opt("byTimeout", "boolean"),
       Opt("reversal", "string"), Opt("requestedRunId", "string") >>

PayloadParser(type) ==
    CASE type = "run.started" -> ParseRunStarted
      [] type = "run.finished" -> ParseRunFinished
      [] type = "agent.started" -> ParseAgentStarted
      [] type = "agent.text" -> ParseAgentText
      [] type = "agent.tool_use" -> ParseAgentToolUse
      [] type = "agent.tool_result" -> ParseAgentToolResult
      [] type = "agent.completed" -> ParseAgentCompleted
      [] type = "agent.warning" -> ParseAgentWarning
      [] type = "control.requested" -> ParseControlRequested
      [] type = "control.applied" -> ParseControlApplied
      [] type = "capture.refused" -> ParseCaptureRefused
      [] type = "decision.requested" -> ParseDecisionRequested
      [] type = "decision.answered" -> ParseDecisionAnswered

NestedParser(shape) ==
    CASE shape = "ceilings" -> ParseRunCeilings
      [] shape = "usage" -> ParseRunUsage
      [] shape = "dossier" -> ParseDecisionDossier
-----------------------------------------------------------------------------
(***************************************************************************)
(* Reading and writing JSON.  A number is its value, so 2.0 is 2 and 2^53  *)
(* + 1 is 2^53; an object enumerates the keys that look like array indices *)
(* first, by value, whatever order they were put in; JSON.stringify writes *)
(* a number that is not finite as null.                                    *)
(***************************************************************************)
valueOfNumber ==
    [v \in {Num("integral_float"), Num("inexact")} |->
        IF v = Num("inexact") THEN Num("unsafe") ELSE Num("count")]
jsonParse(doc) == Rewrite(doc, IntegerKeys, valueOfNumber)

\* sortObjectKeysByUtf8Bytes: the sorted entries become an object again.
sortObjectKeysByUtf8Bytes ==
    IntegerKeys \o Kept(KeyOrder, ToSet(KeyOrder) \ ToSet(IntegerKeys))

notFinite == [v \in {Num("overflow")} |-> Null]
serialisePayloadCanonical(value) ==
    Rewrite(value, sortObjectKeysByUtf8Bytes, notFinite)
-----------------------------------------------------------------------------
(***************************************************************************)
(* The parsers read their fields in order; each is wrong, missing or fine. *)
(* The parser of a nested object only has fields that are no objects       *)
(* themselves (parseFlat).                                                 *)
(***************************************************************************)
Wrong(path, expected) == Malformed(path, <<expected, "">>)
\* Mutant: the optional helpers share the message of the required ones.
WrongWhenPresentUnsaid(path, expected) == Wrong(path, expected)
WrongWhenPresent(path, expected) == Malformed(path, <<expected, "when present">>)

\* requiredString, optionalString, optionalNumber, ... by shape.
parseScalar(shape, v, path, optional) ==
    LET Must(isOne, expected) ==
            IF isOne THEN Ok
            ELSE IF optional THEN WrongWhenPresent(path, expected)
            ELSE Wrong(path, expected)
    IN  CASE shape = "string" -> Must(v.tag = "string", "a string")
          [] shape = "boolean" -> Must(v.tag = "boolean", "a boolean")
          [] shape = "number" ->
                Must(v.tag = "number" /\ v # Num("overflow"), "a finite number")
          [] shape = "count" ->
                Must(v \in {Num("zero"), Num("one"), Num("count")},
                     "a non-negative safe integer")

\* requiredArray, given what each item parses to.
parseItems(v, path, items) ==
    IF v.tag # "array" THEN Wrong(path, "an array") ELSE FirstError(items)

\* A parser, given what each of its fields that is there parses to.
parseFields(fields, v, path, parsed) ==
    FirstError([i \in DOMAIN fields |->
        IF Has(v, fields[i].key) THEN parsed[fields[i].key]
        ELSE IF fields[i].required
        THEN MissingField(path \o <<fields[i].key>>,
                          <<"is missing required field", fields[i].key>>)
        ELSE Ok])

parseSimple(shape, v, path, optional) ==
    IF shape = "strings"
    THEN parseItems(v, path,
            [i \in Places(v) |->
                parseScalar("string", v.items[i], path \o <<Index(i)>>, FALSE)])
    ELSE parseScalar(shape, v, path, optional)

parseFlat(fields, v, path) ==
    IF v.tag # "object" THEN Wrong(path, "an object")
    ELSE parseFields(fields, v, path,
            [key \in Keys(v) \cap KeysOf(fields) |->
                LET f == FieldNamed(fields, key)
                IN  parseSimple(f.shape, v.members[key], path \o <<key>>, ~f.required)])

parseField(shape, v, path, optional) ==
    CASE shape = "options" ->
            parseItems(v, path,
                [i \in Places(v) |->
                    parseFlat(ParseDecisionOption, v.items[i], path \o <<Index(i)>>)])
      [] shape \in {"ceilings", "usage", "dossier"} ->
            parseFlat(NestedParser(shape), v, path)
      [] OTHER -> parseSimple(shape, v, path, optional)

parseKnownPayload(type, value) ==
    LET fields == PayloadParser(type)
    IN  IF value.tag # "object" THEN Wrong(<<>>, "an object")
        ELSE parseFields(fields, value, <<>>,
                [key \in Keys(value) \cap KeysOf(fields) |->
                    LET f == FieldNamed(fields, key)
                    IN  parseField(f.shape, value.members[key], <<key>>, ~f.required)])

(***************************************************************************)
(* What a parser returns: its fields in its order, and every other field,  *)
(* except that assigning to the __proto__ of an object makes no field.     *)
(***************************************************************************)
\* Mutant: the parser returns what it knows.
extractNothing(fields, v) == {}
extractUnknownFields(fields, v) == Keys(v) \ (KeysOf(fields) \union {"__proto__"})

returned(fields, v, known) ==
    LET unknown == extractUnknownFields(fields, v)
        declared == [i \in DOMAIN fields |-> fields[i].key]
    IN  Object(Kept(declared, Keys(v)) \o Kept(v.keys, unknown),
               [key \in (Keys(v) \cap KeysOf(fields)) \union unknown |->
                    IF key \in KeysOf(fields) THEN known[key] ELSE v.members[key]])

parsedFlat(fields, v) ==
    returned(fields, v, [key \in Keys(v) \cap KeysOf(fields) |-> v.members[key]])

parsedField(shape, v) ==
    CASE shape = "options" ->
            Arr([i \in Places(v) |-> parsedFlat(ParseDecisionOption, v.items[i])])
      [] shape \in {"ceilings", "usage", "dossier"} ->
            parsedFlat(NestedParser(shape), v)
      [] OTHER -> v

parsed(type, v) ==
    LET fields == PayloadParser(type)
    IN  returned(fields, v,
            [key \in Keys(v) \cap KeysOf(fields) |->
                parsedField(FieldNamed(fields, key).shape, v.members[key])])
-----------------------------------------------------------------------------
exceedsSafeMagnitude(v) ==
    v \in {Num("unsafe"), Num("unsafe_wide"), Num("unsafe_float")}

\* A number as String(value) writes it: the shortest digits, and no exponent
\* below 1e21.
numberText(v) ==
    CASE v = Num("unsafe") -> "9007199254740992"
      [] v = Num("unsafe_wide") -> "72057594037927940"
      [] v = Num("unsafe_float") -> "18446744073709552000"

validatePayloadNumbers(value) ==
    LET refused == {leaf \in Leaves(value) : exceedsSafeMagnitude(leaf.value)}
        first == FirstMet(refused)
    IN  IF refused = {} THEN Ok
        ELSE Malformed(first.path, <<"actual", numberText(first.value)>>)

validatePayloadTextScalars(value) ==
    LET refused == {leaf \in Leaves(value) :
                       /\ leaf.value.tag = "string"
                       /\ Scalars(leaf.value.is) > MAX_TEXT_SCALARS}
        first == FirstMet(refused)
    IN  IF refused = {} THEN Ok
        ELSE OverBound(first.path, Scalars(first.value.is), MAX_TEXT_SCALARS)

validatePayloadSize(value) ==
    LET n == PayloadBytes(serialisePayloadCanonical(value))
    IN  IF n > MAX_PAYLOAD_BYTES THEN PayloadTooLarge(n) ELSE Ok

oneOf(p, field, members) ==
    IF Get(p, field).is \in members THEN Ok
    ELSE UnknownMember(<<field>>, Get(p, field).is)

rulesOfControlRequested(p) ==
    LET kind == Get(p, "kind").is
        AnswerOnly(field) ==
            IF kind = "answer"
            THEN IF Has(p, field) THEN Ok
                 ELSE MissingField(<<field>>, <<"required for answer", field>>)
            ELSE IF Has(p, field)
                 THEN Policy(<<field>>, <<"only for answer", field>>) ELSE Ok
    IN  FirstError(<<
            oneOf(p, "kind", CONTROL_KINDS),
            AnswerOnly("decisionId"),
            AnswerOnly("optionId"),
            IF kind = "answer" /\ Has(p, "text")
            THEN Policy(<<"text">>, <<"absent for answer">>) ELSE Ok,
            IF kind = "steer" /\ Get(p, "text") \in {Absent, Str("")}
            THEN Policy(<<"text">>, <<"steer says nothing">>) ELSE Ok,
            WithinBound(Get(p, "text"), <<"text">>, MAX_EXCERPT_SCALARS) >>)

rulesOfControlApplied(p) ==
    FirstError(<<
        IF Get(p, "ok") = Bool(FALSE) /\ ~Has(p, "reason")
        THEN MissingField(<<"reason">>, <<"required when ok is false">>) ELSE Ok,
        IF Has(p, "reason") /\ Get(p, "reason").is \notin CONTROL_APPLIED_REASONS
        THEN WithinBound(Get(p, "reason"), <<"reason">>, MAX_EXCERPT_SCALARS) ELSE Ok >>)

rulesOfDecisionRequested(p) ==
    LET Offered == {o \in ToSet(Get(p, "options").items) :
                        Get(o, "id") = Get(p, "onTimeout")}
        dossier == Get(p, "dossier")
        ruledOut == Get(dossier, "optionsRuledOut").items
        options == Get(p, "options").items
        InDossier(field) ==
            WithinBound(Get(dossier, field), <<"dossier", field>>, MAX_EXCERPT_SCALARS)
        OnTimeout(why) == Policy(<<"onTimeout">>, <<why>>)
    IN  FirstError(<<
            oneOf(p, "kind", DECISION_KINDS),
            IF ~Has(p, "onTimeout") THEN Ok
            ELSE IF Get(p, "kind") # Str("permission")
                 THEN OnTimeout("only for permission")
            ELSE IF Get(p, "onTimeout") # Str("deny") THEN OnTimeout("only deny")
            ELSE IF Offered = {} THEN OnTimeout("not offered") ELSE Ok,
            InDossier("question"),
            FirstError([i \in DOMAIN ruledOut |->
                WithinBound(ruledOut[i], <<"dossier", "optionsRuledOut", Index(i)>>,
                            MAX_EXCERPT_SCALARS)]),
            InDossier("recommendedAction"),
            InDossier("blastRadius"),
            FirstError([i \in DOMAIN options |->
                WithinBound(Get(options[i], "label"), <<"options", Index(i), "label">>,
                            MAX_EXCERPT_SCALARS)]) >>)

validatePayload(type, p) ==
    CASE type = "run.started" -> oneOf(p, "kind", RUN_KINDS)
      [] type = "run.finished" ->
            FirstError(<<oneOf(p, "outcome", RUN_OUTCOMES),
                         WithinBound(Get(p, "reason"), <<"reason">>, MAX_EXCERPT_SCALARS)>>)
      [] type = "agent.text" -> WithinBound(Get(p, "text"), <<"text">>, MAX_TEXT_SCALARS)
      [] type = "agent.tool_use" ->
            WithinBound(Get(p, "inputExcerpt"), <<"inputExcerpt">>, MAX_EXCERPT_SCALARS)
      [] type = "agent.tool_result" ->
            WithinBound(Get(p, "resultExcerpt"), <<"resultExcerpt">>, MAX_EXCERPT_SCALARS)
      [] type = "agent.warning" ->
            WithinBound(Get(p, "message"), <<"message">>, MAX_EXCERPT_SCALARS)
      [] type = "control.requested" -> rulesOfControlRequested(p)
      [] type = "control.applied" -> rulesOfControlApplied(p)
      [] type = "capture.refused" ->
            FirstError(<<oneOf(p, "cause", CAPTURE_REFUSAL_CAUSES),
                         WithinBound(Get(p, "detail"), <<"detail">>, MAX_EXCERPT_SCALARS)>>)
      [] type = "decision.requested" -> rulesOfDecisionRequested(p)
      [] OTHER -> Ok

\* validate, of what JSON.parse made of the payload: each phase only when the
\* one before it passed.
validateEvent(type, value) ==
    LET universal == FirstError(<<validatePayloadTextScalars(value),
                                  validatePayloadSize(value)>>)
        checked == FirstError(<<validatePayloadNumbers(value),
                                parseKnownPayload(type, value)>>)
    IN  IF universal # Ok THEN universal
        ELSE IF type \notin TS_KNOWN_TYPES THEN Ok
        ELSE IF checked # Ok THEN checked
        ELSE validatePayload(type, parsed(type, value))

\* parseEvent, from the text of the payload; parsedPayload is the payload it
\* returns.
\* Mutant: parsing calls validate.
parsesOnlyValid(type, doc) ==
    /\ validatePayloadNumbers(jsonParse(doc)) = Ok
    /\ validateEvent(type, jsonParse(doc)) = Ok
parsesPayload(type, doc) ==
    /\ validatePayloadNumbers(jsonParse(doc)) = Ok
    /\ type \in TS_KNOWN_TYPES => parseKnownPayload(type, jsonParse(doc)) = Ok

parsedPayload(type, doc) ==
    IF type \in TS_KNOWN_TYPES THEN parsed(type, jsonParse(doc)) ELSE jsonParse(doc)

(***************************************************************************)
(* The event around the payload.                                           *)
(***************************************************************************)
REQUIRED_EVENT_FIELDS == <<"v", "type", "runId", "seq", "ts", "payload">>
EVENT_FIELDS == Append(REQUIRED_EVENT_FIELDS, "capturedAt")

\* Mutant: an envelope is as open as a payload.
envelopeFieldsFitOpenly(e) == ToSet(REQUIRED_EVENT_FIELDS) \subseteq Keys(e)
envelopeFieldsFit(e) ==
    /\ Keys(e) \subseteq ToSet(EVENT_FIELDS)
    /\ ToSet(REQUIRED_EVENT_FIELDS) \subseteq Keys(e)

\* parseEvent, of what JSON.parse made of the text.
parsesEvent(doc) ==
    LET e == jsonParse(doc)
    IN  /\ e.tag = "object"
        /\ envelopeFieldsFit(e)
        /\ Get(e, "v") = Num("one")
        /\ \A key \in {"type", "runId", "ts"} : Get(e, key).tag = "string"
        /\ Get(e, "seq") \in {Num("one"), Num("count")}
        /\ Has(e, "capturedAt") => Get(e, "capturedAt").tag = "string"
        /\ parsesPayload(Get(e, "type").is, Get(doc, "payload"))

\* serialiseEvent of what parseEvent returns for doc: rebuilt field by field.
serialiseEvent(doc) ==
    LET e == jsonParse(doc)
        payload == parsedPayload(Get(e, "type").is, Get(doc, "payload"))
    IN  Object(Kept(EVENT_FIELDS, Keys(e)),
               [key \in Keys(e) \cap ToSet(EVENT_FIELDS) |->
                    IF key = "payload" THEN serialisePayloadCanonical(payload)
                    ELSE e.members[key]])

\* validateDecisionAnswerAgainstRequest, of two parsed payloads.
\* Mutant: a late answer is taken whatever it names.
answersRequestIfLate(request, answer) ==
    /\ Get(request, "decisionId") = Get(answer, "decisionId")
    /\ \/ Get(answer, "byTimeout") = Bool(TRUE)
       \/ \E o \in ToSet(Get(request, "options").items) :
             Get(o, "id") = Get(answer, "optionId")
answersRequest(request, answer) ==
    /\ Get(request, "decisionId") = Get(answer, "decisionId")
    /\ \/ \E o \in ToSet(Get(request, "options").items) :
             Get(o, "id") = Get(answer, "optionId")
       \/ /\ Get(answer, "byTimeout") = Bool(TRUE)
          /\ Get(request, "onTimeout") = Get(answer, "optionId")
=============================================================================
