# Ethogram in TLA+

Ethogram is a protocol of events for observing runs of agent harnesses, with two
hand-written SDKs that must agree: `crates/ethogram` (Rust: `lib.rs`, `validation.rs`,
`union_unknown_validation.rs`) and `packages/ethogram` (TypeScript: `index.ts`). Both
are sequential libraries: they stamp, store, validate, parse, serialise and fold
events, and no thread, task or timer runs inside them. What is concurrent is around
them: producers that submit drafts, relays that forward stored events from one sink
to another over wires that lose, repeat and reorder, consumers that follow a run
while it grows. What is hard is that every promise of the protocol (numbering,
closing, refusing, re-emitting the same bytes) is made by two programs that share no
code.

Line numbers below are of the files the modules model; PROJECT.json maps every
definition to its lines.

## 1. Inventory

| part | state | operations | what makes it correct |
|---|---|---|---|
| Rust sink: `InMemorySink`, `lib.rs` 2320-2501 | events per run, set of finished runs | `append_draft`, `append_event`, `events` | gapless numbering however drafts and forwards mix; one terminal event and nothing after it; refusals are true and cost no number |
| TypeScript sink: `InMemorySink`, `index.ts` 2310-2427 | the same, and an `appendDraft` that waits for the caller's clock | `appendDraft`, `appendEvent`, `events` | it does what the Rust sink does; an exception of clock or parser leaves nothing behind |
| Relay: README "Capture" and sink guide, payload `capture.refused` | the refusal it has yet to record | deliver, record, restart, finish its own run | the copy is a prefix of the source, closes only when complete; what is on record stays true; nothing that can be copied is given up, and what cannot be is reported |
| Lifecycle fold: `foldRun`, `index.ts` 2429-2498 | none | fold one sequence | tells exactly what the lifecycle markers say, refuses incoherent sequences |
| Consumer: `events(run)` then `foldRun` | its last snapshot | poll, fold | what it shows as over is over and whole; a view only goes forward |
| Validation and parsing, Rust: `validate`, `parse_event`, `decode_payload`, `union_unknown_validation.rs` | none | validate, parse, serialise | the same verdict and the same refusal as TypeScript; valid is forwardable |
| Validation and parsing, TypeScript: `validate`, `parseEvent`, thirteen payload parsers | none | validate, parse, serialise | the same |
| Canonical form: `serialise_event`, `canonicalise_numbers`, `serialiseEvent`, `sortObjectKeysByUtf8Bytes` | none | serialise | one form, whichever SDK and whatever build features; carrying an event changes no byte |
| Control and decision flow: payloads `control.*`, `decision.*`, `validate_decision_answer_against_request` | none in the SDKs; the invocations that use them hold an answer between reading and appending | ask, decide, time out, undo, apply, finish | an answer leads back to a request although ids are unique only within a run and it need not name the run that asked; a late answer is recorded although the asker is gone; nothing proceeds because time ran out; the pair check refuses nothing but undos |
| Envelope: `stamp`, drafts, the envelope half of `parse_event` and `parseEvent` | none | build, parse, rebuild | both SDKs take the same envelopes and emit them in one field order |
| Number notation: `EcmaScriptFormatter`, `canonicalise_number`, `decompose_decimal`, `lib.rs` 2064-2213 | none | print a number | prints what `JSON.stringify` prints, and the number stays the number |
| Excerpts: `excerpt`, `lib.rs` 93-134, `index.ts` 129-179 | none | cut a text | cuts between scalars, tells whether it cut, is final at the second cut |
| Conformance drivers, corpus, build script, tests, CI | files | | not behaviour of the SDKs |

**Interactions.** A producer calls a sink with a draft; the sink stamps it and returns
the event. A relay reads the events of one sink, validates each, and offers it to another
sink with `append_event`; the error it gets back becomes a `capture.refused` in its own
run. A consumer takes snapshots with `events(run)` and folds them. The TypeScript
sink calls back into its caller once: the clock. Otherwise the SDKs meet only
through the bytes of an event.

**Where it is hard.** Drafts and forwarded events on one run. The order of the closed check
and the sequence check. The clock called in the middle of `appendDraft`. Events that arrive
twice, late or never at a destination that may neither renumber nor accept a gap. The
terminal event overtaking the others. Snapshots taken while a run goes on. Two copies
of thirteen parsers with their own orders of checking; numbers that one SDK sees as a
literal and the other as a double; map order that a build feature of another crate
changes. An answer that comes after the asking run has closed, on a run of somebody
else, under an id that several runs use. The decimal point of a float moved by hand, and a text
cut in UTF-16 units by one SDK and in scalars by the other. PROJECT.json lists each under "hazards", at its line.

## 2. The modules

| module | models | state and actions |
|---|---|---|
| `RunLog` | abstract: what a sink promises | `log`: per run a list of facts; `Record` appends to a run without a terminal fact |
| `Sink` | the Rust sink | `runs`, `finished` are the struct's two fields, `reply` the last `Result`; `AppendDraft`, `AppendEvent` are the two functions, one step each because they take `&mut self` |
| `TsSink` | the TypeScript sink | the same state (through `Rust == INSTANCE Sink`) and `calls`, the activations of `appendDraft` waiting for the clock; `BeginDraft` is the function up to the clock, `ClockAnswers` and `ClockThrows` what follows; `AppendEvent` starts with the parse |
| `Relay` | two sinks, a wire and a relay | two instances of `Sink` and the relay's `outbox`; `Produce`, `Deliver`, `RecordRefusal`, `Restart` (the outbox is forgotten), `FinishRelay` |
| `RunFold` | `foldRun` and its callers | `FoldStep` is the loop body, `FoldRun` the loop; `events` is the array a caller has in hand. `FedSpec` hands over every array (`Feed`), `FollowerSpec` is a consumer over a `Sink`: `Serve` is any call of anybody, `Poll` is `events(run)` |
| `Payload` | what both SDKs share: JSON values, bounds, error kinds, the walk over a value | operators |
| `RustSdk` | `validate`, the decoder with its located errors, the union probe, `parse_event` and `serialise_event` with the envelope serde derives, the canonical form, the answer check | operators; `from_str_preserving_order` is `from_str` under serde_json's `preserve_order` feature, which the crate `preserve-order-probe` turns on |
| `TsSdk` | the same of `index.ts`: parsers, `validate`, `parseEvent`, `serialiseEvent`, the answer check | operators |
| `Agreement` | an event edited by a producer, in front of both SDKs | `payload`, `envelope`, `edits`; `WriteField`, `LeaveOut`, `NotAnObject` and the same three for the envelope |
| `Notation` | Rust's number notation and JavaScript's | operators over digits and exponents; `JsonStringify` says of each place what `Number::toString` puts there, `LayOut` moves the point as the Rust code does |
| `Excerpt` | `excerpt` of both SDKs | operators over UTF-16 units in four classes, surrogates included |
| `Leaf` | a number or a text that SDKs hand on, each reading, cutting or writing it | `leaf`, `origin`, `hops`; an action per SDK and kind of leaf |
| `DecisionFlow` | runs that ask, answer, undo and finish over one sink | an instance of `Sink` and `held`, the answer an invocation has made and not yet appended; `Ask`, `Decide`, `Expire`, `Undo`, `Apply`, `Stop`, `FinishRun` |
| `MC*` | constants for TLC | |
| `SinkProofs`, `TsSinkProofs`, `RelayProofs`, `RunFoldProofs`, `DecisionFlowProofs`, `LeafProofs`, `AgreementProofs` | theorems of the module each is named after | |
| `Induction` | lemmas about induction, folds and loops that `RunFoldProofs`, `LeafProofs` and `AgreementProofs` cite | |

`TsSink`, `Relay`, `RunFold` and `DecisionFlow` are all composed from `Sink`, so that what is
proved of `Sink` is used for them; `Agreement` extends `RustSdk` and `TsSdk`, which extend `Payload`.
What is in `snake_case` in them is the Rust SDK's, what is in `camelCase` the TypeScript one's.

**What is abstracted.** Payloads are opaque to the sinks, which is how the sinks treat
them; the fields `v` and `capturedAt` ride along and are part of the payload there. In the relay a
payload is fine, over a bound, or misshapen (any other defect; a sink stores what a draft
carries, also what no parser would take back). In `DecisionFlow` a request is its id,
kind, options and timeout, an answer its id, option, reversal, whether it came by timeout,
and the run it names, if it names one. In `Notation` a number is its digits and exponent, digit by digit, and one
that a double holds as it is written: at most 15 digits in the normal range of a double, or an integer up to 2^53
(`HeldAsWritten`). In `Payload` a JSON value keeps its shape, its
keys in their order and its kinds; a string is one of the spellings a rule asks for or a
size class on either side of each bound (`long` is over the scalar bound, `wide` and
`huge` of four-byte scalars reach the byte bound), or `lone`, which holds half a surrogate: TypeScript
takes and emits it, serde_json does not read it (`index.ts` 140-142). A number is a class: a count, a
negative, a fraction, an integer written as a float (`2.0`), 2^53, the next integer, which no double
holds, 2^56 and 2^64, which the SDKs display differently, and one larger than every double. A field named `__proto__` is one
TypeScript's `unknown[key] = v` (`index.ts` 1025) does not keep. An envelope is an object; an array of the fields in order (see section 5) is not a
document of the model, nor is an object with a key twice. Wording of messages is kept only as
far as it names the field and the value, because both SDKs' messages are compared; a number in one is
the text that SDK displays of it (`number_text`, `numberText`).

**The wire** in `Relay` is not code of the repository. Any event the source has stored
may be delivered at any time, any number of times, or never: that is loss, repetition
and reordering at once, with no bound on messages in flight. The relay itself is what
the README's guide tells an implementer to write; every call it makes is to code of the
repository. It has one refusal in hand at most, because the guide's loop records before
it reads on, and it may be restarted with that refusal in hand.

**The invocations** in `DecisionFlow` are users of the SDK. What they may write is what
the payloads' comments in `lib.rs` 1156-1280 tell them: an answer goes on the run of
whoever applies it, never on the asking one, and may name the run that asked. Between
reading a request and appending the answer anything may happen, including the end of either run.
Producers in `Legacy` skip `validate`, as a parser lets them.

**Atomicity.** A Rust append is one step: `&mut self` and no await. The TypeScript append is
split at the clock, its only callback. JavaScript has no other interleaving here:
nothing in `index.ts` awaits.

## 3. What is checked

| run | asks | result |
|---|---|---|
| `sink` | type, `Gapless`, `ClosedByLastEvent`, `RefusalIsTrue`, `AppendOnly`, `KeepsPromise` (implements `RunLog`) | hold |
| `ts_sink` | type, `ActivationIsFresh`, `TerminalIsLast`, `ImplementsRustSink` for a clock that may throw and may call the sink, nested, but leaves the history of the run it is called for alone | hold |
| `ts_sink_reentrant` | `TerminalIsLast` when the clock may call the sink | violated, finding 1 |
| `relay` | type, `CopyIsPrefix`, `ClosedCopyIsComplete`, `NothingPassesAnInvalidEvent`, `RefusalsStayTrue`, and under fairness `EveryValidEventIsCopied`, `EveryInvalidEventIsReported` | hold |
| `run_fold` | `FoldIsAsDeclared`, the loop against a declaration over the whole sequence | holds |
| `run_fold_incoherent` | `IncoherentIsRejected` | violated, finding 2 |
| `run_follower` | `FollowedRunsAreCoherent`, `OverIsOver`, `ViewGoesForward` | hold |
| `agreement` | eight invariants, below | hold |
| `agreement_parse`, `agreement_bytes` | one documented claim each | violated, findings 3 and 4 |
| `leaves` | `NumberIsKept`, `SdksWriteAlike`, `ExcerptIsTrue`, `SdksCutAlike`, `EmittedFormIsFinal` | hold |
| `decision_flow` | type, `RefusedAnswerIsAnUndo`, `NobodyDecidingOnlyDenies`, `LateAnswerIsRecorded` | hold |

**The sink.** `RefusalIsTrue` reads each refusal as what it says of the history at that moment: a number already stored
is a duplicate, one too high a gap, and a closed run is closed. Zero is the exception: `Event.seq` is any `u64` (`lib.rs` 1305),
`append_event` does not check it, and an event built in the process with `seq` 0 is refused as received 0, below what is
expected, though nothing is ever stored under 0. Parsed events cannot have it.

**The relay.** `RefusalsStayTrue` is the property with the most to say. A refusal is
recorded some time after the append that caused it and read long after that; it must
still be true then. It is, because each cause is about something monotonic: a
duplicate and an event of a finished run are in the copy, unchanged, so refusing them lost
nothing; an invalid event is not in the copy and never will be;
only "gap" is about the moment, and all it says for ever is that the event is not the first. The
price of a strict destination is `NothingPassesAnInvalidEvent`: one event over a
bound, or one no parser takes back, stops the copy of its run for good, the terminal event
included. `EveryValidEventIsCopied` is the other half: nothing else stops a copy, a
restart of the relay included. `EveryInvalidEventIsReported` says that a refusal lost in a restart is
not lost for good: the event is offered again, refused again and recorded, unless the
relay's own run is over by then. That exception is in the code: a `capture.refused` for a
closed run is refused like any other draft (README 296).

**Decisions.** An id names a decision within one run (`lib.rs` 1176), and the answer is on
another run. The documents correlate the two by `decisionId` (`lib.rs` 1170, 1209), and `requestedRunId` is optional
(`lib.rs` 1272-1277), so an answer that leaves it out can be paired with requests of several runs: of those
`RefusedAnswerIsAnUndo` says that one admits it, and all of them if it names the run. `LateAnswerIsRecorded`
is why the answer is not on the asking run: that one is mostly closed by
then. `NobodyDecidingOnlyDenies` is the rule behind `onTimeout`: `validate` checks three
things of it (permission only, deny only, offered), and together they leave a timeout
nothing but a permission denied. The pair check sees one request and one answer. It admits a
timeout on any option that `onTimeout` names, even of a request that was never validated
and never offered it, and any offered option without `onTimeout`, and it refuses the undo of an
earlier answer unless the undo's id happens to be an option: nothing else is refused.

**Leaves.** The layout of a float is the one piece of arithmetic in the repository, done on a string: find the
digits, count the zeros, move the point. `Notation` has both sides, the code's
string surgery and a definition place by place, and `SdksWriteAlike` compares them for every
spelling `serde_json` may start from, of the numbers a double holds as they are written; `NumberIsKept` reads the digits back at their places,
and `EmittedFormIsFinal` says that what was emitted once is what every later hop emits. Excerpts are handed
on and cut again by either SDK: `ExcerptIsTrue` and `SdksCutAlike`.

**Agreement.** With up to two departures from every well-formed payload of all
thirteen types and one unknown type:
`SdksAgreeOnVerdict` (the same payloads are valid), `SdksAgreeOnOneDefect` (with one
thing wrong, the same refusal: kind, path, numbers, message), `ValidIsForwardable`
(what one SDK validates, the other parses and validates from the bytes the first emits),
`OverBoundIsForwardable` (an event refused for a bound or a policy still parses),
`RelayKeepsBytes` (parsing and emitting again changes nothing, unknown fields
included, save a field named `__proto__` where TypeScript rebuilds an object), `EnvelopesAgree` (the same for the event around a payload: a foreign, missing, null or
out-of-range field fares alike in both SDKs, and fields in any order are emitted in
one), `FeatureChangesNothing` (verdict and canonical form do not depend on
`preserve_order`), `AnswerWasOffered` (an answer admitted against a validated request
names one of its options, by timeout or not, and both SDKs admit the same answers). What TypeScript emits
with a lone surrogate in it is left out where Rust would have to read it (`IsUnicode`, `can_be_read`), and by nothing
else: `RelayKeepsBytes` still says that Rust reads and keeps everything TypeScript emits that is Unicode. The
first two say `PlainlyWritten` or "one defect" because the code does not promise more:
`2.0` where a count belongs is finding 3, and with two fields wrong the Rust decoder
reports the first in key order, the TypeScript parser the first in declaration order. One defect that is an
integer out of range is refused with the same kind, path and bound, but each SDK quotes it as it displays
numbers: Rust the literal, TypeScript the double it was read as (section 5).

### Bounds, and why they are enough

- `sink`: two runs, histories to 3, two event types, two clock answers. The code compares a
  number with a length and asks whether a run is in a set; two runs show that a call leaves
  other runs alone, a history of three has a first, a middle and a last event. The
  theorems lift every bound but `MaxSeq`'s being a number.
- `ts_sink`: two runs, histories to 2, sequence inputs 0 to 3, so both ends of the range
  `parseEvent` accepts are crossed. `MaxDepth` is 2: a call, and one the
  clock makes in it.
- `relay`: one producer run, histories to 3 in both sinks: an event that is fine, over a bound or misshapen
  in each place, one behind it, the terminal one, and two refusals with the relay's own terminal event. Runs
  do not interact but through the relay's run. The safety properties are proved for any number of runs and
  any length (and hold in 519,185 states at histories of 4); the two liveness properties are why the bound
  is 3. `RoomToRecord` is a bound, not code: a delivery that would leave a refusal waits until the relay's run
  has room for it and its terminal event, and `EveryInvalidEventIsReported` excepts a relay run at its bound.
- `run_fold`: every array of up to 4 events of two runs and three payloads, well-formed or not, 111,151 of them.
- `run_follower`: one run to 3, with right, wrong and broken lifecycle payloads; polls at any time.
  `RunFoldProofs` proves these four properties for any runs and lengths.
- `agreement`: two edits, every field of every payload, values at each bound of each shape;
  two, since the phases of `validate` stop at the first failure and what matters is which of
  two comes first. The envelope does not depend on the type, so it is edited, twice as well, around one type's
  payload, with all its fields, the required ones, or its fields backwards.
  `AgreementProofs` removes the bound of two edits from six of the eight invariants. 66,053 events. `Odd` has integers
  written as floats, 2^53 + 1, numbers beyond an f64, lone surrogates and fields named `__proto__`; not keys that
  are array indices (finding 4). The theorems cover all six, but for `BytesTravel`
  and `EventsAgree`, which exclude the last.
- `leaves`: numbers of up to four digits from {0, 1, 5} with exponents from -9 to 23, which
  passes both ends of plain notation (-6 and 21) with the point at every distance, and the integers 2^53 - 1 and
  2^53 with and without `.0`; all texts of up to five UTF-16 units (one-unit scalar, high and low surrogate, the
  replacement character) with limits 0 to 3; three hops. `LeafProofs` removes the bounds on texts, limits and
  hops, and on numbers up to `HeldAsWritten`: of a text with more digits than that a double may have
  others, which are up to `serde_json` and the JavaScript engine. The literal 9007199254740993, say, stays as it is
  in Rust, which keeps integers, and comes out of JavaScript as 9007199254740992; `validate` refuses it in both.
- `decision_flow`: two runs, one of which skips `validate`, histories to 2, three requests of one id: a
  permission that offers its timeout, one that does not, and a tripwire with a timeout; one option each. Answers name the
  run that asked or leave it out. Two events let a run ask and close, or answer twice; undos need three events over two
  runs. 443,245 states.

`CHECK_DEADLOCK` is off where the users stop at a bound: a producer of a sequence, payload or
leaf, and the runs of `decision_flow`.

### Fairness

Only `relay` states any: strong fairness of recording a refusal (a relay that has one in
hand records it now and then, and is not restarted each time just before) and strong
fairness of each delivery (a wire that keeps offering what the source stores gets through again and again). Both are
assumptions about the caller's relay and wire, not about the SDK. Weak
fairness would not do: a restart empties the relay's hand, and between two offers the relay may be
busy recording, so neither step stays enabled. Producers, restarts, the relay's end and the sinks need
no fairness.

## 4. What is proved

All for every set of runs, types, payloads and times and every bound on histories, on nested calls, and on
a producer's departures from a well-formed event.

| theorem | says |
|---|---|
| `SinkProofs`: `TypeCorrect`, `HistoriesAreGapless`, `RunsCloseOnce`, `RefusalsAreTrue`, `SinkAppendsOnly` | the sink's invariants and its action property |
| `SinkProofs`: `SinkKeepsPromise` | `Sink` implements `RunLog` |
| `TsSinkProofs`: `TsImplementsRust`, `ActivationsStayFresh`, `TsRunsCloseOnce`, `TsTypeCorrect` | with a clock that leaves the waiting run's history alone (`CalmSpec`), `TsSink` implements `Sink`, so every theorem of `SinkProofs` holds of it |
| `TsSinkProofs`: `SilentClockIsCalm` | a clock that never calls the sink is one of those |
| `RelayProofs`: `SourceIsASink`, `DestinationIsASink` | inside the composition each sink still behaves as `Sink`; again its theorems carry over |
| `RelayProofs`: `RelayTypeCorrect`, `CopiesArePrefixes`, `ClosedCopiesAreComplete`, `NothingPassesAnInvalid`, `RefusalsAreTrueForEver` | the relay's safety invariants |
| `RelayProofs`: `NextEventIsTaken` | an action property, the safety half of `EveryValidEventIsCopied`: the event a copy waits for, if valid, is taken whenever it is offered, whatever came before |
| `RunFoldProofs`: `FollowersSeeCoherentRuns` | what a consumer folds is coherent, so the second `run.finished` of finding 2 cannot reach `foldRun` through a sink |
| `DecisionFlowProofs`: `DecisionsAreTyped`, `RefusedAnswersAreUndos`, `NobodyOnlyDenies`, `LateAnswersAreRecorded` | all properties of the decision flow, for any runs, requests and ids |
| `RunFoldProofs`: `FoldTellsWhatIsDeclared` | for sequences of any length, well-formed or not, what `foldRun`'s loop returns is what is declared of the sequence as a whole |
| `RunFoldProofs`: `OverViewsAreOver`, `ViewsGoForward` | a run seen as over is over, and the consumer holds all of it; no poll takes back what was told |
| `LeafProofs`: `RustWritesWhatTsWrites`, `SdksAlwaysWriteAlike` | of every number text that a double holds as it is written, Rust's text is `JSON.stringify`'s, at every hop |
| `LeafProofs`: `NumbersAreKept` | each digit of such a number stays at its place through any number of hops, and the sign unless the number is zero |
| `LeafProofs`: `SdksAlwaysCutAlike`, `ExcerptsAreTrue` | for texts of any length and any bound, both SDKs cut alike, keep the first scalars, and flag exactly what is missing |
| `LeafProofs`: `EmittedFormsAreFinal` | the action property: once emitted, a number or a text never changes again, whichever SDK carries it |
| `AgreementProofs`: `VerdictsAgree` | both SDKs accept the same plainly written payloads, whatever and however much is wrong with them |
| `AgreementProofs`: `ValidTravels` | what one SDK validates both parse, and the other validates what the first emits of it, if that is Unicode |
| `AgreementProofs`: `BytesTravel`, `EventsAgree` | unless keys are array indices (finding 4), what one SDK emits of a payload or an event the other parses and emits unchanged, Rust if it is Unicode, TypeScript if it has no `__proto__` to rebuild; both parse the same plainly written events |
| `AgreementProofs`: `FeatureIsUnseen` | map order changes neither verdict nor canonical form |
| `AgreementProofs`: `AnswersAreOffered` | a valid request admits answers it offered only, the same in both SDKs |

**The argument.** The sink's guards look at `finished` and at the length of a list; the
properties speak of the events in it. Neither `Gapless` nor `ClosedByLastEvent` is
inductive alone: a store is at the right number only because the length is, and the terminal event is last
only because `finished` says what the list says. The inductive invariant is
`TypeOK /\ Gapless /\ ClosedByLastEvent`; one lemma (`CallSteps`) reduces every call
to "nothing changed" or "one event stored with the next number on an open run", and
everything else is about that one store. In `TsSinkProofs` the invariant is that
what each waiting activation read is still so (`Inv`): an inner call may store only on other runs, so the stack may
be as deep as it likes; and what the clock's answer then stores is what `append_draft` would have stored at that
moment. In `RelayProofs` each sink
brings its own invariant through INSTANCE; on top of them `CopyIsPrefix` is inductive, since a
delivered event carries the number its destination asks for and the source holds that number once;
`ClosedCopyIsComplete` follows without induction (the terminal event of a copy is the
source's, hence the source's last); `NothingPassesAnInvalidEvent` needs the prefix
(to go past an event the copy must hold it); refusals need all of them. `NextEventIsTaken` follows from the same
invariants: a copy that still waits for an event is not complete, hence not closed, and it asks for just the number
the source gave that event. What is left of `EveryValidEventIsCopied` is that the wire offers it, the fairness. A
restart of the relay only forgets a refusal, which no invariant needs.

In `DecisionFlowProofs` the invariant is
`IInv == TypeOK /\ PayloadsFit /\ RequestsAreSound /\ AnswersStand`: stored payloads are of
their event's type, a run stores a decision id once and, unless `Legacy`, only validated requests, and every answer,
recorded or held, stands, that is, leads to a stored request and is admitted by it or
undoes a recorded answer. Held answers must be in it, since an answer is made of what the sink
held some steps before it is appended; it still stands then because histories only grow, which is the
lemma `StoredGrows`, from `Sink`.

**Folds.** `foldRun` and both excerpts are loops, written with `FoldLeft`, whose library definition is a
recursive function picked by CHOOSE: nothing follows from it until that function is shown to exist. `Induction`
does so with sets only, so that the provers need no operator as a parameter: `LeastExists` comes
from the well-foundedness of the naturals, `SetInduction` and `SeqInduction` say that a set with the first
and with every successor has all, `FoldExists` and `LoopExists` build the function by induction. What a fold
returns is then the last accumulator of a loop (`FoldRunLoops`, `FlattenOfLoop`, `TsExcerptOfLoop`), and a
claim about it is a loop invariant.

In `RunFoldProofs` that invariant is `Declared(run, s, n)`: after `n` events the loop holds what those `n` declare.
`DeclaredNext` keeps it, one case per branch of the loop body; `FoldRunIsDeclared` is its end. It is stronger than
`FoldIsAsDeclared` in two ways: it is about the first `n` events where the property is about all, and it gives the whole
result, record by record, where the property names fields, since the loop body hands on what it does not change.
`FoldGoesForward`, about a sequence and a longer one that begins with it, compares their loops up to the end of the
shorter one and then follows the longer.

For a consumer (`FollowerSpec`) the invariant is `Sink`'s own with `SnapshotIsPrefix`, which is what a poll in the past
leaves true while the history grows. A view that is over has a finish, so its snapshot has the terminal event, which is the last
of the history: the snapshot is the history (`OverMeansWhole`). For `ViewGoesForward`
a poll brings a longer sequence that begins with the old one, which is where `FoldGoesForward` applies; by itself it does not
keep a view that is over, since a longer sequence may be bad further on. `OverMeansWhole` closes that: there is no longer one.

In `LeafProofs` the invariant is `Inv == hops \in Nat /\ NumberInv /\ TextInv`. `NumberInv` says that a number on its way is a
number text of the value it started with, or some zero for a zero, and from the first hop on is what writing
it again writes. `TextInv` says that a text is whole until the first hop, and after it is `ExcerptOf(origin, limit)`,
the first scalars with lone surrogates mended: the properties say nothing of how the leaf came about, so
they do not say what the next hop makes of it. Both were checked by TLC on the instance of `leaves` before they were proved.

- *Numbers.* A number has a normal form, digits with no zero at either end and a place for the
  point. `DecomposeDecimalIsValue` says that the code's search for the first and the last digit and its count of zeros
  arrive at that form, `LayOutIsJsonStringify` that laying it out is, in each of the five ranges of the exponent, what
  `JSON.stringify` writes, and `StringifyIsTheValue` that what is written reads back as the number, so the argument
  holds again at the next hop (`WritingKeeps`). `DigitAtIsPlace` turns equal values into equal digits place by place.
- *Texts.* `CodePointsNext` follows JavaScript's iterator one code unit at a time, `CodePointsOfScalars` says that scalars written out
  one after the other are read back as they were: no cut makes a high surrogate meet a low one. With it both
  excerpts are `ExcerptOf` (`TsExcerptIsExcerpt`, `RustExcerptIsExcerpt`, the latter of well-formed texts, the only ones
  a Rust string holds), and an excerpt cut again to its bound stays as it is (`ExcerptKeeps`).

**Two SDKs, one document.** What a JSON value is put through is a walk. Provers can follow no recursion over data here,
and need not: `payload` is never deeper than five levels (`TypeInvHolds`), since an edit puts a value of known depth at a
place of known depth. So `Payload` writes every walk as one operator per level (`Rewrite1` to `Rewrite`, `Leaves1` to
`Leaves`, `Bytes1` to `PayloadBytes`), all from one step (`RewriteOver`, ...), and `AgreementProofs` proves each fact of the step once
and carries it up the five levels: `Typed1` to `Typed5`, `Twice1` to `Twice5` and so on differ in their number only.

- *Walks.* `Twice5`: reading and then writing a document is one walk, with one order of keys and one replacement of numbers.
  `LeavesRewritten5`, `BytesRewritten5`, `Alike5`: what a walk does to leaves and size, and when two walks do the same. The
  order of keys is why `BytesTravel` needs `"indices" \notin Odd`: `SortedAlike` says the two canonical orders then
  select alike, and finding 4 that otherwise they do not.
- *Readers.* The Rust decoder and the thirteen TypeScript parsers come to one condition, `FitsPayload(t, v, bad)`
  (`PayloadReads`): they declare the same fields (`SameStructs`) and differ in `bad` only, which is what `JSON.parse` reads
  as `Infinity`. Both `validate`s come to `Accepts` (`RustAccepts`, `TsAccepts`), both `parse`s to `Reads`, both event readers to
  `FitsEvent`, which differ in whether `seq` may be written `2.0`.
- *Replacements.* A walk changes single leaves, so it keeps those conditions if its replacement does, leaf by leaf (`Keeps`,
  `Shows`, `MakesSafe`, `HidesNone`): each kind of leaf against each of four shapes, once for each replacement, and
  `PayloadKeeps`, `PayloadShows`, `SafeRewritten` do the rest. The rules of `validate` look at declared texts and booleans,
  which no walk touches (`RulesAreSame`).
- *Rebuilding.* What a TypeScript parser returns of an object lacks its `__proto__`, so it is not the object rewritten but `Near` it:
  the same tag, the same fields but that one, and near below (`Near1` to `Near5`). Every condition above looks at
  declared fields and at leaves, and a near document shows the declared ones alike and has no leaf of its own, so the
  conditions carry over (`PayloadKeeps`, `NearLeaves5`); where nothing named `__proto__` has to be rebuilt, near is
  the rewrite itself (`RebuiltAlike`, `ParsedPayload`), which `BytesTravel` needs to speak of bytes.

Every theorem of `AgreementProofs` is then about an arbitrary document (`RustForwards`, `TsForwards`, `RustBytesAreKept`,
`TsBytesAreKept`, `RustEventIsKept`, `TsEventIsKept`); the state machine enters by `TypeInv` and `EnvelopeInv` only. That is why
they hold of more than TLC sees: any number of edits, and every set `Odd`, numbers beyond an f64 and beyond 2^53 included.

**Assumptions** are the named ASSUMEs on constants (`SinkAssumption`, `TsSinkAssumption`,
`RelayAssumption`, `DecisionAssumption`, `RunFoldAssumption`, `LeafAssumption` and `AgreementAssumption`: the terminal type is a type, the relay's run is not a
producer's, literals are number texts and strings are code units, bounds are
numbers); that the clock is calm, which is in `CalmSpec` and without which the theorems about `TsSink` are false (finding 1);
and `"indices" \notin Odd` in `BytesTravel` and `EventsAgree` (finding 4). `LeafProofs` assumes, through
`HeldAsWritten`, that a double gives back 15 digits of a number in its normal range and every integer up to 2^53, which is
IEEE 754, and, through the definition of `SerdeTexts`, that `serde_json` and JavaScript find the same shortest digits of a double
(`lib.rs` 1847 says so) and that `serde_json` writes them plainly or with an exponent, in whichever range it likes.

**Only model-checked**, of the properties of the passing runs:

- the two liveness properties of the relay: fairness and ENABLED are beyond the prover;
- `SdksAgreeOnOneDefect` and `OverBoundIsForwardable`. Both say "with one thing wrong", so neither is about an arbitrary
  document: a proof would go through every place of every type, say which refusal one departure there causes first in
  either order of checking, and add up the bytes of each sample to show that it stays below the bound. That is an
  enumeration, which is what TLC does, completely: one departure is within its bound, over every value `ValuesAt` lists
  with the run's `Odd`. What does not depend on there being one departure is proved (`VerdictsAgree`).

Every other property of a passing run is a theorem.

## 5. Where the documents say more than the code does

1. `index.ts` 2384: `appendDraft` reads the closed flag and the next number, then calls the
   clock. A clock that appends a terminal event to the same run returns into a call that stores after it, under a
   number already used. Rust's borrow rules exclude it. A clock that
   leaves the history of the run it is called for alone is safe, whatever else it calls (`TsImplementsRust`).
2. `index.ts` 2487: `foldRun` rejects a second `run.started`, not a second `run.finished`,
   and tells the last. Through a sink it cannot happen (`FollowersSeeCoherentRuns`).
3. `index.ts` 1143: a count written `2.0` parses in TypeScript, not in Rust: TypeScript
   carries an event Rust cannot read.
4. `index.ts` 2189: keys that are array indices come first and by value in the
   TypeScript canonical form, by UTF-8 bytes in Rust's.

Also met, without a run of their own:

- `index.ts` 1736: `1e999` in a field the parser does not know is `Infinity`, passes
  the number check, and is emitted as `null`, although `index.ts` 2214-2217 has unknown fields re-emitted. Rust
  refuses to read the event.
- `lib.rs` 1358: serde's derived reader also takes an array of the envelope's fields in declared order, which
  `parseEvent` refuses (`index.ts` 2221), and refuses a key written twice and `v` written `1.0`, which it takes.
- `lib.rs` 1684: the pair check admits an answer by timeout that names any offered option, whether or not the
  request has `onTimeout`; only a request's own `validate` ties the two.
- `lib.rs` 1170 correlates request and answer "only by `decision_id`"; `lib.rs` 1176 has it unique within the
  run only, and `requestedRunId` may be left out: an answer then does not say which of several requests it
  is about.
- `index.ts` 1025: `unknown[key] = v` on an object literal sets its prototype when the key is `__proto__`, so TypeScript
  loses that field of a payload it parses, although README 183-187 has unknown fields neither rejected nor dropped.
  Inside an unknown field, and in a payload of an unknown type, it survives. `RelayKeepsBytes` excepts just the objects a
  parser rebuilds (`CanRebuild`).
- A lone surrogate in `runId`, `ts` or a payload passes `validate` and `parseEvent` of TypeScript, which emits it as
  an escape that serde_json does not read. `index.ts` 140-142 knows of it, and `excerpt` mends it; no other function does.
- `conformance/README.md` 254-256 promises the same bytes of `detail`. An integer out of range is quoted as the literal by
  Rust (`lib.rs` 1905) and as the rounded double by TypeScript (`index.ts` 1739): 9007199254740993 against
  9007199254740992, 72057594037927936 against 72057594037927940, 1.8446744073709552e19 against 18446744073709552000.

## 6. Not modelled, and why

- Which digits a double has of a number it does not hold as written: the JSON libraries' business.
- Texts serde_json refuses that the model cannot write down: documents nested deeper than 128, and lone surrogates in keys. No
  payload of the model has more than five levels, and keys are names.
- Reading a payload into a typed variant. `check_representability` (`union_unknown_validation.rs`) is part of `validate_event`;
  that a value which passes it is read back as the same variant is up to serde's derived code.
- Deserialising straight into a typed `Event<P>`, past `parse_event`: serde's derived code; what differs
  from the located decoder is the wording of its errors.
- Aliasing: the TypeScript sink stores the caller's payload object; payloads here are values.
- How a runtime carries out `control.requested`, which reason it gives in `control.applied`, and that it
  emits `run.finished` after it: the README states it for runtimes, no code of the repository does it.
- Conformance drivers, `run.sh`, corpus, build script: sequential batch work over files.
  What they test on a few dozen files is what `Agreement` asks of every payload within its bounds.

## 7. Plan

Done, in this order: `Sink` and `RunLog`; `TsSink`; `Relay`; `RunFold`; `Payload`,
`RustSdk`, `TsSdk`, `Agreement`; the consumer; proofs of each sink, the relay and the consumer; `Notation`,
`Excerpt`, `Leaf` and the proof of the notation; `DecisionFlow` and its proofs; the envelope in
`Agreement`; misshapen payloads and restarts in `Relay`; the proofs about `foldRun`, the consumer's views, excerpts
and emitted forms; clocks that call the sink back, in `TsSinkProofs`; `NextEventIsTaken`; the walks of `Payload` level by level
instead of by recursion, and `AgreementProofs`.

What could follow: the message of a refusal for several defects at once, which the documents leave open; a heap for
the payload objects the TypeScript sink shares with its caller; documents with a key written twice.
