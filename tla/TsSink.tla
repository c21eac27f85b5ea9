------------------------------ MODULE TsSink ------------------------------
(***************************************************************************)
(* The in-memory reference sink of the TypeScript SDK (InMemorySink in     *)
(* packages/ethogram/src/index.ts), the second, hand-written copy of the   *)
(* sink of module Sink.  Three things differ from the Rust copy:           *)
(*                                                                         *)
(*  - appendDraft evaluates the closed check and events.length + 1 first   *)
(*    and then calls the clock, a function of the caller.  Nothing in the  *)
(*    language stops that function from calling the sink again, so the     *)
(*    call is split around it: `calls` is the stack of appendDraft         *)
(*    activations that wait for their clock.                               *)
(*  - appendEvent runs parseEvent on its input before anything else and    *)
(*    throws a TypeError for what both SDKs cannot represent.              *)
(*  - either function may leave by an exception of the clock or the parse; *)
(*    `thrown` tells which, `reply` stays the answer of the last call that *)
(*    the sink itself decided.                                             *)
(***************************************************************************)
EXTENDS Naturals, Sequences

CONSTANTS
    Runs,
    Types,
    RunFinished,
    Payloads,
    BadPayloads,  \* the payloads parseEvent throws on
    Times,
    MaxSeq,       \* stands for 2^53 - 1: the largest representable seq
    MaxDepth      \* bound: nested calls; 1 is a clock that never calls back

ASSUME TsSinkAssumption ==
    /\ RunFinished \in Types
    /\ BadPayloads \subseteq Payloads
    /\ Times # {}
    /\ MaxSeq \in Nat \ {0}
    /\ MaxDepth \in Nat \ {0}

VARIABLES
    runs,      \* #runs
    finished,  \* #finishedRuns
    calls,     \* appendDraft activations waiting for the clock, innermost last
    reply,     \* what the last decided call returned or threw
    thrown     \* "none", or what the last call threw without deciding

vars == <<runs, finished, calls, reply, thrown>>

\* The Rust sink over the same state.  Its records for drafts, events and
\* replies are used here too.
Rust == INSTANCE Sink

-----------------------------------------------------------------------------
\* appendEvent takes any value of the Event shape.
Input == [runId : Runs, seq : 0..(MaxSeq + 1), ts : Times,
          type : Types, payload : Payloads]

\* Mutant: the bounds of the sequence number are not checked.
ParsesAnySeq(e) == e.payload \notin BadPayloads

\* parseEvent, as far as the sink can tell: the sequence number is a positive
\* safe integer and the payload of a known type has its shape.
Parses(e) == e.seq \in 1..MaxSeq /\ e.payload \notin BadPayloads

Activation == [runId : Runs, seq : Nat, draft : Rust!Draft]

\* A call comes from outside, or from the clock of the innermost activation.
MayCall == Len(calls) < MaxDepth
-----------------------------------------------------------------------------
Init ==
    /\ Rust!Init
    /\ calls = <<>>
    /\ thrown = "none"

\* Mutant: no closed check.
BeginDraftOnAnyRun(r, draft) ==
    /\ MayCall
    /\ Rust!NextSeq(r) <= MaxSeq
    /\ calls' = Append(calls, [runId |-> r, seq |-> Rust!NextSeq(r),
                               draft |-> draft])
    /\ thrown' = "none"
    /\ UNCHANGED <<runs, finished, reply>>

\* appendDraft up to the clock: the run is open, so its next number is read.
BeginDraft(r, draft) ==
    /\ MayCall
    /\ \/ /\ r \in finished
          /\ Rust!Refuse(Rust!RunClosedError(r))
          /\ UNCHANGED calls
       \/ /\ r \notin finished
          /\ Rust!NextSeq(r) <= MaxSeq
          /\ calls' = Append(calls, [runId |-> r, seq |-> Rust!NextSeq(r),
                                     draft |-> draft])
          /\ UNCHANGED <<runs, finished, reply>>
    /\ thrown' = "none"

\* appendDraft from the clock's answer on, with the number read before it.
ClockAnswers(t) ==
    /\ calls # <<>>
    /\ LET call == calls[Len(calls)]
       IN  Rust!Store(Rust!Stamp(call.draft, call.runId, call.seq, t))
    /\ calls' = SubSeq(calls, 1, Len(calls) - 1)
    /\ thrown' = "none"

\* Mutant: the run is marked finished before the clock is called.
ClockThrowsAfterClosing ==
    /\ calls # <<>>
    /\ LET call == calls[Len(calls)]
       IN  finished' = IF call.draft.type = RunFinished
                       THEN finished \cup {call.runId} ELSE finished
    /\ calls' = SubSeq(calls, 1, Len(calls) - 1)
    /\ thrown' = "clock"
    /\ UNCHANGED <<runs, reply>>

\* The clock throws: appendDraft is left before anything was stored.
ClockThrows ==
    /\ calls # <<>>
    /\ calls' = SubSeq(calls, 1, Len(calls) - 1)
    /\ thrown' = "clock"
    /\ UNCHANGED <<runs, finished, reply>>

AppendEvent(e) ==
    /\ MayCall
    /\ \/ /\ ~Parses(e)
          /\ thrown' = "type_error"
          /\ UNCHANGED <<runs, finished, reply>>
       \/ /\ Parses(e)
          /\ thrown' = "none"
          /\ Rust!AppendEvent(e)
    /\ UNCHANGED calls

Next ==
    \/ \E r \in Runs, d \in Rust!Draft : BeginDraft(r, d)
    \/ \E t \in Times : ClockAnswers(t)
    \/ ClockThrows
    \/ \E e \in Input : AppendEvent(e)

Spec == Init /\ [][Next]_vars

\* What the caller's clock must leave alone: the history of the run whose
\* append waits for it.  It may call the sink for any other run, begin and
\* abandon an append to the same run, read, and throw.
WaitingRunsUntouched ==
    \A i \in DOMAIN calls \cap DOMAIN calls' :
        runs'[calls[i].runId] = runs[calls[i].runId]

\* The sink with such a clock.
CalmSpec == Init /\ [][Next /\ WaitingRunsUntouched]_vars
-----------------------------------------------------------------------------
(***************************************************************************)
(* Properties.                                                             *)
(***************************************************************************)

\* The state has its type; an activation holds a draft and a number.
TypeOK ==
    /\ Rust!TypeOK
    /\ calls \in Seq(Activation)
    /\ Len(calls) <= MaxDepth
    /\ thrown \in {"none", "clock", "type_error"}

\* With a clock that leaves the waiting run alone (CalmSpec), the TypeScript
\* sink is an implementation of the Rust sink: every call, those the clock
\* makes included, stores, answers and refuses what append_draft or
\* append_event would, and an exception of the clock or of parseEvent changes
\* nothing the Rust sink has.
ImplementsRustSink == Rust!Spec

\* What an activation read before it called the clock is still true when the
\* clock answers: its run is open and its number is the next one.
ActivationIsFresh ==
    \A i \in DOMAIN calls :
        /\ calls[i].runId \notin finished
        /\ calls[i].seq = Rust!NextSeq(calls[i].runId)

\* The class comment's claim, for every clock the constructor's type allows:
\* a run has at most one terminal event and nothing after it.
TerminalIsLast ==
    \A r \in Runs : \A i \in DOMAIN runs[r] :
        Rust!IsTerminal(runs[r][i]) => i = Len(runs[r])
=============================================================================
