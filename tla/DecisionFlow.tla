---------------------------- MODULE DecisionFlow ----------------------------
(***************************************************************************)
(* Decisions over one sink.  A run asks with decision.requested and has    *)
(* usually finished by the time somebody answers; the answer is recorded   *)
(* with decision.answered by the invocation that applies it, on its own    *)
(* run, and may name the asking run.  The SDK keeps no state of a          *)
(* decision: it validates a request alone (validate), and an answer        *)
(* against the request it is paired with                                   *)
(* (validate_decision_answer_against_request).                             *)
(*                                                                         *)
(* The invocations are the SDK's users.  They read what the sink holds,    *)
(* make up their mind, and append some time later; meanwhile others ask,   *)
(* answer and finish.  An invocation that stops forgets what it held.      *)
(***************************************************************************)
EXTENDS Naturals, Sequences

CONSTANTS
    Runs,              \* every run asks and answers
    Legacy,            \* the runs of producers older than validate's rules
    DecisionRequested, DecisionAnswered, RunFinished,   \* event types
    Requests,          \* the requests a producer may make
    Deny, Permission,  \* the option and the kind the rules speak of
    ReversalIds,       \* what producers accept as undo: options or action ids
    Finish,            \* the payload of run.finished
    Times,
    MaxSeq             \* bound: the longest history of a run

VARIABLES
    runs, finished, reply,   \* the sink
    held                     \* per invocation: the answer it will append

sinkVars == <<runs, finished, reply>>
vars == <<runs, finished, reply, held>>
-----------------------------------------------------------------------------
(***************************************************************************)
(* The payloads; an optional field is a set of at most one value.          *)
(***************************************************************************)
Request(d, kind, options, onTimeout) ==
    [decisionId |-> d, kind |-> kind, options |-> options,
     onTimeout |-> onTimeout]

DecisionIds == {q.decisionId : q \in Requests}
OptionIds == ReversalIds \cup UNION {q.options \cup q.onTimeout : q \in Requests}

Answers == [decisionId : DecisionIds, optionId : OptionIds,
            byTimeout : BOOLEAN, reversal : {{}} \cup {{o} : o \in OptionIds},
            requestedRunId : {{}} \cup {{r} : r \in Runs}]

ASSUME DecisionAssumption ==
    /\ Legacy \subseteq Runs
    /\ DecisionRequested # DecisionAnswered
    /\ RunFinished \notin {DecisionRequested, DecisionAnswered}
    /\ MaxSeq \in Nat \ {0}

Log == INSTANCE Sink WITH
    Types <- {DecisionRequested, DecisionAnswered, RunFinished},
    Payloads <- Requests \cup Answers \cup {Finish}

\* Mutant: a timeout is not reserved to permissions.
ValidateRequestOfAnyKind(q) ==
    \A o \in q.onTimeout : o = Deny /\ o \in q.options

\* The policy of validate: a timeout only denies, only a permission, and only
\* when denying was on offer.
ValidateRequest(q) ==
    \A o \in q.onTimeout : q.kind = Permission /\ o = Deny /\ o \in q.options

\* Mutant: a timeout is not excepted, its option must be on offer.
AnswersRequestIfOffered(q, a) ==
    q.decisionId = a.decisionId /\ a.optionId \in q.options

\* validate_decision_answer_against_request.
AnswersRequest(q, a) ==
    /\ q.decisionId = a.decisionId
    /\ \/ a.optionId \in q.options
       \/ a.byTimeout /\ a.optionId \in q.onTimeout
-----------------------------------------------------------------------------
StoredIn(r, type) ==
    {runs[r][i].payload : i \in {j \in DOMAIN runs[r] : runs[r][j].type = type}}

RequestsOf(r) == StoredIn(r, DecisionRequested)
StoredAnswers == UNION {StoredIn(r, DecisionAnswered) : r \in Runs}

\* The runs that may have asked: the one the answer names, or any.
RunsNamedBy(a) == {r \in Runs : a.requestedRunId \subseteq {r}}

\* What a consumer that holds an answer can pair it with.  The id is unique
\* within a run only, so an answer that names no run may find several.
RequestsNamedBy(a) ==
    {q \in UNION {RequestsOf(r) : r \in RunsNamedBy(a)} :
        q.decisionId = a.decisionId}
-----------------------------------------------------------------------------
Init ==
    /\ Log!Init
    /\ held = [h \in Runs |-> {}]

\* A producer emits a request it validated (if it is new enough to know the
\* rules); decisionId is unique within the run.
Ask(r, q, t) ==
    /\ r \in Legacy \/ ValidateRequest(q)
    /\ \A p \in RequestsOf(r) : p.decisionId # q.decisionId
    /\ Log!AppendDraft(r, [type |-> DecisionRequested, payload |-> q], t)
    /\ UNCHANGED held

\* Mutant: an invocation takes up an answer before it applied the last.
HoldAnother(h, a) ==
    /\ held' = [held EXCEPT ![h] = @ \cup {a}]
    /\ UNCHANGED sinkVars

Hold(h, a) ==
    /\ held[h] = {}
    /\ held' = [held EXCEPT ![h] = {a}]
    /\ UNCHANGED sinkVars

\* An answer to the request q that may be undone by `reversal`, and names the
\* run that asked or leaves it out.
Answer(named, q, o, byTimeout, reversal) ==
    [decisionId |-> q.decisionId, optionId |-> o, byTimeout |-> byTimeout,
     reversal |-> reversal, requestedRunId |-> named]

Reversals == {{}} \cup {{o} : o \in ReversalIds}

\* A principal chooses among the options on offer.
Decide(h, r) ==
    \E q \in RequestsOf(r), named \in {{}, {r}} :
        \E o \in q.options, v \in Reversals :
            Hold(h, Answer(named, q, o, FALSE, v))

\* Nobody decided: the option the request itself names.  A request that names
\* none stays open.
Expire(h, r) ==
    \E q \in RequestsOf(r), named \in {{}, {r}} : \E o \in q.onTimeout :
        Hold(h, Answer(named, q, o, TRUE, {}))

\* The producer accepts its own reversal id as a later answer of the decision,
\* and that answer may be undone in turn.
Undo(h) ==
    \E a \in StoredAnswers : \E o \in a.reversal :
        Hold(h, [a EXCEPT !.optionId = o, !.byTimeout = FALSE,
                          !.reversal = {a.optionId}])

\* Mutant: the answer goes on the run that asked.
ApplyOnAskingRun(h, t) ==
    /\ \E a \in held[h] : \E r \in a.requestedRunId :
          Log!AppendDraft(r, [type |-> DecisionAnswered, payload |-> a], t)
    /\ held' = [held EXCEPT ![h] = {}]

\* The invocation records the answer it applies, on its own run.
Apply(h, t) ==
    /\ \E a \in held[h] :
          Log!AppendDraft(h, [type |-> DecisionAnswered, payload |-> a], t)
    /\ held' = [held EXCEPT ![h] = {}]

\* The invocation stops before it recorded anything.
Stop(h) ==
    /\ held[h] # {}
    /\ held' = [held EXCEPT ![h] = {}]
    /\ UNCHANGED sinkVars

FinishRun(r, t) ==
    /\ Log!AppendDraft(r, [type |-> RunFinished, payload |-> Finish], t)
    /\ UNCHANGED held

Next ==
    \/ \E r \in Runs, q \in Requests, t \in Times : Ask(r, q, t)
    \/ \E h, r \in Runs : Decide(h, r) \/ Expire(h, r)
    \/ \E h \in Runs : Undo(h) \/ Stop(h)
    \/ \E h \in Runs, t \in Times : Apply(h, t) \/ FinishRun(h, t)

Spec == Init /\ [][Next]_vars
-----------------------------------------------------------------------------
(***************************************************************************)
(* Properties.                                                             *)
(***************************************************************************)

\* The sink has its type and an invocation holds at most one answer.
TypeOK ==
    /\ Log!TypeOK
    /\ held \in [Runs -> {{}} \cup {{a} : a \in Answers}]

\* The pair check admits every recorded answer, unless it undoes one recorded
\* before it: some request of its id admits it, and if it names the run that
\* asked, every request it can be paired with does.  A genuine timeout is
\* admitted even when a request nobody validated never offered that option.
RefusedAnswerIsAnUndo ==
    \A a \in StoredAnswers :
        LET admitting == {q \in RequestsNamedBy(a) : AnswersRequest(q, a)}
        IN  \/ /\ admitting # {}
               /\ a.requestedRunId = {} \/ admitting = RequestsNamedBy(a)
            \/ \E b \in StoredAnswers :
                  /\ b.decisionId = a.decisionId
                  /\ b.requestedRunId = a.requestedRunId
                  /\ a.optionId \in b.reversal

\* Nobody deciding only denies: an answer by timeout goes back to a request of
\* a run it may name that announced this very option, and unless an older
\* producer made that request it was a permission that offered to be denied.
NobodyDecidingOnlyDenies ==
    \A a \in StoredAnswers : a.byTimeout =>
        \E r \in RunsNamedBy(a) : \E q \in RequestsOf(r) :
            /\ q.decisionId = a.decisionId
            /\ a.optionId \in q.onTimeout
            /\ \/ r \in Legacy
               \/ q.kind = Permission /\ a.optionId = Deny /\ Deny \in q.options

\* An answer is never lost because the run that asked has finished meanwhile;
\* only the run of the invocation itself can refuse it.
LateAnswerIsRecorded ==
    [][\A h \in Runs :
        held[h] # {} /\ held'[h] = {} /\ reply' # reply =>
            h \in finished \/ held[h] \subseteq StoredIn(h, DecisionAnswered)']_vars
=============================================================================
