------------------------------ MODULE RunFold ------------------------------
(***************************************************************************)
(* foldRun (packages/ethogram/src/index.ts): what a consumer reads off the *)
(* two lifecycle markers of one run (README, "What this is" and the        *)
(* foldRun guide), and where the events it folds may come from.            *)
(*                                                                         *)
(* FedSpec feeds it every array of events, not only those a sink would     *)
(* store.  FollowerSpec has it follow a run kept by a sink: now and then   *)
(* the consumer takes the snapshot events(run) returns and folds it.  The  *)
(* fold trusts what it is given more than its comment says; what makes its *)
(* result reliable is the sink underneath.                                 *)
(***************************************************************************)
EXTENDS Sink, SequencesExt

CONSTANTS
    RunStarted,   \* "run.started"
    Starts,       \* the payloads a run.started parser takes
    Finishes,     \* the payloads a run.finished parser takes
    Followed      \* the run a consumer follows

ASSUME RunFoldAssumption ==
    /\ RunStarted \in Types \ {RunFinished}
    /\ Starts \subseteq Payloads
    /\ Finishes \subseteq Payloads
    /\ Followed \in Runs

VARIABLE events     \* the events the consumer holds, which it folds

allVars == <<runs, finished, reply, events>>
-----------------------------------------------------------------------------
\* foldRun's results: undefined, an exception, or a FoldedRun.
Undefined == [status |-> "undefined"]
Threw(why) == [status |-> "threw", why |-> why]
Opened(e) == [status |-> "folded", runId |-> e.runId, start |-> e.payload,
              open |-> TRUE]
Closed(run, e) == [status |-> "folded", runId |-> run.runId,
                   start |-> run.start, open |-> FALSE, finish |-> e.payload]

\* Mutant: the finish of another run is folded in.
FoldStepOfAnyRun(run, e) ==
    CASE run.status = "threw" -> run
      [] run.status # "threw" /\ e.type = RunStarted ->
            IF run # Undefined THEN Threw("second run.started")
            ELSE IF e.payload \notin Starts THEN Threw("malformed")
            ELSE Opened(e)
      [] run.status # "threw" /\ e.type = RunFinished ->
            IF run = Undefined THEN Threw("run.finished first")
            ELSE IF e.payload \notin Finishes THEN Threw("malformed")
            ELSE Closed(run, e)
      [] OTHER -> run

\* The loop body; an exception leaves the loop.
FoldStep(run, e) ==
    CASE run.status = "threw" -> run
      [] run.status # "threw" /\ e.type = RunStarted ->
            IF run # Undefined THEN Threw("second run.started")
            ELSE IF e.payload \notin Starts THEN Threw("malformed")
            ELSE Opened(e)
      [] run.status # "threw" /\ e.type = RunFinished ->
            IF run = Undefined THEN Threw("run.finished first")
            ELSE IF e.runId # run.runId THEN Threw("other run")
            ELSE IF e.payload \notin Finishes THEN Threw("malformed")
            ELSE Closed(run, e)
      [] OTHER -> run

FoldRun(s) == FoldLeft(FoldStep, Undefined, s)

View == FoldRun(events)
-----------------------------------------------------------------------------
ConsumerInit ==
    /\ Init
    /\ events = <<>>

\* The next event of an array somebody made.
Feed(r, draft, t) ==
    /\ Len(events) < MaxSeq
    /\ events' = Append(events, Stamp(draft, r, Len(events) + 1, t))
    /\ UNCHANGED vars

FedNext == \E r \in Runs, draft \in Draft, t \in Times : Feed(r, draft, t)

FedSpec == ConsumerInit /\ [][FedNext]_allVars

\* The sink serves somebody's call.
Serve ==
    /\ Next
    /\ UNCHANGED events

\* The consumer asks the sink for the run.
Poll ==
    /\ events' = runs[Followed]
    /\ UNCHANGED vars

FollowerNext == Serve \/ Poll

FollowerSpec == ConsumerInit /\ [][FollowerNext]_allVars
-----------------------------------------------------------------------------
(***************************************************************************)
(* Properties of the fold, of any array.                                   *)
(***************************************************************************)

StartAt(s) == {i \in DOMAIN s : s[i].type = RunStarted}
FinishAt(s) == {i \in DOMAIN s : s[i].type = RunFinished}

\* What the fold throws on, event by event: a start that is not the first or
\* is malformed; a finish before any start, of another run, or malformed.
BadAt(s) ==
    {i \in StartAt(s) : \/ \E j \in StartAt(s) : j < i
                        \/ s[i].payload \notin Starts}
    \cup
    {i \in FinishAt(s) : \/ ~\E j \in StartAt(s) : j < i
                         \/ \E j \in StartAt(s) : j < i /\ s[i].runId # s[j].runId
                         \/ s[i].payload \notin Finishes}

\* The loop computes what one would declare of the whole sequence: it throws
\* exactly when some lifecycle event is bad, is undefined exactly when nothing
\* was bad and nothing started, and otherwise tells the start, and of several
\* finishes the last.
FoldIsAsDeclared ==
    LET run == View
        starts == StartAt(events)
        finishes == FinishAt(events)
    IN  /\ run.status = "threw" <=> BadAt(events) # {}
        /\ run.status = "undefined" <=> BadAt(events) = {} /\ starts = {}
        /\ run.status = "folded" =>
              /\ \E i \in starts : /\ run.runId = events[i].runId
                                   /\ run.start = events[i].payload
              /\ run.open <=> finishes = {}
              /\ ~run.open =>
                    \E i \in finishes :
                        /\ \A j \in finishes : j <= i
                        /\ run.finish = events[i].payload

\* A sequence is a coherent run when its lifecycle markers are of one run and
\* it finishes at most once, as every history a sink keeps does.
Coherent(s) ==
    /\ \A i, j \in StartAt(s) \cup FinishAt(s) : s[i].runId = s[j].runId
    /\ \A i, j \in FinishAt(s) : i = j

\* The function's comment: mismatched run ids are rejected, "so this cannot
\* manufacture a coherent run from an incoherent sequence".
IncoherentIsRejected == View.status = "folded" => Coherent(events)
-----------------------------------------------------------------------------
(***************************************************************************)
(* Properties of a consumer that follows a run.                            *)
(***************************************************************************)

\* What the sink keeps of a run is always coherent in the fold's sense, so the
\* gap in the fold's own checks (a second run.finished) cannot be met through
\* a sink, by drafts or by forwarded events.
FollowedRunsAreCoherent == Coherent(events)

\* A run that folds as over is over: the sink holds its terminal event and the
\* consumer already holds the whole run.
OverIsOver ==
    (View.status = "folded" /\ ~View.open) =>
        Followed \in finished /\ events = runs[Followed]

\* A view only goes forward: once a start is shown it is that start, once a
\* finish is shown it is that finish, and a history the fold throws on does not
\* heal.
ViewGoesForward ==
    [][ /\ View.status = "threw" => View' = View
        /\ View.status = "folded" =>
              /\ View'.status \in {"folded", "threw"}
              /\ View'.status = "folded" => View'.start = View.start
              /\ ~View.open => View' = View ]_allVars
=============================================================================
