------------------------------- MODULE Sink -------------------------------
(***************************************************************************)
(* The in-memory reference sink of the Rust SDK (InMemorySink in           *)
(* crates/ethogram/src/lib.rs): per run it stamps drafts, accepts events   *)
(* another sink already stamped, and refuses every append to a run whose   *)
(* terminal event it holds.                                                *)
(*                                                                         *)
(* A call is one step: append_draft and append_event take &mut self, so no *)
(* other call, the clock's included, can run inside them.  `reply` is the  *)
(* Result of the last call.                                                *)
(***************************************************************************)
EXTENDS Naturals, Sequences

CONSTANTS
    Runs,         \* run ids
    Types,        \* event types; the type is an open string in the code
    RunFinished,  \* the terminal type, "run.finished"
    Payloads,     \* payloads, opaque to the sink
    Times,        \* what the clock may answer; nothing makes it monotonic
    MaxSeq        \* bound: the longest history of a run that is explored

ASSUME SinkAssumption ==
    /\ RunFinished \in Types
    /\ MaxSeq \in Nat \ {0}

VARIABLES
    runs,      \* runs[r]: the stored events of r (an absent entry is <<>>)
    finished,  \* the runs whose terminal event is stored
    reply      \* the Result of the last call

vars == <<runs, finished, reply>>
-----------------------------------------------------------------------------
Draft == [type : Types, payload : Payloads]

\* An event in memory: seq is a public u64 that only a parser checks, so an
\* event given to AppendEvent may carry 0, which no sink ever assigns.
Event == [runId : Runs, seq : 0..MaxSeq, ts : Times,
          type : Types, payload : Payloads]

Stamp(draft, r, n, t) ==
    [runId |-> r, seq |-> n, ts |-> t,
     type |-> draft.type, payload |-> draft.payload]

NoReply == [kind |-> "none"]
Stored(e) == [kind |-> "stored", event |-> e]
RunClosedError(r) == [kind |-> "run_closed", runId |-> r]
SequenceError(r, wanted, got) ==
    [kind |-> "sequence", runId |-> r, expected |-> wanted, received |-> got]

Reply == {NoReply}
    \cup [kind : {"stored"}, event : Event]
    \cup [kind : {"run_closed"}, runId : Runs]
    \cup [kind : {"sequence"}, runId : Runs,
          expected : 1..(MaxSeq + 1), received : 0..MaxSeq]

\* Mutant: the count itself instead of the count plus one.
NextSeqFromZero(r) == Len(runs[r])

NextSeq(r) == Len(runs[r]) + 1

IsTerminal(e) == e.type = RunFinished
-----------------------------------------------------------------------------
Init ==
    /\ runs = [r \in Runs |-> <<>>]
    /\ finished = {}
    /\ reply = NoReply

\* Mutant: the terminal event is stored, the run is not marked finished.
StoreWithoutClosing(e) ==
    /\ runs' = [runs EXCEPT ![e.runId] = Append(@, e)]
    /\ reply' = Stored(e)
    /\ UNCHANGED finished

\* The tail both append functions share: close the run when the event is
\* terminal, push it, hand it back.
Store(e) ==
    /\ runs' = [runs EXCEPT ![e.runId] = Append(@, e)]
    /\ finished' = IF IsTerminal(e) THEN finished \cup {e.runId} ELSE finished
    /\ reply' = Stored(e)

Refuse(error) ==
    /\ reply' = error
    /\ UNCHANGED <<runs, finished>>

\* Mutant: no closed check.
AppendDraftToAnyRun(r, draft, t) ==
    /\ NextSeq(r) <= MaxSeq
    /\ Store(Stamp(draft, r, NextSeq(r), t))

AppendDraft(r, draft, t) ==
    \/ /\ r \in finished
       /\ Refuse(RunClosedError(r))
    \/ /\ r \notin finished
       /\ NextSeq(r) <= MaxSeq
       /\ Store(Stamp(draft, r, NextSeq(r), t))

\* Mutant: no sequence check.
AppendEventUnsequenced(e) ==
    \/ /\ e.runId \in finished
       /\ Refuse(RunClosedError(e.runId))
    \/ /\ e.runId \notin finished
       /\ Store(e)

\* Mutant: the sequence check before the closed check.
AppendEventSequenceFirst(e) ==
    \/ /\ e.seq # NextSeq(e.runId)
       /\ Refuse(SequenceError(e.runId, NextSeq(e.runId), e.seq))
    \/ /\ e.seq = NextSeq(e.runId)
       /\ e.runId \in finished
       /\ Refuse(RunClosedError(e.runId))
    \/ /\ e.seq = NextSeq(e.runId)
       /\ e.runId \notin finished
       /\ Store(e)

\* Mutant: no closed check.
AppendEventToAnyRun(e) ==
    \/ /\ e.seq # NextSeq(e.runId)
       /\ Refuse(SequenceError(e.runId, NextSeq(e.runId), e.seq))
    \/ /\ e.seq = NextSeq(e.runId)
       /\ Store(e)

AppendEvent(e) ==
    \/ /\ e.runId \in finished
       /\ Refuse(RunClosedError(e.runId))
    \/ /\ e.runId \notin finished
       /\ e.seq # NextSeq(e.runId)
       /\ Refuse(SequenceError(e.runId, NextSeq(e.runId), e.seq))
    \/ /\ e.runId \notin finished
       /\ e.seq = NextSeq(e.runId)
       /\ Store(e)

Next ==
    \/ \E r \in Runs, d \in Draft, t \in Times : AppendDraft(r, d, t)
    \/ \E e \in Event : AppendEvent(e)

Spec == Init /\ [][Next]_vars
-----------------------------------------------------------------------------
(***************************************************************************)
(* Properties.                                                             *)
(***************************************************************************)

\* The state has its type: every run maps to a list of events, and the last
\* Result is one the two signatures allow.
TypeOK ==
    /\ runs \in [Runs -> Seq(Event)]
    /\ finished \subseteq Runs
    /\ reply \in Reply

\* However drafts and forwarded events are mixed, the stored events of a run
\* carry its id and the sequence numbers 1, 2, 3, ... without gap or repeat.
Gapless ==
    \A r \in Runs : \A i \in DOMAIN runs[r] :
        /\ runs[r][i].seq = i
        /\ runs[r][i].runId = r

\* The set of finished runs and the stored events never disagree: a terminal
\* event is the last of its run, and a run is in the set exactly when its
\* last event is terminal (so there is at most one terminal event).
ClosedByLastEvent ==
    \A r \in Runs :
        /\ \A i \in DOMAIN runs[r] : IsTerminal(runs[r][i]) => i = Len(runs[r])
        /\ r \in finished
             <=> runs[r] # <<>> /\ IsTerminal(runs[r][Len(runs[r])])

\* What a refusal tells the caller is true of the sink it came from: a closed
\* run does hold its terminal event; an expected seq is the one the sink would
\* take now, on a run still open.  A received seq below it is already stored
\* (a duplicate), or is the 0 that no event of any sink carries; one above it
\* would leave a gap.
RefusalIsTrue ==
    /\ reply.kind = "run_closed" =>
          \E i \in DOMAIN runs[reply.runId] : IsTerminal(runs[reply.runId][i])
    /\ reply.kind = "sequence" =>
          /\ \A i \in DOMAIN runs[reply.runId] :
                ~IsTerminal(runs[reply.runId][i])
          /\ reply.expected = NextSeq(reply.runId)
          /\ \/ \E i \in DOMAIN runs[reply.runId] :
                   runs[reply.runId][i].seq = reply.received
             \/ reply.received = 0
             \/ reply.received > NextSeq(reply.runId)

\* A call changes at most one run, at most by one event at its end, and not at
\* all when it answers with an error or when the run was closed: a refused
\* append consumes no seq.
AppendOnly ==
    [][ \A r \in Runs :
          runs'[r] # runs[r] =>
            /\ reply' = Stored(runs'[r][Len(runs'[r])])
            /\ runs'[r] = Append(runs[r], reply'.event)
            /\ r \notin finished
            /\ \A q \in Runs \ {r} : runs'[q] = runs[q] ]_vars

(***************************************************************************)
(* The sink keeps the promise of RunLog: forget runId and seq.             *)
(***************************************************************************)
Fact == [ts : Times, type : Types, payload : Payloads]
FactOf(e) == [ts |-> e.ts, type |-> e.type, payload |-> e.payload]
FactsOf(r) == [i \in DOMAIN runs[r] |-> FactOf(runs[r][i])]

Promise == INSTANCE RunLog WITH
    Facts <- Fact,
    TerminalFacts <- {f \in Fact : f.type = RunFinished},
    log <- [r \in Runs |-> FactsOf(r)]

\* Every call is a step of the abstract run log, or no step of it: in
\* particular nothing is ever recorded after a terminal fact.
KeepsPromise == Promise!Spec
=============================================================================
