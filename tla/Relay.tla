------------------------------- MODULE Relay -------------------------------
(***************************************************************************)
(* Two sinks and a relay between them.  Producers submit drafts to the     *)
(* source sink; a relay offers the stored events, unchanged, to the        *)
(* destination sink, which keeps a copy of every source run and the        *)
(* relay's own run.  An event the destination refuses is recorded as       *)
(* capture.refused on the relay's own run (README "Capture" and its sink   *)
(* guide).                                                                 *)
(*                                                                         *)
(* The wire between them is not code of the repository.  It may lose,      *)
(* repeat and reorder: any event the source has stored may be delivered    *)
(* at any time, any number of times, or never.  The relay itself may be    *)
(* restarted between refusing an event and recording that it did.          *)
(*                                                                         *)
(* Both sinks are instances of Sink; the causes, and the place a refusal   *)
(* is recorded, are the code's and the guide's.                            *)
(***************************************************************************)
EXTENDS Naturals, Sequences

CONSTANTS
    SourceRuns,   \* the runs of the producers
    RelayRun,     \* the relay's own run
    Types,        \* the event types of the producers
    RunFinished,
    CaptureRefused,
    Payloads,     \* what producers put into their drafts
    OverBound,    \* the payloads `validate` refuses as over a bound
    Misshapen,    \* and the ones it refuses for anything else: a sink stores
                  \* what a draft carries, also what no SDK would parse again
    RelayPayload, \* the payload of the relay's own run.finished
    Times,
    MaxSeq        \* bound: the longest history explored, in both sinks

VARIABLES
    srcRuns, srcFinished, srcReply,   \* the source sink
    dstRuns, dstFinished, dstReply,   \* the destination sink
    outbox    \* the refusal the relay has yet to record, at most one

srcVars == <<srcRuns, srcFinished, srcReply>>
dstVars == <<dstRuns, dstFinished, dstReply>>
vars == <<srcRuns, srcFinished, srcReply, dstRuns, dstFinished, dstReply,
          outbox>>
-----------------------------------------------------------------------------
Cause == {"over_bound", "gap", "duplicate", "finished", "malformed"}

Invalid == OverBound \cup Misshapen

\* What capture.refused names of the event it is about, never its content.
Refusal == [cause : Cause, sourceRunId : SourceRuns, sourceSeq : 1..MaxSeq,
            sourceType : Types]

RefusalOf(e, cause) ==
    [cause |-> cause, sourceRunId |-> e.runId, sourceSeq |-> e.seq,
     sourceType |-> e.type]

ASSUME RelayAssumption ==
    /\ RelayRun \notin SourceRuns
    /\ RunFinished \in Types
    /\ CaptureRefused \notin Types
    /\ OverBound \subseteq Payloads
    /\ Misshapen \subseteq Payloads
    /\ OverBound \cap Misshapen = {}
    /\ Times # {}
    /\ MaxSeq \in Nat \ {0}

DstRuns == SourceRuns \cup {RelayRun}

Src == INSTANCE Sink WITH
    Runs <- SourceRuns,
    runs <- srcRuns, finished <- srcFinished, reply <- srcReply

Dst == INSTANCE Sink WITH
    Runs <- DstRuns,
    Types <- Types \cup {CaptureRefused},
    Payloads <- Payloads \cup Refusal \cup {RelayPayload},
    runs <- dstRuns, finished <- dstFinished, reply <- dstReply

StoredAtSource == UNION {{srcRuns[r][i] : i \in DOMAIN srcRuns[r]} :
                         r \in SourceRuns}

\* The refusals on the relay's run.
Recorded ==
    {e.payload : e \in
        {dstRuns[RelayRun][i] : i \in
            {j \in DOMAIN dstRuns[RelayRun] :
                dstRuns[RelayRun][j].type = CaptureRefused}}}

\* Mutant: a duplicate and a gap told the wrong way round.
CauseOfSwapped(error) ==
    IF error.kind = "run_closed" THEN "finished"
    ELSE IF error.received < error.expected THEN "gap" ELSE "duplicate"

\* The cause a relay derives from the error of append_event: the enum's
\* "already finished", "duplicated one already recorded", "would leave a gap".
CauseOf(error) ==
    IF error.kind = "run_closed" THEN "finished"
    ELSE IF error.received < error.expected THEN "duplicate" ELSE "gap"

\* The cause a relay derives from a validation error: over_bound of OverBound
\* and PayloadTooLarge, malformed of the other four kinds.
CauseOfInvalid(e) ==
    IF e.payload \in OverBound THEN "over_bound" ELSE "malformed"

NoRefusal == {}       \* an empty outbox; a full one is a singleton
-----------------------------------------------------------------------------
Init ==
    /\ Src!Init
    /\ Dst!Init
    /\ outbox = NoRefusal

\* A producer submits a draft to the one sink its run belongs to.
Produce(r, draft, t) ==
    /\ Src!AppendDraft(r, draft, t)
    /\ UNCHANGED <<dstRuns, dstFinished, dstReply, outbox>>

\* Mutant: the invalid event is offered to the destination all the same.
DeliverInvalidAnyway(e) ==
    /\ outbox = NoRefusal
    /\ e.payload \in Invalid
    /\ Dst!AppendEvent(e)
    /\ outbox' = {RefusalOf(e, CauseOfInvalid(e))}
    /\ UNCHANGED srcVars

\* Mutant: the relay drops what it cannot read and says nothing.
DeliverInvalidUnsaid(e) ==
    /\ outbox = NoRefusal
    /\ e.payload \in Invalid
    /\ outbox' = {RefusalOf(e, "over_bound") : p \in {e.payload} \cap OverBound}
    /\ UNCHANGED <<srcRuns, srcFinished, srcReply,
                   dstRuns, dstFinished, dstReply>>

\* A stored event reaches the relay, which has no refusal left to record, and
\* its parser or its validation refuses it: it is not offered to the
\* destination at all.
DeliverInvalid(e) ==
    /\ outbox = NoRefusal
    /\ e.payload \in Invalid
    /\ outbox' = {RefusalOf(e, CauseOfInvalid(e))}
    /\ UNCHANGED <<srcRuns, srcFinished, srcReply,
                   dstRuns, dstFinished, dstReply>>

\* Mutant: the relay does not wait until its refusal is recorded.
DeliverValidUnrecorded(e) ==
    /\ e.payload \notin Invalid
    /\ Dst!AppendEvent(e)
    /\ outbox' = IF dstReply'.kind = "stored" THEN outbox
                 ELSE outbox \cup {RefusalOf(e, CauseOf(dstReply'))}
    /\ UNCHANGED srcVars

\* Mutant: the event is renumbered to fit the destination.
DeliverValidRenumbered(e) ==
    /\ outbox = NoRefusal
    /\ e.payload \notin Invalid
    /\ Dst!NextSeq(e.runId) <= MaxSeq
    /\ Dst!AppendEvent([e EXCEPT !.seq = Dst!NextSeq(e.runId)])
    /\ outbox' = IF dstReply'.kind = "stored" THEN NoRefusal
                 ELSE {RefusalOf(e, CauseOf(dstReply'))}
    /\ UNCHANGED srcVars

\* Mutant: the event is submitted again as a draft of its run.
DeliverValidAsDraft(e) ==
    /\ outbox = NoRefusal
    /\ e.payload \notin Invalid
    /\ Dst!AppendDraft(e.runId, [type |-> e.type, payload |-> e.payload], e.ts)
    /\ outbox' = IF dstReply'.kind = "stored" THEN NoRefusal
                 ELSE {RefusalOf(e, CauseOf(dstReply'))}
    /\ UNCHANGED srcVars

\* Mutant: what was refused once is not tried again.
DeliverValidOnce(e) ==
    /\ outbox = NoRefusal
    /\ e.payload \notin Invalid
    /\ ~\E p \in Recorded : p.sourceRunId = e.runId /\ p.sourceSeq = e.seq
    /\ Dst!AppendEvent(e)
    /\ outbox' = IF dstReply'.kind = "stored" THEN NoRefusal
                 ELSE {RefusalOf(e, CauseOf(dstReply'))}
    /\ UNCHANGED srcVars

\* A stored event reaches the relay and is offered to the destination as it
\* is; an error becomes the refusal to record.
DeliverValid(e) ==
    /\ outbox = NoRefusal
    /\ e.payload \notin Invalid
    /\ Dst!AppendEvent(e)
    /\ outbox' = IF dstReply'.kind = "stored" THEN NoRefusal
                 ELSE {RefusalOf(e, CauseOf(dstReply'))}
    /\ UNCHANGED srcVars

\* The relay appends capture.refused to its own run.  If that run is closed
\* the destination refuses this draft too and the refusal is gone.
RecordRefusal(t) ==
    /\ \E p \in outbox :
          Dst!AppendDraft(RelayRun, [type |-> CaptureRefused, payload |-> p], t)
    /\ outbox' = NoRefusal
    /\ UNCHANGED srcVars

\* The relay's process is restarted and has forgotten what it refused last.
Restart ==
    /\ outbox # NoRefusal
    /\ outbox' = NoRefusal
    /\ UNCHANGED <<srcRuns, srcFinished, srcReply,
                   dstRuns, dstFinished, dstReply>>

\* The relay ends its own run.
FinishRelay(t) ==
    /\ outbox = NoRefusal
    /\ Dst!AppendDraft(RelayRun,
                       [type |-> RunFinished, payload |-> RelayPayload], t)
    /\ UNCHANGED <<srcRuns, srcFinished, srcReply, outbox>>

\* Bound: a delivery that would leave a refusal is only explored while the
\* relay's run has room to record it and its own run.finished.
RoomToRecord(e) ==
    \/ RelayRun \in dstFinished
    \/ Dst!NextSeq(RelayRun) < MaxSeq
    \/ /\ e.payload \notin Invalid
       /\ e.runId \notin dstFinished
       /\ e.seq = Dst!NextSeq(e.runId)

Deliver(e) ==
    /\ RoomToRecord(e)
    /\ DeliverInvalid(e) \/ DeliverValid(e)

Next ==
    \/ \E r \in SourceRuns, d \in Src!Draft, t \in Times : Produce(r, d, t)
    \/ \E e \in StoredAtSource : Deliver(e)
    \/ \E t \in Times : RecordRefusal(t)
    \/ Restart
    \/ \E t \in Times : FinishRelay(t)

Spec == Init /\ [][Next]_vars

\* A relay that is not restarted each time it is about to record what it holds,
\* and a wire that keeps offering every event the source has stored.
DeliverAt(r, i) ==
    /\ i \in DOMAIN srcRuns[r]
    /\ Deliver(srcRuns[r][i])

FairSpec ==
    /\ Spec
    /\ SF_vars(\E t \in Times : RecordRefusal(t))
    /\ \A r \in SourceRuns, i \in 1..MaxSeq : SF_vars(DeliverAt(r, i))
-----------------------------------------------------------------------------
(***************************************************************************)
(* Properties.                                                             *)
(***************************************************************************)

\* Both sinks have their type, and the relay owes at most one refusal.
TypeOK ==
    /\ Src!TypeOK
    /\ Dst!TypeOK
    /\ outbox = NoRefusal \/ \E p \in Refusal : outbox = {p}

\* Whatever the wire loses, repeats or reorders, the destination's copy of a
\* run is the beginning of the source's history of it, event by event.
CopyIsPrefix ==
    \A r \in SourceRuns : \A i \in DOMAIN dstRuns[r] :
        /\ i \in DOMAIN srcRuns[r]
        /\ dstRuns[r][i] = srcRuns[r][i]

\* A run that is closed at the destination is closed at the source and
\* completely copied: a consumer of the copy that sees the terminal event has
\* seen everything.
ClosedCopyIsComplete ==
    \A r \in SourceRuns :
        r \in dstFinished => r \in srcFinished /\ dstRuns[r] = srcRuns[r]

\* The destination never gets past an event its relay refuses to read, be it
\* over a bound or misshapen: every later event of that run, the terminal one
\* included, leaves a gap.
NothingPassesAnInvalidEvent ==
    \A r \in SourceRuns : \A i \in DOMAIN srcRuns[r] :
        srcRuns[r][i].payload \in Invalid => Len(dstRuns[r]) < i

Refusals == outbox \cup Recorded

\* A refusal, recorded or about to be, stays true for ever: it names an event
\* the source does hold; a duplicate and an event of a finished run are already
\* in the copy, unchanged, so refusing them lost nothing; an invalid event is
\* not in the copy and never will be; the first event never leaves a gap.
RefusalsStayTrue ==
    \A p \in Refusals :
        LET r == p.sourceRunId
            n == p.sourceSeq
        IN  /\ n \in DOMAIN srcRuns[r]
            /\ srcRuns[r][n].type = p.sourceType
            /\ p.cause \in {"duplicate", "finished"} =>
                  n \in DOMAIN dstRuns[r] /\ dstRuns[r][n] = srcRuns[r][n]
            /\ p.cause = "finished" => r \in dstFinished
            /\ p.cause \in {"over_bound", "malformed"} => Len(dstRuns[r]) < n
            /\ p.cause = "gap" => n > 1

\* A refusal never wedges a run: an event with nothing invalid before it is
\* copied in the end, however often it was refused as a gap before and however
\* often the relay was restarted.
EveryValidEventIsCopied ==
    \A r \in SourceRuns, i \in 1..MaxSeq :
        /\ i \in DOMAIN srcRuns[r]
        /\ \A j \in 1..i : srcRuns[r][j].payload \notin Invalid
        ~> i \in DOMAIN dstRuns[r]

\* A restart loses a refusal but not for good: an invalid event is on record as
\* refused in the end, unless the relay's own run is over first (or has reached
\* the bound of the model).
EveryInvalidEventIsReported ==
    \A r \in SourceRuns, i \in 1..MaxSeq :
        /\ i \in DOMAIN srcRuns[r]
        /\ srcRuns[r][i].payload \in Invalid
        ~> \/ \E p \in Recorded : /\ p.cause \in {"over_bound", "malformed"}
                                 /\ p.sourceRunId = r
                                 /\ p.sourceSeq = i
           \/ RelayRun \in dstFinished
           \/ Dst!NextSeq(RelayRun) >= MaxSeq

=============================================================================
