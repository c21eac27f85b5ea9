---------------------------- MODULE RelayProofs ----------------------------
(***************************************************************************)
(* What survives the wire, for any number of runs and events.              *)
(*                                                                         *)
(* First, each sink of the composition behaves as module Sink says, so the *)
(* theorems of SinkProofs hold of both.  Then the relation between the two *)
(* follows by induction on the steps of the composition.                   *)
(***************************************************************************)
EXTENDS Relay, SequenceTheorems, TLAPS

SrcProofs == INSTANCE SinkProofs WITH
    Runs <- SourceRuns,
    runs <- srcRuns, finished <- srcFinished, reply <- srcReply

DstProofs == INSTANCE SinkProofs WITH
    Runs <- DstRuns,
    Types <- Types \cup {CaptureRefused},
    Payloads <- Payloads \cup Refusal \cup {RelayPayload},
    runs <- dstRuns, finished <- dstFinished, reply <- dstReply

SrcInv == Src!TypeOK /\ Src!Gapless /\ Src!ClosedByLastEvent
DstInv == Dst!TypeOK /\ Dst!Gapless /\ Dst!ClosedByLastEvent
OutboxOK == outbox \in {NoRefusal} \cup {{p} : p \in Refusal}

-----------------------------------------------------------------------------
(***************************************************************************)
(* Each sink of the composition is a sink.                                 *)
(***************************************************************************)

LEMMA SrcSteps == [Next]_vars => [Src!Next]_(Src!vars)
<1> SUFFICES ASSUME [Next]_vars PROVE [Src!Next]_(Src!vars)
  OBVIOUS
<1> USE DEF Src!vars
<1>1. CASE UNCHANGED vars
  BY <1>1 DEF vars
<1>2. ASSUME NEW r \in SourceRuns, NEW d \in Src!Draft, NEW t \in Times,
             Produce(r, d, t)
      PROVE  [Src!Next]_(Src!vars)
  BY <1>2 DEF Produce, Src!Next
<1>3. ASSUME NEW e, Deliver(e)
      PROVE  [Src!Next]_(Src!vars)
  BY <1>3 DEF Deliver, DeliverValid, DeliverInvalid, srcVars
<1>4. ASSUME NEW t \in Times, RecordRefusal(t) \/ FinishRelay(t)
      PROVE  [Src!Next]_(Src!vars)
  BY <1>4 DEF RecordRefusal, FinishRelay, srcVars
<1>5. CASE Restart
  BY <1>5 DEF Restart
<1>6. QED
  BY <1>1, <1>2, <1>3, <1>4, <1>5 DEF Next

(* The source sink of a relayed system is the sink of module Sink.         *)
THEOREM SourceIsASink == Spec => Src!Spec
<1>1. Init => Src!Init
  BY DEF Init
<1>2. QED
  BY <1>1, SrcSteps, PTL DEF Spec, Src!Spec

LEMMA SrcInvHolds == Spec => []SrcInv
<1>1. SrcProofs!Spec => []SrcProofs!Inv
  <2>1. SrcProofs!SinkAssumption
    BY RelayAssumption DEF SrcProofs!SinkAssumption
  <2>2. QED
    BY <2>1, SrcProofs!InvHolds
<1>2. Src!Init => SrcProofs!Init
  BY DEF Src!Init, SrcProofs!Init, Src!NoReply, SrcProofs!NoReply
<1>3. [Src!Next]_(Src!vars) => [SrcProofs!Next]_(SrcProofs!vars)
  <2>1. \A r, d, t : Src!AppendDraft(r, d, t) => SrcProofs!AppendDraft(r, d, t)
    BY DEF Src!AppendDraft, SrcProofs!AppendDraft,
           Src!Store, SrcProofs!Store, Src!Refuse, SrcProofs!Refuse,
           Src!Stamp, SrcProofs!Stamp, Src!Stored, SrcProofs!Stored,
           Src!NextSeq, SrcProofs!NextSeq,
           Src!IsTerminal, SrcProofs!IsTerminal,
           Src!RunClosedError, SrcProofs!RunClosedError
  <2>2. \A e : Src!AppendEvent(e) => SrcProofs!AppendEvent(e)
    BY DEF Src!AppendEvent, SrcProofs!AppendEvent,
           Src!Store, SrcProofs!Store, Src!Refuse, SrcProofs!Refuse,
           Src!Stored, SrcProofs!Stored, Src!NextSeq, SrcProofs!NextSeq,
           Src!IsTerminal, SrcProofs!IsTerminal,
           Src!RunClosedError, SrcProofs!RunClosedError,
           Src!SequenceError, SrcProofs!SequenceError
  <2>3. QED
    BY <2>1, <2>2 DEF Src!Next, SrcProofs!Next, Src!vars, SrcProofs!vars,
           Src!Draft, SrcProofs!Draft, Src!Event, SrcProofs!Event
<1>4. SrcProofs!Inv => SrcInv
  <2>1. SrcProofs!TypeOK => Src!TypeOK
    BY DEF SrcProofs!TypeOK, Src!TypeOK, SrcProofs!Event, Src!Event,
           SrcProofs!Reply, Src!Reply, SrcProofs!NoReply, Src!NoReply
  <2>2. SrcProofs!Gapless => Src!Gapless
    BY DEF SrcProofs!Gapless, Src!Gapless
  <2>3. SrcProofs!ClosedByLastEvent => Src!ClosedByLastEvent
    BY DEF SrcProofs!ClosedByLastEvent, Src!ClosedByLastEvent,
           SrcProofs!IsTerminal, Src!IsTerminal
  <2>4. QED
    BY <2>1, <2>2, <2>3 DEF SrcProofs!Inv, SrcInv
<1>5. QED
  BY <1>1, <1>2, <1>3, <1>4, SourceIsASink, PTL DEF Src!Spec, SrcProofs!Spec

(* What the source has stored is an event both sinks can hold, and it is   *)
(* found in its run at its own number.                                     *)
LEMMA StoredEvents ==
    ASSUME SrcInv, NEW e \in StoredAtSource
    PROVE  /\ e \in Src!Event
           /\ e \in Dst!Event
           /\ e.runId \in SourceRuns
           /\ e.seq \in 1..MaxSeq
           /\ e.type \in Types
           /\ e.seq \in DOMAIN srcRuns[e.runId]
           /\ srcRuns[e.runId][e.seq] = e
<1>1. PICK r \in SourceRuns : \E i \in DOMAIN srcRuns[r] : e = srcRuns[r][i]
  BY DEF StoredAtSource
<1> PICK i \in DOMAIN srcRuns[r] : e = srcRuns[r][i]
  BY <1>1
<1>2. srcRuns[r] \in Seq(Src!Event)
  BY DEF SrcInv, Src!TypeOK
<1>3. e \in Src!Event
  BY <1>2
<1>4. e.seq = i /\ e.runId = r
  BY DEF SrcInv, Src!Gapless
<1>5. Src!Event \subseteq Dst!Event
  BY DEF Src!Event, Dst!Event, DstRuns
<1>6. e.seq \in 1..MaxSeq
  <2>1. i \in Nat \ {0}
    BY <1>2
  <2>2. e.seq \in 0..MaxSeq
    BY <1>3 DEF Src!Event
  <2>3. QED
    BY <1>4, <2>1, <2>2, RelayAssumption
<1>7. QED
  BY <1>1, <1>3, <1>4, <1>5, <1>6 DEF Src!Event

LEMMA RefusalType ==
    ASSUME SrcInv, NEW e \in StoredAtSource, NEW c \in Cause
    PROVE  RefusalOf(e, c) \in Refusal
  BY StoredEvents DEF RefusalOf, Refusal

LEMMA OutboxStep ==
    ASSUME SrcInv, OutboxOK, [Next]_vars
    PROVE  OutboxOK'
<1>1. CASE UNCHANGED vars
  BY <1>1 DEF vars, OutboxOK
<1>2. ASSUME NEW r \in SourceRuns, NEW d \in Src!Draft, NEW t \in Times,
             Produce(r, d, t)
      PROVE  OutboxOK'
  BY <1>2 DEF Produce, OutboxOK
<1>3. ASSUME NEW e \in StoredAtSource, Deliver(e)
      PROVE  OutboxOK'
  <2>1. \A c \in Cause : RefusalOf(e, c) \in Refusal
    BY RefusalType
  <2>2. CauseOf(dstReply') \in Cause /\ CauseOfInvalid(e) \in Cause
    BY DEF CauseOf, CauseOfInvalid, Cause
  <2>3. outbox' \in {NoRefusal} \cup {{RefusalOf(e, c)} : c \in Cause}
    BY <1>3, <2>2 DEF Deliver, DeliverValid, DeliverInvalid
  <2>4. QED
    BY <2>1, <2>3 DEF OutboxOK
<1>4. ASSUME NEW t \in Times, RecordRefusal(t) \/ FinishRelay(t)
      PROVE  OutboxOK'
  BY <1>4 DEF RecordRefusal, FinishRelay, OutboxOK
<1>5. CASE Restart
  BY <1>5 DEF Restart, OutboxOK
<1>6. QED
  BY <1>1, <1>2, <1>3, <1>4, <1>5 DEF Next

LEMMA DstSteps == SrcInv /\ OutboxOK /\ [Next]_vars => [Dst!Next]_(Dst!vars)
<1> SUFFICES ASSUME SrcInv, OutboxOK, [Next]_vars
             PROVE  [Dst!Next]_(Dst!vars)
  OBVIOUS
<1> USE DEF Dst!vars
<1>1. CASE UNCHANGED vars
  BY <1>1 DEF vars
<1>2. ASSUME NEW r \in SourceRuns, NEW d \in Src!Draft, NEW t \in Times,
             Produce(r, d, t)
      PROVE  [Dst!Next]_(Dst!vars)
  BY <1>2 DEF Produce
<1>3. ASSUME NEW e \in StoredAtSource, Deliver(e)
      PROVE  [Dst!Next]_(Dst!vars)
  <2>1. e \in Dst!Event
    BY StoredEvents
  <2>2. QED
    BY <1>3, <2>1 DEF Deliver, DeliverValid, DeliverInvalid, Dst!Next
<1>4. ASSUME NEW t \in Times, RecordRefusal(t)
      PROVE  [Dst!Next]_(Dst!vars)
  <2>1. PICK p \in outbox :
          Dst!AppendDraft(RelayRun, [type |-> CaptureRefused, payload |-> p], t)
    BY <1>4 DEF RecordRefusal
  <2>2. [type |-> CaptureRefused, payload |-> p] \in Dst!Draft
    BY DEF OutboxOK, NoRefusal, Dst!Draft
  <2>3. QED
    BY <2>1, <2>2 DEF Dst!Next, DstRuns
<1>5. ASSUME NEW t \in Times, FinishRelay(t)
      PROVE  [Dst!Next]_(Dst!vars)
  <2>1. [type |-> RunFinished, payload |-> RelayPayload] \in Dst!Draft
    BY RelayAssumption DEF Dst!Draft
  <2>2. QED
    BY <1>5, <2>1 DEF FinishRelay, Dst!Next, DstRuns
<1>6. CASE Restart
  BY <1>6 DEF Restart
<1>7. QED
  BY <1>1, <1>2, <1>3, <1>4, <1>5, <1>6 DEF Next

LEMMA OutboxHolds == Spec => []OutboxOK
<1>1. Init => OutboxOK
  BY DEF Init, OutboxOK
<1>2. SrcInv /\ OutboxOK /\ [Next]_vars => OutboxOK'
  BY OutboxStep
<1>3. QED
  BY <1>1, <1>2, SrcInvHolds, PTL DEF Spec

(* The destination sink, with the relay's own run, is one too.             *)
THEOREM DestinationIsASink == Spec => Dst!Spec
<1>1. Init => Dst!Init
  BY DEF Init
<1>2. QED
  BY <1>1, DstSteps, SrcInvHolds, OutboxHolds, PTL DEF Spec, Dst!Spec

LEMMA DstInvHolds == Spec => []DstInv
<1>1. DstProofs!Spec => []DstProofs!Inv
  <2>1. DstProofs!SinkAssumption
    BY RelayAssumption DEF DstProofs!SinkAssumption
  <2>2. QED
    BY <2>1, DstProofs!InvHolds
<1>2. Dst!Init => DstProofs!Init
  BY DEF Dst!Init, DstProofs!Init, Dst!NoReply, DstProofs!NoReply
<1>3. [Dst!Next]_(Dst!vars) => [DstProofs!Next]_(DstProofs!vars)
  <2>1. \A r, d, t : Dst!AppendDraft(r, d, t) => DstProofs!AppendDraft(r, d, t)
    BY DEF Dst!AppendDraft, DstProofs!AppendDraft,
           Dst!Store, DstProofs!Store, Dst!Refuse, DstProofs!Refuse,
           Dst!Stamp, DstProofs!Stamp, Dst!Stored, DstProofs!Stored,
           Dst!NextSeq, DstProofs!NextSeq,
           Dst!IsTerminal, DstProofs!IsTerminal,
           Dst!RunClosedError, DstProofs!RunClosedError
  <2>2. \A e : Dst!AppendEvent(e) => DstProofs!AppendEvent(e)
    BY DEF Dst!AppendEvent, DstProofs!AppendEvent,
           Dst!Store, DstProofs!Store, Dst!Refuse, DstProofs!Refuse,
           Dst!Stored, DstProofs!Stored, Dst!NextSeq, DstProofs!NextSeq,
           Dst!IsTerminal, DstProofs!IsTerminal,
           Dst!RunClosedError, DstProofs!RunClosedError,
           Dst!SequenceError, DstProofs!SequenceError
  <2>3. QED
    BY <2>1, <2>2 DEF Dst!Next, DstProofs!Next, Dst!vars, DstProofs!vars,
           Dst!Draft, DstProofs!Draft, Dst!Event, DstProofs!Event
<1>4. DstProofs!Inv => DstInv
  <2>1. DstProofs!TypeOK => Dst!TypeOK
    BY DEF DstProofs!TypeOK, Dst!TypeOK, DstProofs!Event, Dst!Event,
           DstProofs!Reply, Dst!Reply, DstProofs!NoReply, Dst!NoReply
  <2>2. DstProofs!Gapless => Dst!Gapless
    BY DEF DstProofs!Gapless, Dst!Gapless
  <2>3. DstProofs!ClosedByLastEvent => Dst!ClosedByLastEvent
    BY DEF DstProofs!ClosedByLastEvent, Dst!ClosedByLastEvent,
           DstProofs!IsTerminal, Dst!IsTerminal
  <2>4. QED
    BY <2>1, <2>2, <2>3 DEF DstProofs!Inv, DstInv
<1>5. QED
  BY <1>1, <1>2, <1>3, <1>4, DestinationIsASink, PTL DEF Dst!Spec, DstProofs!Spec

(* Everything the composition keeps in its state has its type.             *)
THEOREM RelayTypeCorrect == Spec => []TypeOK
<1>1. SrcInv /\ DstInv /\ OutboxOK => TypeOK
  BY DEF SrcInv, DstInv, OutboxOK, TypeOK
<1>2. QED
  BY <1>1, SrcInvHolds, DstInvHolds, OutboxHolds, PTL
-----------------------------------------------------------------------------
(***************************************************************************)
(* What a step does to the histories of the two sinks.                     *)
(***************************************************************************)

LEMMA Lengths ==
    ASSUME SrcInv, DstInv
    PROVE  /\ \A r \in SourceRuns :
                 /\ srcRuns[r] \in Seq(Src!Event)
                 /\ Len(srcRuns[r]) \in Nat
                 /\ DOMAIN srcRuns[r] = 1..Len(srcRuns[r])
           /\ \A r \in DstRuns :
                 /\ dstRuns[r] \in Seq(Dst!Event)
                 /\ Len(dstRuns[r]) \in Nat
                 /\ DOMAIN dstRuns[r] = 1..Len(dstRuns[r])
  BY DEF SrcInv, DstInv, Src!TypeOK, Dst!TypeOK

(* The source's histories only grow, and not at all once they are closed.  *)
LEMMA SourceGrows ==
    ASSUME SrcInv, DstInv, [Next]_vars, NEW r \in SourceRuns
    PROVE  /\ \A i \in DOMAIN srcRuns[r] :
                 i \in DOMAIN srcRuns'[r] /\ srcRuns'[r][i] = srcRuns[r][i]
           /\ r \in srcFinished => srcRuns'[r] = srcRuns[r]
<1>1. srcRuns \in [SourceRuns -> Seq(Src!Event)]
  BY DEF SrcInv, Src!TypeOK
<1>2. CASE UNCHANGED srcVars
  BY <1>2 DEF srcVars
<1>3. ASSUME NEW q \in SourceRuns, NEW d \in Src!Draft, NEW t \in Times,
             Produce(q, d, t)
      PROVE  /\ \A i \in DOMAIN srcRuns[r] :
                   i \in DOMAIN srcRuns'[r] /\ srcRuns'[r][i] = srcRuns[r][i]
             /\ r \in srcFinished => srcRuns'[r] = srcRuns[r]
  <2>1. CASE q \in srcFinished
    BY <1>3, <2>1 DEF Produce, Src!AppendDraft, Src!Refuse
  <2>2. CASE q \notin srcFinished
    <3> DEFINE e == Src!Stamp(d, q, Src!NextSeq(q), t)
    <3>1. Src!Store(e)
      BY <1>3, <2>2 DEF Produce, Src!AppendDraft
    <3>2. e.runId = q
      BY DEF Src!Stamp
    <3>3. srcRuns' = [srcRuns EXCEPT ![q] = Append(srcRuns[q], e)]
      BY <3>1, <3>2 DEF Src!Store
    <3>4. CASE r # q
      BY <1>1, <3>3, <3>4
    <3>5. CASE r = q
      <4>1. srcRuns'[r] = Append(srcRuns[r], e) /\ srcRuns[r] \in Seq(Src!Event)
        BY <1>1, <3>3, <3>5
      <4>2. \A i \in DOMAIN srcRuns[r] :
               i \in DOMAIN srcRuns'[r] /\ srcRuns'[r][i] = srcRuns[r][i]
        BY <4>1, Lengths
      <4>3. QED
        BY <2>2, <3>5, <4>2
    <3>6. QED
      BY <3>4, <3>5
  <2>3. QED
    BY <2>1, <2>2
<1>4. [Next]_vars => \/ UNCHANGED srcVars
                     \/ \E q \in SourceRuns, d \in Src!Draft, t \in Times :
                           Produce(q, d, t)
  BY DEF Next, Deliver, DeliverValid, DeliverInvalid, RecordRefusal,
         Restart, FinishRelay, vars, srcVars
<1>5. QED
  BY <1>2, <1>3, <1>4

(* What storing an event does to the destination's histories.              *)
LEMMA DestinationStores ==
    ASSUME DstInv, NEW e, e.runId \in DstRuns, Dst!Store(e)
    PROVE  /\ \A q \in DstRuns : q # e.runId => dstRuns'[q] = dstRuns[q]
           /\ dstRuns'[e.runId] = Append(dstRuns[e.runId], e)
           /\ DOMAIN dstRuns'[e.runId] = 1..(Len(dstRuns[e.runId]) + 1)
           /\ Len(dstRuns'[e.runId]) = Len(dstRuns[e.runId]) + 1
           /\ dstRuns'[e.runId][Len(dstRuns[e.runId]) + 1] = e
           /\ \A i \in 1..Len(dstRuns[e.runId]) :
                 dstRuns'[e.runId][i] = dstRuns[e.runId][i]
           /\ dstFinished \subseteq dstFinished'
<1> DEFINE r == e.runId
<1>1. dstRuns \in [DstRuns -> Seq(Dst!Event)]
  BY DEF DstInv, Dst!TypeOK
<1>2. dstRuns' = [dstRuns EXCEPT ![r] = Append(dstRuns[r], e)]
  BY DEF Dst!Store
<1>3. /\ \A q \in DstRuns : q # r => dstRuns'[q] = dstRuns[q]
      /\ dstRuns'[r] = Append(dstRuns[r], e)
      /\ dstRuns[r] \in Seq(Dst!Event)
  BY <1>1, <1>2
<1>4. dstFinished \subseteq dstFinished'
  BY DEF Dst!Store
<1>5. /\ DOMAIN dstRuns'[r] = 1..(Len(dstRuns[r]) + 1)
      /\ Len(dstRuns'[r]) = Len(dstRuns[r]) + 1
      /\ dstRuns'[r][Len(dstRuns[r]) + 1] = e
      /\ \A i \in 1..Len(dstRuns[r]) : dstRuns'[r][i] = dstRuns[r][i]
  BY <1>3
<1>6. QED
  BY <1>3, <1>4, <1>5

(* A delivery is stored as the next event of an open copy, or it changes   *)
(* no history and leaves a refusal whose cause says why.                   *)
Refused(e) ==
    /\ UNCHANGED <<dstRuns, dstFinished>>
    /\ \E c \in Cause :
          /\ outbox' = {RefusalOf(e, c)}
          /\ c \in {"over_bound", "malformed"} => e.payload \in Invalid
          /\ c = "finished" => e.runId \in dstFinished
          /\ c = "duplicate" => e.seq <= Len(dstRuns[e.runId])
          /\ c = "gap" => e.seq > Len(dstRuns[e.runId]) + 1

Copied(e) ==
    /\ e.runId \notin dstFinished
    /\ e.payload \notin Invalid
    /\ e.seq = Len(dstRuns[e.runId]) + 1
    /\ Dst!Store(e)
    /\ outbox' = NoRefusal

LEMMA DeliveryOutcome ==
    ASSUME SrcInv, DstInv, NEW e \in StoredAtSource, Deliver(e)
    PROVE  Copied(e) \/ Refused(e)
<1>1. /\ e.runId \in SourceRuns /\ e.runId \in DstRuns
      /\ e.seq \in Nat
      /\ Len(dstRuns[e.runId]) \in Nat
  BY StoredEvents, Lengths, RelayAssumption DEF DstRuns
<1>2. CASE DeliverInvalid(e)
  BY <1>2 DEF DeliverInvalid, Refused, Cause, CauseOfInvalid
<1>3. CASE DeliverValid(e)
  <2>1. /\ Dst!AppendEvent(e)
        /\ e.payload \notin Invalid
        /\ outbox' = IF dstReply'.kind = "stored" THEN NoRefusal
                     ELSE {RefusalOf(e, CauseOf(dstReply'))}
    BY <1>3 DEF DeliverValid
  <2>2. CASE e.runId \in dstFinished
    <3>1. /\ UNCHANGED <<dstRuns, dstFinished>>
          /\ dstReply' = Dst!RunClosedError(e.runId)
      BY <2>1, <2>2 DEF Dst!AppendEvent, Dst!Refuse
    <3>2. dstReply'.kind = "run_closed"
      BY <3>1 DEF Dst!RunClosedError
    <3>3. outbox' = {RefusalOf(e, "finished")}
      BY <2>1, <3>2 DEF CauseOf
    <3>4. QED
      BY <2>2, <3>1, <3>3 DEF Refused, Cause
  <2>3. CASE e.runId \notin dstFinished /\ e.seq # Dst!NextSeq(e.runId)
    <3>1. /\ UNCHANGED <<dstRuns, dstFinished>>
          /\ dstReply' = Dst!SequenceError(e.runId, Dst!NextSeq(e.runId), e.seq)
      BY <2>1, <2>3 DEF Dst!AppendEvent, Dst!Refuse
    <3>2. /\ dstReply'.kind = "sequence"
          /\ dstReply'.expected = Len(dstRuns[e.runId]) + 1
          /\ dstReply'.received = e.seq
      BY <3>1 DEF Dst!SequenceError, Dst!NextSeq
    <3>3. CASE e.seq < Len(dstRuns[e.runId]) + 1
      <4>1. outbox' = {RefusalOf(e, "duplicate")}
        BY <2>1, <3>2, <3>3 DEF CauseOf
      <4>2. QED
        BY <1>1, <3>1, <3>3, <4>1 DEF Refused, Cause
    <3>4. CASE ~(e.seq < Len(dstRuns[e.runId]) + 1)
      <4>1. outbox' = {RefusalOf(e, "gap")}
        BY <2>1, <3>2, <3>4 DEF CauseOf
      <4>2. e.seq > Len(dstRuns[e.runId]) + 1
        BY <1>1, <2>3, <3>4 DEF Dst!NextSeq
      <4>3. QED
        BY <3>1, <4>1, <4>2 DEF Refused, Cause
    <3>5. QED
      BY <3>3, <3>4
  <2>4. CASE e.runId \notin dstFinished /\ e.seq = Dst!NextSeq(e.runId)
    <3>1. Dst!Store(e)
      BY <2>1, <2>4 DEF Dst!AppendEvent
    <3>2. dstReply'.kind = "stored"
      BY <3>1 DEF Dst!Store, Dst!Stored
    <3>3. QED
      BY <2>1, <2>4, <3>1, <3>2 DEF Copied, Dst!NextSeq
  <2>5. QED
    BY <2>2, <2>3, <2>4
<1>4. QED
  BY <1>2, <1>3 DEF Deliver

(* The relay's own appends touch no copy of a source run.                  *)
LEMMA RelayAppends ==
    ASSUME DstInv, NEW d, NEW t, Dst!AppendDraft(RelayRun, d, t)
    PROVE  /\ \A r \in SourceRuns : dstRuns'[r] = dstRuns[r]
           /\ dstFinished \subseteq dstFinished'
           /\ \A r \in SourceRuns : r \in dstFinished' => r \in dstFinished
           /\ \/ dstRuns'[RelayRun] = dstRuns[RelayRun]
              \/ \E e : /\ e.type = d.type
                        /\ e.payload = d.payload
                        /\ dstRuns'[RelayRun] = Append(dstRuns[RelayRun], e)
<1>1. CASE RelayRun \in dstFinished
  BY <1>1 DEF Dst!AppendDraft, Dst!Refuse
<1>2. CASE RelayRun \notin dstFinished
  <2> DEFINE e == Dst!Stamp(d, RelayRun, Dst!NextSeq(RelayRun), t)
  <2>1. Dst!Store(e)
    BY <1>2 DEF Dst!AppendDraft
  <2>2. e.runId = RelayRun /\ e.type = d.type /\ e.payload = d.payload
    BY DEF Dst!Stamp
  <2>3. /\ \A q \in DstRuns : q # RelayRun => dstRuns'[q] = dstRuns[q]
        /\ dstRuns'[RelayRun] = Append(dstRuns[RelayRun], e)
        /\ dstFinished \subseteq dstFinished'
    <3>1. e.runId \in DstRuns
      BY <2>2 DEF DstRuns
    <3>2. QED
      BY <2>1, <2>2, <3>1, DestinationStores
  <2>4. dstFinished' \subseteq dstFinished \cup {RelayRun}
    BY <2>1, <2>2 DEF Dst!Store
  <2>5. QED
    BY <2>2, <2>3, <2>4, RelayAssumption DEF DstRuns
<1>3. QED
  BY <1>1, <1>2
-----------------------------------------------------------------------------
(***************************************************************************)
(* The copy is a prefix of the original.                                   *)
(***************************************************************************)

LEMMA PrefixStep ==
    ASSUME SrcInv, DstInv, OutboxOK, CopyIsPrefix, [Next]_vars
    PROVE  CopyIsPrefix'
<1>1. \A r \in SourceRuns : \A i \in DOMAIN srcRuns[r] :
         i \in DOMAIN srcRuns'[r] /\ srcRuns'[r][i] = srcRuns[r][i]
  BY SourceGrows
<1>2. CASE \A r \in SourceRuns : dstRuns'[r] = dstRuns[r]
  BY <1>1, <1>2 DEF CopyIsPrefix
<1>3. ASSUME NEW e \in StoredAtSource, Deliver(e)
      PROVE  CopyIsPrefix'
  <2> DEFINE n == Len(dstRuns[e.runId])
  <2>1. /\ e.runId \in SourceRuns /\ e.runId \in DstRuns
        /\ e.seq \in DOMAIN srcRuns[e.runId]
        /\ srcRuns[e.runId][e.seq] = e
    BY StoredEvents DEF DstRuns
  <2>2. CASE Refused(e)
    BY <1>2, <2>2 DEF Refused
  <2>3. CASE Copied(e)
    <3>1. /\ \A q \in DstRuns : q # e.runId => dstRuns'[q] = dstRuns[q]
          /\ DOMAIN dstRuns'[e.runId] = 1..(n + 1)
          /\ dstRuns'[e.runId][n + 1] = e
          /\ \A i \in 1..n : dstRuns'[e.runId][i] = dstRuns[e.runId][i]
      BY <2>1, <2>3, DestinationStores DEF Copied
    <3>2. n \in Nat /\ DOMAIN dstRuns[e.runId] = 1..n /\ e.seq = n + 1
      BY <2>1, <2>3, Lengths DEF Copied
    <3>3. ASSUME NEW r \in SourceRuns, NEW i \in DOMAIN dstRuns'[r]
          PROVE  i \in DOMAIN srcRuns'[r] /\ dstRuns'[r][i] = srcRuns'[r][i]
      <4>1. CASE r # e.runId
        BY <1>1, <3>1, <4>1 DEF CopyIsPrefix, DstRuns
      <4>2. CASE r = e.runId /\ i = n + 1
        BY <1>1, <2>1, <3>1, <3>2, <4>2
      <4>3. CASE r = e.runId /\ i \in 1..n
        BY <1>1, <2>1, <3>1, <3>2, <4>3 DEF CopyIsPrefix
      <4>4. QED
        BY <3>1, <3>2, <4>1, <4>2, <4>3
    <3>4. QED
      BY <3>3 DEF CopyIsPrefix
  <2>4. QED
    BY <1>3, <2>2, <2>3, DeliveryOutcome
<1>4. ASSUME NEW t \in Times, RecordRefusal(t) \/ FinishRelay(t)
      PROVE  \A r \in SourceRuns : dstRuns'[r] = dstRuns[r]
  BY <1>4, RelayAppends DEF RecordRefusal, FinishRelay
<1>5. ASSUME NEW r \in SourceRuns, NEW d \in Src!Draft, NEW t \in Times,
             Produce(r, d, t)
      PROVE  CopyIsPrefix'
  BY <1>2, <1>5 DEF Produce
<1>6. CASE UNCHANGED vars
  BY <1>2, <1>6 DEF vars
<1>7. CASE Restart
  BY <1>2, <1>7 DEF Restart
<1>8. QED
  BY <1>2, <1>3, <1>4, <1>5, <1>6, <1>7 DEF Next

(* Losing, repeating or reordering deliveries never makes the copy of a    *)
(* run anything but the beginning of it.                                   *)
THEOREM CopiesArePrefixes == Spec => []CopyIsPrefix
<1>1. Init => CopyIsPrefix
  BY DEF Init, Dst!Init, CopyIsPrefix, DstRuns
<1>2. SrcInv /\ DstInv /\ OutboxOK /\ CopyIsPrefix /\ [Next]_vars
        => CopyIsPrefix'
  BY PrefixStep
<1>3. QED
  BY <1>1, <1>2, SrcInvHolds, DstInvHolds, OutboxHolds, PTL DEF Spec

LEMMA ClosedCopies ==
    ASSUME SrcInv, DstInv, CopyIsPrefix
    PROVE  ClosedCopyIsComplete
<1> SUFFICES ASSUME NEW r \in SourceRuns, r \in dstFinished
             PROVE  r \in srcFinished /\ dstRuns[r] = srcRuns[r]
  BY DEF ClosedCopyIsComplete
<1> DEFINE n == Len(dstRuns[r])
<1>1. /\ n \in Nat /\ Len(srcRuns[r]) \in Nat
      /\ DOMAIN dstRuns[r] = 1..n
      /\ DOMAIN srcRuns[r] = 1..Len(srcRuns[r])
      /\ dstRuns[r] \in Seq(Dst!Event) /\ srcRuns[r] \in Seq(Src!Event)
  BY Lengths DEF DstRuns
<1>2. dstRuns[r] # <<>> /\ dstRuns[r][n].type = RunFinished
  BY DEF DstInv, Dst!ClosedByLastEvent, Dst!IsTerminal, DstRuns
<1>3. n \in 1..n
  BY <1>1, <1>2
<1>4. n \in DOMAIN srcRuns[r] /\ dstRuns[r][n] = srcRuns[r][n]
  BY <1>1, <1>3 DEF CopyIsPrefix
<1>5. n = Len(srcRuns[r])
  BY <1>2, <1>4 DEF SrcInv, Src!ClosedByLastEvent, Src!IsTerminal
<1>6. r \in srcFinished
  <2>1. srcRuns[r] # <<>>
    BY <1>1, <1>3, <1>5
  <2>2. QED
    BY <1>2, <1>4, <1>5, <2>1 DEF SrcInv, Src!ClosedByLastEvent, Src!IsTerminal
<1>7. Src!Event \subseteq Dst!Event
  BY DEF Src!Event, Dst!Event, DstRuns
<1>8. srcRuns[r] \in Seq(Dst!Event)
  BY <1>1, <1>7
<1>9. \A i \in 1..n : dstRuns[r][i] = srcRuns[r][i]
  BY <1>1 DEF CopyIsPrefix
<1>10. dstRuns[r] = srcRuns[r]
  BY <1>1, <1>5, <1>8, <1>9, SeqEqual
<1>11. QED
  BY <1>6, <1>10

(* A copy that has its terminal event has every event.                     *)
THEOREM ClosedCopiesAreComplete == Spec => []ClosedCopyIsComplete
<1>1. SrcInv /\ DstInv /\ CopyIsPrefix => ClosedCopyIsComplete
  BY ClosedCopies
<1>2. QED
  BY <1>1, SrcInvHolds, DstInvHolds, CopiesArePrefixes, PTL

-----------------------------------------------------------------------------
(***************************************************************************)
(* An event the relay refuses ends the copy.                               *)
(***************************************************************************)

LEMMA NothingPassesStep ==
    ASSUME SrcInv, SrcInv', DstInv, DstInv', CopyIsPrefix,
           NothingPassesAnInvalidEvent, [Next]_vars
    PROVE  NothingPassesAnInvalidEvent'
<1> SUFFICES ASSUME NEW r \in SourceRuns, NEW i \in DOMAIN srcRuns'[r],
                    srcRuns'[r][i].payload \in Invalid
             PROVE  Len(dstRuns'[r]) < i
  BY DEF NothingPassesAnInvalidEvent
<1> DEFINE n == Len(dstRuns[r])
           m == Len(srcRuns[r])
<1>1. /\ n \in Nat /\ m \in Nat
      /\ DOMAIN dstRuns[r] = 1..n /\ DOMAIN srcRuns[r] = 1..m
      /\ Len(srcRuns'[r]) \in Nat
      /\ DOMAIN srcRuns'[r] = 1..Len(srcRuns'[r])
  BY Lengths DEF DstRuns, SrcInv, Src!TypeOK
<1>2. n <= m
  <2>1. CASE n = 0
    BY <1>1, <2>1
  <2>2. CASE n # 0
    <3>1. n \in DOMAIN dstRuns[r]
      BY <1>1, <2>2
    <3>2. n \in DOMAIN srcRuns[r]
      BY <3>1 DEF CopyIsPrefix
    <3>3. QED
      BY <1>1, <3>2
  <2>3. QED
    BY <2>1, <2>2
<1>3. \A j \in 1..m : srcRuns'[r][j] = srcRuns[r][j]
  BY <1>1, SourceGrows
<1>4. n < i
  <2>1. CASE i \in 1..m
    BY <1>1, <1>3, <2>1 DEF NothingPassesAnInvalidEvent
  <2>2. CASE i \notin 1..m
    BY <1>1, <1>2, <2>2
  <2>3. QED
    BY <2>1, <2>2
<1>5. CASE dstRuns'[r] = dstRuns[r]
  BY <1>4, <1>5
<1>6. ASSUME NEW e \in StoredAtSource, Copied(e), Deliver(e), r = e.runId
      PROVE  Len(dstRuns'[r]) < i
  <2>1. e.seq \in DOMAIN srcRuns[r] /\ srcRuns[r][e.seq] = e
    BY <1>6, StoredEvents
  <2>2. e.seq = n + 1 /\ e.payload \notin Invalid
    BY <1>6 DEF Copied
  <2>3. i # n + 1
    BY <1>1, <1>3, <2>1, <2>2
  <2>4. Len(dstRuns'[r]) = n + 1
    BY <1>6, DestinationStores DEF Copied, DstRuns
  <2>5. QED
    BY <1>1, <1>4, <2>3, <2>4
<1>7. ASSUME NEW e \in StoredAtSource, Deliver(e), r # e.runId
      PROVE  dstRuns'[r] = dstRuns[r]
  <2>1. e.runId \in DstRuns /\ r \in DstRuns
    BY StoredEvents DEF DstRuns
  <2>2. CASE Copied(e)
    BY <1>7, <2>1, <2>2, DestinationStores DEF Copied
  <2>3. QED
    BY <1>7, <2>2, DeliveryOutcome DEF Refused
<1>8. ASSUME NEW t \in Times, RecordRefusal(t) \/ FinishRelay(t)
      PROVE  dstRuns'[r] = dstRuns[r]
  BY <1>8, RelayAppends DEF RecordRefusal, FinishRelay
<1>9. ASSUME NEW q \in SourceRuns, NEW d \in Src!Draft, NEW t \in Times,
             Produce(q, d, t)
      PROVE  dstRuns'[r] = dstRuns[r]
  BY <1>9 DEF Produce
<1>10. ASSUME NEW e \in StoredAtSource, Deliver(e)
       PROVE  Len(dstRuns'[r]) < i
  BY <1>5, <1>6, <1>7, <1>10, DeliveryOutcome DEF Refused
<1>11. CASE UNCHANGED vars
  BY <1>5, <1>11 DEF vars
<1>12. CASE Restart
  BY <1>5, <1>12 DEF Restart
<1>13. QED
  BY <1>5, <1>8, <1>9, <1>10, <1>11, <1>12 DEF Next

(* No event behind one over a bound is ever copied, the end of the run     *)
(* included.                                                               *)
THEOREM NothingPassesAnInvalid == Spec => []NothingPassesAnInvalidEvent
<1>1. Init => NothingPassesAnInvalidEvent
  BY DEF Init, Src!Init, NothingPassesAnInvalidEvent
<1>2. SrcInv /\ SrcInv' /\ DstInv /\ DstInv' /\ CopyIsPrefix
        /\ NothingPassesAnInvalidEvent /\ [Next]_vars
        => NothingPassesAnInvalidEvent'
  BY NothingPassesStep
<1>3. QED
  BY <1>1, <1>2, SrcInvHolds, DstInvHolds, CopiesArePrefixes, PTL DEF Spec
-----------------------------------------------------------------------------
(***************************************************************************)
(* Refusals stay true.  That an event is over a bound is a fact about the  *)
(* source's history, which only grows; that nothing passes it is the       *)
(* theorem above.                                                          *)
(***************************************************************************)

Holds(p) ==
    /\ p \in Refusal
    /\ p.sourceSeq \in DOMAIN srcRuns[p.sourceRunId]
    /\ srcRuns[p.sourceRunId][p.sourceSeq].type = p.sourceType
    /\ p.cause \in {"duplicate", "finished"} =>
          p.sourceSeq \in DOMAIN dstRuns[p.sourceRunId]
    /\ p.cause = "finished" => p.sourceRunId \in dstFinished
    /\ p.cause \in {"over_bound", "malformed"} =>
          srcRuns[p.sourceRunId][p.sourceSeq].payload \in Invalid
    /\ p.cause = "gap" => p.sourceSeq > 1

RefusalsHold == \A p \in Refusals : Holds(p)

(* What a refusal says of the histories is not undone by their growth.     *)
LEMMA HoldsStays ==
    ASSUME SrcInv, DstInv, [Next]_vars, NEW p, Holds(p),
           \A r \in SourceRuns : \A i \in DOMAIN dstRuns[r] :
              i \in DOMAIN dstRuns'[r],
           \A r \in SourceRuns : r \in dstFinished => r \in dstFinished'
    PROVE  Holds(p)'
<1>1. p.sourceRunId \in SourceRuns
  BY DEF Holds, Refusal
<1>2. \A i \in DOMAIN srcRuns[p.sourceRunId] :
         /\ i \in DOMAIN srcRuns'[p.sourceRunId]
         /\ srcRuns'[p.sourceRunId][i] = srcRuns[p.sourceRunId][i]
  BY <1>1, SourceGrows
<1>3. QED
  BY <1>1, <1>2 DEF Holds

(* The refusal a delivery leaves is true when it is left.                  *)
LEMMA NewRefusalHolds ==
    ASSUME SrcInv, DstInv, CopyIsPrefix, ClosedCopyIsComplete,
           NEW e \in StoredAtSource, NEW c \in Cause,
           c \in {"over_bound", "malformed"} => e.payload \in Invalid,
           c = "finished" => e.runId \in dstFinished,
           c = "duplicate" => e.seq <= Len(dstRuns[e.runId]),
           c = "gap" => e.seq > Len(dstRuns[e.runId]) + 1
    PROVE  Holds(RefusalOf(e, c))
<1> DEFINE p == RefusalOf(e, c)
           r == e.runId
<1>1. /\ r \in SourceRuns /\ e.seq \in 1..MaxSeq
      /\ e.seq \in DOMAIN srcRuns[r] /\ srcRuns[r][e.seq] = e
  BY StoredEvents
<1>2. /\ p.cause = c /\ p.sourceRunId = r /\ p.sourceSeq = e.seq
      /\ p.sourceType = e.type
  BY DEF RefusalOf
<1>3. p \in Refusal
  BY RefusalType
<1>4. /\ Len(dstRuns[r]) \in Nat
      /\ DOMAIN dstRuns[r] = 1..Len(dstRuns[r])
  BY <1>1, Lengths DEF DstRuns
<1>5. c = "duplicate" => e.seq \in DOMAIN dstRuns[r]
  BY <1>1, <1>4
<1>6. c = "finished" => e.seq \in DOMAIN dstRuns[r]
  BY <1>1 DEF ClosedCopyIsComplete
<1>7. c = "gap" => e.seq > 1
  BY <1>1, <1>4
<1>8. QED
  BY <1>1, <1>2, <1>3, <1>5, <1>6, <1>7 DEF Holds

(* What is recorded on the relay's run.                                    *)
OnRecord(p) ==
    \E i \in DOMAIN dstRuns[RelayRun] :
        /\ dstRuns[RelayRun][i].type = CaptureRefused
        /\ dstRuns[RelayRun][i].payload = p

LEMMA RefusalsAre == \A p : p \in Refusals <=> p \in outbox \/ OnRecord(p)
  BY DEF Refusals, Recorded, OnRecord

LEMMA RecordedAfter ==
    ASSUME DstInv, NEW e, dstRuns'[RelayRun] = Append(dstRuns[RelayRun], e),
           NEW p, OnRecord(p)'
    PROVE  OnRecord(p) \/ (e.type = CaptureRefused /\ p = e.payload)
<1> DEFINE n == Len(dstRuns[RelayRun])
<1>1. dstRuns[RelayRun] \in Seq(Dst!Event) /\ n \in Nat
  BY DEF DstInv, Dst!TypeOK, DstRuns
<1>2. /\ DOMAIN dstRuns'[RelayRun] = 1..(n + 1)
      /\ DOMAIN dstRuns[RelayRun] = 1..n
      /\ dstRuns'[RelayRun][n + 1] = e
      /\ \A i \in 1..n : dstRuns'[RelayRun][i] = dstRuns[RelayRun][i]
  BY <1>1
<1>3. PICK i \in 1..(n + 1) :
        /\ dstRuns'[RelayRun][i].type = CaptureRefused
        /\ dstRuns'[RelayRun][i].payload = p
  BY <1>2 DEF OnRecord
<1>4. CASE i = n + 1
  BY <1>2, <1>3, <1>4
<1>5. CASE i \in 1..n
  BY <1>2, <1>3, <1>5 DEF OnRecord
<1>6. QED
  BY <1>1, <1>4, <1>5

(* A step adds at most the refusal of the event it delivers.               *)
LEMMA RefusalsStep ==
    ASSUME SrcInv, DstInv, OutboxOK, CopyIsPrefix, ClosedCopyIsComplete,
           RefusalsHold, [Next]_vars
    PROVE  RefusalsHold'
<1>1. \A p : p \in Refusals => Holds(p)
  BY DEF RefusalsHold
<1>2. \A p : (p \in Refusals)' <=> p \in outbox' \/ OnRecord(p)'
  BY DEF Refusals, Recorded, OnRecord
<1>3. CASE UNCHANGED <<dstRuns, dstFinished, outbox>>
  <2>1. \A p : OnRecord(p)' => OnRecord(p)
    BY <1>3 DEF OnRecord
  <2>2. \A p : (p \in Refusals)' => p \in Refusals
    BY <1>2, <1>3, <2>1, RefusalsAre
  <2>3. \A p : Holds(p) => Holds(p)'
    BY <1>3, HoldsStays
  <2>4. QED
    BY <1>1, <2>2, <2>3 DEF RefusalsHold
<1>4. ASSUME NEW e \in StoredAtSource, Deliver(e)
      PROVE  RefusalsHold'
  <2>1. e.runId \in SourceRuns /\ e.runId \in DstRuns /\ e.runId # RelayRun
    BY StoredEvents, RelayAssumption DEF DstRuns
  <2>2. CASE Copied(e)
    <3>1. /\ \A q \in DstRuns : q # e.runId => dstRuns'[q] = dstRuns[q]
          /\ \A i \in DOMAIN dstRuns[e.runId] : i \in DOMAIN dstRuns'[e.runId]
          /\ dstFinished \subseteq dstFinished'
      BY <2>1, <2>2, DestinationStores, Lengths DEF Copied
    <3>2. \A p : Holds(p) => Holds(p)'
      BY <3>1, HoldsStays DEF DstRuns
    <3>3. dstRuns'[RelayRun] = dstRuns[RelayRun]
      BY <2>1, <3>1 DEF DstRuns
    <3>4. \A p : (p \in Refusals)' => p \in Refusals
      BY <1>2, <2>2, <3>3, RefusalsAre DEF OnRecord, Copied, NoRefusal
    <3>5. QED
      BY <1>1, <3>2, <3>4 DEF RefusalsHold
  <2>3. CASE Refused(e)
    <3>1. PICK c \in Cause :
            /\ outbox' = {RefusalOf(e, c)}
            /\ c \in {"over_bound", "malformed"} => e.payload \in Invalid
            /\ c = "finished" => e.runId \in dstFinished
            /\ c = "duplicate" => e.seq <= Len(dstRuns[e.runId])
            /\ c = "gap" => e.seq > Len(dstRuns[e.runId]) + 1
      BY <2>3 DEF Refused
    <3>2. Holds(RefusalOf(e, c))
      BY <3>1, NewRefusalHolds
    <3>3. dstRuns' = dstRuns /\ dstFinished' = dstFinished
      BY <2>3 DEF Refused
    <3>4. \A p : Holds(p) => Holds(p)'
      BY <3>3, HoldsStays
    <3>5. \A p : (p \in Refusals)' => p \in Refusals \/ p = RefusalOf(e, c)
      BY <1>2, <3>1, <3>3, RefusalsAre DEF OnRecord
    <3>6. QED
      BY <1>1, <3>2, <3>4, <3>5 DEF RefusalsHold
  <2>4. QED
    BY <1>4, <2>2, <2>3, DeliveryOutcome
<1>5. ASSUME NEW d, NEW t, Dst!AppendDraft(RelayRun, d, t),
             outbox' = NoRefusal,
             d.type = CaptureRefused => d.payload \in outbox
      PROVE  RefusalsHold'
  <2>1. /\ \A r \in SourceRuns : dstRuns'[r] = dstRuns[r]
        /\ dstFinished \subseteq dstFinished'
    BY <1>5, RelayAppends
  <2>2. \A p : Holds(p) => Holds(p)'
    BY <2>1, HoldsStays
  <2>3. \A p : OnRecord(p)' => p \in Refusals
    <3>1. CASE dstRuns'[RelayRun] = dstRuns[RelayRun]
      BY <3>1, RefusalsAre DEF OnRecord
    <3>2. ASSUME NEW e, e.type = d.type, e.payload = d.payload,
                 dstRuns'[RelayRun] = Append(dstRuns[RelayRun], e)
          PROVE  \A p : OnRecord(p)' => p \in Refusals
      BY <1>5, <3>2, RecordedAfter, RefusalsAre
    <3>3. QED
      BY <1>5, <3>1, <3>2, RelayAppends
  <2>4. QED
    BY <1>1, <1>2, <1>5, <2>2, <2>3 DEF RefusalsHold, NoRefusal
<1>6. ASSUME NEW t \in Times, RecordRefusal(t)
      PROVE  RefusalsHold'
  <2>1. PICK p \in outbox :
          Dst!AppendDraft(RelayRun, [type |-> CaptureRefused, payload |-> p], t)
    BY <1>6 DEF RecordRefusal
  <2>2. outbox' = NoRefusal
    BY <1>6 DEF RecordRefusal
  <2>3. QED
    BY <1>5, <2>1, <2>2
<1>7. ASSUME NEW t \in Times, FinishRelay(t)
      PROVE  RefusalsHold'
  <2>1. RunFinished # CaptureRefused
    BY RelayAssumption
  <2>2. outbox' = NoRefusal
    BY <1>7 DEF FinishRelay
  <2>3. QED
    BY <1>5, <1>7, <2>1, <2>2 DEF FinishRelay
<1>8. CASE UNCHANGED vars
  BY <1>3, <1>8 DEF vars
<1>9. ASSUME NEW r \in SourceRuns, NEW d \in Src!Draft, NEW t \in Times,
             Produce(r, d, t)
      PROVE  RefusalsHold'
  BY <1>3, <1>9 DEF Produce
<1>10. CASE Restart
  <2>1. /\ outbox' = NoRefusal
        /\ UNCHANGED <<srcRuns, srcFinished, srcReply, dstRuns, dstFinished>>
    BY <1>10 DEF Restart
  <2>2. \A p : Holds(p) => Holds(p)'
    BY <2>1, HoldsStays
  <2>3. \A p : (p \in Refusals)' => p \in Refusals
    BY <1>2, <2>1, RefusalsAre DEF OnRecord, NoRefusal
  <2>4. QED
    BY <1>1, <2>2, <2>3 DEF RefusalsHold
<1>11. QED
  BY <1>4, <1>6, <1>7, <1>8, <1>9, <1>10 DEF Next

(* A refusal, recorded or about to be, stays true for ever.                *)
THEOREM RefusalsAreTrueForEver == Spec => []RefusalsStayTrue
<1>1. Init => RefusalsHold
  BY DEF Init, Dst!Init, RefusalsHold, Refusals, Recorded, NoRefusal, DstRuns
<1>2. SrcInv /\ DstInv /\ OutboxOK /\ CopyIsPrefix /\ ClosedCopyIsComplete
        /\ RefusalsHold /\ [Next]_vars => RefusalsHold'
  BY RefusalsStep
<1>3. RefusalsHold /\ CopyIsPrefix /\ NothingPassesAnInvalidEvent
        => RefusalsStayTrue
  <2> SUFFICES ASSUME RefusalsHold, CopyIsPrefix,
                      NothingPassesAnInvalidEvent, NEW p \in Refusals
               PROVE  RefusalsStayTrue!(p)
    BY DEF RefusalsStayTrue
  <2> QED
    BY DEF RefusalsHold, Holds, CopyIsPrefix, NothingPassesAnInvalidEvent,
           Refusal
<1>4. QED
  BY <1>1, <1>2, <1>3, SrcInvHolds, DstInvHolds, OutboxHolds,
     CopiesArePrefixes, ClosedCopiesAreComplete, NothingPassesAnInvalid, PTL
     DEF Spec
-----------------------------------------------------------------------------
(***************************************************************************)
(* The safety half of EveryValidEventIsCopied, whose liveness half is the  *)
(* wire's and the relay's: the one event a copy waits for is never         *)
(* refused.                                                                *)
(***************************************************************************)

OffersOfTheNextSucceed ==
    [][ \A r \in SourceRuns :
           LET n == Len(dstRuns[r]) + 1
           IN  (n \in DOMAIN srcRuns[r] /\ DeliverValid(srcRuns[r][n])) =>
                   /\ dstRuns'[r] = Append(dstRuns[r], srcRuns[r][n])
                   /\ outbox' = NoRefusal ]_vars

(* The copy of a run that waits for an event is open, since a closed copy  *)
(* is complete, and asks for the number the source gave the event.         *)
LEMMA NextIsWelcome ==
    ASSUME SrcInv, DstInv, ClosedCopyIsComplete, NEW r \in SourceRuns,
           Len(dstRuns[r]) + 1 \in DOMAIN srcRuns[r],
           DeliverValid(srcRuns[r][Len(dstRuns[r]) + 1])
    PROVE  /\ dstRuns'[r] = Append(dstRuns[r], srcRuns[r][Len(dstRuns[r]) + 1])
           /\ outbox' = NoRefusal
<1> DEFINE n == Len(dstRuns[r]) + 1
           e == srcRuns[r][n]
<1>1. /\ Len(dstRuns[r]) \in Nat /\ Len(srcRuns[r]) \in Nat
      /\ DOMAIN srcRuns[r] = 1..Len(srcRuns[r])
  BY Lengths DEF DstRuns
<1>2. r \notin dstFinished
  <2>1. dstRuns[r] # srcRuns[r]
    BY <1>1
  <2> QED  BY <2>1 DEF ClosedCopyIsComplete
<1>3. e.runId = r /\ e.seq = n
  BY DEF SrcInv, Src!Gapless
<1> HIDE DEF e
<1>4. Dst!Store(e)
  BY <1>2, <1>3 DEF DeliverValid, Dst!AppendEvent, Dst!NextSeq, e
<1>5. dstReply'.kind = "stored"
  BY <1>4 DEF Dst!Store, Dst!Stored
<1>6. dstRuns'[r] = Append(dstRuns[r], e)
  BY <1>3, <1>4, DestinationStores DEF DstRuns
<1> QED
  BY <1>5, <1>6 DEF DeliverValid, e

(* However often an event was refused as a gap, and whatever was delivered *)
(* in between, it is taken when it is offered and is the next: a relay     *)
(* that offers again what is missing is never in its own way.              *)
THEOREM NextEventIsTaken == Spec => OffersOfTheNextSucceed
<1>1. ASSUME SrcInv, DstInv, ClosedCopyIsComplete
      PROVE  \A r \in SourceRuns :
                LET n == Len(dstRuns[r]) + 1
                IN  (n \in DOMAIN srcRuns[r] /\ DeliverValid(srcRuns[r][n])) =>
                        /\ dstRuns'[r] = Append(dstRuns[r], srcRuns[r][n])
                        /\ outbox' = NoRefusal
  BY <1>1, NextIsWelcome
<1>2. QED
  BY <1>1, SrcInvHolds, DstInvHolds, ClosedCopiesAreComplete, PTL
     DEF OffersOfTheNextSucceed
=============================================================================
