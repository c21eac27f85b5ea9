---------------------------- MODULE SinkProofs ----------------------------
(***************************************************************************)
(* What the sink guarantees for every set of runs, types, payloads and     *)
(* clock answers, and for histories of every length.                       *)
(*                                                                         *)
(* The inductive invariant is TypeOK /\ Gapless /\ ClosedByLastEvent: the  *)
(* guards of the code look only at `finished` and at the length of a list, *)
(* so what they mean for the stored events has to be carried along.        *)
(***************************************************************************)
EXTENDS Sink, SequenceTheorems, TLAPS

Inv == TypeOK /\ Gapless /\ ClosedByLastEvent

-----------------------------------------------------------------------------
(* A stamped draft is an event of its run with the next sequence number.   *)
LEMMA StampType ==
    ASSUME NEW r \in Runs, NEW d \in Draft, NEW t \in Times,
           NEW n \in 1..MaxSeq
    PROVE  /\ Stamp(d, r, n, t) \in Event
           /\ Stamp(d, r, n, t).runId = r
           /\ Stamp(d, r, n, t).seq = n
  BY DEF Stamp, Event, Draft

(* The length of a history, and so the next sequence number, is a number.  *)
LEMMA NextSeqType ==
    ASSUME TypeOK, NEW r \in Runs
    PROVE  /\ runs[r] \in Seq(Event)
           /\ Len(runs[r]) \in Nat
           /\ NextSeq(r) \in Nat \ {0}
           /\ DOMAIN runs[r] = 1..Len(runs[r])
           /\ NextSeq(r) = Len(runs[r]) + 1
  BY DEF TypeOK, NextSeq

(* Every call is a refusal that changes neither runs nor finished, or the  *)
(* storing of one event with the next sequence number of an open run.      *)
LEMMA CallSteps ==
    ASSUME TypeOK, Next
    PROVE  \/ UNCHANGED <<runs, finished>>
           \/ \E e \in Event :
                 /\ e.runId \in Runs \ finished
                 /\ e.seq = NextSeq(e.runId)
                 /\ Store(e)
<1>1. CASE \E r \in Runs, d \in Draft, t \in Times : AppendDraft(r, d, t)
  <2>1. PICK r \in Runs, d \in Draft, t \in Times : AppendDraft(r, d, t)
    BY <1>1
  <2>2. CASE r \in finished
    BY <2>1, <2>2 DEF AppendDraft, Refuse
  <2>3. CASE r \notin finished
    <3>1. NextSeq(r) <= MaxSeq /\ Store(Stamp(d, r, NextSeq(r), t))
      BY <2>1, <2>3 DEF AppendDraft
    <3>2. NextSeq(r) \in 1..MaxSeq
      BY <3>1, NextSeqType, SinkAssumption
    <3>3. QED
      BY <3>1, <3>2, <2>3, StampType
  <2>4. QED
    BY <2>2, <2>3
<1>2. CASE \E e \in Event : AppendEvent(e)
  <2>1. PICK e \in Event : AppendEvent(e)
    BY <1>2
  <2>2. e.runId \in Runs
    BY DEF Event
  <2>3. QED
    BY <2>1, <2>2 DEF AppendEvent, Refuse
<1>3. QED
  BY <1>1, <1>2 DEF Next

(* What storing does to the histories.                                     *)
LEMMA StoreEffect ==
    ASSUME TypeOK, NEW e \in Event, e.runId \in Runs,
           e.seq = NextSeq(e.runId), Store(e)
    PROVE  /\ runs' \in [Runs -> Seq(Event)]
           /\ \A q \in Runs : q # e.runId => runs'[q] = runs[q]
           /\ runs'[e.runId] = Append(runs[e.runId], e)
           /\ Len(runs'[e.runId]) = Len(runs[e.runId]) + 1
           /\ Len(runs'[e.runId]) = e.seq
           /\ DOMAIN runs'[e.runId] = 1..e.seq
           /\ runs'[e.runId][e.seq] = e
           /\ \A i \in 1..Len(runs[e.runId]) :
                 runs'[e.runId][i] = runs[e.runId][i]
<1> DEFINE r == e.runId
<1>1. runs \in [Runs -> Seq(Event)] /\ Len(runs[r]) \in Nat
  BY NextSeqType DEF TypeOK
<1>2. runs' = [runs EXCEPT ![r] = Append(runs[r], e)]
  BY DEF Store
<1>3. /\ runs'[r] = Append(runs[r], e)
      /\ \A q \in Runs : q # r => runs'[q] = runs[q]
      /\ runs' \in [Runs -> Seq(Event)]
  BY <1>1, <1>2
<1>4. /\ Len(runs'[r]) = Len(runs[r]) + 1
      /\ runs'[r][Len(runs[r]) + 1] = e
      /\ \A i \in 1..Len(runs[r]) : runs'[r][i] = runs[r][i]
      /\ DOMAIN runs'[r] = 1..(Len(runs[r]) + 1)
  BY <1>1, <1>3
<1>5. QED
  BY <1>3, <1>4 DEF NextSeq
-----------------------------------------------------------------------------
(***************************************************************************)
(* The inductive invariant.                                                *)
(***************************************************************************)

LEMMA InitInv == Init => Inv
  BY SinkAssumption DEF Init, Inv, TypeOK, Gapless, ClosedByLastEvent, Reply,
                        NoReply

(* The sequence number of its last event bounds the length of a history.   *)
LEMMA LengthBound ==
    ASSUME Inv, NEW r \in Runs
    PROVE  NextSeq(r) \in 1..(MaxSeq + 1)
<1>1. Len(runs[r]) \in Nat /\ runs[r] \in Seq(Event)
  BY NextSeqType DEF Inv
<1>2. CASE Len(runs[r]) = 0
  BY <1>2, SinkAssumption DEF NextSeq
<1>3. CASE Len(runs[r]) # 0
  <2>1. runs[r][Len(runs[r])] \in Event
    BY <1>1, <1>3
  <2>2. runs[r][Len(runs[r])].seq = Len(runs[r])
    BY <1>1, <1>3 DEF Inv, Gapless
  <2>3. Len(runs[r]) \in 1..MaxSeq
    BY <1>1, <1>3, <2>1, <2>2, SinkAssumption DEF Event
  <2>4. QED
    BY <2>3, SinkAssumption DEF NextSeq
<1>4. QED
  BY <1>2, <1>3

(* The Result of a call is one its signature allows.                       *)
LEMMA ReplyType ==
    ASSUME Inv, Next
    PROVE  reply' \in Reply
<1> USE DEF Inv
<1>1. ASSUME NEW r \in Runs
      PROVE  RunClosedError(r) \in Reply
  BY DEF RunClosedError, Reply
<1>2. ASSUME NEW e \in Event
      PROVE  Stored(e) \in Reply
  BY DEF Stored, Reply
<1>3. ASSUME NEW r \in Runs, NEW d \in Draft, NEW t \in Times,
             AppendDraft(r, d, t)
      PROVE  reply' \in Reply
  <2>1. CASE r \in finished
    BY <1>1, <1>3, <2>1 DEF AppendDraft, Refuse
  <2>2. CASE r \notin finished
    <3>1. NextSeq(r) \in 1..MaxSeq
      BY <1>3, <2>2, NextSeqType, SinkAssumption DEF AppendDraft
    <3>2. Stamp(d, r, NextSeq(r), t) \in Event
      BY <3>1, StampType
    <3>3. reply' = Stored(Stamp(d, r, NextSeq(r), t))
      BY <1>3, <2>2 DEF AppendDraft, Store
    <3>4. QED
      BY <1>2, <3>2, <3>3
  <2>3. QED
    BY <2>1, <2>2
<1>4. ASSUME NEW e \in Event, AppendEvent(e)
      PROVE  reply' \in Reply
  <2>1. e.runId \in Runs /\ e.seq \in 0..MaxSeq
    BY DEF Event
  <2>2. CASE e.runId \in finished
    BY <1>1, <1>4, <2>1, <2>2 DEF AppendEvent, Refuse
  <2>3. CASE e.runId \notin finished /\ e.seq # NextSeq(e.runId)
    <3>1. reply' = SequenceError(e.runId, NextSeq(e.runId), e.seq)
      BY <1>4, <2>3 DEF AppendEvent, Refuse
    <3>2. NextSeq(e.runId) \in 1..(MaxSeq + 1)
      BY <2>1, LengthBound
    <3>3. QED
      BY <2>1, <3>1, <3>2 DEF SequenceError, Reply
  <2>4. CASE e.runId \notin finished /\ e.seq = NextSeq(e.runId)
    BY <1>2, <1>4, <2>4 DEF AppendEvent, Store
  <2>5. QED
    BY <2>2, <2>3, <2>4
<1>5. QED
  BY <1>3, <1>4 DEF Next

(* Storing the next event of an open run keeps the histories gapless and   *)
(* closed exactly by their last event.                                     *)
LEMMA StoreKeepsShape ==
    ASSUME Inv, NEW e \in Event, e.runId \in Runs \ finished,
           e.seq = NextSeq(e.runId), Store(e)
    PROVE  Gapless' /\ ClosedByLastEvent'
<1> DEFINE r == e.runId
<1> USE DEF Inv
<1>1. /\ \A q \in Runs : q # r => runs'[q] = runs[q]
      /\ Len(runs'[r]) = e.seq
      /\ DOMAIN runs'[r] = 1..e.seq
      /\ runs'[r][e.seq] = e
      /\ \A i \in 1..Len(runs[r]) : runs'[r][i] = runs[r][i]
  BY StoreEffect
<1>2. /\ Len(runs[r]) \in Nat
      /\ DOMAIN runs[r] = 1..Len(runs[r])
      /\ e.seq = Len(runs[r]) + 1
  BY NextSeqType
<1>3. \A i \in 1..e.seq : i = e.seq \/ i \in 1..Len(runs[r])
  BY <1>2
<1>4. finished' = IF IsTerminal(e) THEN finished \cup {r} ELSE finished
  BY DEF Store
<1>5. Gapless'
  <2>1. ASSUME NEW q \in Runs, NEW i \in DOMAIN runs'[q]
        PROVE  runs'[q][i].seq = i /\ runs'[q][i].runId = q
    <3>1. CASE q # r
      BY <1>1, <3>1 DEF Gapless
    <3>2. CASE q = r /\ i = e.seq
      BY <1>1, <3>2
    <3>3. CASE q = r /\ i \in 1..Len(runs[r])
      BY <1>1, <1>2, <3>3 DEF Gapless
    <3>4. QED
      BY <1>1, <1>3, <3>1, <3>2, <3>3
  <2>2. QED
    BY <2>1 DEF Gapless
<1>6. ClosedByLastEvent'
  <2>1. ASSUME NEW q \in Runs, q # r
        PROVE  /\ \A i \in DOMAIN runs'[q] :
                     IsTerminal(runs'[q][i]) => i = Len(runs'[q])
               /\ q \in finished' <=> runs'[q] # <<>>
                                      /\ IsTerminal(runs'[q][Len(runs'[q])])
    <3>1. runs'[q] = runs[q] /\ (q \in finished' <=> q \in finished)
      BY <1>1, <1>4, <2>1
    <3>2. QED
      BY <3>1 DEF ClosedByLastEvent, IsTerminal
  <2>2. ASSUME NEW i \in DOMAIN runs'[r], IsTerminal(runs'[r][i])
        PROVE  i = Len(runs'[r])
    <3>1. CASE i = e.seq
      BY <1>1, <3>1
    <3>2. CASE i \in 1..Len(runs[r])
      <4>1. i = Len(runs[r]) /\ IsTerminal(runs[r][Len(runs[r])])
        BY <1>1, <1>2, <2>2, <3>2 DEF ClosedByLastEvent, IsTerminal
      <4>2. runs[r] # <<>>
        BY <3>2
      <4>3. r \in finished
        BY <4>1, <4>2 DEF ClosedByLastEvent
      <4>4. QED
        BY <4>3
    <3>3. QED
      BY <1>1, <1>3, <2>2, <3>1, <3>2
  <2>3. runs'[r] # <<>> /\ runs'[r][Len(runs'[r])] = e
    BY <1>1, <1>2
  <2>4. r \in finished' <=> IsTerminal(e)
    BY <1>4
  <2>5. QED
    BY <2>1, <2>2, <2>3, <2>4 DEF ClosedByLastEvent, IsTerminal
<1>7. QED
  BY <1>5, <1>6

LEMMA StepInv == Inv /\ [Next]_vars => Inv'
<1> SUFFICES ASSUME Inv, [Next]_vars PROVE Inv'
  OBVIOUS
<1> USE DEF Inv
<1>1. CASE UNCHANGED vars
  BY <1>1 DEF vars, TypeOK, Gapless, ClosedByLastEvent, IsTerminal
<1>2. CASE Next
  <2>1. reply' \in Reply
    BY <1>2, ReplyType
  <2>2. CASE UNCHANGED <<runs, finished>>
    BY <2>1, <2>2 DEF TypeOK, Gapless, ClosedByLastEvent, IsTerminal
  <2>3. ASSUME NEW e \in Event, e.runId \in Runs \ finished,
               e.seq = NextSeq(e.runId), Store(e)
        PROVE  Inv'
    <3>1. Gapless' /\ ClosedByLastEvent'
      BY <2>3, StoreKeepsShape
    <3>2. runs' \in [Runs -> Seq(Event)]
      BY <2>3, StoreEffect
    <3>3. finished' \subseteq Runs
      BY <2>3 DEF Store, TypeOK
    <3>4. QED
      BY <2>1, <3>1, <3>2, <3>3 DEF TypeOK
  <2>4. QED
    BY <1>2, <2>2, <2>3, CallSteps
<1>3. QED
  BY <1>1, <1>2

LEMMA InvHolds == Spec => []Inv
  BY InitInv, StepInv, PTL DEF Spec

(* The state of the sink always has its type.                              *)
THEOREM TypeCorrect == Spec => []TypeOK
<1>1. Inv => TypeOK
  BY DEF Inv
<1>2. QED
  BY <1>1, InvHolds, PTL

(* Stored events of a run are numbered 1, 2, 3, ... whatever mix of drafts *)
(* and forwarded events was submitted.                                     *)
THEOREM HistoriesAreGapless == Spec => []Gapless
<1>1. Inv => Gapless
  BY DEF Inv
<1>2. QED
  BY <1>1, InvHolds, PTL

(* A run has at most one terminal event, it is the last one, and the set   *)
(* of finished runs agrees with the stored events.                         *)
THEOREM RunsCloseOnce == Spec => []ClosedByLastEvent
<1>1. Inv => ClosedByLastEvent
  BY DEF Inv
<1>2. QED
  BY <1>1, InvHolds, PTL
-----------------------------------------------------------------------------
(***************************************************************************)
(* Refusals and the shape of a step.                                       *)
(***************************************************************************)

(* Where the set of finished runs says so, a terminal event is stored; and *)
(* where it does not, none is.                                             *)
LEMMA FinishedMeansTerminal ==
    ASSUME Inv, NEW r \in Runs
    PROVE  r \in finished <=> \E i \in DOMAIN runs[r] : IsTerminal(runs[r][i])
<1> USE DEF Inv
<1>1. /\ Len(runs[r]) \in Nat
      /\ DOMAIN runs[r] = 1..Len(runs[r])
      /\ runs[r] \in Seq(Event)
  BY NextSeqType
<1>2. ASSUME r \in finished
      PROVE  \E i \in DOMAIN runs[r] : IsTerminal(runs[r][i])
  <2>1. runs[r] # <<>> /\ IsTerminal(runs[r][Len(runs[r])])
    BY <1>2 DEF ClosedByLastEvent
  <2>2. Len(runs[r]) \in DOMAIN runs[r]
    BY <1>1, <2>1
  <2>3. QED
    BY <2>1, <2>2
<1>3. ASSUME NEW i \in DOMAIN runs[r], IsTerminal(runs[r][i])
      PROVE  r \in finished
  <2>1. i = Len(runs[r])
    BY <1>3 DEF ClosedByLastEvent
  <2>2. runs[r] # <<>>
    BY <1>1
  <2>3. QED
    BY <1>3, <2>1, <2>2 DEF ClosedByLastEvent
<1>4. QED
  BY <1>2, <1>3

LEMMA StepRefusal == Inv /\ RefusalIsTrue /\ [Next]_vars => RefusalIsTrue'
<1> SUFFICES ASSUME Inv, RefusalIsTrue, [Next]_vars PROVE RefusalIsTrue'
  OBVIOUS
<1> USE DEF Inv
<1>1. CASE UNCHANGED vars
  BY <1>1 DEF vars, RefusalIsTrue, IsTerminal, NextSeq
<1>2. ASSUME NEW r \in Runs, r \in finished, Refuse(RunClosedError(r))
      PROVE  RefusalIsTrue'
  <2>1. \E i \in DOMAIN runs[r] : IsTerminal(runs[r][i])
    BY <1>2, FinishedMeansTerminal
  <2>2. reply' = RunClosedError(r) /\ runs' = runs
    BY <1>2 DEF Refuse
  <2>3. QED
    BY <2>1, <2>2 DEF RefusalIsTrue, RunClosedError, IsTerminal
<1>3. ASSUME NEW e, Store(e)
      PROVE  RefusalIsTrue'
  BY <1>3 DEF Store, Stored, RefusalIsTrue
<1>4. ASSUME NEW e \in Event, e.runId \notin finished,
             e.seq # NextSeq(e.runId),
             Refuse(SequenceError(e.runId, NextSeq(e.runId), e.seq))
      PROVE  RefusalIsTrue'
  <2> DEFINE r == e.runId
  <2>1. r \in Runs /\ e.seq \in 0..MaxSeq
    BY DEF Event
  <2>2. \A i \in DOMAIN runs[r] : ~IsTerminal(runs[r][i])
    BY <1>4, <2>1, FinishedMeansTerminal
  <2>3. \/ e.seq > NextSeq(r)
        \/ e.seq = 0
        \/ \E i \in DOMAIN runs[r] : runs[r][i].seq = e.seq
    <3>1. /\ Len(runs[r]) \in Nat
          /\ DOMAIN runs[r] = 1..Len(runs[r])
          /\ NextSeq(r) = Len(runs[r]) + 1
      BY <2>1, NextSeqType
    <3>2. e.seq > NextSeq(r) \/ e.seq = 0 \/ e.seq \in DOMAIN runs[r]
      BY <1>4, <2>1, <3>1, SinkAssumption
    <3>3. QED
      BY <2>1, <3>2 DEF Gapless
  <2>4. /\ reply' = SequenceError(r, NextSeq(r), e.seq)
        /\ runs' = runs
    BY <1>4 DEF Refuse
  <2>5. /\ reply'.kind = "sequence"
        /\ reply'.runId = r
        /\ reply'.expected = NextSeq(r)
        /\ reply'.received = e.seq
    BY <2>4 DEF SequenceError
  <2>6. NextSeq(r)' = NextSeq(r)
    BY <2>4 DEF NextSeq
  <2>7. QED
    BY <2>2, <2>3, <2>4, <2>5, <2>6 DEF RefusalIsTrue, IsTerminal, NextSeq
<1>5. ASSUME NEW r \in Runs, NEW d \in Draft, NEW t \in Times,
             AppendDraft(r, d, t)
      PROVE  RefusalIsTrue'
  BY <1>2, <1>3, <1>5 DEF AppendDraft
<1>6. ASSUME NEW e \in Event, AppendEvent(e)
      PROVE  RefusalIsTrue'
  BY <1>2, <1>3, <1>4, <1>6 DEF AppendEvent, Event
<1>7. QED
  BY <1>1, <1>5, <1>6 DEF Next

(* What an error tells the caller is true of the sink's stored events.     *)
THEOREM RefusalsAreTrue == Spec => []RefusalIsTrue
<1>1. Init => RefusalIsTrue
  BY DEF Init, RefusalIsTrue, NoReply
<1>2. QED
  BY <1>1, StepRefusal, InvHolds, PTL DEF Spec

(* A call appends one event to one open run, or changes no history.        *)
THEOREM SinkAppendsOnly == Spec => AppendOnly
<1> DEFINE Step(r) ==
      runs'[r] # runs[r] =>
        /\ reply' = Stored(runs'[r][Len(runs'[r])])
        /\ runs'[r] = Append(runs[r], reply'.event)
        /\ r \notin finished
        /\ \A q \in Runs \ {r} : runs'[q] = runs[q]
<1>1. Inv /\ [Next]_vars => [\A r \in Runs : Step(r)]_vars
  <2> SUFFICES ASSUME Inv, Next PROVE \A r \in Runs : Step(r)
    OBVIOUS
  <2>1. CASE UNCHANGED <<runs, finished>>
    BY <2>1
  <2>2. ASSUME NEW e \in Event, e.runId \in Runs \ finished,
               e.seq = NextSeq(e.runId), Store(e)
        PROVE  \A r \in Runs : Step(r)
    <3>1. /\ \A q \in Runs : q # e.runId => runs'[q] = runs[q]
          /\ runs'[e.runId] = Append(runs[e.runId], e)
          /\ runs'[e.runId][Len(runs'[e.runId])] = e
      BY <2>2, StoreEffect DEF Inv
    <3>2. reply' = Stored(e) /\ reply'.event = e
      BY <2>2 DEF Store, Stored
    <3>3. QED
      BY <2>2, <3>1, <3>2
  <2>3. QED
    BY <2>1, <2>2, CallSteps DEF Inv
<1>2. QED
  BY <1>1, InvHolds, PTL DEF Spec, AppendOnly
-----------------------------------------------------------------------------
(***************************************************************************)
(* The sink implements the abstract run log.                               *)
(***************************************************************************)

(* The facts of a history are a list as long as the history.               *)
LEMMA FactsType ==
    ASSUME TypeOK, NEW r \in Runs
    PROVE  /\ FactsOf(r) \in Seq(Fact)
           /\ Len(FactsOf(r)) = Len(runs[r])
           /\ DOMAIN FactsOf(r) = 1..Len(runs[r])
           /\ \A i \in 1..Len(runs[r]) : FactsOf(r)[i] = FactOf(runs[r][i])
<1>1. /\ runs[r] \in Seq(Event)
      /\ Len(runs[r]) \in Nat
      /\ DOMAIN runs[r] = 1..Len(runs[r])
  BY NextSeqType
<1>2. \A i \in 1..Len(runs[r]) : runs[r][i] \in Event
  BY <1>1
<1>3. \A e \in Event : FactOf(e) \in Fact
  BY DEF Event, FactOf, Fact
<1>4. FactsOf(r) = [i \in 1..Len(runs[r]) |-> FactOf(runs[r][i])]
  BY <1>1 DEF FactsOf
<1>5. QED
  BY <1>1, <1>2, <1>3, <1>4

(* A run the sink does not hold finished is open in the abstract log.      *)
LEMMA OpenInPromise ==
    ASSUME Inv, NEW r \in Runs \ finished
    PROVE  ~Promise!Closed(r)
<1>1. \A i \in 1..Len(runs[r]) : ~IsTerminal(runs[r][i])
  BY FinishedMeansTerminal, NextSeqType DEF Inv
<1>2. \A i \in 1..Len(runs[r]) : FactsOf(r)[i].type = runs[r][i].type
  <2>1. \A i \in 1..Len(runs[r]) : FactsOf(r)[i] = FactOf(runs[r][i])
    BY FactsType DEF Inv
  <2>2. \A e : FactOf(e).type = e.type
    BY DEF FactOf
  <2>3. QED
    BY <2>1, <2>2
<1>3. DOMAIN FactsOf(r) = 1..Len(runs[r])
  BY FactsType DEF Inv
<1>4. QED
  <2>1. \A i \in DOMAIN FactsOf(r) : FactsOf(r)[i].type # RunFinished
    BY <1>1, <1>2, <1>3 DEF IsTerminal
  <2>2. [q \in Runs |-> FactsOf(q)][r] = FactsOf(r)
    OBVIOUS
  <2>3. QED
    BY <2>1, <2>2 DEF Promise!Closed

(* Storing the next event of an open run records its fact.                 *)
LEMMA StoreRecords ==
    ASSUME Inv, Inv', NEW e \in Event, e.runId \in Runs \ finished,
           e.seq = NextSeq(e.runId), Store(e)
    PROVE  Promise!Record(e.runId, FactOf(e)) /\ FactOf(e) \in Fact
<1> DEFINE r == e.runId
<1> USE DEF Inv
<1>1. FactOf(e) \in Fact
  BY DEF Event, FactOf, Fact
<1>2. /\ \A q \in Runs : q # r => runs'[q] = runs[q]
      /\ Len(runs'[r]) = Len(runs[r]) + 1
      /\ runs'[r][e.seq] = e
      /\ \A i \in 1..Len(runs[r]) : runs'[r][i] = runs[r][i]
  BY StoreEffect
<1>3. Len(runs[r]) \in Nat /\ e.seq = Len(runs[r]) + 1
  BY NextSeqType
<1>4. /\ FactsOf(r) \in Seq(Fact)
      /\ Len(FactsOf(r)) = Len(runs[r])
      /\ \A i \in 1..Len(runs[r]) : FactsOf(r)[i] = FactOf(runs[r][i])
  BY FactsType
<1>5. /\ FactsOf(r)' \in Seq(Fact)
      /\ Len(FactsOf(r)') = Len(runs[r]) + 1
      /\ \A i \in 1..(Len(runs[r]) + 1) :
            FactsOf(r)'[i] = FactOf(runs'[r][i])
  <2>1. Len(runs'[r]) \in Nat /\ runs'[r] \in Seq(Event)
    BY DEF TypeOK
  <2>2. DOMAIN runs'[r] = 1..(Len(runs[r]) + 1)
    BY <1>2, <2>1
  <2>3. FactsOf(r)' = [i \in 1..(Len(runs[r]) + 1) |-> FactOf(runs'[r][i])]
    BY <2>2 DEF FactsOf
  <2>4. \A i \in 1..(Len(runs[r]) + 1) : runs'[r][i] \in Event
    BY <2>1, <2>2
  <2>5. \A f \in Event : FactOf(f) \in Fact
    BY DEF Event, FactOf, Fact
  <2>6. QED
    BY <1>3, <2>3, <2>4, <2>5
<1>6. FactsOf(r)' = Append(FactsOf(r), FactOf(e))
  <2>1. /\ Append(FactsOf(r), FactOf(e)) \in Seq(Fact)
        /\ Len(Append(FactsOf(r), FactOf(e))) = Len(runs[r]) + 1
    BY <1>1, <1>4
  <2>2. \A i \in 1..(Len(runs[r]) + 1) :
            FactsOf(r)'[i] = Append(FactsOf(r), FactOf(e))[i]
    BY <1>1, <1>2, <1>3, <1>4, <1>5
  <2>3. QED
    BY <1>5, <2>1, <2>2, SeqEqual
<1>7. \A q \in Runs : q # r => FactsOf(q)' = FactsOf(q)
  BY <1>2 DEF FactsOf
<1>8. [q \in Runs |-> FactsOf(q)']
        = [[q \in Runs |-> FactsOf(q)] EXCEPT
             ![r] = Append([q \in Runs |-> FactsOf(q)][r], FactOf(e))]
  BY <1>6, <1>7
<1>9. ~Promise!Closed(r)
  BY OpenInPromise
<1>10. QED
  BY <1>1, <1>8, <1>9 DEF Promise!Record

(* Forgetting runId and seq, every behaviour of the sink is one of RunLog. *)
THEOREM SinkKeepsPromise == Spec => KeepsPromise
<1>1. Init => Promise!Init
  BY DEF Init, Promise!Init, FactsOf
<1>2. Inv /\ Inv' /\ [Next]_vars
        => [Promise!Next]_([r \in Runs |-> FactsOf(r)])
  <2> SUFFICES ASSUME Inv, Inv', [Next]_vars
               PROVE  [Promise!Next]_([r \in Runs |-> FactsOf(r)])
    OBVIOUS
  <2>1. CASE UNCHANGED vars
    BY <2>1 DEF vars, FactsOf
  <2>2. CASE UNCHANGED <<runs, finished>>
    BY <2>2 DEF FactsOf
  <2>3. ASSUME NEW e \in Event, e.runId \in Runs \ finished,
               e.seq = NextSeq(e.runId), Store(e)
        PROVE  Promise!Next
    BY <2>3, StoreRecords DEF Promise!Next
  <2>4. QED
    BY <2>1, <2>2, <2>3, CallSteps DEF Inv
<1>3. QED
  BY <1>1, <1>2, InvHolds, PTL DEF Spec, KeepsPromise, Promise!Spec
=============================================================================
