--------------------------- MODULE TsSinkProofs ---------------------------
(***************************************************************************)
(* With a clock that leaves the run it is asked for alone (CalmSpec) the   *)
(* TypeScript sink implements the Rust sink, for every instance and        *)
(* however deep the clock's own calls are nested.                          *)
(*                                                                         *)
(* The only state of the TypeScript sink that the Rust sink lacks is the   *)
(* stack of activations that wait for their clock.  The inductive          *)
(* invariant says that what each of them read is still true, so that the   *)
(* clock's answer is the whole append_draft of the Rust sink.  An answer   *)
(* stores into the run of the innermost activation: the others keep their  *)
(* truth because a clock that stored into their run would not be calm.     *)
(***************************************************************************)
EXTENDS TsSink, SequenceTheorems, TLAPS

CalmNext == Next /\ WaitingRunsUntouched

Fresh(call) ==
    /\ call.runId \notin finished
    /\ call.seq = Rust!NextSeq(call.runId)
    /\ call.seq <= MaxSeq

Inv ==
    /\ runs \in [Runs -> Seq(Rust!Event)]
    /\ calls \in Seq(Activation)
    /\ Len(calls) <= MaxDepth
    /\ \A i \in DOMAIN calls : Fresh(calls[i])

-----------------------------------------------------------------------------
(* The innermost activation is a draft for an open run's next number.      *)
LEMMA Innermost ==
    ASSUME Inv, calls # <<>>
    PROVE  /\ Len(calls) \in DOMAIN calls
           /\ calls[Len(calls)] \in Activation
           /\ Fresh(calls[Len(calls)])
<1>1. Len(calls) \in DOMAIN calls
  BY DEF Inv
<1>2. QED
  BY <1>1 DEF Inv

(* What is left when it is popped: the activations below it.               *)
LEMMA Popped ==
    ASSUME Inv, calls # <<>>, NEW rest, rest = SubSeq(calls, 1, Len(calls) - 1)
    PROVE  /\ rest \in Seq(Activation)
           /\ Len(rest) = Len(calls) - 1
           /\ Len(rest) <= MaxDepth
           /\ \A i \in DOMAIN rest : i \in DOMAIN calls /\ rest[i] = calls[i]
<1>1. calls \in Seq(Activation) /\ Len(calls) \in Nat \ {0}
  BY DEF Inv
<1>2. /\ rest \in Seq(Activation)
      /\ Len(rest) = Len(calls) - 1
      /\ \A i \in 1..(Len(calls) - 1) : rest[i] = calls[i]
  <2> DEFINE n == Len(calls) - 1
  <2>1. n \in Nat /\ \A i \in 1..n : calls[i] \in Activation
    BY <1>1
  <2>2. rest = SubSeq(calls, 1, n)
    OBVIOUS
  <2> HIDE DEF n
  <2>3. /\ SubSeq(calls, 1, n) \in Seq(Activation)
        /\ Len(SubSeq(calls, 1, n)) = IF 1 <= n THEN n - 1 + 1 ELSE 0
        /\ \A i \in 1..(n - 1 + 1) : SubSeq(calls, 1, n)[i] = calls[1 + i - 1]
    BY <2>1, SubSeqProperties
  <2>4. /\ rest \in Seq(Activation)
        /\ Len(rest) = n
        /\ \A i \in 1..n : rest[i] = calls[i]
    BY <2>1, <2>2, <2>3
  <2>5. QED
    BY <2>4 DEF n
<1>3. \A i \in DOMAIN rest : i \in DOMAIN calls /\ rest[i] = calls[i]
  BY <1>1, <1>2
<1>4. Len(rest) <= MaxDepth
  BY <1>1, <1>2, TsSinkAssumption DEF Inv
<1>5. QED
  BY <1>2, <1>3, <1>4

(* An activation's draft, stamped with its answer, is an event a run can   *)
(* hold.                                                                   *)
LEMMA AnswerIsEvent ==
    ASSUME Inv, NEW call \in Activation, Fresh(call), NEW t \in Times
    PROVE  /\ Rust!Stamp(call.draft, call.runId, call.seq, t) \in Rust!Event
           /\ Rust!Stamp(call.draft, call.runId, call.seq, t).runId = call.runId
<1>1. call.runId \in Runs /\ runs[call.runId] \in Seq(Rust!Event)
  BY DEF Inv, Activation
<1>2. call.seq \in 1..MaxSeq
  BY <1>1, TsSinkAssumption DEF Fresh, Rust!NextSeq
<1>3. QED
  BY <1>1, <1>2 DEF Activation, Rust!Draft, Rust!Event, Rust!Stamp

(* An event that parseEvent accepts is an event of the Rust sink.          *)
LEMMA ParsedIsEvent ==
    ASSUME NEW e \in Input, Parses(e)
    PROVE  e \in Rust!Event
  BY DEF Input, Parses, Rust!Event

(* A stored event lengthens the history of its run and touches no other.   *)
LEMMA StoreLengthens ==
    ASSUME Inv, NEW e \in Rust!Event, Rust!Store(e)
    PROVE  /\ runs' \in [Runs -> Seq(Rust!Event)]
           /\ runs'[e.runId] # runs[e.runId]
           /\ \A r \in Runs : r # e.runId =>
                 runs'[r] = runs[r] /\ (r \in finished' => r \in finished)
<1>1. e.runId \in Runs /\ runs \in [Runs -> Seq(Rust!Event)]
  BY DEF Inv, Rust!Event
<1>2. runs' = [runs EXCEPT ![e.runId] = Append(@, e)]
  BY DEF Rust!Store
<1>3. /\ runs[e.runId] \in Seq(Rust!Event)
      /\ Append(runs[e.runId], e) \in Seq(Rust!Event)
      /\ Len(Append(runs[e.runId], e)) # Len(runs[e.runId])
  BY <1>1
<1>4. runs' \in [Runs -> Seq(Rust!Event)] /\ runs'[e.runId] # runs[e.runId]
  BY <1>1, <1>2, <1>3
<1>5. QED
  BY <1>1, <1>2, <1>4 DEF Rust!Store

(* An activation that still waits after a store is as true as before it:   *)
(* the clock was calm, so the store was into another run.                  *)
LEMMA StaysFresh ==
    ASSUME Inv, NEW e \in Rust!Event, Rust!Store(e), WaitingRunsUntouched,
           NEW i \in DOMAIN calls \cap DOMAIN calls', calls'[i] = calls[i]
    PROVE  Fresh(calls[i])'
<1> DEFINE r == calls[i].runId
<1>1. Fresh(calls[i]) /\ calls[i] \in Activation
  BY DEF Inv
<1>2. r \in Runs /\ runs'[r] = runs[r]
  BY <1>1 DEF WaitingRunsUntouched, Activation
<1>3. r # e.runId
  BY <1>2, StoreLengthens
<1>4. r \notin finished'
  BY <1>1, <1>2, <1>3, StoreLengthens DEF Fresh
<1>5. QED
  BY <1>1, <1>2, <1>4 DEF Fresh, Rust!NextSeq

(* An activation is untouched by what changes neither histories nor the    *)
(* set of finished runs.                                                   *)
LEMMA StoreUntouched ==
    ASSUME Inv, UNCHANGED <<runs, finished>>,
           calls' \in Seq(Activation), Len(calls') <= MaxDepth,
           \A i \in DOMAIN calls' : i \in DOMAIN calls /\ calls'[i] = calls[i]
    PROVE  Inv'
  BY DEF Inv, Fresh, Rust!NextSeq

LEMMA InitInv == Init => Inv
<1> SUFFICES ASSUME Init PROVE Inv
  OBVIOUS
<1>1. runs = [r \in Runs |-> <<>>] /\ calls = <<>>
  BY DEF Init, Rust!Init
<1>2. QED
  BY <1>1, TsSinkAssumption DEF Inv

LEMMA StepInv ==
    ASSUME Inv, [CalmNext]_vars
    PROVE  Inv'
<1>1. CASE UNCHANGED vars
  BY <1>1 DEF vars, Inv, Fresh, Rust!NextSeq
<1> SUFFICES ASSUME Next, WaitingRunsUntouched PROVE Inv'
  BY <1>1 DEF CalmNext
<1>2. ASSUME NEW r \in Runs, NEW d \in Rust!Draft, BeginDraft(r, d)
      PROVE  Inv'
  <2>1. CASE r \in finished
    <3>1. UNCHANGED <<runs, finished, calls>>
      BY <1>2, <2>1 DEF BeginDraft, Rust!Refuse
    <3>2. QED
      BY <3>1, StoreUntouched DEF Inv
  <2>2. CASE r \notin finished
    <3> DEFINE call == [runId |-> r, seq |-> Rust!NextSeq(r), draft |-> d]
    <3>1. /\ calls' = Append(calls, call)
          /\ runs' = runs /\ finished' = finished
          /\ Rust!NextSeq(r) <= MaxSeq
          /\ Len(calls) < MaxDepth
      BY <1>2, <2>2 DEF BeginDraft, MayCall
    <3>2. call \in Activation
      BY DEF Inv, Activation, Rust!NextSeq
    <3>3. /\ call.runId \notin finished'
          /\ call.seq = Len(runs'[call.runId]) + 1
          /\ call.seq <= MaxSeq
      BY <2>2, <3>1 DEF Rust!NextSeq
    <3> HIDE DEF call
    <3>4. /\ calls' \in Seq(Activation)
          /\ Len(calls') = Len(calls) + 1
          /\ \A i \in DOMAIN calls' :
                calls'[i] = call \/ (i \in DOMAIN calls /\ calls'[i] = calls[i])
      BY <3>1, <3>2 DEF Inv
    <3>5. Len(calls') <= MaxDepth
      BY <3>1, <3>4, TsSinkAssumption DEF Inv
    <3>6. \A i \in DOMAIN calls' :
             /\ calls'[i].runId \notin finished'
             /\ calls'[i].seq = Len(runs'[calls'[i].runId]) + 1
             /\ calls'[i].seq <= MaxSeq
      BY <3>1, <3>3, <3>4 DEF Inv, Fresh, Rust!NextSeq
    <3>7. QED
      BY <3>1, <3>4, <3>5, <3>6 DEF Inv, Fresh, Rust!NextSeq
  <2>3. QED
    BY <2>1, <2>2
<1>3. ASSUME NEW t \in Times, ClockAnswers(t)
      PROVE  Inv'
  <2> DEFINE call == calls[Len(calls)]
             e == Rust!Stamp(call.draft, call.runId, call.seq, t)
  <2>1. /\ calls # <<>>
        /\ calls' = SubSeq(calls, 1, Len(calls) - 1)
        /\ Rust!Store(e)
    BY <1>3 DEF ClockAnswers
  <2>2. e \in Rust!Event
    BY <2>1, Innermost, AnswerIsEvent
  <2> HIDE DEF e
  <2>3. /\ calls' \in Seq(Activation)
        /\ Len(calls') <= MaxDepth
        /\ \A i \in DOMAIN calls' : i \in DOMAIN calls /\ calls'[i] = calls[i]
    BY <2>1, Popped
  <2>4. \A i \in DOMAIN calls' : Fresh(calls[i])'
    BY <2>1, <2>2, <2>3, StaysFresh
  <2>5. QED
    BY <2>1, <2>2, <2>3, <2>4, StoreLengthens DEF Inv
<1>4. CASE ClockThrows
  <2>1. /\ calls # <<>>
        /\ calls' = SubSeq(calls, 1, Len(calls) - 1)
        /\ UNCHANGED <<runs, finished>>
    BY <1>4 DEF ClockThrows
  <2>2. QED
    BY <2>1, Popped, StoreUntouched
<1>5. ASSUME NEW e \in Input, AppendEvent(e)
      PROVE  Inv'
  <2>1. calls' = calls
    BY <1>5 DEF AppendEvent
  <2>2. CASE UNCHANGED <<runs, finished>>
    BY <2>1, <2>2, StoreUntouched DEF Inv
  <2>3. CASE Parses(e) /\ Rust!Store(e)
    <3>1. e \in Rust!Event
      BY <2>3, ParsedIsEvent
    <3>2. \A i \in DOMAIN calls' : Fresh(calls[i])'
      BY <2>1, <2>3, <3>1, StaysFresh
    <3>3. QED
      BY <2>1, <2>3, <3>1, <3>2, StoreLengthens DEF Inv
  <2>4. QED
    BY <1>5, <2>2, <2>3 DEF AppendEvent, Rust!AppendEvent, Rust!Refuse
<1>6. QED
  BY <1>2, <1>3, <1>4, <1>5 DEF Next

-----------------------------------------------------------------------------
(* Each step of the TypeScript sink is a call of the Rust sink or changes  *)
(* nothing the Rust sink has.                                              *)
LEMMA StepRefines ==
    ASSUME Inv, [CalmNext]_vars
    PROVE  [Rust!Next]_(Rust!vars)
<1> USE DEF Rust!vars
<1>1. CASE UNCHANGED vars
  BY <1>1 DEF vars
<1>2. ASSUME NEW r \in Runs, NEW d \in Rust!Draft, BeginDraft(r, d)
      PROVE  [Rust!Next]_(Rust!vars)
  <2>1. CASE r \in finished
    <3> PICK t \in Times : TRUE
      BY TsSinkAssumption
    <3>1. Rust!AppendDraft(r, d, t)
      BY <1>2, <2>1 DEF BeginDraft, Rust!AppendDraft
    <3>2. QED
      BY <3>1 DEF Rust!Next
  <2>2. CASE r \notin finished
    BY <1>2, <2>2 DEF BeginDraft
  <2>3. QED
    BY <2>1, <2>2
<1>3. ASSUME NEW t \in Times, ClockAnswers(t)
      PROVE  [Rust!Next]_(Rust!vars)
  <2> DEFINE call == calls[Len(calls)]
  <2>1. /\ calls # <<>>
        /\ Rust!Store(Rust!Stamp(call.draft, call.runId, call.seq, t))
    BY <1>3 DEF ClockAnswers
  <2>2. Fresh(call) /\ call.runId \in Runs /\ call.draft \in Rust!Draft
    BY <2>1, Innermost DEF Activation
  <2>3. Rust!AppendDraft(call.runId, call.draft, t)
    BY <2>1, <2>2 DEF Fresh, Rust!AppendDraft
  <2>4. QED
    BY <2>2, <2>3 DEF Rust!Next
<1>4. CASE ClockThrows
  BY <1>4 DEF ClockThrows
<1>5. ASSUME NEW e \in Input, AppendEvent(e)
      PROVE  [Rust!Next]_(Rust!vars)
  <2>1. CASE ~Parses(e)
    BY <1>5, <2>1 DEF AppendEvent
  <2>2. CASE Parses(e)
    <3>1. e \in Rust!Event
      BY <2>2, ParsedIsEvent
    <3>2. QED
      BY <1>5, <2>2, <3>1 DEF AppendEvent, Rust!Next
  <2>3. QED
    BY <2>1, <2>2
<1>6. QED
  BY <1>1, <1>2, <1>3, <1>4, <1>5 DEF CalmNext, Next

(* The TypeScript sink with a clock that leaves the waiting run alone      *)
(* implements the Rust sink: every call, the clock's own included, stores, *)
(* answers and refuses what the Rust sink's would.                         *)
THEOREM TsImplementsRust ==
    CalmSpec => ImplementsRustSink
<1>1. Init => Rust!Init
  BY DEF Init
<1>2. Inv /\ [CalmNext]_vars => Inv'
  BY StepInv
<1>3. Inv /\ [CalmNext]_vars => [Rust!Next]_(Rust!vars)
  BY StepRefines
<1>4. QED
  BY <1>1, <1>2, <1>3, InitInv, PTL DEF CalmSpec, CalmNext, ImplementsRustSink, Rust!Spec

(* What an activation read before it called the clock still holds when the *)
(* clock answers.                                                          *)
THEOREM ActivationsStayFresh ==
    CalmSpec => []ActivationIsFresh
<1>1. Inv => ActivationIsFresh
  BY DEF Inv, Fresh, ActivationIsFresh
<1>2. Inv /\ [CalmNext]_vars => Inv'
  BY StepInv
<1>3. QED
  BY <1>1, <1>2, InitInv, PTL DEF CalmSpec, CalmNext

(***************************************************************************)
(* What is proved of the Rust sink is therefore true of this one.          *)
(***************************************************************************)
RustSink == INSTANCE SinkProofs

LEMMA SpecIsRustSink ==
    CalmSpec => RustSink!Spec
<1>1. Rust!Init => RustSink!Init
  BY DEF Rust!Init, RustSink!Init, Rust!NoReply, RustSink!NoReply
<1>2. [Rust!Next]_(Rust!vars) => [RustSink!Next]_(RustSink!vars)
  <2>1. \A r, d, t : Rust!AppendDraft(r, d, t) => RustSink!AppendDraft(r, d, t)
    BY DEF Rust!AppendDraft, RustSink!AppendDraft,
           Rust!Store, RustSink!Store, Rust!Refuse, RustSink!Refuse,
           Rust!Stamp, RustSink!Stamp, Rust!Stored, RustSink!Stored,
           Rust!NextSeq, RustSink!NextSeq,
           Rust!IsTerminal, RustSink!IsTerminal,
           Rust!RunClosedError, RustSink!RunClosedError
  <2>2. \A e : Rust!AppendEvent(e) => RustSink!AppendEvent(e)
    BY DEF Rust!AppendEvent, RustSink!AppendEvent,
           Rust!Store, RustSink!Store, Rust!Refuse, RustSink!Refuse,
           Rust!Stored, RustSink!Stored, Rust!NextSeq, RustSink!NextSeq,
           Rust!IsTerminal, RustSink!IsTerminal,
           Rust!RunClosedError, RustSink!RunClosedError,
           Rust!SequenceError, RustSink!SequenceError
  <2>3. QED
    BY <2>1, <2>2 DEF Rust!Next, RustSink!Next, Rust!vars, RustSink!vars,
           Rust!Draft, RustSink!Draft, Rust!Event, RustSink!Event
<1>3. QED
  BY <1>1, <1>2, TsImplementsRust, PTL
     DEF ImplementsRustSink, Rust!Spec, RustSink!Spec

LEMMA RustSinkAssumed == RustSink!SinkAssumption
  BY TsSinkAssumption DEF RustSink!SinkAssumption

(* A run of the TypeScript sink has at most one terminal event, its last.  *)
THEOREM TsRunsCloseOnce ==
    CalmSpec => []TerminalIsLast
<1>1. RustSink!Spec => []RustSink!ClosedByLastEvent
  BY RustSinkAssumed, RustSink!RunsCloseOnce
<1>2. RustSink!ClosedByLastEvent => TerminalIsLast
  BY DEF RustSink!ClosedByLastEvent, TerminalIsLast,
         Rust!IsTerminal, RustSink!IsTerminal
<1>3. QED
  BY <1>1, <1>2, SpecIsRustSink, PTL

-----------------------------------------------------------------------------
(* What the sink has beyond the Rust sink keeps its type as well.          *)
ThrownOK == thrown \in {"none", "clock", "type_error"}

LEMMA StepThrown ==
    ASSUME ThrownOK, [CalmNext]_vars
    PROVE  ThrownOK'
  BY DEF ThrownOK, CalmNext, Next, vars, BeginDraft, ClockAnswers, ClockThrows, AppendEvent

(* The state of the TypeScript sink keeps its type.                        *)
THEOREM TsTypeCorrect ==
    CalmSpec => []TypeOK
<1>1. RustSink!Spec => []RustSink!TypeOK
  BY RustSinkAssumed, RustSink!TypeCorrect
<1>2. RustSink!TypeOK => Rust!TypeOK
  BY DEF RustSink!TypeOK, Rust!TypeOK, RustSink!Event, Rust!Event,
         RustSink!Reply, Rust!Reply, RustSink!NoReply, Rust!NoReply
<1>3. Rust!TypeOK /\ Inv /\ ThrownOK => TypeOK
  BY DEF TypeOK, Inv, ThrownOK
<1>4. Init => ThrownOK
  BY DEF Init, ThrownOK
<1>5. Inv /\ [CalmNext]_vars => Inv'
  BY StepInv
<1>6. QED
  BY <1>1, <1>2, <1>3, <1>4, <1>5, InitInv, StepThrown, SpecIsRustSink, PTL
     DEF CalmSpec, CalmNext

-----------------------------------------------------------------------------
(* When there is no room for a call inside a call, a step has no waiting   *)
(* activation to disturb.                                                  *)
LEMMA StepIsCalm ==
    ASSUME MaxDepth = 1, Inv, Next
    PROVE  WaitingRunsUntouched
<1> SUFFICES DOMAIN calls \cap DOMAIN calls' = {}
  BY DEF WaitingRunsUntouched
<1>1. calls \in Seq(Activation) /\ Len(calls) \in Nat /\ Len(calls) <= 1
  <2>1. calls \in Seq(Activation) /\ Len(calls) <= 1
    BY DEF Inv
  <2>2. Len(calls) \in Nat
    BY <2>1, LenProperties
  <2>3. QED
    BY <2>1, <2>2
<1>2. CASE MayCall
  BY <1>1, <1>2 DEF MayCall
<1>3. CASE calls # <<>> /\ calls' = SubSeq(calls, 1, Len(calls) - 1)
  BY <1>1, <1>3
<1>4. QED
  BY <1>2, <1>3 DEF Next, BeginDraft, ClockAnswers, ClockThrows, AppendEvent

(* A clock that never calls the sink, which is what MaxDepth = 1 leaves,   *)
(* is calm: everything above holds of it without a condition.              *)
THEOREM SilentClockIsCalm ==
    ASSUME MaxDepth = 1
    PROVE  Spec => CalmSpec
<1>1. Inv /\ [Next]_vars => [CalmNext]_vars
  BY StepIsCalm DEF CalmNext
<1>2. Inv /\ [CalmNext]_vars => Inv'
  BY StepInv
<1>3. QED
  BY <1>1, <1>2, InitInv, PTL DEF Spec, CalmSpec, CalmNext
=============================================================================
