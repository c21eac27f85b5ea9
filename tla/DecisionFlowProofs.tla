------------------------- MODULE DecisionFlowProofs -------------------------
(***************************************************************************)
(* That every recorded answer stands, for any runs, requests and number of *)
(* answers.  A call of the sink adds at most one payload to one run (lemma *)
(* DraftIsStored); from there on only the sets of recorded requests and    *)
(* answers matter.  The inductive invariant says of an answer, recorded or *)
(* still held, what the properties say of a recorded one: the step that    *)
(* records an answer knows nothing of the moment it was made up.           *)
(***************************************************************************)
EXTENDS DecisionFlow, SequenceTheorems, TLAPS

\* A recorded payload is of the kind its type promises.
PayloadsFit ==
    /\ \A r \in Runs : RequestsOf(r) \subseteq Requests
    /\ StoredAnswers \subseteq Answers

\* An id names one request of its run; a producer that knows the rules keeps them.
RequestsAreSound ==
    \A r \in Runs : \A p, q \in RequestsOf(r) :
        /\ p.decisionId = q.decisionId => p = q
        /\ r \notin Legacy => ValidateRequest(p)

UndoesOneOf(a) ==
    \E b \in StoredAnswers :
        /\ b.decisionId = a.decisionId
        /\ b.requestedRunId = a.requestedRunId
        /\ a.optionId \in b.reversal

Stands(a) ==
    \E r \in RunsNamedBy(a) : \E q \in RequestsOf(r) :
        /\ q.decisionId = a.decisionId
        /\ AnswersRequest(q, a) \/ UndoesOneOf(a)
        /\ a.byTimeout => a.optionId \in q.onTimeout

AnswersStand ==
    /\ \A a \in StoredAnswers : Stands(a)
    /\ \A h \in Runs : \A a \in held[h] : Stands(a)

IInv == TypeOK /\ PayloadsFit /\ RequestsAreSound /\ AnswersStand
-----------------------------------------------------------------------------
(* A draft is stored at the end of its run or refused because that run is  *)
(* closed; nothing else changes.                                           *)
LEMMA DraftIsStored ==
    ASSUME Log!TypeOK, NEW r \in Runs, NEW draft \in Log!Draft, NEW t \in Times,
           Log!AppendDraft(r, draft, t)
    PROVE  /\ Log!TypeOK'
           /\ \/ r \in finished /\ runs' = runs
              \/ \E e \in Log!Event :
                    /\ e.type = draft.type /\ e.payload = draft.payload
                    /\ runs' = [runs EXCEPT ![r] = Append(@, e)]
<1> DEFINE e == Log!Stamp(draft, r, Log!NextSeq(r), t)
<1>1. CASE r \in finished /\ Log!Refuse(Log!RunClosedError(r))
  BY <1>1 DEF Log!TypeOK, Log!Refuse, Log!Reply, Log!RunClosedError
<1>2. CASE r \notin finished /\ Log!NextSeq(r) <= MaxSeq /\ Log!Store(e)
  <2>1. runs[r] \in Seq(Log!Event)
    BY DEF Log!TypeOK
  <2>2. Len(runs[r]) \in Nat
    BY <2>1
  <2>3. Log!NextSeq(r) \in 1..MaxSeq
    BY <1>2, <2>2, DecisionAssumption DEF Log!NextSeq
  <2>4. /\ e \in Log!Event /\ e.runId = r
        /\ e.type = draft.type /\ e.payload = draft.payload
    BY <2>3 DEF Log!Stamp, Log!Event, Log!Draft
  <2> HIDE DEF e
  <2>5. runs' = [runs EXCEPT ![r] = Append(@, e)]
    BY <1>2, <2>4 DEF Log!Store
  <2>6. Append(runs[r], e) \in Seq(Log!Event)
    BY <2>1, <2>4
  <2>7. runs' \in [Runs -> Seq(Log!Event)]
    BY <2>5, <2>6 DEF Log!TypeOK
  <2>8. finished' \subseteq Runs /\ reply' \in Log!Reply
    BY <1>2, <2>4 DEF Log!Store, Log!TypeOK, Log!Stored, Log!Reply
  <2> QED  BY <2>4, <2>5, <2>7, <2>8 DEF Log!TypeOK
<1> QED  BY <1>1, <1>2 DEF Log!AppendDraft

(* What an append adds to the payloads of a type.                          *)
LEMMA StoredGrows ==
    ASSUME Log!TypeOK, NEW r \in Runs, NEW e \in Log!Event,
           runs' = [runs EXCEPT ![r] = Append(@, e)],
           NEW s \in Runs
    PROVE  /\ StoredIn(s, DecisionRequested)' =
                StoredIn(s, DecisionRequested)
                  \cup IF s = r /\ DecisionRequested = e.type THEN {e.payload} ELSE {}
           /\ StoredIn(s, DecisionAnswered)' =
                StoredIn(s, DecisionAnswered)
                  \cup IF s = r /\ DecisionAnswered = e.type THEN {e.payload} ELSE {}
<1>1. runs[r] \in Seq(Log!Event) /\ runs \in [Runs -> Seq(Log!Event)]
  BY DEF Log!TypeOK
<1>2. CASE s # r
  BY <1>1, <1>2 DEF StoredIn
<1>3. CASE s = r
  <2> DEFINE n == Len(runs[r])
  <2>1. n \in Nat /\ DOMAIN runs[r] = 1..n
    BY <1>1
  <2>2. runs'[s] = Append(runs[r], e)
    BY <1>1, <1>3
  <2>3. DOMAIN runs'[s] = 1..(n + 1) /\ runs'[s][n + 1] = e
    BY <1>1, <2>2
  <2>4. \A i \in 1..n : runs'[s][i] = runs[s][i]
    BY <1>1, <1>3, <2>2
  <2> HIDE DEF n
  <2>5. 1..(n + 1) = 1..n \cup {n + 1}
    BY <2>1
  <2> QED
    BY <1>3, <2>1, <2>3, <2>4, <2>5 DEF StoredIn
<1> QED  BY <1>2, <1>3

LEMMA StoredStays ==
    ASSUME runs' = runs, NEW s \in Runs, NEW type
    PROVE  StoredIn(s, type)' = StoredIn(s, type)
  BY DEF StoredIn
-----------------------------------------------------------------------------
(* Recorded requests stay, and none is added to what an answer names.      *)
LEMMA StandingStays ==
    ASSUME \A s \in Runs : RequestsOf(s) \subseteq RequestsOf(s)',
           StoredAnswers \subseteq StoredAnswers',
           NEW a, Stands(a)
    PROVE  Stands(a)'
<1> PICK r \in RunsNamedBy(a) : \E q \in RequestsOf(r) :
          /\ q.decisionId = a.decisionId
          /\ AnswersRequest(q, a) \/ UndoesOneOf(a)
          /\ a.byTimeout => a.optionId \in q.onTimeout
  BY DEF Stands
<1>1. PICK q \in RequestsOf(r) :
          /\ q.decisionId = a.decisionId
          /\ AnswersRequest(q, a) \/ UndoesOneOf(a)
          /\ a.byTimeout => a.optionId \in q.onTimeout
  OBVIOUS
<1>2. q \in RequestsOf(r)'
  BY DEF RunsNamedBy
<1>3. UndoesOneOf(a) => UndoesOneOf(a)'
  BY DEF UndoesOneOf
<1>4. AnswersRequest(q, a) => AnswersRequest(q, a)'
  BY DEF AnswersRequest
<1> QED  BY <1>1, <1>2, <1>3, <1>4 DEF Stands
-----------------------------------------------------------------------------
(***************************************************************************)
(* One lemma per kind of step.                                             *)
(***************************************************************************)
LEMMA InitIInv == Init => IInv
<1> SUFFICES ASSUME Init PROVE IInv
  OBVIOUS
<1>1. \A r \in Runs : \A type : StoredIn(r, type) = {}
  BY DEF Init, Log!Init, StoredIn
<1>2. StoredAnswers = {} /\ \A r \in Runs : RequestsOf(r) = {}
  BY <1>1 DEF StoredAnswers, RequestsOf
<1>3. TypeOK
  BY DEF Init, Log!Init, TypeOK, Log!TypeOK, Log!Reply
<1> QED
  BY <1>2, <1>3 DEF Init, IInv, PayloadsFit, RequestsAreSound, AnswersStand

(* The record stays as it is and an answer that stands is taken up.        *)
LEMMA HoldStep ==
    ASSUME IInv, NEW h \in Runs, NEW a \in Answers, Stands(a), Hold(h, a)
    PROVE  IInv'
<1>1. runs' = runs /\ finished' = finished /\ reply' = reply
  BY DEF Hold, sinkVars
<1>2. held' = [held EXCEPT ![h] = {a}]
  BY DEF Hold
<1>3. \A r \in Runs : \A type : StoredIn(r, type)' = StoredIn(r, type)
  BY <1>1 DEF StoredIn
<1>4. StoredAnswers' = StoredAnswers /\ \A r \in Runs : RequestsOf(r)' = RequestsOf(r)
  BY <1>3 DEF StoredAnswers, RequestsOf
<1>5. TypeOK'
  <2>1. Log!TypeOK'
    BY <1>1 DEF IInv, TypeOK, Log!TypeOK
  <2>2. held' \in [Runs -> {{}} \cup {{b} : b \in Answers}]
    BY <1>2 DEF IInv, TypeOK
  <2> QED  BY <2>1, <2>2 DEF TypeOK
<1>6. PayloadsFit' /\ RequestsAreSound'
  BY <1>4 DEF IInv, PayloadsFit, RequestsAreSound
<1>7. ASSUME NEW b \in Answers, Stands(b) PROVE Stands(b)'
  BY <1>4, <1>7, StandingStays
<1>8. \A b \in StoredAnswers' : Stands(b)'
  BY <1>4, <1>7 DEF IInv, AnswersStand, PayloadsFit
<1>9. \A g \in Runs : \A b \in held'[g] : Stands(b)'
  <2> SUFFICES ASSUME NEW g \in Runs, NEW b \in held'[g] PROVE Stands(b)'
    OBVIOUS
  <2>1. b = a \/ b \in held[g]
    BY <1>2 DEF IInv, TypeOK
  <2>2. b \in held[g] => b \in Answers /\ Stands(b)
    BY DEF IInv, TypeOK, AnswersStand
  <2> QED  BY <1>7, <2>1, <2>2
<1> QED  BY <1>5, <1>6, <1>8, <1>9 DEF IInv, AnswersStand

(* The record changes by a draft and what is held becomes less or nothing. *)
LEMMA KeptByDraft ==
    ASSUME IInv, NEW r \in Runs, NEW draft \in Log!Draft, NEW t \in Times,
           Log!AppendDraft(r, draft, t),
           held' \in [Runs -> {{}} \cup {{b} : b \in Answers}],
           \A g \in Runs : held'[g] \subseteq held[g],
           draft.type = DecisionRequested =>
              /\ draft.payload \in Requests
              /\ r \notin Legacy => ValidateRequest(draft.payload)
              /\ \A p \in RequestsOf(r) :
                    p.decisionId # draft.payload.decisionId,
           draft.type = DecisionAnswered =>
              draft.payload \in Answers /\ Stands(draft.payload)
    PROVE  IInv'
<1> USE DecisionAssumption
<1>0. Log!TypeOK
  BY DEF IInv, TypeOK
<1>1. TypeOK'
  BY <1>0, DraftIsStored DEF TypeOK
<1>2. ASSUME NEW s \in Runs
      PROVE
         /\ RequestsOf(s) \subseteq RequestsOf(s)'
         /\ RequestsOf(s)' \subseteq RequestsOf(s) \cup
               IF s = r /\ draft.type = DecisionRequested THEN {draft.payload} ELSE {}
         /\ StoredIn(s, DecisionAnswered) \subseteq StoredIn(s, DecisionAnswered)'
         /\ StoredIn(s, DecisionAnswered)' \subseteq StoredIn(s, DecisionAnswered) \cup
               IF draft.type = DecisionAnswered THEN {draft.payload} ELSE {}
  <2>1. CASE runs' = runs
    BY <2>1, StoredStays DEF RequestsOf
  <2>2. CASE \E e \in Log!Event :
                /\ e.type = draft.type /\ e.payload = draft.payload
                /\ runs' = [runs EXCEPT ![r] = Append(@, e)]
    <3> PICK e \in Log!Event :
           /\ e.type = draft.type /\ e.payload = draft.payload
           /\ runs' = [runs EXCEPT ![r] = Append(@, e)]
      BY <2>2
    <3>1. StoredIn(s, DecisionRequested)' = StoredIn(s, DecisionRequested)
             \cup IF s = r /\ DecisionRequested = e.type THEN {e.payload} ELSE {}
      BY <1>0, StoredGrows
    <3>2. StoredIn(s, DecisionAnswered)' = StoredIn(s, DecisionAnswered)
             \cup IF s = r /\ DecisionAnswered = e.type THEN {e.payload} ELSE {}
      BY <1>0, StoredGrows
    <3> QED  BY <3>1, <3>2 DEF RequestsOf
  <2> QED  BY <1>0, <2>1, <2>2, DraftIsStored
<1>3. /\ StoredAnswers \subseteq StoredAnswers'
      /\ StoredAnswers' \subseteq StoredAnswers \cup
            IF draft.type = DecisionAnswered THEN {draft.payload} ELSE {}
  BY <1>2 DEF StoredAnswers
<1>4. PayloadsFit'
  BY <1>2, <1>3 DEF IInv, PayloadsFit
<1>5. RequestsAreSound'
  <2> SUFFICES ASSUME NEW s \in Runs,
                      NEW p \in RequestsOf(s)', NEW q \in RequestsOf(s)'
               PROVE  /\ p.decisionId = q.decisionId => p = q
                      /\ s \notin Legacy => ValidateRequest(p)
    BY DEF RequestsAreSound, ValidateRequest
  <2> QED  BY <1>2 DEF IInv, RequestsAreSound
<1>6. ASSUME NEW b \in Answers, Stands(b) PROVE Stands(b)'
  BY <1>2, <1>3, <1>6, StandingStays
<1>7. \A b \in StoredAnswers' : Stands(b)'
  BY <1>3, <1>6 DEF IInv, AnswersStand, PayloadsFit
<1>8. \A g \in Runs : \A b \in held'[g] : Stands(b)'
  BY <1>6 DEF IInv, AnswersStand
<1> QED  BY <1>1, <1>4, <1>5, <1>7, <1>8 DEF IInv, AnswersStand
-----------------------------------------------------------------------------
(***************************************************************************)
(* Every answer that is made up stands.                                    *)
(***************************************************************************)
LEMMA AnswerToARequestStands ==
    ASSUME NEW r \in Runs, NEW q \in RequestsOf(r), NEW named \in {{}, {r}},
           NEW o, NEW byTimeout \in BOOLEAN, NEW v,
           IF byTimeout THEN o \in q.onTimeout ELSE o \in q.options
    PROVE  Stands(Answer(named, q, o, byTimeout, v))
<1> DEFINE a == Answer(named, q, o, byTimeout, v)
<1>1. /\ a.decisionId = q.decisionId /\ a.optionId = o
      /\ a.byTimeout = byTimeout /\ a.requestedRunId = named
  BY DEF Answer
<1> HIDE DEF a
<1>2. r \in RunsNamedBy(a)
  BY <1>1 DEF RunsNamedBy
<1>3. AnswersRequest(q, a)
  BY <1>1 DEF AnswersRequest
<1>4. Stands(a)
  BY <1>1, <1>2, <1>3 DEF Stands
<1> QED  BY <1>4 DEF a

LEMMA AnswerIsTyped ==
    ASSUME IInv, NEW r \in Runs, NEW q \in RequestsOf(r), NEW named \in {{}, {r}},
           NEW o \in q.options \cup q.onTimeout, NEW byTimeout \in BOOLEAN,
           NEW v \in Reversals
    PROVE  Answer(named, q, o, byTimeout, v) \in Answers
<1>1. q \in Requests
  BY DEF IInv, PayloadsFit
<1>2. o \in OptionIds /\ q.decisionId \in DecisionIds
  BY <1>1 DEF OptionIds, DecisionIds
<1>3. v \in {{}} \cup {{x} : x \in OptionIds}
  BY DEF Reversals, OptionIds
<1>4. named \in {{}} \cup {{x} : x \in Runs}
  OBVIOUS
<1> QED  BY <1>2, <1>3, <1>4 DEF Answer, Answers

LEMMA UndoStands ==
    ASSUME IInv, NEW b \in StoredAnswers, NEW o \in b.reversal
    PROVE  LET a == [b EXCEPT !.optionId = o, !.byTimeout = FALSE,
                              !.reversal = {b.optionId}]
           IN  a \in Answers /\ Stands(a)
<1> DEFINE a == [b EXCEPT !.optionId = o, !.byTimeout = FALSE,
                          !.reversal = {b.optionId}]
<1>1. b \in Answers /\ Stands(b)
  BY DEF IInv, PayloadsFit, AnswersStand
<1>2. o \in OptionIds /\ b.optionId \in OptionIds
  BY <1>1 DEF Answers
<1>3. a \in Answers
  BY <1>1, <1>2 DEF Answers
<1>4. /\ a.decisionId = b.decisionId /\ a.requestedRunId = b.requestedRunId
      /\ a.optionId = o /\ a.byTimeout = FALSE
  BY <1>1 DEF Answers
<1> HIDE DEF a
<1>5. UndoesOneOf(a)
  BY <1>4 DEF UndoesOneOf
<1>6. Stands(a)
  BY <1>1, <1>4, <1>5 DEF Stands, RunsNamedBy
<1> QED  BY <1>3, <1>6 DEF a

LEMMA DraftsAreDrafts ==
    /\ \A q \in Requests :
          [type |-> DecisionRequested, payload |-> q] \in Log!Draft
    /\ \A a \in Answers :
          [type |-> DecisionAnswered, payload |-> a] \in Log!Draft
    /\ [type |-> RunFinished, payload |-> Finish] \in Log!Draft
  BY DEF Log!Draft

LEMMA StepIInv == IInv /\ [Next]_vars => IInv'
<1> SUFFICES ASSUME IInv, [Next]_vars PROVE IInv'
  OBVIOUS
<1> USE DecisionAssumption
<1>0. /\ held \in [Runs -> {{}} \cup {{b} : b \in Answers}]
      /\ \A g \in Runs : held[g] \subseteq Answers
      /\ \A h \in Runs : [held EXCEPT ![h] = {}] \in [Runs -> {{}} \cup {{b} : b \in Answers}]
      /\ \A g, h \in Runs : [held EXCEPT ![h] = {}][g] \subseteq held[g]
  BY DEF IInv, TypeOK
<1>1. ASSUME NEW r \in Runs, NEW q \in Requests, NEW t \in Times, Ask(r, q, t)
      PROVE  IInv'
  <2> DEFINE draft == [type |-> DecisionRequested, payload |-> q]
  <2>1. draft \in Log!Draft /\ draft.type = DecisionRequested /\ draft.payload = q
    BY DraftsAreDrafts
  <2>2. Log!AppendDraft(r, draft, t) /\ held' = held
    BY <1>1 DEF Ask
  <2>3. /\ r \notin Legacy => ValidateRequest(q)
        /\ \A p \in RequestsOf(r) : p.decisionId # q.decisionId
    BY <1>1 DEF Ask
  <2> HIDE DEF draft
  <2> QED  BY <1>0, <2>1, <2>2, <2>3, KeptByDraft
<1>2. ASSUME NEW h \in Runs, NEW r \in Runs, Decide(h, r)
      PROVE  IInv'
  <2> PICK q \in RequestsOf(r), named \in {{}, {r}} :
         \E o \in q.options, v \in Reversals :
            Hold(h, Answer(named, q, o, FALSE, v))
    BY <1>2 DEF Decide
  <2> PICK o \in q.options, v \in Reversals :
         Hold(h, Answer(named, q, o, FALSE, v))
    OBVIOUS
  <2>1. Answer(named, q, o, FALSE, v) \in Answers
    BY AnswerIsTyped
  <2>2. Stands(Answer(named, q, o, FALSE, v))
    BY AnswerToARequestStands
  <2> QED  BY <2>1, <2>2, HoldStep
<1>3. ASSUME NEW h \in Runs, NEW r \in Runs, Expire(h, r)
      PROVE  IInv'
  <2> PICK q \in RequestsOf(r), named \in {{}, {r}} : \E o \in q.onTimeout :
         Hold(h, Answer(named, q, o, TRUE, {}))
    BY <1>3 DEF Expire
  <2> PICK o \in q.onTimeout : Hold(h, Answer(named, q, o, TRUE, {}))
    OBVIOUS
  <2>1. {} \in Reversals
    BY DEF Reversals
  <2>2. Answer(named, q, o, TRUE, {}) \in Answers
    BY <2>1, AnswerIsTyped
  <2>3. Stands(Answer(named, q, o, TRUE, {}))
    BY AnswerToARequestStands
  <2> QED  BY <2>2, <2>3, HoldStep
<1>4. ASSUME NEW h \in Runs, Undo(h)
      PROVE  IInv'
  <2> PICK b \in StoredAnswers : \E o \in b.reversal :
         Hold(h, [b EXCEPT !.optionId = o, !.byTimeout = FALSE,
                           !.reversal = {b.optionId}])
    BY <1>4 DEF Undo
  <2> PICK o \in b.reversal :
         Hold(h, [b EXCEPT !.optionId = o, !.byTimeout = FALSE,
                           !.reversal = {b.optionId}])
    OBVIOUS
  <2> QED  BY UndoStands, HoldStep
<1>5. ASSUME NEW h \in Runs, NEW t \in Times, Apply(h, t)
      PROVE  IInv'
  <2> PICK a \in held[h] :
         Log!AppendDraft(h, [type |-> DecisionAnswered, payload |-> a], t)
    BY <1>5 DEF Apply
  <2> DEFINE draft == [type |-> DecisionAnswered, payload |-> a]
  <2>1. a \in Answers /\ Stands(a)
    BY <1>0 DEF IInv, AnswersStand
  <2>2. draft \in Log!Draft /\ draft.type = DecisionAnswered /\ draft.payload = a
    BY <2>1, DraftsAreDrafts
  <2>3. Log!AppendDraft(h, draft, t) /\ held' = [held EXCEPT ![h] = {}]
    BY <1>5 DEF Apply
  <2> HIDE DEF draft
  <2> QED  BY <1>0, <2>1, <2>2, <2>3, KeptByDraft
<1>6. ASSUME NEW h \in Runs, NEW t \in Times, FinishRun(h, t)
      PROVE  IInv'
  <2> DEFINE draft == [type |-> RunFinished, payload |-> Finish]
  <2>1. draft \in Log!Draft /\ draft.type = RunFinished
    BY DraftsAreDrafts
  <2>2. Log!AppendDraft(h, draft, t) /\ held' = held
    BY <1>6 DEF FinishRun
  <2> HIDE DEF draft
  <2> QED  BY <1>0, <2>1, <2>2, KeptByDraft
<1>7. ASSUME sinkVars' = sinkVars,
             held' = held \/ \E h \in Runs : held' = [held EXCEPT ![h] = {}]
      PROVE  IInv'
  <2>1. runs' = runs /\ finished' = finished /\ reply' = reply
    BY <1>7 DEF sinkVars
  <2>2. \A r \in Runs : \A type : StoredIn(r, type)' = StoredIn(r, type)
    BY <2>1 DEF StoredIn
  <2>3. StoredAnswers' = StoredAnswers /\ \A r \in Runs : RequestsOf(r)' = RequestsOf(r)
    BY <2>2 DEF StoredAnswers, RequestsOf
  <2>4. TypeOK'
    BY <1>0, <1>7, <2>1 DEF IInv, TypeOK, Log!TypeOK
  <2>5. PayloadsFit' /\ RequestsAreSound'
    BY <2>3 DEF IInv, PayloadsFit, RequestsAreSound
  <2>6. ASSUME NEW b \in Answers, Stands(b) PROVE Stands(b)'
    BY <2>3, <2>6, StandingStays
  <2>7. \A g \in Runs : held'[g] \subseteq held[g]
    BY <1>0, <1>7
  <2>8. AnswersStand'
    BY <1>0, <2>3, <2>6, <2>7 DEF IInv, AnswersStand, PayloadsFit
  <2> QED  BY <2>4, <2>5, <2>8 DEF IInv
<1>8. ASSUME NEW h \in Runs, Stop(h) PROVE IInv'
  BY <1>7, <1>8 DEF Stop
<1>9. CASE UNCHANGED vars
  BY <1>7, <1>9 DEF vars, sinkVars
<1> QED
  BY <1>1, <1>2, <1>3, <1>4, <1>5, <1>6, <1>8, <1>9 DEF Next

LEMMA IInvHolds == Spec => []IInv
  BY InitIInv, StepIInv, PTL DEF Spec
-----------------------------------------------------------------------------
(* The sink's state, and what the invocations hold, have their type.       *)
THEOREM DecisionsAreTyped == Spec => []TypeOK
  BY IInvHolds, PTL DEF IInv

(* What the pair check refuses is an undo, whoever asked and whoever did   *)
(* not validate.                                                           *)
THEOREM RefusedAnswersAreUndos == Spec => []RefusedAnswerIsAnUndo
<1>1. IInv => RefusedAnswerIsAnUndo
  <2> SUFFICES ASSUME IInv, NEW a \in StoredAnswers, ~UndoesOneOf(a)
               PROVE  LET admitting ==
                            {q \in RequestsNamedBy(a) : AnswersRequest(q, a)}
                      IN  /\ admitting # {}
                          /\ \/ a.requestedRunId = {}
                             \/ admitting = RequestsNamedBy(a)
    BY DEF RefusedAnswerIsAnUndo, UndoesOneOf
  <2> PICK r \in RunsNamedBy(a) : \E p \in RequestsOf(r) :
           p.decisionId = a.decisionId /\ AnswersRequest(p, a)
    BY DEF IInv, AnswersStand, Stands
  <2>1. PICK p \in RequestsOf(r) :
           p.decisionId = a.decisionId /\ AnswersRequest(p, a)
    OBVIOUS
  <2>2. p \in RequestsNamedBy(a)
    BY <2>1 DEF RequestsNamedBy
  <2>3. ASSUME a.requestedRunId # {}, NEW q \in RequestsNamedBy(a)
        PROVE  AnswersRequest(q, a)
    <3>1. RunsNamedBy(a) = {r} /\ r \in Runs
      BY <2>3 DEF RunsNamedBy, IInv, PayloadsFit, Answers
    <3>2. q \in RequestsOf(r) /\ q.decisionId = a.decisionId
      BY <3>1 DEF RequestsNamedBy
    <3>3. p = q
      BY <2>1, <3>1, <3>2 DEF IInv, RequestsAreSound
    <3> QED  BY <2>1, <3>3
  <2> QED  BY <2>1, <2>2, <2>3
<1> QED  BY <1>1, IInvHolds, PTL

(* A tripwire never proceeds because nobody answered.                      *)
THEOREM NobodyOnlyDenies == Spec => []NobodyDecidingOnlyDenies
<1>1. IInv => NobodyDecidingOnlyDenies
  <2> SUFFICES ASSUME IInv, NEW a \in StoredAnswers, a.byTimeout
               PROVE  \E r \in RunsNamedBy(a) : \E q \in RequestsOf(r) :
                         /\ q.decisionId = a.decisionId
                         /\ a.optionId \in q.onTimeout
                         /\ \/ r \in Legacy
                            \/ /\ q.kind = Permission /\ a.optionId = Deny
                               /\ Deny \in q.options
    BY DEF NobodyDecidingOnlyDenies
  <2> PICK r \in RunsNamedBy(a) : \E q \in RequestsOf(r) :
           q.decisionId = a.decisionId /\ a.optionId \in q.onTimeout
    BY DEF IInv, AnswersStand, Stands
  <2>1. PICK q \in RequestsOf(r) :
           q.decisionId = a.decisionId /\ a.optionId \in q.onTimeout
    OBVIOUS
  <2>2. r \in Runs
    BY DEF RunsNamedBy
  <2>3. r \notin Legacy => ValidateRequest(q)
    BY <2>1, <2>2 DEF IInv, RequestsAreSound
  <2> QED  BY <2>1, <2>3 DEF ValidateRequest
<1> QED  BY <1>1, IInvHolds, PTL

(* Who asked may be long gone: an answer is refused only by its own run.   *)
THEOREM LateAnswersAreRecorded == Spec => LateAnswerIsRecorded
<1>1. ASSUME IInv, [Next]_vars, NEW h \in Runs,
             held[h] # {}, held'[h] = {}, reply' # reply
      PROVE  h \in finished \/ held[h] \subseteq StoredIn(h, DecisionAnswered)'
  <2>0. Log!TypeOK /\ held \in [Runs -> {{}} \cup {{b} : b \in Answers}]
    BY <1>1 DEF IInv, TypeOK
  <2>1. PICK g \in Runs, t \in Times : Apply(g, t)
    BY <1>1 DEF Next, Ask, Decide, Expire, Undo, Hold, Stop, FinishRun, vars, sinkVars
  <2>2. g = h
    BY <1>1, <2>0, <2>1 DEF Apply
  <2>3. PICK a \in held[h] :
           Log!AppendDraft(h, [type |-> DecisionAnswered, payload |-> a], t)
    BY <2>1, <2>2 DEF Apply
  <2>4. held[h] = {a} /\ a \in Answers
    BY <2>0, <2>3
  <2> DEFINE draft == [type |-> DecisionAnswered, payload |-> a]
  <2>5. draft \in Log!Draft /\ draft.type = DecisionAnswered /\ draft.payload = a
    BY <2>4, DraftsAreDrafts
  <2>6. Log!AppendDraft(h, draft, t)
    BY <2>3
  <2> HIDE DEF draft
  <2>7. ASSUME NEW e \in Log!Event, e.type = draft.type, e.payload = draft.payload,
               runs' = [runs EXCEPT ![h] = Append(@, e)]
        PROVE  a \in StoredIn(h, DecisionAnswered)'
    <3>1. StoredIn(h, DecisionAnswered)' = StoredIn(h, DecisionAnswered)
             \cup IF h = h /\ DecisionAnswered = e.type THEN {e.payload} ELSE {}
      BY <2>0, <2>7, StoredGrows
    <3> QED  BY <2>5, <2>7, <3>1
  <2> QED
    BY <2>0, <2>4, <2>5, <2>6, <2>7, DraftIsStored
<1>2. IInv /\ [Next]_vars =>
         [\A h \in Runs :
            held[h] # {} /\ held'[h] = {} /\ reply' # reply =>
               h \in finished \/ held[h] \subseteq StoredIn(h, DecisionAnswered)']_vars
  BY <1>1
<1> QED  BY <1>2, IInvHolds, PTL DEF Spec, LateAnswerIsRecorded
=============================================================================
