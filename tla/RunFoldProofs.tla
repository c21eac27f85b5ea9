--------------------------- MODULE RunFoldProofs ---------------------------
(***************************************************************************)
(* What foldRun computes of a sequence, for sequences of every length.     *)
(*                                                                         *)
(* First FoldRun is the last of the results its loop goes through; then    *)
(* an induction over the loop relates each of them to the events read so   *)
(* far.                                                                    *)
(*                                                                         *)
(* Then what a consumer of a sink can rely on, for every set of runs and   *)
(* histories of every length.  The inductive invariant is that the         *)
(* consumer holds a beginning of the history; with the sink's own          *)
(* invariant (module SinkProofs) that makes it coherent, and with what the *)
(* fold computes it makes an "over" final.                                 *)
(***************************************************************************)
EXTENDS RunFold, SinkProofs, Induction

\* Opened by event i of s, and then closed.
ClosedFrom(s, i) == {Closed(Opened(s[i]), s[j]) : j \in DOMAIN s}

\* The results the loop may come by in a sequence s.
Results(s) ==
    {Undefined}
    \cup {Threw(why) : why \in {"second run.started", "malformed",
                                "run.finished first", "other run"}}
    \cup {Opened(s[i]) : i \in DOMAIN s}
    \cup UNION {ClosedFrom(s, i) : i \in DOMAIN s}

\* The loop body of foldRun takes a result to a result.
LEMMA FoldStepResults ==
    ASSUME NEW s, NEW run \in Results(s), NEW i \in DOMAIN s
    PROVE  FoldStep(run, s[i]) \in Results(s)
<1>1. /\ Threw("second run.started") \in Results(s)
      /\ Threw("malformed") \in Results(s)
      /\ Threw("run.finished first") \in Results(s)
      /\ Threw("other run") \in Results(s)
  BY DEF Results
<1>2. Opened(s[i]) \in Results(s)
  BY DEF Results
<1>3. ASSUME NEW k \in DOMAIN s
      PROVE  Closed(Opened(s[k]), s[i]) \in Results(s)
  <2>1. Closed(Opened(s[k]), s[i]) \in ClosedFrom(s, k)
    BY DEF ClosedFrom
  <2>2. ClosedFrom(s, k) \in {ClosedFrom(s, j) : j \in DOMAIN s}
    OBVIOUS
  <2>3. Closed(Opened(s[k]), s[i]) \in UNION {ClosedFrom(s, j) : j \in DOMAIN s}
    BY <2>1, <2>2, Zenon
  <2> QED  BY <2>3, Zenon DEF Results
<1>4. \A k, j \in DOMAIN s :
         Closed(Closed(Opened(s[k]), s[j]), s[i]) = Closed(Opened(s[k]), s[i])
  BY DEF Closed, Opened
<1>5. \/ run = Undefined
      \/ \E why : run = Threw(why)
      \/ \E k \in DOMAIN s : run = Opened(s[k])
      \/ \E k, j \in DOMAIN s : run = Closed(Opened(s[k]), s[j])
  BY DEF Results, ClosedFrom
<1>6. \A why : Threw(why).status = "threw"
  BY DEF Threw
<1>7. run = Undefined \/ run.status = "threw" \/ Closed(run, s[i]) \in Results(s)
  BY <1>3, <1>4, <1>5, <1>6
<1> QED
  BY <1>1, <1>2, <1>7 DEF FoldStep

\* The loop: acc[i] is the result after the first i events.
Loops(acc, s) ==
    /\ DOMAIN acc = 0..Len(s)
    /\ acc[0] = Undefined
    /\ \A i \in 1..Len(s) : acc[i] = FoldStep(acc[i - 1], s[i])

\* What the loop does to a result at a position of s.
StepsOf(s) == [x \in Results(s) \X (1..Len(s)) |-> FoldStep(x[1], s[x[2]])]

\* The body over the events of a sequence, as a function on results and places.
LEMMA StepsOfType ==
    ASSUME NEW S, NEW s \in Seq(S)
    PROVE  /\ StepsOf(s) \in [Results(s) \X (1..Len(s)) -> Results(s)]
           /\ \A r \in Results(s), i \in 1..Len(s) :
                 StepsOf(s)[<<r, i>>] = FoldStep(r, s[i])
<1>1. DOMAIN s = 1..Len(s)
  BY LenProperties
<1>2. \A r \in Results(s), i \in 1..Len(s) : FoldStep(r, s[i]) \in Results(s)
  BY <1>1, FoldStepResults
<1> QED
  BY <1>2 DEF StepsOf

\* foldRun is a loop: it returns what the body, applied to one event after the
\* other from undefined on, has arrived at behind the last.
LEMMA FoldRunLoops ==
    ASSUME NEW S, NEW s \in Seq(S)
    PROVE  \E acc : Loops(acc, s) /\ FoldRun(s) = acc[Len(s)]
<1> DEFINE R == Results(s)
           N == Len(s)
           F == StepsOf(s)
           Body(g) == [T \in SUBSET (1..N) |->
                         IF T = {} THEN Undefined
                         ELSE FoldStep(g[T \ {Max(T)}], s[Max(T)])]
           iter == CHOOSE g : g = Body(g)
           acc == [i \in 0..N |-> iter[1..i]]
<1>1. N \in Nat /\ DOMAIN s = 1..N
  BY LenProperties
<1>2. Undefined \in R /\ F \in [R \X (1..N) -> R]
  <2>1. Undefined \in R
    BY DEF Results
  <2> QED  BY <2>1, StepsOfType
<1>3. \A r \in R, i \in 1..N : F[<<r, i>>] = FoldStep(r, s[i])
  BY StepsOfType
<1>4. FoldRun(s) = iter[1..N]
  BY <1>1 DEF FoldRun, FoldLeft, MapThenFoldSet
<1> HIDE DEF R, N, F
<1>5. PICK g \in [SUBSET (1..N) -> R] : IsFold(g, N, Undefined, F)
  BY <1>1, <1>2, FoldExists
<1>6. g = Body(g)
  <2>1. ASSUME NEW T \in SUBSET (1..N), T # {}
        PROVE  g[T] = FoldStep(g[T \ {Max(T)}], s[Max(T)])
    <3>1. Max(T) \in 1..N /\ T \ {Max(T)} \in SUBSET (1..N)
      BY <1>1, <2>1, EndsOfASet
    <3>2. g[T] = F[<<g[T \ {Max(T)}], Max(T)>>]
      BY <1>5, <2>1 DEF IsFold
    <3> QED  BY <1>3, <3>1, <3>2
  <2>2. g[{}] = Undefined
    BY <1>5 DEF IsFold
  <2> QED  BY <2>1, <2>2
<1>7. iter = Body(iter)
  <2> HIDE DEF Body
  <2> QED  BY <1>6
<1> HIDE DEF iter
<1>8. acc[0] = Undefined
  <2>1. 1..0 = {} /\ acc[0] = iter[1..0]
    BY <1>1
  <2> HIDE DEF acc
  <2> QED  BY <1>7, <2>1
<1>9. ASSUME NEW i \in 1..N
      PROVE  acc[i] = FoldStep(acc[i - 1], s[i])
  <2>1. i - 1 \in Nat /\ (i - 1) + 1 = i
    BY <1>1
  <2>2. Max(1..i) = i /\ (1..i) \ {i} = 1..(i - 1)
    BY <2>1, MaxOfTail
  <2>3. i \in 1..i /\ 1..i \in SUBSET (1..N)
    BY <1>1
  <2>4. iter[1..i] = FoldStep(iter[1..(i - 1)], s[i])
    BY <1>7, <2>2, <2>3
  <2>5. acc[i] = iter[1..i] /\ acc[i - 1] = iter[1..(i - 1)]
    BY <1>1, <2>1
  <2> QED  BY <2>4, <2>5, Zenon
<1>10. acc[N] = iter[1..N] /\ DOMAIN acc = 0..N
  BY <1>1
<1> HIDE DEF acc
<1> QED
  BY <1>4, <1>8, <1>9, <1>10 DEF Loops, N
-----------------------------------------------------------------------------
(***************************************************************************)
(* The loop's invariant: its result after n events is what one would       *)
(* declare of those events.                                                *)
(***************************************************************************)

StartedAt(run, s, i, n) ==
    \/ run = Opened(s[i]) /\ \A j \in FinishAt(s) : ~(j <= n)
    \/ \E f \in FinishAt(s) : /\ f <= n
                              /\ \A j \in FinishAt(s) : j <= n => j <= f
                              /\ run = Closed(Opened(s[i]), s[f])

BadBy(s, n) == \E j \in BadAt(s) : j <= n

Declared(run, s, n) ==
    \/ BadBy(s, n) /\ \E why : run = Threw(why)
    \/ ~BadBy(s, n) /\ (\A i \in StartAt(s) : ~(i <= n)) /\ run = Undefined
    \/ ~BadBy(s, n) /\ \E i \in StartAt(s) : i <= n /\ StartedAt(run, s, i, n)

\* One event further, something is bad if it was before or if the event is.
LEMMA BadByNext ==
    ASSUME NEW S, NEW s \in Seq(S), NEW n \in Nat
    PROVE  BadBy(s, n + 1) <=> BadBy(s, n) \/ n + 1 \in BadAt(s)
<1>1. BadAt(s) \subseteq 1..Len(s) /\ Len(s) \in Nat
  BY LenProperties DEF BadAt, StartAt, FinishAt
<1>2. \A j \in Nat : j <= n + 1 <=> j <= n \/ j = n + 1
  OBVIOUS
<1> QED
  BY <1>1, <1>2 DEF BadBy

\* The loop body keeps the declaration: when a result tells what the first n
\* events declare, the next result tells what the first n + 1 do.
LEMMA DeclaredNext ==
    ASSUME RunFoldAssumption, NEW S, NEW s \in Seq(S), NEW run,
           NEW n \in Nat, n + 1 \in 1..Len(s), Declared(run, s, n)
    PROVE  Declared(FoldStep(run, s[n + 1]), s, n + 1)
<1> DEFINE e == s[n + 1]
           next == FoldStep(run, e)
<1>1. DOMAIN s = 1..Len(s) /\ Len(s) \in Nat
  BY LenProperties
<1>2. /\ StartAt(s) \subseteq 1..Len(s)
      /\ FinishAt(s) \subseteq 1..Len(s)
      /\ n + 1 \in StartAt(s) <=> e.type = RunStarted
      /\ n + 1 \in FinishAt(s) <=> e.type = RunFinished
      /\ ~(n + 1 \in StartAt(s) /\ n + 1 \in FinishAt(s))
  BY <1>1 DEF StartAt, FinishAt, RunFoldAssumption
<1>3. \A j \in Nat : /\ j <= n + 1 <=> j <= n \/ j = n + 1
                     /\ j < n + 1 <=> j <= n
  OBVIOUS
<1>4. BadBy(s, n + 1) <=> BadBy(s, n) \/ n + 1 \in BadAt(s)
  BY BadByNext
<1>5. \A why : Threw(why).status = "threw" /\ Threw(why) # Undefined
  BY DEF Threw, Undefined
<1>6. Undefined.status # "threw"
  BY DEF Undefined
<1>7. CASE BadBy(s, n)
  <2>1. PICK why : run = Threw(why)
    BY <1>7 DEF Declared
  <2>2. next = run
    BY <1>5, <2>1 DEF FoldStep
  <2> QED  BY <1>4, <1>7, <2>1, <2>2 DEF Declared
<1>8. CASE ~BadBy(s, n) /\ (\A i \in StartAt(s) : ~(i <= n)) /\ run = Undefined
  <2>1. \A j \in FinishAt(s) : ~(j <= n)
    <3>1. SUFFICES ASSUME NEW j \in FinishAt(s), j <= n
                   PROVE  BadBy(s, n)
      BY <1>8
    <3>2. ~\E i \in StartAt(s) : i < j
      BY <1>2, <1>8, <3>1
    <3>3. j \in BadAt(s)
      BY <3>2 DEF BadAt
    <3> QED  BY <3>1, <3>3 DEF BadBy
  <2>2. CASE e.type = RunStarted
    <3>1. n + 1 \in StartAt(s) /\ n + 1 \notin FinishAt(s)
      BY <1>2, <2>2
    <3>2. n + 1 \in BadAt(s) <=> e.payload \notin Starts
      BY <1>2, <1>3, <1>8, <3>1 DEF BadAt
    <3>3. next = IF e.payload \notin Starts THEN Threw("malformed") ELSE Opened(e)
      BY <1>6, <1>8, <2>2 DEF FoldStep
    <3>4. \A j \in FinishAt(s) : ~(j <= n + 1)
      BY <1>2, <1>3, <2>1, <3>1
    <3>5. n + 1 <= n + 1
      OBVIOUS
    <3>6. CASE e.payload \notin Starts
      BY <1>4, <3>2, <3>3, <3>6 DEF Declared
    <3>7. CASE e.payload \in Starts
      <4>1. StartedAt(next, s, n + 1, n + 1)
        BY <3>3, <3>4, <3>7 DEF StartedAt
      <4> QED  BY <1>4, <1>8, <3>1, <3>2, <3>5, <3>7, <4>1 DEF Declared
    <3> QED  BY <3>6, <3>7
  <2>3. CASE e.type = RunFinished
    <3>1. n + 1 \in FinishAt(s)
      BY <1>2, <2>3
    <3>2. n + 1 \in BadAt(s)
      <4>1. ~\E i \in StartAt(s) : i < n + 1
        BY <1>2, <1>3, <1>8
      <4> QED  BY <3>1, <4>1 DEF BadAt
    <3>3. next = Threw("run.finished first")
      BY <1>6, <1>8, <2>3 DEF FoldStep, RunFoldAssumption
    <3> QED  BY <1>4, <3>2, <3>3 DEF Declared
  <2>4. CASE e.type \notin {RunStarted, RunFinished}
    <3>1. n + 1 \notin StartAt(s) /\ n + 1 \notin FinishAt(s)
      BY <1>2, <2>4
    <3>2. n + 1 \notin BadAt(s)
      BY <3>1 DEF BadAt
    <3>3. next = Undefined
      BY <1>8, <2>4 DEF FoldStep
    <3>4. \A i \in StartAt(s) : ~(i <= n + 1)
      BY <1>2, <1>3, <1>8, <3>1
    <3> QED  BY <1>4, <1>8, <3>2, <3>3, <3>4 DEF Declared
  <2> QED  BY <2>2, <2>3, <2>4
<1>9. CASE ~BadBy(s, n) /\ \E i \in StartAt(s) : i <= n /\ StartedAt(run, s, i, n)
  <2>1. PICK i \in StartAt(s) : i <= n /\ StartedAt(run, s, i, n)
    BY <1>9
  <2>2. /\ run.status = "folded"
        /\ run.runId = s[i].runId
        /\ run # Undefined
        /\ Closed(run, e) = Closed(Opened(s[i]), e)
    <3>1. run = Opened(s[i]) \/ \E f \in FinishAt(s) : run = Closed(Opened(s[i]), s[f])
      BY <2>1 DEF StartedAt
    <3>2. CASE run = Opened(s[i])
      BY <3>2 DEF Opened, Undefined
    <3>3. CASE \E f \in FinishAt(s) : run = Closed(Opened(s[i]), s[f])
      BY <3>3 DEF Opened, Closed, Undefined
    <3> QED  BY <3>1, <3>2, <3>3
  <2>3. ASSUME NEW j \in StartAt(s), j <= n
        PROVE  j = i
    <3>1. i \in Nat /\ j \in Nat
      BY <1>2
    <3>2. ~(i < j)
      <4>1. SUFFICES ASSUME i < j PROVE BadBy(s, n)
        BY <1>9
      <4>2. j \in BadAt(s)
        BY <4>1 DEF BadAt
      <4> QED  BY <2>3, <4>2 DEF BadBy
    <3>3. ~(j < i)
      <4>1. SUFFICES ASSUME j < i PROVE BadBy(s, n)
        BY <1>9
      <4>2. i \in BadAt(s)
        BY <4>1 DEF BadAt
      <4> QED  BY <2>1, <4>2 DEF BadBy
    <3> QED  BY <3>1, <3>2, <3>3
  <2>4. i < n + 1 /\ i <= n + 1
    BY <1>2, <2>1
  <2>5. CASE e.type = RunStarted
    <3>1. n + 1 \in BadAt(s)
      BY <1>2, <2>4, <2>5 DEF BadAt
    <3>2. next = Threw("second run.started")
      BY <2>2, <2>5 DEF FoldStep
    <3> QED  BY <1>4, <3>1, <3>2 DEF Declared
  <2>6. CASE e.type = RunFinished
    <3>1. n + 1 \in FinishAt(s) /\ n + 1 \notin StartAt(s)
      BY <1>2, <2>6
    <3>2. n + 1 \in BadAt(s) <=> e.runId # s[i].runId \/ e.payload \notin Finishes
      <4>1. \A j \in StartAt(s) : j < n + 1 <=> j = i
        BY <1>2, <1>3, <2>3, <2>4
      <4> QED  BY <3>1, <4>1 DEF BadAt
    <3>3. next = IF e.runId # s[i].runId THEN Threw("other run")
                 ELSE IF e.payload \notin Finishes THEN Threw("malformed")
                 ELSE Closed(Opened(s[i]), e)
      BY <2>2, <2>6 DEF FoldStep, RunFoldAssumption
    <3>4. CASE n + 1 \in BadAt(s)
      BY <1>4, <3>2, <3>3, <3>4 DEF Declared
    <3>5. CASE n + 1 \notin BadAt(s)
      <4>1. next = Closed(Opened(s[i]), s[n + 1])
        BY <3>2, <3>3, <3>5
      <4>2. n + 1 <= n + 1 /\ \A j \in FinishAt(s) : j <= n + 1 => j <= n + 1
        OBVIOUS
      <4>3. StartedAt(next, s, i, n + 1)
        BY <3>1, <4>1, <4>2 DEF StartedAt
      <4> QED  BY <1>4, <1>9, <2>4, <3>5, <4>3 DEF Declared
    <3> QED  BY <3>4, <3>5
  <2>7. CASE e.type \notin {RunStarted, RunFinished}
    <3>1. n + 1 \notin StartAt(s) /\ n + 1 \notin FinishAt(s)
      BY <1>2, <2>7
    <3>2. n + 1 \notin BadAt(s)
      BY <3>1 DEF BadAt
    <3>3. next = run
      BY <2>2, <2>7 DEF FoldStep
    <3>4. \A j \in FinishAt(s) : j <= n + 1 <=> j <= n
      BY <1>2, <1>3, <3>1
    <3>5. StartedAt(next, s, i, n + 1)
      BY <2>1, <3>3, <3>4 DEF StartedAt
    <3> QED  BY <1>4, <1>9, <2>4, <3>2, <3>5 DEF Declared
  <2> QED  BY <2>5, <2>6, <2>7
<1> QED
  BY <1>7, <1>8, <1>9 DEF Declared

\* The loop's result at every position, by induction over the positions.
LEMMA LoopIsDeclared ==
    ASSUME RunFoldAssumption, NEW S, NEW s \in Seq(S), NEW acc, Loops(acc, s),
           NEW m \in 0..Len(s)
    PROVE  Declared(acc[m], s, m)
<1> DEFINE H == {n \in Nat : n <= Len(s) => Declared(acc[n], s, n)}
<1>1. Len(s) \in Nat /\ DOMAIN s = 1..Len(s)
  BY LenProperties
<1>2. 0 \in H
  <2>1. StartAt(s) \subseteq 1..Len(s) /\ BadAt(s) \subseteq 1..Len(s)
    BY <1>1 DEF StartAt, BadAt, FinishAt
  <2>2. (\A i \in StartAt(s) : ~(i <= 0)) /\ ~BadBy(s, 0)
    BY <1>1, <2>1 DEF BadBy
  <2> QED  BY <2>2 DEF Loops, Declared
<1>3. ASSUME NEW n \in Nat, n \in H
      PROVE  n + 1 \in H
  <2>1. SUFFICES ASSUME n + 1 <= Len(s)
                 PROVE  Declared(acc[n + 1], s, n + 1)
    OBVIOUS
  <2>2. n + 1 \in 1..Len(s) /\ n <= Len(s) /\ (n + 1) - 1 = n
    BY <1>1, <2>1
  <2>3. acc[n + 1] = FoldStep(acc[n], s[n + 1])
    BY <2>2 DEF Loops
  <2>4. Declared(acc[n], s, n)
    BY <1>3, <2>2
  <2> QED  BY <2>2, <2>3, <2>4, DeclaredNext
<1>4. Nat \subseteq H
  <2> HIDE DEF H
  <2> QED  BY <1>2, <1>3, SetInduction
<1> QED
  BY <1>1, <1>4

\* What foldRun returns is what the whole sequence declares.
LEMMA FoldRunIsDeclared ==
    ASSUME RunFoldAssumption, NEW S, NEW s \in Seq(S)
    PROVE  Declared(FoldRun(s), s, Len(s))
<1>1. PICK acc : Loops(acc, s) /\ FoldRun(s) = acc[Len(s)]
  BY FoldRunLoops
<1>2. Len(s) \in 0..Len(s)
  BY LenProperties
<1> QED
  BY <1>1, <1>2, LoopIsDeclared
-----------------------------------------------------------------------------
\* What a consumer folds is a sequence of events.
LEMMA EventsAreASequence == FedSpec => [](events \in Seq(Event))
<1>1. ConsumerInit => events \in Seq(Event)
  BY DEF ConsumerInit
<1>2. ASSUME events \in Seq(Event), NEW r \in Runs, NEW draft \in Draft, NEW t \in Times,
             Feed(r, draft, t)
      PROVE  events' \in Seq(Event)
  <2>1. Len(events) + 1 \in 1..MaxSeq
    BY <1>2, LenProperties, SinkAssumption DEF Feed
  <2>2. Stamp(draft, r, Len(events) + 1, t) \in Event
    BY <2>1, StampType
  <2> QED  BY <1>2, <2>2, AppendProperties DEF Feed
<1>3. events \in Seq(Event) /\ [FedNext]_allVars => (events \in Seq(Event))'
  BY <1>2 DEF FedNext, allVars
<1> QED
  BY <1>1, <1>3, PTL DEF FedSpec

(* foldRun, event by event and stopping at the first it throws on, tells   *)
(* of every sequence, however long, what one would declare of the whole:   *)
(* that something in it is bad, that nothing started, or the one start and *)
(* the last finish.                                                        *)
THEOREM FoldTellsWhatIsDeclared == FedSpec => []FoldIsAsDeclared
<1>1. ASSUME events \in Seq(Event)
      PROVE  FoldIsAsDeclared
  <2> DEFINE run == FoldRun(events)
             n == Len(events)
  <2>1. Declared(run, events, n)
    BY <1>1, FoldRunIsDeclared, RunFoldAssumption
  <2>2. n \in Nat /\ DOMAIN events = 1..n
    BY <1>1, LenProperties
  <2>3. /\ StartAt(events) \subseteq 1..n
        /\ FinishAt(events) \subseteq 1..n
        /\ BadAt(events) \subseteq 1..n
    BY <2>2 DEF StartAt, FinishAt, BadAt
  <2>4. BadBy(events, n) <=> BadAt(events) # {}
    BY <2>2, <2>3 DEF BadBy
  <2> HIDE DEF run, n
  <2>5. CASE BadBy(events, n) /\ \E why : run = Threw(why)
    <3>1. run.status = "threw"
      BY <2>5 DEF Threw
    <3> QED  BY <2>4, <2>5, <3>1 DEF FoldIsAsDeclared, View, run
  <2>6. CASE /\ ~BadBy(events, n)
             /\ \A i \in StartAt(events) : ~(i <= n)
             /\ run = Undefined
    <3>1. run.status = "undefined" /\ StartAt(events) = {}
      BY <2>2, <2>3, <2>6 DEF Undefined
    <3> QED  BY <2>4, <2>6, <3>1 DEF FoldIsAsDeclared, View, run
  <2>7. ASSUME ~BadBy(events, n), NEW i \in StartAt(events),
               StartedAt(run, events, i, n)
        PROVE  FoldIsAsDeclared
    <3>1. CASE run = Opened(events[i]) /\ \A j \in FinishAt(events) : ~(j <= n)
      <4>1. /\ run.status = "folded" /\ run.open
            /\ run.runId = events[i].runId /\ run.start = events[i].payload
        BY <3>1 DEF Opened
      <4>2. FinishAt(events) = {}
        BY <2>2, <2>3, <3>1
      <4> QED  BY <2>4, <2>7, <4>1, <4>2 DEF FoldIsAsDeclared, View, run
    <3>2. ASSUME NEW f \in FinishAt(events),
                 \A j \in FinishAt(events) : j <= n => j <= f,
                 run = Closed(Opened(events[i]), events[f])
          PROVE  FoldIsAsDeclared
      <4>1. /\ run.status = "folded" /\ ~run.open
            /\ run.runId = events[i].runId /\ run.start = events[i].payload
            /\ run.finish = events[f].payload
        BY <3>2 DEF Opened, Closed
      <4>2. \A j \in FinishAt(events) : j <= f
        BY <2>2, <2>3, <3>2
      <4> QED  BY <2>4, <2>7, <4>1, <4>2 DEF FoldIsAsDeclared, View, run
    <3> QED  BY <2>7, <3>1, <3>2 DEF StartedAt
  <2> QED
    BY <2>1, <2>5, <2>6, <2>7 DEF Declared
<1>2. QED
  BY <1>1, EventsAreASequence, PTL
-----------------------------------------------------------------------------
(***************************************************************************)
(* Folding a history again when more of it is there.                       *)
(***************************************************************************)

\* The loop comes by the same results over the same events.
LEMMA LoopsAgree ==
    ASSUME NEW S, NEW s \in Seq(S), NEW t \in Seq(S), Len(s) <= Len(t),
           \A i \in 1..Len(s) : t[i] = s[i],
           NEW a, Loops(a, s), NEW b, Loops(b, t)
    PROVE  \A i \in 0..Len(s) : b[i] = a[i]
<1> DEFINE H == {n \in Nat : n <= Len(s) => b[n] = a[n]}
<1>1. Len(s) \in Nat /\ Len(t) \in Nat
  BY LenProperties
<1>2. 0 \in H
  BY DEF Loops
<1>3. ASSUME NEW n \in Nat, n \in H
      PROVE  n + 1 \in H
  <2>1. SUFFICES ASSUME n + 1 <= Len(s)
                 PROVE  b[n + 1] = a[n + 1]
    OBVIOUS
  <2>2. /\ n + 1 \in 1..Len(s) /\ n + 1 \in 1..Len(t)
        /\ n <= Len(s) /\ (n + 1) - 1 = n
    BY <1>1, <2>1
  <2>3. a[n + 1] = FoldStep(a[n], s[n + 1]) /\ b[n + 1] = FoldStep(b[n], t[n + 1])
    BY <2>2 DEF Loops
  <2>4. b[n] = a[n] /\ t[n + 1] = s[n + 1]
    BY <1>3, <2>2
  <2> QED  BY <2>3, <2>4
<1>4. Nat \subseteq H
  <2> HIDE DEF H
  <2> QED  BY <1>2, <1>3, SetInduction
<1> QED
  BY <1>1, <1>4

\* Nothing is read after an exception.
LEMMA ThrewStays ==
    ASSUME NEW S, NEW t \in Seq(S), NEW b, Loops(b, t),
           NEW i \in 0..Len(t), b[i].status = "threw"
    PROVE  b[Len(t)] = b[i]
<1> DEFINE H == {n \in Nat : i + n <= Len(t) => b[i + n] = b[i]}
<1>1. Len(t) \in Nat
  BY LenProperties
<1>2. 0 \in H
  BY <1>1
<1>3. ASSUME NEW n \in Nat, n \in H
      PROVE  n + 1 \in H
  <2>1. SUFFICES ASSUME i + (n + 1) <= Len(t)
                 PROVE  b[i + (n + 1)] = b[i]
    OBVIOUS
  <2>2. /\ i + (n + 1) \in 1..Len(t) /\ (i + (n + 1)) - 1 = i + n
        /\ i + n <= Len(t)
    BY <1>1, <2>1
  <2>3. b[i + (n + 1)] = FoldStep(b[i + n], t[i + (n + 1)])
    BY <2>2 DEF Loops
  <2>4. b[i + n] = b[i]
    BY <1>3, <2>2
  <2> QED  BY <2>3, <2>4 DEF FoldStep
<1>4. Nat \subseteq H
  <2> HIDE DEF H
  <2> QED  BY <1>2, <1>3, SetInduction
<1>5. Len(t) - i \in Nat /\ i + (Len(t) - i) = Len(t)
  BY <1>1
<1> QED
  BY <1>1, <1>4, <1>5

(* What was thrown on stays thrown on, and a start once told is the start  *)
(* told of everything that begins so, unless that is thrown on.            *)
LEMMA FoldGoesForward ==
    ASSUME RunFoldAssumption, NEW S, NEW s \in Seq(S), NEW t \in Seq(S),
           Len(s) <= Len(t), \A i \in 1..Len(s) : t[i] = s[i]
    PROVE  /\ FoldRun(s).status = "threw" => FoldRun(t) = FoldRun(s)
           /\ FoldRun(s).status = "folded" =>
                 /\ FoldRun(t).status \in {"folded", "threw"}
                 /\ FoldRun(t).status = "folded" =>
                       FoldRun(t).start = FoldRun(s).start
<1>1. PICK a : Loops(a, s) /\ FoldRun(s) = a[Len(s)]
  BY FoldRunLoops
<1>2. PICK b : Loops(b, t) /\ FoldRun(t) = b[Len(t)]
  BY FoldRunLoops
<1>3. Len(s) \in 0..Len(s) /\ Len(s) \in 0..Len(t)
  BY LenProperties
<1>4. b[Len(s)] = a[Len(s)]
  BY <1>1, <1>2, <1>3, LoopsAgree
<1>5. ASSUME FoldRun(s).status = "threw"
      PROVE  FoldRun(t) = FoldRun(s)
  BY <1>1, <1>2, <1>3, <1>4, <1>5, ThrewStays
<1>6. ASSUME FoldRun(s).status = "folded"
      PROVE  /\ FoldRun(t).status \in {"folded", "threw"}
             /\ FoldRun(t).status = "folded" =>
                   FoldRun(t).start = FoldRun(s).start
  <2>1. /\ DOMAIN s = 1..Len(s) /\ DOMAIN t = 1..Len(t)
        /\ Len(s) \in Nat /\ Len(t) \in Nat
    BY LenProperties
  <2>2. Undefined.status = "undefined" /\ \A why : Threw(why).status = "threw"
    BY DEF Undefined, Threw
  <2>3. ASSUME NEW u \in Seq(S), NEW i, StartedAt(FoldRun(u), u, i, Len(u))
        PROVE  /\ FoldRun(u).status = "folded"
               /\ FoldRun(u).start = u[i].payload
    <3>1. \/ FoldRun(u) = Opened(u[i])
          \/ \E f \in FinishAt(u) : FoldRun(u) = Closed(Opened(u[i]), u[f])
      BY <2>3 DEF StartedAt
    <3>2. CASE FoldRun(u) = Opened(u[i])
      BY <3>2 DEF Opened
    <3>3. CASE \E f \in FinishAt(u) : FoldRun(u) = Closed(Opened(u[i]), u[f])
      BY <3>3 DEF Opened, Closed
    <3> QED  BY <3>1, <3>2, <3>3
  <2>4. Declared(FoldRun(s), s, Len(s)) /\ Declared(FoldRun(t), t, Len(t))
    BY FoldRunIsDeclared
  <2>5. PICK i \in StartAt(s) : /\ i <= Len(s)
                               /\ StartedAt(FoldRun(s), s, i, Len(s))
    BY <1>6, <2>2, <2>4 DEF Declared
  <2>6. i \in StartAt(t) /\ t[i] = s[i] /\ i <= Len(t)
    BY <2>1, <2>5 DEF StartAt
  <2>7. CASE \E why : FoldRun(t) = Threw(why)
    BY <2>2, <2>7
  <2>8. ASSUME ~BadBy(t, Len(t)), NEW j \in StartAt(t), j <= Len(t),
               StartedAt(FoldRun(t), t, j, Len(t))
        PROVE  /\ FoldRun(t).status = "folded"
               /\ FoldRun(t).start = FoldRun(s).start
    <3>1. i \in Nat /\ j \in Nat
      BY <2>1, <2>6, <2>8 DEF StartAt
    <3>2. i < j => j \in BadAt(t)
      BY <2>6 DEF BadAt
    <3>3. j < i => i \in BadAt(t)
      BY <2>6 DEF BadAt
    <3>4. i = j
      BY <2>6, <2>8, <3>1, <3>2, <3>3 DEF BadBy
    <3> QED  BY <2>3, <2>5, <2>6, <2>8, <3>4
  <2>9. ~ \A j \in StartAt(t) : ~(j <= Len(t))
    BY <2>6
  <2> QED  BY <2>4, <2>7, <2>8, <2>9 DEF Declared
<1> QED
  BY <1>5, <1>6
-----------------------------------------------------------------------------
(***************************************************************************)
(* A consumer that follows a run.                                          *)
(***************************************************************************)

SnapshotIsPrefix ==
    /\ events \in Seq(Event)
    /\ \A i \in DOMAIN events :
          /\ i \in DOMAIN runs[Followed]
          /\ events[i] = runs[Followed][i]
-----------------------------------------------------------------------------
(* Whoever else calls the sink, it is the sink of module Sink.             *)
LEMMA FollowedSinkIsASink == FollowerSpec => Spec
<1>1. ConsumerInit => Init
  BY DEF ConsumerInit
<1>2. [FollowerNext]_allVars => [Next]_vars
  BY DEF FollowerNext, Serve, Poll, allVars, vars
<1>3. QED
  BY <1>1, <1>2, PTL DEF FollowerSpec, Spec

(* A history keeps what it has.                                            *)
LEMMA HistoriesGrow ==
    ASSUME Inv, [Next]_vars, NEW r \in Runs, NEW i \in DOMAIN runs[r]
    PROVE  i \in DOMAIN runs'[r] /\ runs'[r][i] = runs[r][i]
<1>1. CASE UNCHANGED <<runs, finished>>
  BY <1>1
<1>2. ASSUME NEW e \in Event, e.runId \in Runs \ finished,
             e.seq = NextSeq(e.runId), Store(e)
      PROVE  i \in DOMAIN runs'[r] /\ runs'[r][i] = runs[r][i]
  <2>1. i \in 1..Len(runs[r]) /\ Len(runs[r]) \in Nat
    BY NextSeqType DEF Inv
  <2>2. CASE r # e.runId
    BY <1>2, <2>2, StoreEffect DEF Inv
  <2>3. CASE r = e.runId
    <3>1. /\ DOMAIN runs'[r] = 1..e.seq
          /\ \A j \in 1..Len(runs[r]) : runs'[r][j] = runs[r][j]
      BY <1>2, <2>3, StoreEffect DEF Inv
    <3>2. e.seq = Len(runs[r]) + 1
      BY <1>2, <2>3 DEF NextSeq
    <3>3. QED
      BY <2>1, <3>1, <3>2
  <2>4. QED
    BY <2>2, <2>3
<1>3. CASE UNCHANGED vars
  BY <1>1, <1>3 DEF vars
<1>4. QED
  BY <1>1, <1>2, <1>3, CallSteps DEF Inv

\* Every call of anybody and every poll leaves the snapshot a prefix of the
\* history.
LEMMA PrefixStep ==
    ASSUME Inv, SnapshotIsPrefix, [FollowerNext]_allVars
    PROVE  SnapshotIsPrefix'
<1>1. ASSUME UNCHANGED events, [Next]_vars
      PROVE  SnapshotIsPrefix'
  BY <1>1, HistoriesGrow, RunFoldAssumption DEF SnapshotIsPrefix
<1>2. CASE Poll
  BY <1>2, RunFoldAssumption DEF Poll, vars, SnapshotIsPrefix, Inv, TypeOK
<1>3. QED
  BY <1>1, <1>2 DEF FollowerNext, Serve, allVars, vars

\* What a consumer saw is always a prefix of what the sink holds.
LEMMA PrefixHolds == FollowerSpec => []SnapshotIsPrefix
<1>1. ConsumerInit => SnapshotIsPrefix
  BY DEF ConsumerInit, SnapshotIsPrefix
<1>2. Inv /\ SnapshotIsPrefix /\ [FollowerNext]_allVars => SnapshotIsPrefix'
  BY PrefixStep
<1>3. QED
  BY <1>1, <1>2, FollowedSinkIsASink, InvHolds, PTL DEF FollowerSpec

(* Drafts and forwarded events, by anybody and in any order: a consumer is *)
(* given markers of one run, and one run.finished at most, so the second   *)
(* run.finished foldRun would not notice cannot reach it through a sink.   *)
THEOREM FollowersSeeCoherentRuns == FollowerSpec => []FollowedRunsAreCoherent
<1>1. ASSUME Inv, SnapshotIsPrefix
      PROVE  Coherent(events)
  <2>1. \A i \in DOMAIN events :
           /\ events[i].runId = Followed
           /\ events[i].type = RunFinished => i = Len(runs[Followed])
    BY <1>1, RunFoldAssumption DEF Inv, SnapshotIsPrefix, Gapless, ClosedByLastEvent, IsTerminal
  <2>2. QED
    BY <2>1 DEF Coherent, StartAt, FinishAt
<1>2. Inv /\ SnapshotIsPrefix => FollowedRunsAreCoherent
  BY <1>1 DEF FollowedRunsAreCoherent
<1>3. QED
  BY <1>2, FollowedSinkIsASink, InvHolds, PrefixHolds, PTL

(* A fold that is over has read a finish.                                  *)
LEMMA OverHasFinish ==
    ASSUME NEW s \in Seq(Event),
           FoldRun(s).status = "folded", ~FoldRun(s).open
    PROVE  \E f \in DOMAIN s : IsTerminal(s[f])
<1> DEFINE run == FoldRun(s)
<1>1. run.status = "folded" /\ ~run.open
  OBVIOUS
<1>2. Declared(run, s, Len(s))
  BY RunFoldAssumption, FoldRunIsDeclared
<1> HIDE DEF run
<1>3. run # Undefined /\ \A why : run # Threw(why)
  BY <1>1 DEF Undefined, Threw
<1>4. PICK i \in StartAt(s) : StartedAt(run, s, i, Len(s))
  BY <1>2, <1>3 DEF Declared
<1>5. run # Opened(s[i])
  BY <1>1 DEF Opened
<1> QED
  BY <1>4, <1>5 DEF StartedAt, FinishAt, IsTerminal

\* A view that is over was taken of a finished run, and of all of it: it has a
\* finish, the only terminal event and the last of the run.
LEMMA OverMeansWhole ==
    ASSUME Inv, SnapshotIsPrefix, View.status = "folded", ~View.open
    PROVE  Followed \in finished /\ events = runs[Followed]
<1>1. events \in Seq(Event) /\ runs[Followed] \in Seq(Event)
  BY RunFoldAssumption DEF SnapshotIsPrefix, Inv, TypeOK
<1>2. PICK f \in DOMAIN events : IsTerminal(events[f])
  BY <1>1, OverHasFinish DEF View
<1>3. f \in DOMAIN runs[Followed] /\ IsTerminal(runs[Followed][f])
  BY <1>2 DEF SnapshotIsPrefix
<1>4. f = Len(runs[Followed])
  BY <1>3, RunFoldAssumption DEF Inv, ClosedByLastEvent
<1>5. Followed \in finished
  BY <1>1, <1>3, <1>4, RunFoldAssumption DEF Inv, ClosedByLastEvent
<1>6. /\ DOMAIN events = 1..Len(events)
      /\ DOMAIN runs[Followed] = 1..Len(runs[Followed])
      /\ Len(events) \in Nat /\ Len(runs[Followed]) \in Nat
  BY <1>1, LenProperties
<1>7. DOMAIN events \subseteq DOMAIN runs[Followed]
  BY DEF SnapshotIsPrefix
<1>8. Len(events) = Len(runs[Followed])
  <2>1. f \in 1..Len(events)
    BY <1>6
  <2>2. Len(events) \in 1..Len(events)
    BY <1>6, <2>1
  <2>3. Len(events) \in 1..Len(runs[Followed])
    BY <1>6, <1>7, <2>2
  <2> QED  BY <1>4, <1>6, <2>1, <2>3
<1>9. \A i \in 1..Len(runs[Followed]) : events[i] = runs[Followed][i]
  BY <1>6, <1>8 DEF SnapshotIsPrefix
<1> QED
  BY <1>1, <1>5, <1>8, <1>9, SeqEqual

(* When the fold says a run is over, it is: the sink takes nothing more    *)
(* for it, and the consumer already holds everything the sink does.        *)
THEOREM OverViewsAreOver == FollowerSpec => []OverIsOver
<1>1. Inv /\ SnapshotIsPrefix => OverIsOver
  BY OverMeansWhole DEF OverIsOver
<1>2. QED
  BY <1>1, FollowedSinkIsASink, InvHolds, PrefixHolds, PTL

(* A snapshot is only ever replaced by one that begins with it.            *)
LEMMA SnapshotsGrow ==
    ASSUME Inv, SnapshotIsPrefix, [FollowerNext]_allVars
    PROVE  /\ events \in Seq(Event) /\ events' \in Seq(Event)
           /\ Len(events) <= Len(events')
           /\ \A i \in 1..Len(events) : events'[i] = events[i]
           /\ events' = events \/ events' = runs[Followed]
<1>1. /\ events \in Seq(Event) /\ runs[Followed] \in Seq(Event)
      /\ DOMAIN events = 1..Len(events)
      /\ DOMAIN runs[Followed] = 1..Len(runs[Followed])
      /\ Len(events) \in Nat /\ Len(runs[Followed]) \in Nat
  BY LenProperties, RunFoldAssumption DEF SnapshotIsPrefix, Inv, TypeOK
<1>2. events' = events \/ events' = runs[Followed]
  BY DEF FollowerNext, Serve, Poll, allVars, SnapshotIsPrefix
<1>3. /\ 1..Len(events) \subseteq 1..Len(runs[Followed])
      /\ \A i \in 1..Len(events) : runs[Followed][i] = events[i]
  BY <1>1 DEF SnapshotIsPrefix
<1>4. Len(events) <= Len(runs[Followed])
  BY <1>1, <1>3
<1> QED
  BY <1>1, <1>2, <1>3, <1>4

\* One step of the sink or the consumer moves no view backwards: a poll only
\* adds events to the sequence that is folded.
LEMMA ViewStep ==
    ASSUME Inv, SnapshotIsPrefix, [FollowerNext]_allVars
    PROVE  /\ View.status = "threw" => View' = View
           /\ View.status = "folded" =>
                 /\ View'.status \in {"folded", "threw"}
                 /\ View'.status = "folded" => View'.start = View.start
                 /\ ~View.open => View' = View
<1>1. ASSUME View.status = "folded", ~View.open
      PROVE  View' = View
  <2>1. events = runs[Followed]
    BY <1>1, OverMeansWhole
  <2>2. events' = events
    BY <2>1, SnapshotsGrow
  <2> QED  BY <2>2 DEF View
<1> QED
  BY <1>1, SnapshotsGrow, RunFoldAssumption, FoldGoesForward DEF View

(* What the consumer is shown only goes forward, whoever appends in        *)
(* between and however many events a poll brings: a start is never         *)
(* replaced, a finish never withdrawn, an exception never healed.          *)
THEOREM ViewsGoForward == FollowerSpec => ViewGoesForward
<1>1. ASSUME Inv, SnapshotIsPrefix, [FollowerNext]_allVars
      PROVE  /\ View.status = "threw" => View' = View
             /\ View.status = "folded" =>
                   /\ View'.status \in {"folded", "threw"}
                   /\ View'.status = "folded" => View'.start = View.start
                   /\ ~View.open => View' = View
  BY <1>1, ViewStep
<1>2. QED
  BY <1>1, FollowedSinkIsASink, InvHolds, PrefixHolds, PTL
     DEF FollowerSpec, ViewGoesForward
=============================================================================
