------------------------ MODULE TraceContext_proofs -------------------------
(***************************************************************************)
(* What holds of TraceContext for any sets of traces, spans, goroutines    *)
(* and any channel size.                                                   *)
(***************************************************************************)
EXTENDS TraceContext, FiniteSetTheorems, TLAPS

USE TraceAssumption

LEMMA InitInv == Init => IndInv
<1> SUFFICES ASSUME Init PROVE IndInv
  OBVIOUS
<1>1. TypeOK
  BY DEF Init, TypeOK, NoSnap, NoNote, SpanTypes, ErrorKinds, PCs
<1>2. \A t \in Trace : spans[t] = <<>> /\ Len(spans[t]) = 0
  BY DEF Init
<1>3. Started = {}
  BY DEF Init, Started
<1>4. SpanLists
  BY <1>2, <1>3 DEF SpanLists
<1>5. Goroutines
  BY <1>3 DEF Init, Goroutines, InFinish
<1>6. FinishCountExact
  <2>1. \A t \in Trace : CountedIn(t) = {} /\ finishCount[t] = 0
    BY <1>2 DEF CountedIn, Init
  <2> QED
    BY <2>1, FS_EmptySet DEF FinishCountExact
<1>7. Responsibility
  BY DEF Init, Responsibility
<1>8. OnlyCollected /\ ExportedOnce
  BY DEF Init, OnlyCollected, ExportedOnce
<1>9. Filled /\ OnlySettled
  BY DEF Init, Filled, Metered, OnlySettled
<1> QED
  BY <1>1, <1>4, <1>5, <1>6, <1>7, <1>8, <1>9 DEF IndInv

\* A goroutine inside Finish works on a span that is started and finished.
LEMMA Busy ==
    ASSUME TypeOK, Goroutines, NEW g \in Goroutine, pc[g] # "idle"
    PROVE  /\ cur[g] \in Span
           /\ ctx[cur[g]] \in Trace
           /\ finished[cur[g]]
BY DEF TypeOK, Goroutines, Started

\* The loop of emitTrace visits spans of the trace.
LEMMA Visits ==
    ASSUME TypeOK, Goroutines, NEW g \in Goroutine,
           pc[g] = "emitting", next[g] <= upto[g]
    PROVE  /\ ctx[cur[g]] \in Trace
           /\ next[g] \in 1..Len(spans[ctx[cur[g]]])
           /\ spans[ctx[cur[g]]][next[g]] \in Span
<1>1. ctx[cur[g]] \in Trace
  BY Busy
<1>2. spans[ctx[cur[g]]] \in Seq(Span) /\ next[g] \in Nat /\ upto[g] \in Nat
  BY <1>1 DEF TypeOK
<1>3. next[g] >= 1 /\ upto[g] <= Len(spans[ctx[cur[g]]])
  BY DEF Goroutines
<1>4. next[g] \in 1..Len(spans[ctx[cur[g]]])
  BY <1>2, <1>3
<1> QED
  BY <1>1, <1>2, <1>4

LEMMA TypeStep == IndInv /\ [Next]_vars => TypeOK'
<1> SUFFICES ASSUME TypeOK, SpanLists, Goroutines, [Next]_vars PROVE TypeOK'
  BY DEF IndInv
<1> USE DEF Goto, Return, ctxVars, spanVars, goVars, chanVars, histVars
<1>t. ErrorKinds = {"recorded", "panic"} /\ SpanTypes = {"common", "server", "client"}
  BY DEF ErrorKinds, SpanTypes
<1>a. ASSUME NEW t \in Trace, NEW s \in Span, NEW ty \in Types, NEW flag \in BOOLEAN,
             AddSpan(t, s, ty, flag), sampled' \in [Trace -> BOOLEAN]
      PROVE  TypeOK'
  <2>1. Append(spans[t], s) \in Seq(Span)
    BY DEF TypeOK
  <2> QED
    BY <1>a, <2>1 DEF AddSpan, TypeOK, SpanTypes
<1>1. ASSUME NEW t \in Trace, NEW s \in Span, NEW ty \in Types, NEW smp \in BOOLEAN,
             NEW flag \in BOOLEAN, StartRoot(t, s, ty, smp, flag)
      PROVE  TypeOK'
  <2>1. sampled' \in [Trace -> BOOLEAN]
    BY <1>1 DEF StartRoot, TypeOK
  <2> QED
    BY <1>1, <1>a, <2>1 DEF StartRoot
<1>2. ASSUME NEW parent \in Span, NEW s \in Span, NEW ty \in Types,
             StartChild(parent, s, ty)
      PROVE  TypeOK'
  <2>1. ctx[parent] \in Trace /\ emitFlag[parent] \in BOOLEAN
    BY <1>2 DEF StartChild, TypeOK, Started
  <2>2. sampled' \in [Trace -> BOOLEAN]
    BY <1>2 DEF StartChild, TypeOK
  <2> QED
    BY <1>2, <1>a, <2>1, <2>2 DEF StartChild
<1>3. ASSUME NEW s \in Span, NEW flag \in BOOLEAN, SetEmitControl(s, flag)
      PROVE  TypeOK'
  BY <1>3 DEF SetEmitControl, TypeOK, PCs
<1>4. ASSUME NEW a \in Annotator, NEW s \in Span, RecordError(a, s) \/ SetStatus(a, s)
      PROVE  TypeOK'
  <2>1. PICK kind \in {"error", "status"} : Annotate(a, s, kind)
    BY <1>4 DEF RecordError, SetStatus, TypeOK, PCs
  <2>2. [span |-> s, kind |-> kind]
            \in [span : Span \cup {NoSpan}, kind : {"error", "status"}]
    OBVIOUS
  <2> QED
    BY <2>1, <2>2 DEF Annotate, TypeOK
<1>5. ASSUME NEW a \in Annotator, AppendError(a) PROVE TypeOK'
  <2>1. errors' \in [Span -> SUBSET ErrorKinds]
    BY <1>5, <1>t DEF AppendError, TypeOK
  <2>2. NoNote \in [span : Span \cup {NoSpan}, kind : {"error", "status"}]
    BY DEF NoNote
  <2> QED
    BY <1>5, <2>1, <2>2 DEF AppendError, TypeOK
<1>6. ASSUME NEW a \in Annotator, NEW st \in Statuses, WriteStatus(a, st) PROVE TypeOK'
  BY <1>6 DEF WriteStatus, NoNote, TypeOK, PCs
<1>7. ASSUME NEW g \in Goroutine, NEW s \in Span, Finish(g, s) PROVE TypeOK'
  BY <1>7 DEF Finish, TypeOK, PCs
<1>8. ASSUME NEW g \in Goroutine, NEW st \in {0, 1}, Stamp(g, st) PROVE TypeOK'
  BY <1>8 DEF Stamp, TypeOK, PCs
<1>9. ASSUME NEW g \in Goroutine, NEW panic \in Panics, CapturePanic(g, panic)
      PROVE  TypeOK'
  <2>1. cur[g] \in Span /\ errors[cur[g]] \in SUBSET ErrorKinds
    BY <1>9, Busy DEF CapturePanic, TypeOK
  <2>2. /\ errors \in [Span -> SUBSET ErrorKinds]
        /\ status \in [Span -> {0, 1}]
        /\ panicked \subseteq Span
        /\ pc \in [Goroutine -> PCs]
    BY DEF TypeOK
  <2>3. /\ errors' \in [Span -> SUBSET ErrorKinds]
        /\ status' \in [Span -> {0, 1}]
        /\ panicked' \subseteq Span
    BY <1>9, <1>t, <2>1, <2>2 DEF CapturePanic
  <2>4. pc' \in [Goroutine -> PCs]
    BY <1>9, <2>2 DEF CapturePanic, PCs
  <2> QED
    BY <1>9, <2>3, <2>4 DEF CapturePanic, TypeOK
<1>10. ASSUME NEW g \in Goroutine, EmitMetric(g) PROVE TypeOK'
  <2>1. cur[g] \in Span /\ metrics[cur[g]] + 1 \in Nat
    <3>1. cur[g] \in Span
      BY <1>10, Busy DEF EmitMetric
    <3> QED
      BY <3>1 DEF TypeOK
  <2> QED
    BY <1>10, <2>1 DEF EmitMetric, TypeOK, PCs
<1>11. ASSUME NEW g \in Goroutine, FinishSpan(g) PROVE TypeOK'
  <2>1. ctx[cur[g]] \in Trace /\ finishCount[ctx[cur[g]]] + 1 \in Nat
    <3>1. ctx[cur[g]] \in Trace
      BY <1>11, Busy DEF FinishSpan
    <3> QED
      BY <3>1 DEF TypeOK
  <2>2. /\ finishCount \in [Trace -> Nat]
        /\ pc \in [Goroutine -> PCs]
        /\ cur \in [Goroutine -> Span \cup {NoSpan}]
    BY DEF TypeOK
  <2>4. finishCount' \in [Trace -> Nat]
    BY <1>11, <2>1, <2>2 DEF FinishSpan
  <2>5. pc' \in [Goroutine -> PCs]
    BY <1>11, <2>2 DEF FinishSpan, PCs
  <2>3. cur' \in [Goroutine -> Span \cup {NoSpan}]
    BY <1>11, <2>2 DEF FinishSpan
  <2> QED
    BY <1>11, <2>3, <2>4, <2>5 DEF FinishSpan, TypeOK
<1>12. ASSUME NEW g \in Goroutine, Collect(g) PROVE TypeOK'
  <2>1. Len(spans[ctx[cur[g]]]) \in Nat
    <3>1. ctx[cur[g]] \in Trace
      BY <1>12, Busy DEF Collect
    <3> QED
      BY <3>1 DEF TypeOK
  <2>2. /\ pc \in [Goroutine -> PCs]
        /\ cur \in [Goroutine -> Span \cup {NoSpan}]
        /\ next \in [Goroutine -> Nat]
        /\ upto \in [Goroutine -> Nat]
    BY DEF TypeOK
  <2>3. pc' \in [Goroutine -> PCs] /\ cur' \in [Goroutine -> Span \cup {NoSpan}]
    BY <1>12, <2>2 DEF Collect, PCs
  <2>4. next' = next \/ next' = [next EXCEPT ![g] = 1]
    BY <1>12 DEF Collect
  <2>5. upto' = upto \/ upto' = [upto EXCEPT ![g] = Len(spans[ctx[cur[g]]])]
    BY <1>12 DEF Collect
  <2>6. next' \in [Goroutine -> Nat]
    BY <2>2, <2>4
  <2>7. upto' \in [Goroutine -> Nat]
    BY <2>1, <2>2, <2>5
  <2> QED
    BY <1>12, <2>3, <2>6, <2>7 DEF Collect, TypeOK
<1>13. ASSUME NEW g \in Goroutine, CollectSpan(g) PROVE TypeOK'
  <2> DEFINE s == spans[ctx[cur[g]]][next[g]]
             seen == [stamped |-> stamped[s], errors |-> errors[s],
                      status |-> status[s]]
             Snap == [stamped : BOOLEAN, errors : SUBSET ErrorKinds, status : {0, 1}]
  <2>1. s \in Span
    BY <1>13, Visits DEF CollectSpan
  <2>a. next' \in [Goroutine -> Nat]
    <3>1. next \in [Goroutine -> Nat] /\ next[g] + 1 \in Nat
      BY DEF TypeOK
    <3> QED
      BY <1>13, <3>1 DEF CollectSpan, NextSpan
  <2>b. collected' \in [Span -> BOOLEAN]
    BY <1>13, <2>1 DEF CollectSpan, TypeOK
  <2>c. out' \in [Goroutine -> SUBSET Span]
    <3>1. out' = out \/ out' = [out EXCEPT ![g] = @ \cup {s}]
      BY <1>13 DEF CollectSpan
    <3>2. out \in [Goroutine -> SUBSET Span]
      BY DEF TypeOK
    <3> HIDE DEF s
    <3> QED
      BY <2>1, <3>1, <3>2
  <2>3. seen \in Snap /\ snap \in [Span -> Snap]
    BY <2>1 DEF TypeOK
  <2>4. snap' = snap \/ snap' = [snap EXCEPT ![s] = seen]
    BY <1>13 DEF CollectSpan
  <2>5. snap' \in [Span -> Snap]
    <3> HIDE DEF s, seen, Snap
    <3> QED
      BY <2>3, <2>4
  <2> QED
    BY <1>13, <2>a, <2>b, <2>c, <2>5 DEF CollectSpan, TypeOK
<1>14. ASSUME NEW g \in Goroutine, EndOfSpans(g) PROVE TypeOK'
  BY <1>14 DEF EndOfSpans, TypeOK, PCs
<1>15. ASSUME NEW g \in Goroutine, SendTrace(g) PROVE TypeOK'
  <2>1. /\ Append(traceChan, out[g]) \in Seq(SUBSET Span)
        /\ Len(Append(traceChan, out[g])) = Len(traceChan) + 1
        /\ Len(traceChan) \in Nat
        /\ traceChan \in Seq(SUBSET Span) /\ Len(traceChan) <= ChanSize
    BY DEF TypeOK
  <2>2. traceChan' \in Seq(SUBSET Span) /\ Len(traceChan') <= ChanSize
    <3>1. traceChan' = traceChan \/ (HasRoom /\ traceChan' = Append(traceChan, out[g]))
      BY <1>15 DEF SendTrace
    <3> QED
      BY <2>1, <3>1 DEF HasRoom
  <2>3. out[g] \subseteq Span /\ dropped' \subseteq Span
    BY <1>15 DEF SendTrace, TypeOK
  <2> QED
    BY <1>15, <2>2, <2>3 DEF SendTrace, TypeOK, PCs
<1>16. CASE Receive
  <2>1. /\ Head(traceChan) \in SUBSET Span
        /\ Tail(traceChan) \in Seq(SUBSET Span)
        /\ Len(Tail(traceChan)) <= ChanSize
    BY <1>16 DEF Receive, TypeOK, PCs
  <2> QED
    BY <1>16, <2>1 DEF Receive, TypeOK, PCs
<1>17. CASE UNCHANGED vars
  BY <1>17 DEF vars, TypeOK, PCs
<1> HIDE DEF Goto, Return, ctxVars, spanVars, goVars, chanVars, histVars
<1> QED
  BY <1>1, <1>2, <1>3, <1>4, <1>5, <1>6, <1>7, <1>8, <1>9, <1>10, <1>11, <1>12,
     <1>13, <1>14, <1>15, <1>16, <1>17 DEF Next, User, FinishStep
-----------------------------------------------------------------------------
(* The steps, seen through the variables the other conjuncts talk about     *)

core == <<spans, finishCount, sampled, ctx, finished, collected,
          pc, cur, next, upto, out, traceChan, taken, dropped>>

\* startSpan: a new span joins a trace, which is new if its sampling changes.
Adds(t, s) ==
    /\ s \notin Started
    /\ spans' = [spans EXCEPT ![t] = Append(@, s)]
    /\ ctx' = [ctx EXCEPT ![s] = t]
    /\ \/ sampled' = sampled
       \/ \E smp \in BOOLEAN : sampled' = [sampled EXCEPT ![t] = smp]
    /\ UNCHANGED <<finishCount, finished, collected, pc, cur, next, upto, out,
                   traceChan, taken, dropped>>

\* A step of Finish between its two atomic sections.
Advances(g) ==
    /\ pc[g] \in {"stamping", "capturing", "metering"}
    /\ \E l \in {"capturing", "metering", "counting"} : pc' = [pc EXCEPT ![g] = l]
    /\ UNCHANGED <<spans, finishCount, sampled, ctx, finished, collected,
                   cur, next, upto, out, traceChan, taken, dropped>>

LEMMA StepCases ==
    ASSUME TypeOK, [Next]_vars
    PROVE  \/ \E t \in Trace, s \in Span : Adds(t, s)
           \/ \E g \in Goroutine, s \in Span : Finish(g, s)
           \/ \E g \in Goroutine : Advances(g)
           \/ \E g \in Goroutine : FinishSpan(g)
           \/ \E g \in Goroutine : Collect(g)
           \/ \E g \in Goroutine : CollectSpan(g)
           \/ \E g \in Goroutine : EndOfSpans(g)
           \/ \E g \in Goroutine : SendTrace(g)
           \/ Receive
           \/ UNCHANGED core
<1>1. ASSUME NEW t \in Trace, NEW s \in Span, NEW ty \in Types, NEW smp \in BOOLEAN,
             NEW flag \in BOOLEAN, StartRoot(t, s, ty, smp, flag)
      PROVE  Adds(t, s)
  BY <1>1 DEF StartRoot, AddSpan, Adds, goVars, chanVars
<1>2. ASSUME NEW parent \in Span, NEW s \in Span, NEW ty \in Types,
             StartChild(parent, s, ty)
      PROVE  ctx[parent] \in Trace /\ Adds(ctx[parent], s)
  BY <1>2 DEF StartChild, AddSpan, Adds, goVars, chanVars, TypeOK, Started
<1>3. ASSUME NEW s \in Span, NEW flag \in BOOLEAN, SetEmitControl(s, flag)
      PROVE  UNCHANGED core
  BY <1>3 DEF SetEmitControl, core, ctxVars, goVars, chanVars
<1>4. ASSUME NEW a \in Annotator, NEW s \in Span, RecordError(a, s) \/ SetStatus(a, s)
      PROVE  UNCHANGED core
  BY <1>4 DEF RecordError, SetStatus, Annotate, core, ctxVars, spanVars, chanVars
<1>5. ASSUME NEW a \in Annotator, AppendError(a) PROVE UNCHANGED core
  BY <1>5 DEF AppendError, core, ctxVars, chanVars
<1>6. ASSUME NEW a \in Annotator, NEW st \in Statuses, WriteStatus(a, st)
      PROVE  UNCHANGED core
  BY <1>6 DEF WriteStatus, core, ctxVars, chanVars
<1>7. ASSUME NEW g \in Goroutine, NEW st \in {0, 1}, Stamp(g, st) PROVE Advances(g)
  BY <1>7 DEF Stamp, Advances, Goto, ctxVars, chanVars
<1>8. ASSUME NEW g \in Goroutine, NEW panic \in Panics, CapturePanic(g, panic)
      PROVE  Advances(g)
  BY <1>8 DEF CapturePanic, Advances, Goto, ctxVars, chanVars
<1>9. ASSUME NEW g \in Goroutine, EmitMetric(g) PROVE Advances(g)
  BY <1>9 DEF EmitMetric, Advances, Goto, ctxVars, spanVars, chanVars
<1>10. CASE UNCHANGED vars
  BY <1>10 DEF vars, core, ctxVars, spanVars, goVars, chanVars
<1> QED
  BY <1>1, <1>2, <1>3, <1>4, <1>5, <1>6, <1>7, <1>8, <1>9, <1>10
  DEF Next, User, FinishStep

\* What appending a span to its trace leaves alone and what it adds.
LEMMA AddFacts ==
    ASSUME TypeOK, SpanLists, NEW t \in Trace, NEW s \in Span, Adds(t, s)
    PROVE  /\ \A u \in Trace : \A i \in 1..Len(spans[u]) :
                 spans[u][i] \in Started /\ spans[u][i] # s
           /\ \A u \in Trace : u # t => spans'[u] = spans[u]
           /\ Len(spans[t]) \in Nat
           /\ Len(spans'[t]) = Len(spans[t]) + 1
           /\ \A i \in 1..Len(spans[t]) : spans'[t][i] = spans[t][i]
           /\ spans'[t][Len(spans[t]) + 1] = s
           /\ ctx'[s] = t
           /\ \A x \in Span : x # s => ctx'[x] = ctx[x]
<1>1. \A u \in Trace : \A i \in 1..Len(spans[u]) :
          spans[u][i] \in Span /\ ctx[spans[u][i]] = u
  BY DEF TypeOK, SpanLists
<1>2. \A u \in Trace : \A i \in 1..Len(spans[u]) :
          spans[u][i] \in Started /\ spans[u][i] # s
  BY <1>1 DEF Adds, Started
<1>3. spans[t] \in Seq(Span) /\ spans'[t] = Append(spans[t], s)
  BY DEF TypeOK, Adds
<1>4. \A u \in Trace : u # t => spans'[u] = spans[u]
  BY DEF TypeOK, Adds
<1>5. ctx'[s] = t /\ \A x \in Span : x # s => ctx'[x] = ctx[x]
  BY DEF TypeOK, Adds
<1> QED
  BY <1>2, <1>3, <1>4, <1>5

LEMMA SpanListsStep == IndInv /\ [Next]_vars => SpanLists'
<1> SUFFICES ASSUME TypeOK, SpanLists, [Next]_vars PROVE SpanLists'
  BY DEF IndInv
<1>1. ASSUME NEW t \in Trace, NEW s \in Span, Adds(t, s) PROVE SpanLists'
  <2>1. \A u \in Trace : \A i \in 1..Len(spans'[u]) : ctx'[spans'[u][i]] = u
    <3>1. SUFFICES ASSUME NEW u \in Trace, NEW i \in 1..Len(spans'[u])
                   PROVE  ctx'[spans'[u][i]] = u
      OBVIOUS
    <3>2. \A v \in Trace : \A k \in 1..Len(spans[v]) : ctx'[spans[v][k]] = v
      BY <1>1, AddFacts DEF SpanLists, Started
    <3>3. CASE u # t
      BY <1>1, <3>2, <3>3, AddFacts
    <3>4. CASE u = t
      <4>1. i \in 1..Len(spans[t]) \/ i = Len(spans[t]) + 1
        BY <1>1, <3>4, AddFacts
      <4> QED
        BY <1>1, <3>2, <3>4, <4>1, AddFacts
    <3> QED
      BY <3>3, <3>4
  <2>2. \A u \in Trace : \A i, j \in 1..Len(spans'[u]) :
            spans'[u][i] = spans'[u][j] => i = j
    <3>1. SUFFICES ASSUME NEW u \in Trace, NEW i \in 1..Len(spans'[u]),
                          NEW j \in 1..Len(spans'[u]), spans'[u][i] = spans'[u][j]
                   PROVE  i = j
      OBVIOUS
    <3>2. CASE u # t
      BY <1>1, <3>1, <3>2, AddFacts DEF SpanLists
    <3>3. CASE u = t
      <4>1. i \in 1..Len(spans[t]) \/ i = Len(spans[t]) + 1
        BY <1>1, <3>3, AddFacts
      <4>2. j \in 1..Len(spans[t]) \/ j = Len(spans[t]) + 1
        BY <1>1, <3>3, AddFacts
      <4>3. \A k, l \in 1..Len(spans[t]) : spans[t][k] = spans[t][l] => k = l
        BY DEF SpanLists
      <4>4. /\ \A k \in 1..Len(spans[t]) : spans'[t][k] = spans[t][k] /\ spans[t][k] # s
            /\ spans'[t][Len(spans[t]) + 1] = s
        BY <1>1, AddFacts
      <4>5. CASE i = Len(spans[t]) + 1
        BY <3>1, <3>3, <4>2, <4>4, <4>5
      <4>6. CASE j = Len(spans[t]) + 1
        BY <3>1, <3>3, <4>1, <4>4, <4>6
      <4>7. CASE i \in 1..Len(spans[t]) /\ j \in 1..Len(spans[t])
        BY <3>1, <3>3, <4>3, <4>4, <4>7
      <4> QED
        BY <4>1, <4>2, <4>5, <4>6, <4>7
    <3> QED
      BY <3>2, <3>3
  <2>3. ASSUME NEW x \in Span, ctx'[x] # NoTrace
        PROVE  \E i \in 1..Len(spans'[ctx'[x]]) : spans'[ctx'[x]][i] = x
    <3>1. CASE x = s
      BY <1>1, <3>1, AddFacts
    <3>2. CASE x # s
      <4>1. x \in Started /\ ctx'[x] = ctx[x] /\ ctx[x] \in Trace
        BY <1>1, <2>3, <3>2, AddFacts DEF Started, TypeOK
      <4>2. PICK i \in 1..Len(spans[ctx[x]]) : spans[ctx[x]][i] = x
        BY <4>1 DEF SpanLists
      <4> QED
        BY <1>1, <4>1, <4>2, AddFacts
    <3> QED
      BY <3>1, <3>2
  <2> QED
    BY <2>1, <2>2, <2>3 DEF SpanLists, Started
<1>2. CASE UNCHANGED <<spans, ctx>>
  BY <1>2 DEF SpanLists, Started
<1> QED
  BY <1>1, <1>2, StepCases DEF Finish, Advances, FinishSpan, Collect, CollectSpan,
     EndOfSpans, SendTrace, Receive, core, ctxVars, spanVars

LEMMA GoroutinesStep == IndInv /\ [Next]_vars => Goroutines'
<1> SUFFICES ASSUME TypeOK, SpanLists, Goroutines, [Next]_vars PROVE Goroutines'
  BY DEF IndInv
<1> USE DEF Goto, Return, InFinish
<1>t. /\ pc \in [Goroutine -> PCs]
      /\ cur \in [Goroutine -> Span \cup {NoSpan}]
      /\ finished \in [Span -> BOOLEAN]
      /\ collected \in [Span -> BOOLEAN]
  BY DEF TypeOK
<1>1. ASSUME NEW t \in Trace, NEW s \in Span, Adds(t, s) PROVE Goroutines'
  <2>1. \A x \in Started : x \in Started' /\ ctx'[x] = ctx[x]
    BY <1>1, AddFacts DEF Started, Adds
  <2>2. \A u \in Trace : Len(spans[u]) \in Nat /\ Len(spans'[u]) >= Len(spans[u])
    <3>1. \A u \in Trace : Len(spans[u]) \in Nat
      BY DEF TypeOK
    <3>2. /\ \A u \in Trace : u # t => spans'[u] = spans[u]
          /\ Len(spans'[t]) = Len(spans[t]) + 1
      BY <1>1, AddFacts
    <3> QED
      BY <3>1, <3>2
  <2>3. ASSUME NEW g \in Goroutine, pc[g] = "emitting"
        PROVE  upto[g] <= Len(spans'[ctx'[cur[g]]])
    <3>1. cur[g] \in Started /\ ctx[cur[g]] \in Trace /\ upto[g] \in Nat
      BY <2>3, Busy DEF Goroutines, TypeOK
    <3> QED
      BY <2>1, <2>2, <2>3, <3>1 DEF Goroutines
  <2> QED
    BY <1>1, <2>1, <2>3 DEF Goroutines, Adds
<1>2. ASSUME NEW g \in Goroutine, NEW s \in Span, Finish(g, s) PROVE Goroutines'
  BY <1>2, <1>t DEF Goroutines, Finish, FirstFinish, ctxVars, Started
<1>3. ASSUME NEW g \in Goroutine, Advances(g) PROVE Goroutines'
  BY <1>3, <1>t DEF Goroutines, Advances, Started
<1>4. ASSUME NEW g \in Goroutine, FinishSpan(g) PROVE Goroutines'
  BY <1>4, <1>t DEF Goroutines, FinishSpan, spanVars, Started
<1>5. ASSUME NEW g \in Goroutine, Collect(g) PROVE Goroutines'
  <2>1. UNCHANGED <<spans, ctx, finished, collected>>
    BY <1>5 DEF Collect, ctxVars, spanVars
  <2>2. \A h \in Goroutine : h # g =>
            pc'[h] = pc[h] /\ cur'[h] = cur[h] /\ next'[h] = next[h] /\ upto'[h] = upto[h]
    BY <1>5, <1>t DEF Collect, TypeOK
  <2>3. \/ pc'[g] = "idle" /\ cur'[g] = NoSpan
        \/ /\ pc'[g] = "emitting" /\ cur'[g] = cur[g] /\ pc[g] # "idle"
           /\ next'[g] = 1 /\ upto'[g] = Len(spans[ctx[cur[g]]])
    BY <1>5, <1>t DEF Collect, TypeOK
  <2>4. Len(spans[ctx[cur[g]]]) \in Nat
    BY <1>5, Busy DEF Collect, TypeOK
  <2> QED
    BY <2>1, <2>2, <2>3, <2>4 DEF Goroutines, Started
<1>6. ASSUME NEW g \in Goroutine, CollectSpan(g) PROVE Goroutines'
  <2> DEFINE s == spans[ctx[cur[g]]][next[g]]
  <2>1. s \in Started
    <3>1. /\ ctx[cur[g]] \in Trace /\ next[g] \in 1..Len(spans[ctx[cur[g]]])
          /\ s \in Span
      BY <1>6, Visits DEF CollectSpan
    <3>2. ctx[s] \in Trace
      BY <3>1 DEF SpanLists
    <3> QED
      BY <3>1, <3>2 DEF Started
  <2>2. UNCHANGED <<spans, ctx, finished, pc, cur, upto>>
    BY <1>6 DEF CollectSpan, ctxVars
  <2>3. \A x \in Span : x # s => collected'[x] = collected[x]
    BY <1>6, <1>t DEF CollectSpan
  <2>4. \A h \in Goroutine : next'[h] = next[h] \/ next'[h] = next[h] + 1
    BY <1>6 DEF CollectSpan, NextSpan, TypeOK
  <2>5. \A h \in Goroutine : next[h] \in Nat
    BY DEF TypeOK
  <2> HIDE DEF s
  <2> QED
    BY <2>1, <2>2, <2>3, <2>4, <2>5 DEF Goroutines, Started
<1>7. ASSUME NEW g \in Goroutine, EndOfSpans(g) PROVE Goroutines'
  BY <1>7, <1>t DEF Goroutines, EndOfSpans, ctxVars, spanVars, Started
<1>8. ASSUME NEW g \in Goroutine, SendTrace(g) PROVE Goroutines'
  BY <1>8, <1>t DEF Goroutines, SendTrace, ctxVars, spanVars, Started
<1>9. CASE UNCHANGED <<spans, ctx, finished, collected, pc, cur, next, upto>>
  BY <1>9 DEF Goroutines, Started
<1> HIDE DEF Goto, Return, InFinish
<1> QED
  BY <1>1, <1>2, <1>3, <1>4, <1>5, <1>6, <1>7, <1>8, <1>9, StepCases
  DEF Receive, core, ctxVars, spanVars, goVars

-----------------------------------------------------------------------------
(* finishCount counts exactly                                              *)

\* Counting looks at the finished flags and at who is inside Finish only.
LEMMA SameCounted ==
    ASSUME UNCHANGED finished,
           \A g \in Goroutine : InFinish(g)' = InFinish(g)
                                /\ (InFinish(g) => cur'[g] = cur[g])
    PROVE  \A s \in Span : Counted(s)' = Counted(s)
BY DEF Counted, Finishing

\* The sets FinishCountExact takes the cardinality of are finite and no larger
\* than the trace.
LEMMA CountBound ==
    ASSUME TypeOK, NEW t \in Trace
    PROVE  /\ IsFiniteSet(CountedIn(t))
           /\ Cardinality(CountedIn(t)) \in Nat
           /\ Cardinality(CountedIn(t)) <= Len(spans[t])
           /\ Cardinality(CountedIn(t)) = Len(spans[t]) => CountedIn(t) = 1..Len(spans[t])
<1>1. Len(spans[t]) \in Nat
  BY DEF TypeOK
<1>2. IsFiniteSet(1..Len(spans[t])) /\ Cardinality(1..Len(spans[t])) = Len(spans[t])
  <2>1. \A n \in Nat : IsFiniteSet(1..n) /\ Cardinality(1..n) = n
    BY FS_Interval
  <2> QED
    BY <1>1, <2>1
<1>3. CountedIn(t) \in SUBSET (1..Len(spans[t]))
  BY DEF CountedIn
<1> QED
  BY <1>2, <1>3, FS_Subset, FS_CardinalityType

LEMMA CountStep == IndInv /\ [Next]_vars => FinishCountExact'
<1> SUFFICES ASSUME TypeOK, SpanLists, Goroutines, FinishCountExact, [Next]_vars
             PROVE  FinishCountExact'
  BY DEF IndInv
<1>t. /\ pc \in [Goroutine -> PCs]
      /\ cur \in [Goroutine -> Span \cup {NoSpan}]
      /\ finished \in [Span -> BOOLEAN]
  BY DEF TypeOK
\* A step that leaves the lists, the counts and who is counted alone.
<1>a. ASSUME UNCHANGED <<spans, finishCount>>, \A s \in Span : Counted(s)' = Counted(s)
      PROVE  FinishCountExact'
  <2>1. \A t \in Trace : CountedIn(t)' = CountedIn(t)
    BY <1>a DEF CountedIn, TypeOK
  <2> QED
    BY <1>a, <2>1 DEF FinishCountExact
<1>1. ASSUME NEW t \in Trace, NEW s \in Span, Adds(t, s) PROVE FinishCountExact'
  <2>1. \A x \in Span : Counted(x)' = Counted(x)
    BY <1>1, SameCounted DEF Adds, InFinish
  <2>2. ~Counted(s)
    BY <1>1 DEF Adds, Goroutines, Counted
  <2>3. \A u \in Trace : CountedIn(u)' = CountedIn(u)
    <3>1. \A u \in Trace : u # t => CountedIn(u)' = CountedIn(u)
      BY <1>1, <2>1, AddFacts DEF CountedIn, Started
    <3>2. CountedIn(t)' = CountedIn(t)
      <4>1. /\ Len(spans[t]) \in Nat
            /\ Len(spans'[t]) = Len(spans[t]) + 1
            /\ \A i \in 1..Len(spans[t]) : spans'[t][i] = spans[t][i] /\ spans[t][i] \in Span
            /\ spans'[t][Len(spans[t]) + 1] = s
        BY <1>1, AddFacts DEF Started
      <4>2. ASSUME NEW i \in 1..Len(spans'[t])
            PROVE  i \in CountedIn(t)' <=> i \in CountedIn(t)
        <5>1. CASE i = Len(spans[t]) + 1
          BY <2>1, <2>2, <4>1, <5>1 DEF CountedIn
        <5>2. CASE i \in 1..Len(spans[t])
          BY <2>1, <4>1, <5>2 DEF CountedIn
        <5> QED
          BY <4>1, <5>1, <5>2
      <4> QED
        BY <4>1, <4>2 DEF CountedIn
    <3> QED
      BY <3>1, <3>2
  <2>4. UNCHANGED finishCount
    BY <1>1 DEF Adds
  <2> QED
    BY <2>3, <2>4 DEF FinishCountExact
<1>2. ASSUME NEW g \in Goroutine, NEW s \in Span, Finish(g, s) PROVE FinishCountExact'
  <2>1. /\ finished' = [finished EXCEPT ![s] = TRUE]
        /\ pc' = [pc EXCEPT ![g] = "stamping"]
        /\ cur' = [cur EXCEPT ![g] = s]
        /\ pc[g] = "idle" /\ ~finished[s]
        /\ UNCHANGED <<spans, finishCount>>
    BY <1>2 DEF Finish, FirstFinish, Goto, ctxVars
  <2>2. \A x \in Span : x # s => (Finishing(x)' <=> Finishing(x))
    BY <1>t, <2>1 DEF Finishing, InFinish
  <2>3. Finishing(s)'
    BY <1>t, <2>1 DEF Finishing, InFinish
  <2>4. \A x \in Span : Counted(x)' = Counted(x)
    BY <1>t, <2>1, <2>2, <2>3 DEF Counted
  <2> QED
    BY <1>a, <2>1, <2>4
<1>3. ASSUME NEW g \in Goroutine, Advances(g) PROVE FinishCountExact'
  <2>1. \A h \in Goroutine : InFinish(h)' = InFinish(h)
    BY <1>3, <1>t DEF Advances, InFinish
  <2>2. UNCHANGED <<finished, cur, spans, finishCount>>
    BY <1>3 DEF Advances
  <2> QED
    BY <1>a, <2>1, <2>2, SameCounted
<1>4. ASSUME NEW g \in Goroutine, FinishSpan(g) PROVE FinishCountExact'
  <2>a. PICK s \in Span, t \in Trace : s = cur[g] /\ t = ctx[s]
    BY <1>4, Busy DEF FinishSpan
  <2>1. s \in Started /\ finished[s]
    BY <1>4, <2>a, Busy DEF FinishSpan, Started
  <2>2. /\ finishCount' = [finishCount EXCEPT ![t] = @ + 1]
        /\ UNCHANGED <<spans, ctx, finished>>
    BY <1>4, <2>a DEF FinishSpan, spanVars
  <2>3. /\ pc[g] = "counting" /\ pc'[g] \in {"collecting", "idle"}
        /\ \A h \in Goroutine : h # g => pc'[h] = pc[h] /\ cur'[h] = cur[h]
    BY <1>4, <1>t DEF FinishSpan, Goto, Return
  <2>4. Counted(s)' /\ ~Counted(s)
    <3>1. Finishing(s)
      BY <2>a, <2>3 DEF Finishing, InFinish
    <3>2. \A h \in Goroutine : h # g /\ InFinish(h) => cur[h] # s
      BY <2>a, <2>3 DEF Goroutines, InFinish
    <3>3. ~Finishing(s)'
      BY <2>3, <3>2 DEF Finishing, InFinish
    <3> QED
      BY <2>1, <2>2, <3>1, <3>3 DEF Counted
  <2>5. \A x \in Span : x # s => Counted(x)' = Counted(x)
    BY <1>t, <2>a, <2>2, <2>3 DEF Counted, Finishing, InFinish
  <2>6. PICK k \in 1..Len(spans[t]) : spans[t][k] = s
    <3>1. s \in Started /\ ctx[s] = t
      BY <2>1, <2>a
    <3> QED
      BY <3>1 DEF SpanLists
  <2>7. \A i \in 1..Len(spans[t]) : i # k => spans[t][i] # s
    BY <2>1, <2>6 DEF SpanLists
  <2>8. \A u \in Trace : \A i \in 1..Len(spans[u]) :
            spans[u][i] \in Span /\ (u # t => spans[u][i] # s)
    <3>1. \A u \in Trace : \A i \in 1..Len(spans[u]) : spans[u][i] \in Span
      BY DEF TypeOK
    <3>2. \A u \in Trace : \A i \in 1..Len(spans[u]) : ctx[spans[u][i]] = u
      BY DEF SpanLists
    <3>3. ctx[s] = t
      BY <2>1, <2>a
    <3> QED
      BY <3>1, <3>2, <3>3
  <2>9. CountedIn(t)' = CountedIn(t) \cup {k} /\ k \notin CountedIn(t)
    <3>1. \A i \in 1..Len(spans[t]) : i # k =>
              Counted(spans[t][i])' = Counted(spans[t][i])
      BY <2>1, <2>2, <2>5, <2>7, <2>8
    <3>2. Counted(spans[t][k])' /\ ~Counted(spans[t][k])
      BY <2>2, <2>4, <2>6
    <3> QED
      BY <2>2, <3>1, <3>2 DEF CountedIn
  <2>10. \A u \in Trace : u # t => CountedIn(u)' = CountedIn(u)
    BY <2>2, <2>5, <2>8 DEF CountedIn
  <2>11. Cardinality(CountedIn(t)') = Cardinality(CountedIn(t)) + 1
    BY <2>1, <2>9, CountBound, FS_AddElement
  <2>12. finishCount \in [Trace -> Nat]
    BY DEF TypeOK
  <2>13. ASSUME NEW u \in Trace PROVE finishCount'[u] = Cardinality(CountedIn(u)')
    <3>1. CASE u = t
      BY <2>1, <2>2, <2>11, <2>12, <3>1 DEF FinishCountExact
    <3>2. CASE u # t
      BY <2>1, <2>2, <2>10, <2>12, <3>2 DEF FinishCountExact
    <3> QED
      BY <3>1, <3>2
  <2> QED
    BY <2>13 DEF FinishCountExact
<1>5. ASSUME NEW g \in Goroutine,
             Collect(g) \/ CollectSpan(g) \/ EndOfSpans(g) \/ SendTrace(g)
      PROVE  FinishCountExact'
  <2>1. UNCHANGED <<spans, finishCount, finished>>
    BY <1>5 DEF Collect, CollectSpan, EndOfSpans, SendTrace, ctxVars, spanVars
  <2>2. /\ pc[g] \in {"collecting", "emitting", "sending"}
        /\ pc'[g] \in {"emitting", "sending", "idle"}
        /\ \A h \in Goroutine : h # g => pc'[h] = pc[h] /\ cur'[h] = cur[h]
    BY <1>5, <1>t DEF Collect, CollectSpan, EndOfSpans, SendTrace, Goto, Return
  <2>3. \A h \in Goroutine : InFinish(h)' = InFinish(h)
                             /\ (InFinish(h) => cur'[h] = cur[h])
    BY <2>2 DEF InFinish
  <2> QED
    BY <1>a, <2>1, <2>3, SameCounted
<1>6. CASE UNCHANGED <<spans, finishCount, finished, pc, cur>>
  BY <1>6, <1>a, SameCounted DEF InFinish
<1> QED
  BY <1>1, <1>2, <1>3, <1>4, <1>5, <1>6, StepCases
  DEF Receive, core, ctxVars, spanVars, goVars

-----------------------------------------------------------------------------
(* Somebody is always responsible for the spans of a finished trace        *)

LEMMA ResponsibilityStep == IndInv /\ [Next]_vars => Responsibility'
<1> SUFFICES ASSUME TypeOK, SpanLists, Goroutines, FinishCountExact, Responsibility,
                    [Next]_vars, ~ControlEnable,
                    NEW t \in Trace, sampled'[t], finishCount'[t] = Len(spans'[t]),
                    NEW s \in Span, ctx'[s] = t
             PROVE  collected'[s] \/ ToBeCollected(s)'
  BY DEF IndInv, Responsibility, SpansOf
<1>t. /\ pc \in [Goroutine -> PCs]
      /\ cur \in [Goroutine -> Span \cup {NoSpan}]
      /\ next \in [Goroutine -> Nat] /\ upto \in [Goroutine -> Nat]
      /\ collected \in [Span -> BOOLEAN]
  BY DEF TypeOK
<1>c. finishCount[t] = Cardinality(CountedIn(t)) /\ finishCount[t] <= Len(spans[t])
  BY CountBound DEF FinishCountExact
\* Before a step that does not touch t, somebody was responsible for s.
<1>r. ASSUME UNCHANGED <<spans, ctx, sampled>>, finishCount'[t] = finishCount[t]
      PROVE  collected[s] \/ ToBeCollected(s)
  BY <1>r DEF Responsibility, SpansOf
\* Goroutines that do not move keep their responsibility.
<1>k. ASSUME NEW g \in Goroutine, UNCHANGED <<spans, ctx>>,
             cur[g] # NoSpan, ctx[cur[g]] = ctx[s],
             pc[g] = "collecting"
             \/ (pc[g] = "emitting" /\ \E i \in next[g]..upto[g] : spans[ctx[s]][i] = s),
             pc'[g] = pc[g], cur'[g] = cur[g], next'[g] = next[g], upto'[g] = upto[g]
      PROVE  ToBeCollected(s)'
  BY <1>k DEF ToBeCollected
<1>1. ASSUME NEW u \in Trace, NEW x \in Span, Adds(u, x)
      PROVE  collected'[s] \/ ToBeCollected(s)'
  <2>1. u # t
    <3>1. finishCount'[t] = finishCount[t] /\ finishCount[t] \in Nat
      BY <1>1 DEF Adds, TypeOK
    <3>2. u = t => Len(spans[t]) \in Nat /\ Len(spans'[t]) = Len(spans[t]) + 1
      BY <1>1, AddFacts
    <3> QED
      BY <1>c, <3>1, <3>2
  <2>2. s # x /\ ctx[s] = t /\ spans'[t] = spans[t]
    BY <1>1, <2>1, AddFacts
  <2>3. sampled[t] /\ finishCount[t] = Len(spans[t])
    BY <1>1, <2>1, <2>2 DEF Adds, TypeOK
  <2>4. CASE collected[s]
    BY <1>1, <2>4 DEF Adds
  <2>5. CASE ToBeCollected(s)
    <3>1. PICK g \in Goroutine :
             /\ cur[g] # NoSpan
             /\ ctx[cur[g]] = ctx[s]
             /\ \/ pc[g] = "collecting"
                \/ /\ pc[g] = "emitting"
                   /\ \E i \in next[g]..upto[g] : spans[ctx[s]][i] = s
      BY <2>5 DEF ToBeCollected
    <3>2. cur[g] \in Span /\ cur[g] # x
      BY <1>1, <1>t, <2>2, <3>1 DEF Adds, Started
    <3>3. ctx'[cur[g]] = ctx[cur[g]] /\ ctx'[s] = ctx[s]
      BY <1>1, <2>2, <3>2, AddFacts
    <3>4. UNCHANGED <<pc, cur, next, upto>>
      BY <1>1 DEF Adds
    <3> QED
      BY <2>2, <3>1, <3>3, <3>4 DEF ToBeCollected
  <2>6. s \in SpansOf(t)
    BY <2>2 DEF SpansOf
  <2>7. collected[s] \/ ToBeCollected(s)
    BY <2>3, <2>6 DEF Responsibility
  <2> QED
    BY <2>4, <2>5, <2>7
<1>2. ASSUME NEW g \in Goroutine, pc[g] \notin {"collecting", "emitting"},
             \A h \in Goroutine : h # g => /\ pc'[h] = pc[h]
                                           /\ cur'[h] = cur[h]
                                           /\ next'[h] = next[h]
                                           /\ upto'[h] = upto[h],
             UNCHANGED <<spans, ctx, sampled, collected>>,
             finishCount'[t] = finishCount[t]
      PROVE  collected'[s] \/ ToBeCollected(s)'
  <2>1. collected[s] \/ ToBeCollected(s)
    BY <1>2, <1>r
  <2>2. CASE ToBeCollected(s)
    <3>1. PICK h \in Goroutine :
             /\ cur[h] # NoSpan
             /\ ctx[cur[h]] = ctx[s]
             /\ \/ pc[h] = "collecting"
                \/ /\ pc[h] = "emitting"
                   /\ \E i \in next[h]..upto[h] : spans[ctx[s]][i] = s
      BY <2>2 DEF ToBeCollected
    <3>2. h # g
      BY <1>2, <3>1
    <3> QED
      BY <1>2, <1>k, <3>1, <3>2
  <2> QED
    BY <1>2, <2>1, <2>2
<1>3. ASSUME NEW g \in Goroutine, NEW x \in Span, Finish(g, x)
      PROVE  collected'[s] \/ ToBeCollected(s)'
  BY <1>3, <1>t, <1>2 DEF Finish, Goto, ctxVars
<1>4. ASSUME NEW g \in Goroutine, Advances(g)
      PROVE  collected'[s] \/ ToBeCollected(s)'
  BY <1>4, <1>t, <1>2 DEF Advances
<1>5. ASSUME NEW g \in Goroutine, FinishSpan(g)
      PROVE  collected'[s] \/ ToBeCollected(s)'
  <2>1. /\ UNCHANGED <<spans, ctx, sampled, collected, next, upto>>
        /\ finishCount' = [finishCount EXCEPT ![ctx[cur[g]]] = @ + 1]
        /\ pc[g] = "counting"
        /\ \A h \in Goroutine : h # g => pc'[h] = pc[h] /\ cur'[h] = cur[h]
    BY <1>5, <1>t DEF FinishSpan, Goto, Return, spanVars
  <2>2. CASE ctx[cur[g]] # t
    <3>1. finishCount'[t] = finishCount[t]
      BY <2>1, <2>2 DEF TypeOK
    <3> QED
      BY <1>2, <2>1, <3>1
  <2>3. CASE ctx[cur[g]] = t
    <3>1. finishCount[t] + 1 = Len(spans[t])
      BY <2>1, <2>3 DEF TypeOK
    <3>2. pc'[g] = "collecting" /\ cur'[g] = cur[g]
      BY <1>5, <1>t, <2>3, <3>1 DEF FinishSpan, LastToFinish, Goto
    <3>3. cur[g] # NoSpan
      BY <2>1 DEF Goroutines
    <3> QED
      BY <2>1, <2>3, <3>2, <3>3 DEF ToBeCollected
  <2> QED
    BY <2>2, <2>3
<1>6. ASSUME NEW g \in Goroutine, Collect(g)
      PROVE  collected'[s] \/ ToBeCollected(s)'
  <2>1. /\ UNCHANGED <<spans, ctx, sampled, collected, finishCount>>
        /\ pc[g] = "collecting"
        /\ \A h \in Goroutine : h # g => /\ pc'[h] = pc[h]
                                         /\ cur'[h] = cur[h]
                                         /\ next'[h] = next[h]
                                         /\ upto'[h] = upto[h]
    BY <1>6, <1>t DEF Collect, Goto, Return, ctxVars, spanVars
  <2>2. CASE ctx[cur[g]] = t
    <3>1. PICK i \in 1..Len(spans[t]) : spans[t][i] = s
      BY <2>1 DEF SpanLists, Started
    <3>2. sampled[t] /\ spans[t] # <<>>
      BY <2>1, <3>1
    <3>3. /\ pc'[g] = "emitting" /\ cur'[g] = cur[g]
          /\ next'[g] = 1 /\ upto'[g] = Len(spans[t])
      BY <1>6, <1>t, <2>2, <3>2 DEF Collect, ShouldEmit, Goto
    <3>4. cur[g] # NoSpan
      BY <2>1 DEF Goroutines
    <3> QED
      BY <2>1, <2>2, <3>1, <3>3, <3>4 DEF ToBeCollected
  <2>3. CASE ctx[cur[g]] # t
    <3>1. collected[s] \/ ToBeCollected(s)
      BY <1>r, <2>1
    <3>2. CASE ToBeCollected(s)
      <4>1. PICK h \in Goroutine :
               /\ cur[h] # NoSpan
               /\ ctx[cur[h]] = ctx[s]
               /\ \/ pc[h] = "collecting"
                  \/ /\ pc[h] = "emitting"
                     /\ \E i \in next[h]..upto[h] : spans[ctx[s]][i] = s
        BY <3>2 DEF ToBeCollected
      <4>2. h # g
        BY <2>1, <2>3, <4>1
      <4> QED
        BY <1>k, <2>1, <4>1, <4>2
    <3> QED
      BY <2>1, <3>1, <3>2
  <2> QED
    BY <2>2, <2>3
<1>7. ASSUME NEW g \in Goroutine, CollectSpan(g)
      PROVE  collected'[s] \/ ToBeCollected(s)'
  <2>1. /\ UNCHANGED <<spans, ctx, sampled, finishCount, pc, cur, upto>>
        /\ pc[g] = "emitting"
        /\ next' = [next EXCEPT ![g] = next[g] + 1]
        /\ collected'[spans[ctx[cur[g]]][next[g]]] = TRUE
        /\ \A x \in Span : collected[x] => collected'[x]
    <3>1. spans[ctx[cur[g]]][next[g]] \in Span
      <4>1. ctx[cur[g]] \in Trace
        BY <1>7, Busy DEF CollectSpan
      <4>2. /\ Len(spans[ctx[cur[g]]]) \in Nat
            /\ next[g] \in Nat /\ upto[g] \in Nat
        BY <4>1 DEF TypeOK
      <4>3. next[g] >= 1 /\ next[g] <= upto[g] /\ upto[g] <= Len(spans[ctx[cur[g]]])
        BY <1>7 DEF CollectSpan, Goroutines
      <4> QED
        BY <4>1, <4>2, <4>3 DEF TypeOK
    <3> QED
      BY <1>7, <1>t, <3>1 DEF CollectSpan, NextSpan, WinsSpan, ctxVars
  <2>2. collected[s] \/ ToBeCollected(s)
    BY <1>r, <2>1
  <2>3. CASE ToBeCollected(s)
    <3>1. PICK h \in Goroutine :
             /\ cur[h] # NoSpan
             /\ ctx[cur[h]] = ctx[s]
             /\ \/ pc[h] = "collecting"
                \/ /\ pc[h] = "emitting"
                   /\ \E i \in next[h]..upto[h] : spans[ctx[s]][i] = s
      BY <2>3 DEF ToBeCollected
    <3>2. CASE h # g
      BY <1>k, <1>t, <2>1, <3>1, <3>2
    <3>3. CASE h = g
      <4>1. PICK i \in next[g]..upto[g] : spans[ctx[s]][i] = s
        BY <2>1, <3>1, <3>3
      <4>2. CASE i = next[g]
        BY <2>1, <3>1, <3>3, <4>1, <4>2
      <4>3. CASE i # next[g]
        <5>1. i \in next'[g]..upto'[g]
          BY <1>t, <2>1, <4>3
        <5> QED
          BY <2>1, <3>1, <3>3, <4>1, <5>1 DEF ToBeCollected
      <4> QED
        BY <4>2, <4>3
    <3> QED
      BY <3>2, <3>3
  <2> QED
    BY <2>1, <2>2, <2>3
<1>8. ASSUME NEW g \in Goroutine, EndOfSpans(g)
      PROVE  collected'[s] \/ ToBeCollected(s)'
  <2>1. /\ UNCHANGED <<spans, ctx, sampled, collected, finishCount, cur, next, upto>>
        /\ pc[g] = "emitting" /\ next[g] > upto[g]
        /\ \A h \in Goroutine : h # g => pc'[h] = pc[h]
    BY <1>8, <1>t DEF EndOfSpans, Goto, ctxVars, spanVars
  <2>2. collected[s] \/ ToBeCollected(s)
    BY <1>r, <2>1
  <2>3. CASE ToBeCollected(s)
    <3>1. PICK h \in Goroutine :
             /\ cur[h] # NoSpan
             /\ ctx[cur[h]] = ctx[s]
             /\ \/ pc[h] = "collecting"
                \/ /\ pc[h] = "emitting"
                   /\ \E i \in next[h]..upto[h] : spans[ctx[s]][i] = s
      BY <2>3 DEF ToBeCollected
    <3>2. h # g
      BY <1>t, <2>1, <3>1
    <3> QED
      BY <1>k, <2>1, <3>1, <3>2
  <2> QED
    BY <2>1, <2>2, <2>3
<1>9. ASSUME NEW g \in Goroutine, SendTrace(g)
      PROVE  collected'[s] \/ ToBeCollected(s)'
  BY <1>9, <1>t, <1>2 DEF SendTrace, Goto, Return, ctxVars, spanVars
<1>10. CASE UNCHANGED <<spans, finishCount, sampled, ctx, collected, pc, cur, next, upto>>
  <2>1. collected[s] \/ ToBeCollected(s)
    BY <1>r, <1>10
  <2> QED
    BY <1>10, <2>1 DEF ToBeCollected
<1> QED
  BY <1>1, <1>3, <1>4, <1>5, <1>6, <1>7, <1>8, <1>9, <1>10, StepCases
  DEF Receive, core, ctxVars, spanVars, goVars

-----------------------------------------------------------------------------
(* No span is in two traces                                                *)

LEMMA ExportStep == IndInv /\ [Next]_vars => (OnlyCollected /\ ExportedOnce)'
<1> SUFFICES ASSUME TypeOK, SpanLists, Goroutines, OnlyCollected, ExportedOnce,
                    [Next]_vars
             PROVE  OnlyCollected' /\ ExportedOnce'
  BY DEF IndInv
<1>t. /\ out \in [Goroutine -> SUBSET Span]
      /\ traceChan \in Seq(SUBSET Span)
      /\ collected \in [Span -> BOOLEAN]
  BY DEF TypeOK
<1>1. CASE UNCHANGED <<collected, out, traceChan, taken, dropped>>
  BY <1>1 DEF OnlyCollected, ExportedOnce
<1>2. ASSUME NEW g \in Goroutine, CollectSpan(g) PROVE OnlyCollected' /\ ExportedOnce'
  <2>1. PICK s \in Span : s = spans[ctx[cur[g]]][next[g]]
    BY <1>2, Visits DEF CollectSpan
  <2>2. CASE collected[s]
    BY <1>1, <1>2, <2>1, <2>2 DEF CollectSpan, WinsSpan, chanVars
  <2>3. CASE ~collected[s]
    <3>1. /\ collected' = [collected EXCEPT ![s] = TRUE]
          /\ out' = [out EXCEPT ![g] = @ \cup {s}]
          /\ UNCHANGED <<traceChan, taken, dropped>>
      BY <1>2, <2>1, <2>3 DEF CollectSpan, WinsSpan, chanVars
    <3>2. /\ \A h \in Goroutine : s \notin out[h]
          /\ \A i \in DOMAIN traceChan : s \notin traceChan[i]
          /\ s \notin taken \cup dropped
      BY <2>3 DEF OnlyCollected
    <3>3. /\ \A x \in Span : collected[x] => collected'[x]
          /\ collected'[s]
      BY <1>t, <3>1
    <3>4. /\ out'[g] = out[g] \cup {s}
          /\ \A h \in Goroutine : h # g => out'[h] = out[h]
      BY <1>t, <3>1
    <3>5. OnlyCollected'
      BY <1>t, <3>1, <3>3, <3>4 DEF OnlyCollected, TypeOK
    <3>6. ExportedOnce'
      BY <3>1, <3>2, <3>4 DEF ExportedOnce
    <3> QED
      BY <3>5, <3>6
  <2> QED
    BY <2>2, <2>3
<1>3. ASSUME NEW g \in Goroutine, SendTrace(g) PROVE OnlyCollected' /\ ExportedOnce'
  <2>1. /\ out'[g] = {}
        /\ \A h \in Goroutine : h # g => out'[h] = out[h]
        /\ UNCHANGED <<collected, taken>>
    BY <1>3, <1>t DEF SendTrace, spanVars
  <2>2. CASE HasRoom
    <3>1. UNCHANGED dropped
      BY <1>3, <2>2 DEF SendTrace
    <3>2. /\ Len(traceChan) \in Nat
          /\ DOMAIN traceChan = 1..Len(traceChan)
          /\ DOMAIN traceChan' = 1..(Len(traceChan) + 1)
          /\ \A i \in DOMAIN traceChan : traceChan'[i] = traceChan[i]
          /\ traceChan'[Len(traceChan) + 1] = out[g]
      BY <1>3, <1>t, <2>2 DEF SendTrace
    <3>3. \A i \in DOMAIN traceChan' : i \in DOMAIN traceChan \/ i = Len(traceChan) + 1
      BY <3>2
    <3>4. OnlyCollected'
      BY <2>1, <3>1, <3>2, <3>3 DEF OnlyCollected
    <3>5. ExportedOnce'
      BY <2>1, <3>1, <3>2, <3>3 DEF ExportedOnce
    <3> QED
      BY <3>4, <3>5
  <2>3. CASE ~HasRoom
    <3>1. dropped' = dropped \cup out[g] /\ UNCHANGED traceChan
      BY <1>3, <2>3 DEF SendTrace
    <3> QED
      BY <2>1, <3>1 DEF OnlyCollected, ExportedOnce
  <2> QED
    BY <2>2, <2>3
<1>4. CASE Receive
  <2>1. /\ UNCHANGED <<collected, out, dropped>>
        /\ taken' = taken \cup traceChan[1]
        /\ 1 \in DOMAIN traceChan
        /\ \A i \in DOMAIN traceChan' : /\ i + 1 \in DOMAIN traceChan
                                        /\ traceChan'[i] = traceChan[i + 1]
                                        /\ i \in Nat /\ i # 0
    BY <1>4, <1>t DEF Receive, spanVars, goVars
  <2>2. OnlyCollected'
    BY <2>1 DEF OnlyCollected
  <2>3. ExportedOnce'
    BY <2>1 DEF ExportedOnce
  <2> QED
    BY <2>2, <2>3
<1> QED
  BY <1>1, <1>2, <1>3, <1>4, StepCases
  DEF Adds, Finish, Advances, FinishSpan, Collect, EndOfSpans, core, spanVars, chanVars

-----------------------------------------------------------------------------
(* What is collected is complete                                           *)

\* A span that is counted stays counted: nobody enters Finish for it again.
LEMMA CountedStays ==
    ASSUME IndInv, [Next]_vars, NEW s \in Span, Counted(s)
    PROVE  Counted(s)'
<1>t. /\ TypeOK
      /\ pc \in [Goroutine -> PCs]
      /\ cur \in [Goroutine -> Span \cup {NoSpan}]
      /\ finished \in [Span -> BOOLEAN]
  BY DEF IndInv, TypeOK
\* It is enough that whoever is inside Finish for s was there before.
<1>a. ASSUME finished'[s],
             \A g \in Goroutine : InFinish(g)' /\ cur'[g] = s => InFinish(g) /\ cur[g] = s
      PROVE  Counted(s)'
  BY <1>a DEF Counted, Finishing
<1>f. finished[s]
  BY DEF Counted
<1>1. ASSUME NEW g \in Goroutine, NEW x \in Span, Finish(g, x) PROVE Counted(s)'
  <2>1. /\ finished' = [finished EXCEPT ![x] = TRUE]
        /\ pc' = [pc EXCEPT ![g] = "stamping"]
        /\ cur' = [cur EXCEPT ![g] = x]
        /\ ~finished[x]
    BY <1>1 DEF Finish, FirstFinish, Goto
  <2>2. finished'[s] /\ x # s
    BY <1>f, <1>t, <2>1
  <2>3. cur'[g] = x
    BY <1>t, <2>1
  <2>4. \A h \in Goroutine : h # g => pc'[h] = pc[h] /\ cur'[h] = cur[h]
    BY <1>t, <2>1
  <2> QED
    BY <1>a, <2>2, <2>3, <2>4 DEF InFinish
<1>2. ASSUME NEW g \in Goroutine, Advances(g) PROVE Counted(s)'
  BY <1>2, <1>a, <1>f, <1>t DEF Advances, InFinish
<1>3. ASSUME NEW g \in Goroutine,
             \/ FinishSpan(g) \/ Collect(g) \/ CollectSpan(g)
             \/ EndOfSpans(g) \/ SendTrace(g)
      PROVE  Counted(s)'
  <2>1. UNCHANGED finished
    BY <1>3 DEF FinishSpan, Collect, CollectSpan, EndOfSpans, SendTrace, spanVars
  <2>2. pc'[g] \in {"idle", "collecting", "emitting", "sending"}
    BY <1>3, <1>t DEF FinishSpan, Collect, CollectSpan, EndOfSpans, SendTrace, Goto, Return
  <2>3. \A h \in Goroutine : h # g => pc'[h] = pc[h] /\ cur'[h] = cur[h]
    BY <1>3, <1>t DEF FinishSpan, Collect, CollectSpan, EndOfSpans, SendTrace, Goto, Return
  <2> QED
    BY <1>a, <1>f, <2>1, <2>2, <2>3 DEF InFinish
<1>4. CASE UNCHANGED <<finished, pc, cur>>
  BY <1>4, <1>a, <1>f DEF InFinish
<1> QED
  BY <1>1, <1>2, <1>3, <1>4, <1>t, StepCases DEF Adds, Receive, core, spanVars, goVars

\* Where a goroutine is in the first half of Finish decides about Filled.
FirstHalf == {"stamping", "capturing", "metering"}

LEMMA SameFilled ==
    ASSUME IndInv,
           UNCHANGED <<finished, stamped, panicked, metrics>>,
           \A s \in Span : errors[s] \subseteq errors'[s],
           \A s \in Span : s \in Started => spanType'[s] = spanType[s],
           \A g \in Goroutine : pc[g] \in FirstHalf \/ pc'[g] \in FirstHalf =>
               pc'[g] = pc[g] /\ cur'[g] = cur[g]
    PROVE  Filled'
<1>1. \A s \in Span : finished[s] =>
          stamped[s] \/ \E g \in Goroutine : cur'[g] = s /\ pc'[g] = "stamping"
  BY DEF IndInv, Filled, FirstHalf
<1>2. \A s \in panicked : "panic" \in errors'[s]
  BY DEF IndInv, Filled, TypeOK
<1>3. \A s \in Span : Metered(s)' = Metered(s)
  BY DEF Metered, FirstHalf
<1>4. \A s \in Span : Metered(s) => s \in Started
  BY DEF Metered, IndInv, Goroutines
<1>5. \A s \in Span :
          metrics[s] = IF (Metered(s) /\ Measured(s))' THEN 1 ELSE 0
  BY <1>3, <1>4 DEF IndInv, Filled, Measured
<1> QED
  BY <1>1, <1>2, <1>5 DEF Filled

LEMMA FilledStep == IndInv /\ [Next]_vars => Filled'
<1> SUFFICES ASSUME IndInv, [Next]_vars PROVE Filled'
  OBVIOUS
<1>t. /\ TypeOK /\ Goroutines
      /\ pc \in [Goroutine -> PCs]
      /\ cur \in [Goroutine -> Span \cup {NoSpan}]
      /\ finished \in [Span -> BOOLEAN]
      /\ stamped \in [Span -> BOOLEAN]
      /\ errors \in [Span -> SUBSET ErrorKinds]
      /\ metrics \in [Span -> Nat]
      /\ panicked \subseteq Span
  BY DEF IndInv, TypeOK
<1>i. /\ \A s \in Span : finished[s] =>
             stamped[s] \/ \E g \in Goroutine : cur[g] = s /\ pc[g] = "stamping"
      /\ \A s \in panicked : "panic" \in errors[s]
      /\ \A s \in Span :
             metrics[s] = IF Metered(s) /\ Measured(s) THEN 1 ELSE 0
  BY DEF IndInv, Filled
<1>1. ASSUME NEW t \in Trace, NEW s \in Span, NEW ty \in Types, NEW flag \in BOOLEAN,
             AddSpan(t, s, ty, flag), s \notin Started
      PROVE  Filled'
  <2>1. \A x \in Span : x \in Started => spanType'[x] = spanType[x]
    BY <1>1 DEF AddSpan, IndInv, TypeOK
  <2> QED
    BY <1>1, <2>1, SameFilled DEF AddSpan, goVars
<1>2. ASSUME NEW t \in Trace, NEW s \in Span, NEW ty \in Types, NEW smp \in BOOLEAN,
             NEW flag \in BOOLEAN, StartRoot(t, s, ty, smp, flag)
      PROVE  Filled'
  BY <1>1, <1>2 DEF StartRoot
<1>3. ASSUME NEW parent \in Span, NEW s \in Span, NEW ty \in Types,
             StartChild(parent, s, ty)
      PROVE  Filled'
  <2>1. ctx[parent] \in Trace /\ emitFlag[parent] \in BOOLEAN
    BY <1>3, <1>t DEF StartChild, TypeOK, Started
  <2> QED
    BY <1>1, <1>3, <2>1 DEF StartChild
<1>4. ASSUME UNCHANGED <<finished, stamped, panicked, metrics, spanType, pc, cur>>,
             \A s \in Span : errors[s] \subseteq errors'[s]
      PROVE  Filled'
  BY <1>4, SameFilled
<1>5. ASSUME NEW s \in Span, NEW flag \in BOOLEAN, SetEmitControl(s, flag) PROVE Filled'
  BY <1>4, <1>5 DEF SetEmitControl, goVars, histVars
<1>6. ASSUME NEW a \in Annotator, NEW s \in Span, RecordError(a, s) \/ SetStatus(a, s)
      PROVE  Filled'
  BY <1>4, <1>6 DEF RecordError, SetStatus, Annotate, spanVars, histVars
<1>7. ASSUME NEW a \in Annotator, AppendError(a) PROVE Filled'
  <2>1. \A s \in Span : errors[s] \subseteq errors'[s]
    BY <1>7, <1>t DEF AppendError
  <2> QED
    BY <1>4, <1>7, <2>1 DEF AppendError, histVars
<1>8. ASSUME NEW a \in Annotator, NEW st \in Statuses, WriteStatus(a, st) PROVE Filled'
  BY <1>4, <1>8 DEF WriteStatus, histVars
<1>9. ASSUME NEW g \in Goroutine, NEW s \in Span, Finish(g, s) PROVE Filled'
  <2>1. /\ finished' = [finished EXCEPT ![s] = TRUE]
        /\ pc' = [pc EXCEPT ![g] = "stamping"]
        /\ cur' = [cur EXCEPT ![g] = s]
        /\ pc[g] = "idle" /\ ~finished[s]
        /\ UNCHANGED <<stamped, errors, panicked, metrics, spanType>>
    BY <1>9 DEF Finish, FirstFinish, Goto, histVars
  <2>2. \A h \in Goroutine : h # g => pc'[h] = pc[h] /\ cur'[h] = cur[h]
    BY <1>t, <2>1
  <2>3. pc'[g] = "stamping" /\ cur'[g] = s /\ finished'[s]
    BY <1>t, <2>1
  <2>4. \A x \in Span : x # s => finished'[x] = finished[x]
    BY <1>t, <2>1
  <2>5. \A x \in Span : (Metered(x)' <=> Metered(x))
    <3>1. ~Metered(s)' /\ ~Metered(s)
      BY <2>1, <2>3 DEF Metered
    <3>2. \A x \in Span : x # s => (Metered(x)' <=> Metered(x))
      BY <2>1, <2>2, <2>3, <2>4 DEF Metered
    <3> QED
      BY <3>1, <3>2
  <2>6. \A x \in Span : finished'[x] =>
            stamped[x] \/ \E h \in Goroutine : cur'[h] = x /\ pc'[h] = "stamping"
    BY <1>i, <2>1, <2>2, <2>3, <2>4
  <2> QED
    BY <1>i, <2>1, <2>5, <2>6 DEF Filled, Measured
<1>10. ASSUME NEW g \in Goroutine, NEW st \in {0, 1}, Stamp(g, st) PROVE Filled'
  <2>1. /\ stamped' = [stamped EXCEPT ![cur[g]] = TRUE]
        /\ pc[g] = "stamping" /\ pc' = [pc EXCEPT ![g] = "capturing"]
        /\ UNCHANGED <<finished, errors, panicked, metrics, spanType, cur>>
    BY <1>10 DEF Stamp, Goto, histVars
  <2>2. \A h \in Goroutine : h # g => pc'[h] = pc[h]
    BY <1>t, <2>1
  <2>3. pc'[g] = "capturing" /\ cur[g] \in Span
    BY <1>t, <2>1, Busy
  <2>4. \A x \in Span : (Metered(x)' <=> Metered(x))
    BY <2>1, <2>2, <2>3 DEF Metered
  <2>5. \A x \in Span : finished[x] =>
            stamped'[x] \/ \E h \in Goroutine : cur[h] = x /\ pc'[h] = "stamping"
    BY <1>i, <1>t, <2>1, <2>2, <2>3
  <2> QED
    BY <1>i, <2>1, <2>4, <2>5 DEF Filled, Measured
<1>11. ASSUME NEW g \in Goroutine, NEW panic \in Panics, CapturePanic(g, panic)
       PROVE  Filled'
  <2>1. /\ pc[g] = "capturing" /\ pc' = [pc EXCEPT ![g] = "metering"]
        /\ UNCHANGED <<finished, stamped, metrics, spanType, cur>>
    BY <1>11 DEF CapturePanic, Goto
  <2>2. \A h \in Goroutine : h # g => pc'[h] = pc[h]
    BY <1>t, <2>1
  <2>3. pc'[g] = "metering" /\ cur[g] \in Span
    BY <1>t, <2>1, Busy
  <2>4. \A x \in Span : (Metered(x)' <=> Metered(x))
    BY <2>1, <2>2, <2>3 DEF Metered
  <2>5. \A x \in Span : finished[x] =>
            stamped[x] \/ \E h \in Goroutine : cur[h] = x /\ pc'[h] = "stamping"
    BY <1>i, <2>1, <2>2, <2>3
  <2>6. \A x \in panicked' : "panic" \in errors'[x]
    <3>1. CASE panic
      <4>1. /\ errors' = [errors EXCEPT ![cur[g]] = @ \cup {"panic"}]
            /\ panicked' = panicked \cup {cur[g]}
        BY <1>11, <3>1 DEF CapturePanic
      <4> QED
        BY <1>i, <1>t, <2>3, <4>1
    <3>2. CASE ~panic
      BY <1>11, <1>i, <3>2 DEF CapturePanic
    <3> QED
      BY <3>1, <3>2
  <2> QED
    BY <1>i, <2>1, <2>4, <2>5, <2>6 DEF Filled, Measured
<1>12. ASSUME NEW g \in Goroutine, EmitMetric(g) PROVE Filled'
  <2>a. PICK s \in Span : s = cur[g]
    BY <1>12, <1>t, Busy DEF EmitMetric
  <2>1. /\ pc[g] = "metering" /\ pc' = [pc EXCEPT ![g] = "counting"]
        /\ metrics' = [metrics EXCEPT ![s] = IF Measured(s) THEN @ + 1 ELSE @]
        /\ UNCHANGED <<finished, stamped, errors, panicked, spanType, cur>>
    BY <1>12, <2>a DEF EmitMetric, Goto, spanVars
  <2>2. \A h \in Goroutine : h # g => pc'[h] = pc[h]
    BY <1>t, <2>1
  <2>3. pc'[g] = "counting" /\ finished[s]
    BY <1>t, <2>1, <2>a, Busy
  <2>4. \A h \in Goroutine : h # g /\ InFinish(h) => cur[h] # s
    BY <1>t, <2>1, <2>a DEF Goroutines, InFinish
  <2>5. ~Metered(s) /\ Metered(s)'
    <3>1. ~Metered(s)
      BY <2>1, <2>a DEF Metered
    <3>2. \A h \in Goroutine : cur[h] = s => pc'[h] \notin FirstHalf
      BY <2>2, <2>3, <2>4 DEF InFinish, FirstHalf
    <3> QED
      BY <2>1, <2>3, <3>1, <3>2 DEF Metered, FirstHalf
  <2>6. \A x \in Span : x # s => (Metered(x)' <=> Metered(x))
    BY <2>1, <2>2, <2>3, <2>a DEF Metered
  <2>7. \A x \in Span : finished[x] =>
            stamped[x] \/ \E h \in Goroutine : cur[h] = x /\ pc'[h] = "stamping"
    BY <1>i, <2>1, <2>2, <2>3, <2>a
  <2>8. \A x \in Span :
            metrics'[x] = IF Metered(x)' /\ Measured(x) THEN 1 ELSE 0
    <3>1. \A x \in Span : x # s => metrics'[x] = metrics[x]
      BY <1>t, <2>1
    <3>2. metrics[s] = 0
      BY <1>i, <2>3, <2>5
    <3>3. metrics'[s] = IF Measured(s) THEN 1 ELSE 0
      BY <1>t, <2>1, <2>3, <3>2
    <3> QED
      BY <1>i, <2>5, <2>6, <3>1, <3>3
  <2> QED
    BY <1>i, <2>1, <2>7, <2>8 DEF Filled, Measured
<1>13. ASSUME NEW g \in Goroutine,
              \/ FinishSpan(g) \/ Collect(g) \/ CollectSpan(g)
              \/ EndOfSpans(g) \/ SendTrace(g)
       PROVE  Filled'
  <2>1. UNCHANGED <<finished, stamped, errors, panicked, metrics, spanType>>
    BY <1>13 DEF FinishSpan, Collect, CollectSpan, EndOfSpans, SendTrace, spanVars, histVars
  <2>2. pc[g] \notin FirstHalf /\ pc'[g] \notin FirstHalf
    BY <1>13, <1>t DEF FinishSpan, Collect, CollectSpan, EndOfSpans, SendTrace, Goto, Return,
       FirstHalf
  <2>3. \A h \in Goroutine : h # g => pc'[h] = pc[h] /\ cur'[h] = cur[h]
    BY <1>13, <1>t DEF FinishSpan, Collect, CollectSpan, EndOfSpans, SendTrace, Goto, Return
  <2> QED
    BY <2>1, <2>2, <2>3, SameFilled
<1>14. CASE Receive
  BY <1>4, <1>14 DEF Receive, spanVars, goVars, histVars
<1>15. CASE UNCHANGED vars
  BY <1>4, <1>15 DEF vars, spanVars, goVars, histVars
<1> QED
  BY <1>2, <1>3, <1>5, <1>6, <1>7, <1>8, <1>9, <1>10, <1>11, <1>12, <1>13, <1>14, <1>15
  DEF Next, User, FinishStep

\* A span that is late stays late, and so what is settled stays settled.
LEMMA SettledStays ==
    ASSUME IndInv, [Next]_vars
    PROVE  /\ late \subseteq late'
           /\ \A s \in Span : Settled(s) => Settled(s)'
<1>1. late \subseteq late'
  BY ZenonT(60) DEF Next, User, FinishStep, StartRoot, StartChild, AddSpan, SetEmitControl,
     RecordError, SetStatus, Annotate, AppendError, WriteStatus, Finish, Stamp, CapturePanic, EmitMetric,
     FinishSpan, Collect, CollectSpan, EndOfSpans, SendTrace, Receive, vars, histVars
<1>2. \A s \in Span : Counted(s) => Counted(s)'
  BY CountedStays
<1> QED
  BY <1>1, <1>2 DEF Settled

\* A panic is recorded for a span inside Finish only.
LEMMA PanicsInFinish ==
    ASSUME IndInv, [Next]_vars, NEW s \in Span, Counted(s)
    PROVE  s \in panicked' <=> s \in panicked
<1>1. ASSUME NEW g \in Goroutine, NEW panic \in Panics, CapturePanic(g, panic)
      PROVE  s \in panicked' <=> s \in panicked
  <2>1. cur[g] # s
    BY <1>1 DEF CapturePanic, Counted, Finishing, InFinish
  <2> QED
    BY <1>1, <2>1 DEF CapturePanic
<1>2. CASE UNCHANGED panicked
  BY <1>2
<1> QED
  BY <1>1, <1>2 DEF Next, User, FinishStep, StartRoot, StartChild, AddSpan, SetEmitControl,
     RecordError, SetStatus, Annotate, AppendError, WriteStatus, Finish, Stamp, EmitMetric,
     FinishSpan, Collect, CollectSpan, EndOfSpans, SendTrace, Receive, vars, histVars

\* A new span is late exactly when a goroutine is about to collect its trace.
LEMMA AddsLate ==
    ASSUME TypeOK, [Next]_vars, NEW t \in Trace, NEW s \in Span, Adds(t, s),
           NEW g \in Goroutine, pc[g] = "collecting", ctx[cur[g]] = t
    PROVE  s \in late'
<1>1. ctx' # ctx
  BY DEF Adds, Started, TypeOK
<1>2. \A u \in Trace, x \in Span : ctx' = [ctx EXCEPT ![x] = u] => x = s /\ u = t
  BY ZenonT(60) DEF Adds, Started, TypeOK
<1>3. ASSUME NEW u \in Trace, NEW x \in Span, NEW ty, NEW flag, AddSpan(u, x, ty, flag)
      PROVE  s \in late'
  BY <1>2, <1>3 DEF AddSpan
<1>4. \A parent \in Started : ctx[parent] \in Trace
  BY DEF Started, TypeOK
<1> QED
  BY <1>1, <1>3, <1>4 DEF Next, User, FinishStep, StartRoot, StartChild, SetEmitControl,
     RecordError, SetStatus, Annotate, AppendError, WriteStatus, Finish, Stamp, CapturePanic,
     EmitMetric, FinishSpan, Collect, CollectSpan, EndOfSpans, SendTrace, Receive, vars,
     spanVars

\* When the last open span of a trace is counted, all of its spans are.
AllIn ==
    TypeOK /\ SpanLists /\ FinishCountExact =>
    \A t \in Trace : finishCount[t] = Len(spans[t]) => \A s \in SpansOf(t) : Counted(s)

LEMMA AllCounted == AllIn
<1> SUFFICES ASSUME TypeOK, SpanLists, FinishCountExact, NEW t \in Trace,
                    finishCount[t] = Len(spans[t])
             PROVE  \A s \in SpansOf(t) : Counted(s)
  BY DEF AllIn
<1>1. CountedIn(t) = 1..Len(spans[t])
  BY CountBound DEF FinishCountExact
<1>2. ASSUME NEW s \in SpansOf(t) PROVE Counted(s)
  <2>1. s \in Started /\ ctx[s] = t
    BY DEF SpansOf, Started
  <2>2. PICK i \in 1..Len(spans[t]) : spans[t][i] = s
    BY <2>1 DEF SpanLists
  <2> QED
    BY <1>1, <2>2 DEF CountedIn
<1> QED
  BY <1>2

\* What OnlySettled says of one goroutine.
Way(g) ==
    /\ pc[g] = "collecting" => \A s \in SpansOf(ctx[cur[g]]) : Settled(s)
    /\ pc[g] = "emitting" => \A i \in next[g]..upto[g] : Settled(spans[ctx[cur[g]]][i])

LEMMA WayStep ==
    ASSUME IndInv, [Next]_vars, NEW h \in Goroutine
    PROVE  Way(h)'
<1>t. /\ TypeOK /\ SpanLists /\ Goroutines
      /\ pc \in [Goroutine -> PCs]
      /\ cur \in [Goroutine -> Span \cup {NoSpan}]
      /\ next \in [Goroutine -> Nat]
      /\ upto \in [Goroutine -> Nat]
      /\ \A t \in Trace : spans[t] \in Seq(Span)
  BY DEF IndInv, TypeOK
<1>s. \A s \in Span : Settled(s) => Settled(s)'
  BY SettledStays
<1>w. Way(h)
  BY DEF IndInv, OnlySettled, Way
<1>e. ASSUME pc[h] = "emitting", NEW i \in next[h]..upto[h]
      PROVE  ctx[cur[h]] \in Trace /\ i \in 1..Len(spans[ctx[cur[h]]])
             /\ spans[ctx[cur[h]]][i] \in Span
  <2>1. ctx[cur[h]] \in Trace
    BY <1>e, <1>t, Busy
  <2>2. next[h] >= 1 /\ upto[h] <= Len(spans[ctx[cur[h]]])
    BY <1>e, <1>t DEF Goroutines
  <2>3. next[h] \in Nat /\ upto[h] \in Nat /\ spans[ctx[cur[h]]] \in Seq(Span)
    BY <1>t, <2>1
  <2>4. i \in 1..Len(spans[ctx[cur[h]]])
    BY <2>2, <2>3
  <2> QED
    BY <2>1, <2>3, <2>4
\* The goroutine stays on its way, or has gone further on it.
<1>a. ASSUME UNCHANGED <<spans, ctx>>, pc'[h] = pc[h], cur'[h] = cur[h],
             upto'[h] = upto[h], next'[h] = next[h] \/ next'[h] = next[h] + 1
      PROVE  Way(h)'
  <2>1. ASSUME pc[h] = "emitting", NEW i \in next'[h]..upto[h]
        PROVE  Settled(spans[ctx[cur[h]]][i])'
    <3>1. i \in next[h]..upto[h]
      BY <1>a, <1>t, <2>1
    <3>2. PICK s \in Span : s = spans[ctx[cur[h]]][i]
      BY <1>e, <2>1, <3>1
    <3>3. Settled(s)'
      BY <1>s, <1>w, <2>1, <3>1, <3>2 DEF Way
    <3>4. spans'[ctx'[cur'[h]]][i] = s
      BY <1>a, <3>2
    <3> QED
      BY <3>3, <3>4
  <2>2. ASSUME pc[h] = "collecting", NEW s \in Span, ctx[s] = ctx[cur[h]]
        PROVE  Settled(s)'
    BY <1>s, <1>w, <2>2 DEF Way, SpansOf
  <2>3. pc'[h] = "emitting" => \A i \in next'[h]..upto'[h] : Settled(spans[ctx[cur[h]]][i])'
    BY <1>a, <2>1
  <2>4. pc'[h] = "collecting" => \A s \in SpansOf(ctx[cur[h]])' : Settled(s)'
    BY <1>a, <2>2 DEF SpansOf
  <2> QED
    BY <2>3, <2>4 DEF Way
<1>b. ASSUME pc'[h] \notin {"collecting", "emitting"} PROVE Way(h)'
  BY <1>b DEF Way
<1>1. ASSUME NEW t \in Trace, NEW s \in Span, Adds(t, s) PROVE Way(h)'
  <2>1. UNCHANGED <<pc, cur, next, upto>>
    BY <1>1 DEF Adds
  <2>2. CASE pc[h] = "collecting"
    <3>1. cur[h] # s /\ cur[h] \in Span
      BY <1>1, <1>t, <2>2 DEF Adds, Goroutines, Started
    <3>2. ctx'[cur[h]] = ctx[cur[h]]
      BY <1>1, <1>t, <3>1, AddFacts
    <3>3. ASSUME NEW x \in Span, ctx'[x] = ctx[cur[h]] PROVE Settled(x)'
      <4>1. CASE x = s
        <5>1. ctx[cur[h]] = t
          BY <1>1, <1>t, <3>3, <4>1, AddFacts
        <5> QED
          BY <1>1, <1>t, <2>2, <4>1, <5>1, AddsLate DEF Settled
      <4>2. CASE x # s
        <5>1. x \in SpansOf(ctx[cur[h]])
          BY <1>1, <1>t, <3>3, <4>2, AddFacts DEF SpansOf
        <5> QED
          BY <1>s, <1>w, <2>2, <5>1 DEF Way
      <4> QED
        BY <4>1, <4>2
    <3>4. \A x \in SpansOf(ctx[cur[h]])' : Settled(x)'
      BY <2>1, <3>2, <3>3 DEF SpansOf
    <3>5. pc'[h] # "emitting"
      BY <2>1, <2>2
    <3> QED
      BY <3>4, <3>5 DEF Way
  <2>3. CASE pc[h] = "emitting"
    <3>1. cur[h] # s /\ cur[h] \in Span
      BY <1>1, <1>t, <2>3 DEF Adds, Goroutines, Started
    <3>2. ctx'[cur[h]] = ctx[cur[h]]
      BY <1>1, <1>t, <3>1, AddFacts
    <3>3. ASSUME NEW i \in next[h]..upto[h] PROVE Settled(spans[ctx[cur[h]]][i])'
      <4>1. PICK x \in Span : x = spans[ctx[cur[h]]][i]
        BY <1>e, <2>3
      <4>2. Settled(x)'
        BY <1>s, <1>w, <2>3, <4>1 DEF Way
      <4>3. ctx[cur[h]] \in Trace /\ i \in 1..Len(spans[ctx[cur[h]]])
        BY <1>e, <2>3
      <4>4. spans'[ctx[cur[h]]][i] = x
        BY <1>1, <1>t, <4>1, <4>3, AddFacts
      <4>5. spans'[ctx'[cur'[h]]][i] = x
        BY <2>1, <3>2, <4>4
      <4> QED
        BY <4>2, <4>5
    <3>4. pc'[h] # "collecting"
      BY <2>1, <2>3
    <3>5. \A i \in next'[h]..upto'[h] : Settled(spans[ctx[cur[h]]][i])'
      BY <2>1, <3>3
    <3> QED
      BY <3>4, <3>5 DEF Way
  <2> QED
    BY <1>b, <2>1, <2>2, <2>3
<1>2. ASSUME NEW g \in Goroutine, NEW s \in Span, Finish(g, s) PROVE Way(h)'
  <2>1. CASE h = g
    BY <1>2, <1>b, <1>t, <2>1 DEF Finish, Goto
  <2>2. CASE h # g
    BY <1>2, <1>a, <1>t, <2>2 DEF Finish, Goto, ctxVars
  <2> QED
    BY <2>1, <2>2
<1>3. ASSUME NEW g \in Goroutine, Advances(g) PROVE Way(h)'
  <2>1. CASE h = g
    BY <1>3, <1>b, <1>t, <2>1 DEF Advances
  <2>2. CASE h # g
    BY <1>3, <1>a, <1>t, <2>2 DEF Advances
  <2> QED
    BY <2>1, <2>2
<1>4. ASSUME NEW g \in Goroutine, FinishSpan(g) PROVE Way(h)'
  <2>1. /\ UNCHANGED <<spans, ctx, next, upto>>
        /\ pc[g] = "counting"
        /\ finishCount' = [finishCount EXCEPT ![ctx[cur[g]]] = @ + 1]
        /\ \/ pc' = [pc EXCEPT ![g] = "collecting"] /\ cur' = cur
              /\ LastToFinish(ctx[cur[g]])
           \/ pc' = [pc EXCEPT ![g] = "idle"]
    BY <1>4 DEF FinishSpan, Goto, Return, spanVars
  <2>2. CASE h # g
    <3>1. pc'[h] = pc[h] /\ cur'[h] = cur[h]
      BY <1>4, <1>t, <2>2 DEF FinishSpan, Goto, Return
    <3> QED
      BY <1>a, <2>1, <3>1
  <2>3. CASE h = g /\ pc'[g] = "collecting"
    <3>1. PICK t \in Trace : t = ctx[cur[g]]
      BY <2>1, <1>t, Busy
    <3>2. LastToFinish(t) /\ cur' = cur
      BY <1>t, <2>1, <2>3, <3>1
    <3>3. finishCount'[t] = Len(spans'[t])
      BY <1>t, <2>1, <3>1, <3>2 DEF LastToFinish, TypeOK
    <3>4. \A s \in SpansOf(t)' : Counted(s)'
      <4>1. (AllIn)'
        BY AllCounted, PTL
      <4>2. TypeOK' /\ SpanLists' /\ FinishCountExact'
        BY TypeStep, SpanListsStep, CountStep
      <4> QED
        BY <3>3, <4>1, <4>2 DEF AllIn
    <3>5. \A s \in SpansOf(ctx[cur[g]])' : Settled(s)'
      BY <2>1, <3>1, <3>2, <3>4 DEF Settled, SpansOf
    <3> QED
      BY <2>3, <3>5 DEF Way
  <2>4. CASE h = g /\ pc'[g] # "collecting"
    BY <1>b, <1>t, <2>1, <2>4
  <2> QED
    BY <2>2, <2>3, <2>4
<1>5. ASSUME NEW g \in Goroutine, Collect(g) PROVE Way(h)'
  <2>1. UNCHANGED <<spans, ctx>> /\ pc[g] = "collecting"
    BY <1>5 DEF Collect, ctxVars, spanVars
  <2>2. CASE h # g
    BY <1>5, <1>a, <1>t, <2>1, <2>2 DEF Collect, Goto, Return
  <2>3. CASE h = g /\ pc'[g] = "emitting"
    <3>1. PICK t \in Trace : t = ctx[cur[g]]
      BY <2>1, <1>t, Busy
    <3>2. /\ cur'[g] = cur[g]
          /\ next'[g] = 1
          /\ upto'[g] = Len(spans[t])
      BY <1>5, <1>t, <2>3, <3>1 DEF Collect, Goto, Return
    <3>3. ASSUME NEW i \in 1..Len(spans[t]) PROVE Settled(spans[ctx[cur[g]]][i])'
      <4>1. PICK s \in Span : s = spans[t][i]
        BY <1>t
      <4>2. s \in SpansOf(t)
        BY <1>t, <4>1 DEF SpanLists, SpansOf
      <4>3. Settled(s)'
        BY <1>s, <1>w, <2>1, <2>3, <3>1, <4>2 DEF Way
      <4>4. spans'[ctx'[cur'[g]]][i] = s
        BY <2>1, <3>1, <3>2, <4>1
      <4> QED
        BY <4>3, <4>4
    <3>4. \A i \in next'[g]..upto'[g] : Settled(spans[ctx[cur[g]]][i])'
      BY <3>2, <3>3
    <3> QED
      BY <2>3, <3>4 DEF Way
  <2>4. CASE h = g /\ pc'[g] # "emitting"
    BY <1>5, <1>b, <1>t, <2>4 DEF Collect, Goto, Return
  <2> QED
    BY <2>2, <2>3, <2>4
<1>6. ASSUME NEW g \in Goroutine, CollectSpan(g) PROVE Way(h)'
  BY <1>6, <1>a, <1>t DEF CollectSpan, NextSpan, ctxVars
<1>7. ASSUME NEW g \in Goroutine, EndOfSpans(g) \/ SendTrace(g) PROVE Way(h)'
  <2>1. CASE h = g
    BY <1>7, <1>b, <1>t, <2>1 DEF EndOfSpans, SendTrace, Goto, Return
  <2>2. CASE h # g
    BY <1>7, <1>a, <1>t, <2>2 DEF EndOfSpans, SendTrace, Goto, Return, ctxVars, spanVars
  <2> QED
    BY <2>1, <2>2
<1>8. CASE UNCHANGED <<spans, ctx, pc, cur, next, upto>>
  BY <1>8, <1>a
<1> QED
  BY <1>1, <1>2, <1>3, <1>4, <1>5, <1>6, <1>7, <1>8, <1>t, StepCases
  DEF Receive, core, ctxVars, spanVars, goVars

\* What was copied of a span into a trace, when the loop came to it.
LEMMA TakenStep ==
    ASSUME IndInv, [Next]_vars, NEW s \in Span, collected'[s], s \notin late'
    PROVE  /\ Counted(s)'
           /\ snap'[s].stamped
           /\ s \in panicked' => "panic" \in snap'[s].errors
<1>t. /\ TypeOK /\ Goroutines
      /\ collected \in [Span -> BOOLEAN]
      /\ s \notin late
  BY SettledStays DEF IndInv, TypeOK
<1>a. ASSUME collected[s], snap'[s] = snap[s]
      PROVE  /\ Counted(s)'
             /\ snap'[s].stamped
             /\ s \in panicked' => "panic" \in snap'[s].errors
  <2>1. /\ Counted(s)
        /\ snap[s].stamped
        /\ s \in panicked => "panic" \in snap[s].errors
    BY <1>a, <1>t DEF IndInv, OnlySettled
  <2> QED
    BY <1>a, <2>1, CountedStays, PanicsInFinish
<1>1. ASSUME NEW g \in Goroutine, CollectSpan(g)
      PROVE  /\ Counted(s)'
             /\ snap'[s].stamped
             /\ s \in panicked' => "panic" \in snap'[s].errors
  <2>1. PICK x \in Span : x = spans[ctx[cur[g]]][next[g]]
    BY <1>1, <1>t, Visits DEF CollectSpan
  <2>2. /\ pc[g] = "emitting"
        /\ next[g] <= upto[g]
        /\ \/ UNCHANGED <<collected, snap>>
           \/ /\ collected' = [collected EXCEPT ![x] = TRUE]
              /\ snap' = [snap EXCEPT ![x] = [stamped |-> stamped[x],
                                              errors |-> errors[x],
                                              status |-> status[x]]]
        /\ ~collected[x] \/ UNCHANGED <<collected, snap>>
    BY <1>1, <2>1 DEF CollectSpan, WinsSpan
  <2>3. CASE s # x \/ UNCHANGED <<collected, snap>>
    <3>1. collected[s] /\ snap'[s] = snap[s]
      BY <1>t, <2>2, <2>3 DEF TypeOK
    <3> QED
      BY <1>a, <3>1
  <2>4. CASE s = x /\ ~UNCHANGED <<collected, snap>>
    <3>1. next[g] \in next[g]..upto[g]
      BY <1>t, <2>2 DEF TypeOK
    <3>2. Counted(s)
      BY <1>t, <2>1, <2>2, <2>4, <3>1 DEF IndInv, OnlySettled, Settled
    <3>3. stamped[s] /\ (s \in panicked => "panic" \in errors[s])
      BY <3>2 DEF IndInv, Filled, Counted, Finishing, InFinish
    <3>4. snap'[s] = [stamped |-> stamped[s], errors |-> errors[s], status |-> status[s]]
      BY <1>t, <2>2, <2>4 DEF TypeOK
    <3> QED
      BY <3>2, <3>3, <3>4, CountedStays, PanicsInFinish
  <2> QED
    BY <2>3, <2>4
<1>2. CASE UNCHANGED <<collected, snap>>
  BY <1>a, <1>2
<1> QED
  BY <1>1, <1>2 DEF Next, User, FinishStep, StartRoot, StartChild, AddSpan, SetEmitControl,
     RecordError, SetStatus, Annotate, AppendError, WriteStatus, Finish, Stamp, CapturePanic,
     EmitMetric, FinishSpan, Collect, EndOfSpans, SendTrace, Receive, vars, spanVars, histVars

LEMMA OnlySettledStep == IndInv /\ [Next]_vars => OnlySettled'
<1> SUFFICES ASSUME IndInv, [Next]_vars PROVE OnlySettled'
  OBVIOUS
<1>1. \A g \in Goroutine : Way(g)'
  BY WayStep
<1>2. \A s \in Span : collected'[s] /\ s \notin late' =>
          /\ Counted(s)'
          /\ snap'[s].stamped
          /\ s \in panicked' => "panic" \in snap'[s].errors
  BY TakenStep
<1> QED
  BY <1>1, <1>2 DEF OnlySettled, Way

-----------------------------------------------------------------------------
(* The theorems                                                            *)

\* What goroutines are doing, what tc.spans lists and what finishCount counts
\* fit together, so that each of the properties below holds.
THEOREM Inductive == Spec => []IndInv
<1>1. IndInv /\ [Next]_vars => IndInv'
  <2>1. IndInv /\ [Next]_vars => (OnlyCollected' /\ ExportedOnce')
    BY ExportStep
  <2> QED
    BY <2>1, TypeStep, SpanListsStep, GoroutinesStep, CountStep, ResponsibilityStep,
       FilledStep, OnlySettledStep DEF IndInv
<1> QED
  BY InitInv, <1>1, PTL DEF Spec

\* Every variable keeps its type.
THEOREM TypeCorrect == Spec => []TypeOK
<1>1. IndInv => TypeOK
  BY DEF IndInv
<1> QED
  BY Inductive, <1>1, PTL

\* However many goroutines finish spans of a trace, and however often, its
\* finishCount is the number of its spans that have been finished and counted.
THEOREM FinishCountCorrect == Spec => []FinishCountExact
<1>1. IndInv => FinishCountExact
  BY DEF IndInv
<1> QED
  BY Inductive, <1>1, PTL

\* Two goroutines that collect the same trace at once never put a span in two
\* traces.
THEOREM ExportedOnceCorrect == Spec => []ExportedOnce
<1>1. IndInv => ExportedOnce
  BY DEF IndInv
<1> QED
  BY Inductive, <1>1, PTL

\* The last finisher of a sampled trace never leaves a span behind, spans that
\* joined the trace after it had been sent included.
THEOREM NoSpanStrandedCorrect == Spec => []NoSpanStranded
<1>1. IndInv => NoSpanStranded
  <2> SUFFICES ASSUME IndInv, ~ControlEnable, NEW t \in Trace, sampled[t],
                      \A s \in SpansOf(t) : Counted(s)
               PROVE  \A s \in SpansOf(t) : collected[s] \/ ToBeCollected(s)
    BY DEF NoSpanStranded
  <2>1. \A i \in 1..Len(spans[t]) : spans[t][i] \in SpansOf(t)
    BY DEF IndInv, TypeOK, SpanLists, SpansOf
  <2>2. CountedIn(t) = 1..Len(spans[t])
    BY <2>1 DEF CountedIn
  <2>3. Len(spans[t]) \in Nat
    BY DEF IndInv, TypeOK
  <2>4. Cardinality(1..Len(spans[t])) = Len(spans[t])
    BY <2>3, FS_Interval
  <2>5. finishCount[t] = Len(spans[t])
    BY <2>2, <2>4 DEF IndInv, FinishCountExact
  <2> QED
    BY <2>5 DEF IndInv, Responsibility
<1> QED
  BY Inductive, <1>1, PTL

\* A span that was not added while its trace was being collected is exported
\* with its times, the panic its Finish recovered and after its metrics,
\* whatever goroutines finish the spans of the trace and in whatever order.
THEOREM CompleteUnlessLateCorrect == Spec => []CompleteUnlessLate
<1>1. IndInv => CompleteUnlessLate
  <2> SUFFICES ASSUME IndInv, NEW s \in Span, collected[s], s \notin late
               PROVE  /\ snap[s].stamped
                      /\ s \in panicked => "panic" \in snap[s].errors
                      /\ metrics[s] = IF Measured(s) THEN 1 ELSE 0
    BY DEF CompleteUnlessLate
  <2>1. /\ Counted(s)
        /\ snap[s].stamped
        /\ s \in panicked => "panic" \in snap[s].errors
    BY DEF IndInv, OnlySettled
  <2>2. Metered(s)
    BY <2>1 DEF Metered, Counted, Finishing, InFinish
  <2> QED
    BY <2>1, <2>2 DEF IndInv, Filled
<1> QED
  BY Inductive, <1>1, PTL
-----------------------------------------------------------------------------
(***************************************************************************)
(* TraceContext implements SpanExport, for any sets of traces, spans,      *)
(* goroutines and annotators and any channel size: the initial states map  *)
(* to initial states and every step to a step or a stutter.                *)
(***************************************************************************)
\* Goroutines may be infinitely many; those that collect a trace are not.
FiniteDue == \A t \in Trace : IsFiniteSet(Due(t))

Dues   == [t \in Trace |-> Cardinality(Due(t))]
Places == [s \in Span |-> Place(s)]

Maps == [Export!Next]_(Export!vars) /\ FiniteDue'

-----------------------------------------------------------------------------
(* When the view does not change                                           *)

LEMMA SameCounting ==
    ASSUME UNCHANGED finished,
           \A g \in Goroutine : InFinish(g)' = InFinish(g)
                                /\ (InFinish(g) => cur'[g] = cur[g])
    PROVE  Counting' = Counting
BY SameCounted DEF Counting

LEMMA SameDues ==
    ASSUME \A t \in Trace : Due(t)' = Due(t)
    PROVE  Dues' = Dues /\ (FiniteDue => FiniteDue')
BY DEF Dues, FiniteDue

LEMMA SamePlaces ==
    ASSUME UNCHANGED <<taken, dropped, traceChan, out>>
    PROVE  Places' = Places
BY DEF Places, Place

LEMMA Stutter ==
    ASSUME FiniteDue, UNCHANGED ctx, Counting' = Counting,
           \A t \in Trace : Due(t)' = Due(t), Places' = Places
    PROVE  Maps
BY SameDues DEF Maps, Export!vars, Dues, Places

LEMMA InitMaps == Init => Export!Init /\ FiniteDue
<1> SUFFICES ASSUME Init PROVE Export!Init /\ FiniteDue
  OBVIOUS
<1>1. Counting = {}
  BY DEF Init, Counting, Counted
<1>2. \A t \in Trace : Due(t) = {}
  BY DEF Init, Due
<1>3. \A s \in Span : Place(s) = "process"
  BY DEF Init, Place
<1>4. \A t \in Trace : Cardinality(Due(t)) = 0 /\ IsFiniteSet(Due(t))
  BY <1>2, FS_EmptySet
<1> QED
  BY <1>1, <1>3, <1>4 DEF Export!Init, FiniteDue, Init
-----------------------------------------------------------------------------
(* The steps                                                               *)

LEMMA AddsMaps ==
    ASSUME IndInv, FiniteDue, NEW t \in Trace, NEW s \in Span, Adds(t, s)
    PROVE  Maps
<1>1. \A g \in Goroutine : pc[g] # "idle" => ctx'[cur[g]] = ctx[cur[g]]
  BY DEF IndInv, TypeOK, Goroutines, Adds
<1>2. \A u \in Trace : Due(u)' = Due(u)
  BY <1>1 DEF Due, Adds
<1>3. Counting' = Counting
  BY SameCounting DEF Adds, InFinish
<1>4. Places' = Places
  BY SamePlaces DEF Adds
<1>5. Export!Start(s)
  BY <1>2, <1>3, <1>4, SameDues DEF Export!Start, Adds, Started, Dues, Places
<1> QED
  BY <1>2, <1>5, SameDues DEF Maps, Export!Next

LEMMA FinishMaps ==
    ASSUME IndInv, FiniteDue, NEW g \in Goroutine, NEW s \in Span, Finish(g, s)
    PROVE  Maps
<1>t. /\ finished \in [Span -> BOOLEAN]
      /\ pc \in [Goroutine -> PCs]
      /\ cur \in [Goroutine -> Span \cup {NoSpan}]
  BY DEF IndInv, TypeOK
<1>1. /\ pc[g] = "idle" /\ pc'[g] = "stamping" /\ cur'[g] = s
      /\ \A h \in Goroutine : h # g => pc'[h] = pc[h] /\ cur'[h] = cur[h]
      /\ ~finished[s]
      /\ \A x \in Span : x # s => finished'[x] = finished[x]
      /\ UNCHANGED <<ctx, taken, dropped, traceChan, out>>
  BY <1>t DEF Finish, Goto, FirstFinish, ctxVars, chanVars
<1>2. \A u \in Trace : Due(u)' = Due(u)
  BY <1>1 DEF Due
<1>3. ~Counted(s) /\ ~Counted(s)'
  BY <1>1 DEF Counted, Finishing, InFinish
<1>4. \A x \in Span : x # s => Finishing(x)' = Finishing(x)
  BY <1>1 DEF Finishing, InFinish
<1>5. \A x \in Span : Counted(x)' = Counted(x)
  BY <1>1, <1>3, <1>4 DEF Counted
<1> QED
  BY <1>1, <1>2, <1>5, SamePlaces, Stutter DEF Counting

LEMMA AdvancesMaps ==
    ASSUME IndInv, FiniteDue, NEW g \in Goroutine, Advances(g)
    PROVE  Maps
<1>t. pc \in [Goroutine -> PCs]
  BY DEF IndInv, TypeOK
<1>1. /\ pc[g] \in {"stamping", "capturing", "metering"}
      /\ pc'[g] \in {"capturing", "metering", "counting"}
      /\ \A h \in Goroutine : h # g => pc'[h] = pc[h]
      /\ UNCHANGED <<cur, finished, ctx, taken, dropped, traceChan, out>>
  BY <1>t DEF Advances
<1>2. \A u \in Trace : Due(u)' = Due(u)
  BY <1>1 DEF Due
<1>3. Counting' = Counting
  BY <1>1, SameCounting DEF InFinish
<1> QED
  BY <1>1, <1>2, <1>3, SamePlaces, Stutter

\* A goroutine is no longer collecting its trace.
LEMMA LeavesDue ==
    ASSUME FiniteDue, NEW g \in Goroutine, NEW t \in Trace, g \in Due(t),
           Due(t)' = Due(t) \ {g},
           \A u \in Trace : u # t => Due(u)' = Due(u)
    PROVE  /\ FiniteDue' /\ Dues[t] > 0
           /\ Dues' = [Dues EXCEPT ![t] = @ - 1]
<1>1. IsFiniteSet(Due(t))
  BY DEF FiniteDue
<1>2. /\ IsFiniteSet(Due(t) \ {g})
      /\ Cardinality(Due(t) \ {g}) = Cardinality(Due(t)) - 1
  BY <1>1, FS_RemoveElement
<1>3. Cardinality(Due(t)) \in Nat /\ Cardinality(Due(t) \ {g}) \in Nat
  BY <1>1, <1>2, FS_CardinalityType
<1>4. FiniteDue'
  BY <1>2 DEF FiniteDue
<1>5. /\ Dues[t] = Cardinality(Due(t)) /\ Dues'[t] = Cardinality(Due(t) \ {g})
      /\ \A u \in Trace : u # t => Dues'[u] = Dues[u]
      /\ DOMAIN Dues = Trace /\ DOMAIN Dues' = Trace
      /\ Dues = [u \in Trace |-> Dues[u]] /\ Dues' = [u \in Trace |-> Dues'[u]]
  BY DEF Dues
<1>6. Dues[t] > 0 /\ Dues'[t] = Dues[t] - 1
  BY <1>2, <1>3, <1>5
<1> QED
  BY <1>4, <1>5, <1>6

LEMMA OverMaps ==
    ASSUME FiniteDue, NEW g \in Goroutine, NEW t \in Trace, g \in Due(t),
           Due(t)' = Due(t) \ {g},
           \A u \in Trace : u # t => Due(u)' = Due(u),
           UNCHANGED ctx, Counting' = Counting, Places' = Places
    PROVE  Maps
<1>1. FiniteDue' /\ Dues[t] > 0 /\ Dues' = [Dues EXCEPT ![t] = @ - 1]
  BY LeavesDue
<1>2. Export!Over(t)
  BY <1>1 DEF Export!Over, Dues, Places
<1> QED
  BY <1>1, <1>2 DEF Maps, Export!Next

\* The critical section of finishSpan: the span has ended, and if no span of
\* its trace is open the goroutine goes on to collect the trace.
LEMMA FinishSpanMaps ==
    ASSUME IndInv, IndInv', FiniteDue, NEW g \in Goroutine, FinishSpan(g)
    PROVE  Maps
<1>p. PICK s \in Span, t \in Trace : s = cur[g] /\ t = ctx[s]
  BY Busy DEF IndInv, FinishSpan
<1>t. /\ pc \in [Goroutine -> PCs]
      /\ cur \in [Goroutine -> Span \cup {NoSpan}]
      /\ finishCount \in [Trace -> Nat]
      /\ ctx \in [Span -> Trace \cup {NoTrace}]
      /\ spans \in [Trace -> Seq(Span)]
  BY DEF IndInv, TypeOK
<1>1. s = cur[g] /\ t = ctx[s] /\ finished[s] /\ pc[g] = "counting"
  BY <1>p, Busy DEF IndInv, FinishSpan
<1>2. /\ pc'[g] \in {"collecting", "idle"}
      /\ pc'[g] = "collecting" <=> LastToFinish(t)
      /\ pc'[g] = "collecting" => cur'[g] = s
      /\ \A h \in Goroutine : h # g => pc'[h] = pc[h] /\ cur'[h] = cur[h]
      /\ finishCount'[t] = finishCount[t] + 1
      /\ UNCHANGED <<spans, ctx, finished, taken, dropped, traceChan, out>>
  BY <1>t, <1>1 DEF FinishSpan, Goto, Return, spanVars, chanVars
<1>3. Counting' = Counting \cup {s} /\ s \notin Counting
  <2>1. \A h \in Goroutine : h # g /\ InFinish(h) => cur[h] # s
    BY <1>1 DEF IndInv, Goroutines, InFinish
  <2>2. Finishing(s) /\ ~Finishing(s)'
    BY <1>1, <1>2, <2>1 DEF Finishing, InFinish
  <2>3. \A x \in Span : x # s => Finishing(x)' = Finishing(x)
    BY <1>1, <1>2 DEF Finishing, InFinish
  <2> QED
    BY <1>1, <1>2, <2>2, <2>3 DEF Counting, Counted
<1>4. LastToFinish(t) <=> Export!Siblings(s) \subseteq Counting'
  <2>1. LastToFinish(t) <=> finishCount'[t] = Len(spans'[t])
    BY <1>1, <1>2 DEF LastToFinish
  <2>2. Len(spans'[t]) \in Nat /\ spans'[t] \in Seq(Span)
    BY <1>t, <1>1, <1>2
  <2>3. finishCount'[t] = Cardinality(CountedIn(t))'
    BY <1>1 DEF IndInv, FinishCountExact
  <2>4. Cardinality(CountedIn(t))' = Len(spans'[t]) <=> CountedIn(t)' = 1..Len(spans'[t])
    <3>1. /\ IsFiniteSet(1..Len(spans'[t]))
          /\ Cardinality(1..Len(spans'[t])) = Len(spans'[t])
      BY <2>2, FS_Interval, SMTT(20)
    <3>2. CountedIn(t)' \subseteq 1..Len(spans'[t])
      BY DEF CountedIn
    <3> QED
      BY <3>1, <3>2, FS_Subset
  <2>5. CountedIn(t)' = 1..Len(spans'[t])
            <=> \A i \in 1..Len(spans'[t]) : spans'[t][i] \in Counting'
    BY <2>2 DEF CountedIn, Counting
  <2>6. /\ \A i \in 1..Len(spans'[t]) : spans'[t][i] \in Export!Siblings(s)
        /\ \A x \in Export!Siblings(s) : \E i \in 1..Len(spans'[t]) : spans'[t][i] = x
    <3>1. \A i \in 1..Len(spans[t]) : spans[t][i] \in Span /\ ctx[spans[t][i]] = t
      BY <1>t, <1>p DEF IndInv, SpanLists
    <3>2. \A x \in Export!Siblings(s) : x \in Started /\ ctx[x] = t
      BY <1>p DEF Export!Siblings, Started
    <3>3. \A x \in Export!Siblings(s) : \E i \in 1..Len(spans[t]) : spans[t][i] = x
      BY <3>2 DEF IndInv, SpanLists
    <3> QED
      BY <1>p, <1>2, <3>1, <3>3 DEF Export!Siblings
  <2> QED
    BY <2>1, <2>3, <2>4, <2>5, <2>6
<1>5. /\ \A u \in Trace : u # t => Due(u)' = Due(u)
      /\ g \notin Due(t)
      /\ LastToFinish(t) => Due(t)' = Due(t) \cup {g}
      /\ ~LastToFinish(t) => Due(t)' = Due(t)
  BY <1>1, <1>2 DEF Due
<1>6. /\ FiniteDue'
      /\ Dues' = IF LastToFinish(t) THEN [Dues EXCEPT ![t] = @ + 1] ELSE Dues
  <2>1. CASE ~LastToFinish(t)
    BY <1>5, <2>1, SameDues
  <2>2. CASE LastToFinish(t)
    <3>1. /\ IsFiniteSet(Due(t) \cup {g})
          /\ Cardinality(Due(t) \cup {g}) = Cardinality(Due(t)) + 1
      BY <1>1, <1>5, FS_AddElement DEF FiniteDue
    <3>2. FiniteDue'
      BY <1>5, <2>2, <3>1 DEF FiniteDue
    <3>3. /\ Dues'[t] = Dues[t] + 1
          /\ \A u \in Trace : u # t => Dues'[u] = Dues[u]
          /\ Dues = [u \in Trace |-> Dues[u]] /\ Dues' = [u \in Trace |-> Dues'[u]]
      BY <1>1, <1>5, <2>2, <3>1 DEF Dues
    <3> QED
      BY <2>2, <3>2, <3>3
  <2> QED
    BY <2>1, <2>2
<1>7. Places' = Places
  BY <1>2, SamePlaces
<1>8. Export!End(s)
  BY <1>1, <1>2, <1>3, <1>4, <1>6, <1>7 DEF Export!End, Dues, Places
<1> QED
  BY <1>1, <1>6, <1>8 DEF Maps, Export!Next

LEMMA CollectMaps ==
    ASSUME IndInv, FiniteDue, NEW g \in Goroutine, Collect(g)
    PROVE  Maps
<1>1. PICK t \in Trace : t = ctx[cur[g]] /\ pc[g] = "collecting"
  BY Busy DEF IndInv, Collect
<1>t. pc \in [Goroutine -> PCs] /\ cur \in [Goroutine -> Span \cup {NoSpan}]
  BY DEF IndInv, TypeOK
<1>2. /\ \/ pc'[g] = "emitting" /\ cur'[g] = cur[g]
         \/ pc'[g] = "idle"
      /\ \A h \in Goroutine : h # g => pc'[h] = pc[h] /\ cur'[h] = cur[h]
      /\ UNCHANGED <<ctx, finished, taken, dropped, traceChan, out>>
  BY <1>t DEF Collect, Goto, Return, ctxVars, spanVars, chanVars
<1>3. Counting' = Counting /\ Places' = Places
  BY <1>1, <1>2, SameCounting, SamePlaces DEF InFinish
<1>4. /\ g \in Due(t)
      /\ \A u \in Trace : u # t => Due(u)' = Due(u)
      /\ pc'[g] = "emitting" => Due(t)' = Due(t)
      /\ pc'[g] = "idle" => Due(t)' = Due(t) \ {g}
  BY <1>1, <1>2 DEF Due
<1>5. CASE pc'[g] = "emitting"
  BY <1>2, <1>3, <1>4, <1>5, Stutter
<1>6. CASE pc'[g] = "idle"
  BY <1>1, <1>2, <1>3, <1>4, <1>6, OverMaps
<1> QED
  BY <1>2, <1>5, <1>6

LEMMA EndOfSpansMaps ==
    ASSUME IndInv, FiniteDue, NEW g \in Goroutine, EndOfSpans(g)
    PROVE  Maps
<1>t. pc \in [Goroutine -> PCs]
  BY DEF IndInv, TypeOK
<1>1. PICK t \in Trace : t = ctx[cur[g]] /\ pc[g] = "emitting" /\ pc'[g] = "sending"
  BY <1>t, Busy DEF IndInv, EndOfSpans, Goto
<1>2. /\ \A h \in Goroutine : h # g => pc'[h] = pc[h]
      /\ UNCHANGED <<cur, ctx, finished, taken, dropped, traceChan, out>>
  BY <1>t DEF EndOfSpans, Goto, ctxVars, spanVars, chanVars
<1>3. Counting' = Counting /\ Places' = Places
  BY <1>1, <1>2, SameCounting, SamePlaces DEF InFinish
<1>4. /\ g \in Due(t) /\ Due(t)' = Due(t) \ {g}
      /\ \A u \in Trace : u # t => Due(u)' = Due(u)
  BY <1>1, <1>2 DEF Due
<1> QED
  BY <1>1, <1>2, <1>3, <1>4, OverMaps

\* Only a span that was not yet collected is put into a trace.
LEMMA CollectSpanMaps ==
    ASSUME IndInv, FiniteDue, NEW g \in Goroutine, CollectSpan(g)
    PROVE  Maps
<1>1. PICK t \in Trace, s \in Span :
          t = ctx[cur[g]] /\ s = spans[t][next[g]] /\ ctx[s] = t /\ g \in Due(t)
  <2>1. ctx[cur[g]] \in Trace /\ next[g] \in 1..Len(spans[ctx[cur[g]]])
            /\ spans[ctx[cur[g]]][next[g]] \in Span
    BY Visits DEF IndInv, CollectSpan
  <2> QED
    BY <2>1 DEF IndInv, SpanLists, Due, CollectSpan
<1>2. UNCHANGED <<ctx, finished, pc, cur, taken, dropped, traceChan>>
  BY DEF CollectSpan, ctxVars, chanVars
<1>3. Counting' = Counting /\ \A u \in Trace : Due(u)' = Due(u)
  BY <1>2, SameCounting DEF InFinish, Due
<1>4. CASE collected[s]
  <2>1. UNCHANGED out
    BY <1>1, <1>4 DEF CollectSpan, WinsSpan
  <2> QED
    BY <1>2, <1>3, <2>1, SamePlaces, Stutter
<1>5. CASE ~collected[s]
  <2>1. /\ out'[g] = out[g] \cup {s}
        /\ \A h \in Goroutine : h # g => out'[h] = out[h]
    BY <1>1, <1>5 DEF CollectSpan, WinsSpan, IndInv, TypeOK
  <2>2. /\ s \notin taken /\ s \notin dropped
        /\ \A i \in DOMAIN traceChan : s \notin traceChan[i]
        /\ \A h \in Goroutine : s \notin out[h]
    BY <1>5 DEF IndInv, OnlyCollected
  <2>3. Place(s) = "process" /\ Place(s)' = "held"
    BY <1>2, <2>1, <2>2 DEF Place
  <2>4. ASSUME NEW x \in Span, x # s PROVE Place(x)' = Place(x)
    <3>1. (\E h \in Goroutine : x \in out'[h]) <=> (\E h \in Goroutine : x \in out[h])
      BY <2>1, <2>4
    <3> QED
      BY <1>2, <3>1 DEF Place
  <2>5. Places' = [Places EXCEPT ![s] = "held"] /\ Places[s] = "process"
    BY <2>3, <2>4 DEF Places
  <2>6. Dues[t] > 0
    <3>1. IsFiniteSet(Due(t)) /\ Due(t) # {}
      BY <1>1 DEF FiniteDue
    <3>2. Cardinality(Due(t)) \in Nat /\ Cardinality(Due(t)) # 0
      BY <3>1, FS_CardinalityType, FS_EmptySet
    <3> QED
      BY <3>2 DEF Dues
  <2>7. Export!Hold(s)
    BY <1>1, <1>2, <1>3, <2>5, <2>6, SameDues DEF Export!Hold, Dues, Places
  <2> QED
    BY <1>3, <2>7, SameDues DEF Maps, Export!Next
<1> QED
  BY <1>4, <1>5

\* The spans of a trace change their place together.
LEMMA MoveMaps ==
    ASSUME FiniteDue, UNCHANGED ctx, Counting' = Counting,
           \A t \in Trace : Due(t)' = Due(t),
           NEW S \in SUBSET Span, NEW from, NEW to,
           <<from, to>> \in {<<"held", "queued">>, <<"held", "dropped">>,
                            <<"queued", "taken">>},
           \A s \in S : Place(s) = from /\ Place(s)' = to,
           \A s \in Span \ S : Place(s)' = Place(s)
    PROVE  Maps
<1>1. Export!Move(S, from, to)
  BY SameDues DEF Export!Move, Dues
<1>2. Export!Next
  BY <1>1 DEF Export!Next
<1> QED
  BY <1>2, SameDues DEF Maps

LEMMA SendTraceMaps ==
    ASSUME IndInv, FiniteDue, NEW g \in Goroutine, SendTrace(g)
    PROVE  Maps
<1>t. /\ out \in [Goroutine -> SUBSET Span]
      /\ traceChan \in Seq(SUBSET Span)
      /\ pc \in [Goroutine -> PCs]
      /\ cur \in [Goroutine -> Span \cup {NoSpan}]
  BY DEF IndInv, TypeOK
<1>1. /\ pc[g] = "sending" /\ pc'[g] = "idle"
      /\ \A h \in Goroutine : h # g => pc'[h] = pc[h] /\ cur'[h] = cur[h]
      /\ UNCHANGED <<ctx, finished, taken>>
      /\ out'[g] = {}
      /\ \A h \in Goroutine : h # g => out'[h] = out[h]
  BY <1>t DEF SendTrace, Goto, Return, ctxVars, spanVars
<1>2. Counting' = Counting /\ \A u \in Trace : Due(u)' = Due(u)
  BY <1>1, SameCounting DEF InFinish, Due
<1>3. \A s \in out[g] : /\ s \notin taken /\ s \notin dropped
                        /\ \A i \in DOMAIN traceChan : s \notin traceChan[i]
                        /\ \A h \in Goroutine : s \notin out'[h]
  BY <1>1 DEF IndInv, ExportedOnce
<1>4. \A s \in out[g] : Place(s) = "held"
  BY <1>3 DEF Place
<1>5. \A s \in Span \ out[g] : (\E h \in Goroutine : s \in out'[h])
                                  <=> (\E h \in Goroutine : s \in out[h])
  BY <1>1
<1>6. CASE HasRoom
  <2>1. /\ Len(traceChan) \in Nat
        /\ DOMAIN traceChan = 1..Len(traceChan)
        /\ DOMAIN traceChan' = 1..(Len(traceChan) + 1)
        /\ \A i \in DOMAIN traceChan : traceChan'[i] = traceChan[i]
        /\ traceChan'[Len(traceChan) + 1] = out[g]
        /\ UNCHANGED dropped
    BY <1>6, <1>t DEF SendTrace
  <2>2. \A s \in Span : (\E i \in DOMAIN traceChan' : s \in traceChan'[i])
            <=> s \in out[g] \/ \E i \in DOMAIN traceChan : s \in traceChan[i]
    <3>1. /\ DOMAIN traceChan' = DOMAIN traceChan \cup {Len(traceChan) + 1}
          /\ Len(traceChan) + 1 \notin DOMAIN traceChan
      BY <2>1
    <3> QED
      BY <2>1, <3>1
  <2>3. ASSUME NEW s \in out[g] PROVE Place(s)' = "queued"
    <3>1. s \in Span /\ s \notin taken' /\ s \notin dropped'
      BY <1>1, <1>3, <1>t, <2>1
    <3>2. \E i \in DOMAIN traceChan' : s \in traceChan'[i]
      BY <2>2, <3>1
    <3>3. \A h \in Goroutine : s \notin out'[h]
      BY <1>3
    <3> QED
      BY <3>1, <3>2, <3>3 DEF Place
  <2>4. \A s \in Span \ out[g] : Place(s)' = Place(s)
    BY <1>1, <1>5, <2>1, <2>2 DEF Place
  <2>5. out[g] \in SUBSET Span /\ \A s \in out[g] : Place(s) = "held" /\ Place(s)' = "queued"
    BY <1>4, <1>t, <2>3
  <2> QED
    BY <1>1, <1>2, <2>4, <2>5, MoveMaps
<1>7. CASE ~HasRoom
  <2>1. dropped' = dropped \cup out[g] /\ UNCHANGED traceChan
    BY <1>7 DEF SendTrace
  <2>2. ASSUME NEW s \in out[g] PROVE Place(s)' = "dropped"
    <3>1. /\ s \notin taken' /\ s \in dropped'
          /\ \A i \in DOMAIN traceChan' : s \notin traceChan'[i]
      BY <1>1, <1>3, <2>1
    <3>3. \A h \in Goroutine : s \notin out'[h]
      BY <1>3
    <3> QED
      BY <3>1, <3>3 DEF Place
  <2>3. \A s \in Span \ out[g] : Place(s)' = Place(s)
    BY <1>1, <1>5, <2>1 DEF Place
  <2>4. out[g] \in SUBSET Span /\ \A s \in out[g] : Place(s) = "held" /\ Place(s)' = "dropped"
    BY <1>4, <1>t, <2>2
  <2> QED
    BY <1>1, <1>2, <2>3, <2>4, MoveMaps
<1> QED
  BY <1>6, <1>7

LEMMA ReceiveMaps ==
    ASSUME IndInv, FiniteDue, Receive
    PROVE  Maps
<1>t. traceChan \in Seq(SUBSET Span)
  BY DEF IndInv, TypeOK
<1>1. /\ UNCHANGED <<ctx, finished, pc, cur, out, dropped>>
      /\ taken' = taken \cup traceChan[1]
      /\ traceChan[1] \in SUBSET Span
      /\ 1 \in DOMAIN traceChan
  BY <1>t DEF Receive, ctxVars, spanVars, goVars
<1>2. Counting' = Counting /\ \A u \in Trace : Due(u)' = Due(u)
  BY <1>1, SameCounting DEF InFinish, Due
<1>3. /\ \A i \in DOMAIN traceChan' : i + 1 \in DOMAIN traceChan
                                       /\ traceChan'[i] = traceChan[i + 1]
      /\ \A i \in DOMAIN traceChan : i # 1 => i - 1 \in DOMAIN traceChan'
                                       /\ traceChan'[i - 1] = traceChan[i]
  BY <1>t DEF Receive
<1>4. ASSUME NEW s \in traceChan[1] PROVE Place(s) = "queued" /\ Place(s)' = "taken"
  <2>1. /\ s \notin taken /\ s \notin dropped /\ s \notin dropped'
        /\ \A h \in Goroutine : s \notin out[h] /\ s \notin out'[h]
    BY <1>1 DEF IndInv, ExportedOnce
  <2>2. s \in taken' /\ \A i \in DOMAIN traceChan' : s \notin traceChan'[i]
    <3>1. \A i \in DOMAIN traceChan : i # 1 => s \notin traceChan[i]
      BY <1>1 DEF IndInv, ExportedOnce
    <3>2. \A i \in DOMAIN traceChan' : i + 1 # 1
      BY <1>t DEF Receive
    <3> QED
      BY <1>1, <1>3, <3>1, <3>2
  <2>3. \E i \in DOMAIN traceChan : s \in traceChan[i]
    BY <1>1
  <2> QED
    BY <2>1, <2>2, <2>3 DEF Place
<1>5. \A s \in Span \ traceChan[1] : (\E i \in DOMAIN traceChan' : s \in traceChan'[i])
                                        <=> (\E i \in DOMAIN traceChan : s \in traceChan[i])
  BY <1>3
<1>6. \A s \in Span \ traceChan[1] : Place(s)' = Place(s)
  BY <1>1, <1>5 DEF Place
<1>7. \A s \in traceChan[1] : Place(s) = "queued" /\ Place(s)' = "taken"
  BY <1>4
<1> QED
  BY <1>1, <1>2, <1>6, <1>7, MoveMaps
-----------------------------------------------------------------------------
\* Whatever goroutines interleave in Finish, collection does what SpanExport
\* promises: a collection falls due exactly when the last open span of a trace
\* has been counted, each span is held once and only while one is due, and the
\* spans of a trace are queued, received or dropped together.
THEOREM Implements == Spec => ImplementsExport
<1>1. IndInv /\ IndInv' /\ FiniteDue /\ [Next]_vars => Maps
  <2> SUFFICES ASSUME IndInv, IndInv', FiniteDue, [Next]_vars PROVE Maps
    OBVIOUS
  <2>1. CASE UNCHANGED core
    <3>1. UNCHANGED <<ctx, finished, pc, cur, taken, dropped, traceChan, out>>
      BY <2>1 DEF core
    <3>2. Counting' = Counting /\ \A u \in Trace : Due(u)' = Due(u)
      BY <3>1, SameCounting DEF InFinish, Due
    <3> QED
      BY <3>1, <3>2, SamePlaces, Stutter
  <2> QED
    BY <2>1, StepCases, AddsMaps, FinishMaps, AdvancesMaps, FinishSpanMaps, CollectMaps,
       CollectSpanMaps, EndOfSpansMaps, SendTraceMaps, ReceiveMaps DEF IndInv
<1>2. Maps => [Export!Next]_(Export!vars) /\ FiniteDue'
  BY DEF Maps
<1>3. Spec => Export!Init /\ [][Export!Next]_(Export!vars)
  BY <1>1, <1>2, InitMaps, Inductive, PTL DEF Spec
<1> QED
  BY <1>3 DEF ImplementsExport, Export!Spec
=============================================================================
