---------------------------- MODULE TraceContext ----------------------------
(***************************************************************************)
(* The life of the spans of a tracer (trace/aitracer: span.go,             *)
(* trace_context.go, tracer.go): goroutines start spans in shared trace    *)
(* contexts, annotate and finish them in any order and from any goroutine; *)
(* the goroutine that finishes the last open span of a trace collects the  *)
(* trace and offers it, without blocking, to the channel the trace senders *)
(* read.                                                                   *)
(*                                                                         *)
(* A step of a goroutine is a maximal piece of its code between two        *)
(* accesses to state that other goroutines write: the atomic operations,   *)
(* the critical sections under spansLock and errLock, the channel send.    *)
(* Identifiers, times, tags and names are data no property looks at.       *)
(***************************************************************************)
EXTENDS Naturals, Sequences, FiniteSets

CONSTANTS Trace,          \* the trace contexts that may be created
          Span,           \* the spans that may be started
          Goroutine,      \* the goroutines that call Finish
          Annotator,      \* the goroutines that call RecordError and SetStatus
          Types,          \* the types of the spans that are started
          Statuses,       \* the statuses users set
          Panics,         \* whether Finish runs while its goroutine panics
          ChanSize,       \* TracerConfig.SenderChanSize
          HasMetrics,     \* TracerConfig.EnableMetric: metricsClient is not nil
          ControlEnable,  \* BYTEAPM_TL_EMIT_CONTROL = "1"
          NoTrace, NoSpan

ASSUME TraceAssumption ==
    /\ ChanSize \in Nat
    /\ HasMetrics \in BOOLEAN /\ ControlEnable \in BOOLEAN
    /\ NoTrace \notin Trace
    /\ NoSpan \notin Span
    /\ Types \subseteq {"common", "server", "client"}
    /\ Statuses \subseteq {0, 1}
    /\ Panics \subseteq BOOLEAN

VARIABLES
    \* struct traceContext
    spans,        \* [Trace -> Seq(Span)], appended to under spansLock
    finishCount,  \* [Trace -> Nat], under spansLock
    sampled,      \* [Trace -> BOOLEAN], sampleStrategy and sampleFlags say "collect"
    \* struct span
    ctx,          \* the trace context of a span, NoTrace before it is started
    spanType,     \* "common", "server" or "client"
    finished,     \* the atomic flag Finish sets
    stamped,      \* finishTime and duration have been written
    errors,       \* ErrorInfoList: the kinds of entries it holds
    status,       \* 0 or 1
    emitFlag,     \* the baggage item "byteapm-tl-emit" is "1"
    collected,    \* the atomic flag emitTrace sets
    \* goroutines inside Finish
    pc, cur, next, upto, out,
    note,         \* the span and the call an annotator is in the middle of
    \* the tracer and what has left it
    traceChan,    \* Seq(SUBSET Span): the traces waiting for a sender
    taken,        \* spans a sender has received
    dropped,      \* spans of traces dropped because traceChan was full
    \* history
    snap,         \* what emitTrace read of a span when it collected it
    metrics,      \* how many times a span emitted its metrics
    panicked,     \* the spans whose Finish recovered a panic
    late          \* spans added while a goroutine was about to collect the trace

ctxVars  == <<spans, finishCount, sampled>>
spanVars == <<ctx, spanType, finished, stamped, errors, status, emitFlag, collected>>
goVars   == <<pc, cur, next, upto, out, note>>
chanVars == <<traceChan, taken, dropped>>
histVars == <<snap, metrics, panicked, late>>
vars     == <<ctxVars, spanVars, goVars, chanVars, histVars>>

SpanTypes  == {"common", "server", "client"}
ErrorKinds == {"recorded", "panic"}
NoSnap     == [stamped |-> FALSE, errors |-> {}, status |-> 0]
NoNote     == [span |-> NoSpan, kind |-> "error"]
PCs        == {"idle", "stamping", "capturing", "metering", "counting",
               "collecting", "emitting", "sending"}

Started == {s \in Span : ctx[s] # NoTrace}

TypeOK ==
    /\ spans \in [Trace -> Seq(Span)]
    /\ finishCount \in [Trace -> Nat]
    /\ sampled \in [Trace -> BOOLEAN]
    /\ ctx \in [Span -> Trace \cup {NoTrace}]
    /\ spanType \in [Span -> SpanTypes]
    /\ finished \in [Span -> BOOLEAN]
    /\ stamped \in [Span -> BOOLEAN]
    /\ errors \in [Span -> SUBSET ErrorKinds]
    /\ status \in [Span -> {0, 1}]
    /\ emitFlag \in [Span -> BOOLEAN]
    /\ collected \in [Span -> BOOLEAN]
    /\ pc \in [Goroutine -> PCs]
    /\ cur \in [Goroutine -> Span \cup {NoSpan}]
    /\ next \in [Goroutine -> Nat]
    /\ upto \in [Goroutine -> Nat]
    /\ out \in [Goroutine -> SUBSET Span]
    /\ note \in [Annotator -> [span : Span \cup {NoSpan}, kind : {"error", "status"}]]
    /\ traceChan \in Seq(SUBSET Span) /\ Len(traceChan) <= ChanSize
    /\ taken \subseteq Span
    /\ dropped \subseteq Span
    /\ snap \in [Span -> [stamped : BOOLEAN, errors : SUBSET ErrorKinds,
                          status : {0, 1}]]
    /\ metrics \in [Span -> Nat]
    /\ panicked \subseteq Span
    /\ late \subseteq Span

Init ==
    /\ spans = [t \in Trace |-> <<>>]
    /\ finishCount = [t \in Trace |-> 0]
    /\ sampled = [t \in Trace |-> FALSE]
    /\ ctx = [s \in Span |-> NoTrace]
    /\ spanType = [s \in Span |-> "common"]
    /\ finished = [s \in Span |-> FALSE]
    /\ stamped = [s \in Span |-> FALSE]
    /\ errors = [s \in Span |-> {}]
    /\ status = [s \in Span |-> 0]
    /\ emitFlag = [s \in Span |-> FALSE]
    /\ collected = [s \in Span |-> FALSE]
    /\ pc = [g \in Goroutine |-> "idle"]
    /\ cur = [g \in Goroutine |-> NoSpan]
    /\ next = [g \in Goroutine |-> 0]
    /\ upto = [g \in Goroutine |-> 0]
    /\ out = [g \in Goroutine |-> {}]
    /\ note = [a \in Annotator |-> NoNote]
    /\ traceChan = <<>>
    /\ taken = {}
    /\ dropped = {}
    /\ snap = [s \in Span |-> NoSnap]
    /\ metrics = [s \in Span |-> 0]
    /\ panicked = {}
    /\ late = {}
-----------------------------------------------------------------------------
(* Starting spans                                                          *)

\* traceContext.addSpan, and the span literal of startSpan.
AddSpan(t, s, ty, flag) ==
    /\ spans' = [spans EXCEPT ![t] = Append(@, s)]
    /\ ctx' = [ctx EXCEPT ![s] = t]
    /\ spanType' = [spanType EXCEPT ![s] = ty]
    /\ emitFlag' = [emitFlag EXCEPT ![s] = flag]
    /\ late' = IF \E g \in Goroutine : pc[g] = "collecting" /\ ctx[cur[g]] = t
               THEN late \cup {s} ELSE late
    /\ UNCHANGED <<finishCount, finished, stamped, errors, status, collected,
                   goVars, chanVars, snap, metrics, panicked>>

\* startSpan with no parent or with a parent from another process: a new trace
\* context, whose sampling is decided here, and the baggage of the remote parent.
StartRoot(t, s, ty, smp, flag) ==
    /\ spans[t] = <<>>
    /\ s \notin Started
    /\ flag => ControlEnable
    /\ sampled' = [sampled EXCEPT ![t] = smp]
    /\ AddSpan(t, s, ty, flag)

\* startSpan with a parent span of this process, finished or not: its trace
\* context and a copy of its baggage.
StartChild(parent, s, ty) ==
    /\ parent \in Started
    /\ s \notin Started
    /\ AddSpan(ctx[parent], s, ty, emitFlag[parent])
    /\ UNCHANGED sampled

\* SetBaggageItem("byteapm-tl-emit", ...); it does not look at finished.
SetEmitControl(s, flag) ==
    /\ ControlEnable
    /\ s \in Started
    /\ emitFlag' = [emitFlag EXCEPT ![s] = flag]
    /\ UNCHANGED <<ctxVars, ctx, spanType, finished, stamped, errors, status,
                   collected, goVars, chanVars, histVars>>
-----------------------------------------------------------------------------
(* RecordError and SetStatus look at finished first and write later        *)

Annotate(a, s, kind) ==
    /\ note[a] = NoNote
    /\ s \in Started
    /\ ~finished[s]
    /\ note' = [note EXCEPT ![a] = [span |-> s, kind |-> kind]]
    /\ UNCHANGED <<ctxVars, spanVars, pc, cur, next, upto, out, chanVars, histVars>>

RecordError(a, s) == Annotate(a, s, "error")
SetStatus(a, s)   == Annotate(a, s, "status")

\* RecordError's append, under errLock.
AppendError(a) ==
    /\ note[a] # NoNote
    /\ note[a].kind = "error"
    /\ errors' = [errors EXCEPT ![note[a].span] = @ \cup {"recorded"}]
    /\ note' = [note EXCEPT ![a] = NoNote]
    /\ UNCHANGED <<ctxVars, ctx, spanType, finished, stamped, status, emitFlag,
                   collected, pc, cur, next, upto, out, chanVars, histVars>>

\* SetStatus's assignment, under no lock.
WriteStatus(a, st) ==
    /\ note[a].kind = "status"
    /\ status' = [status EXCEPT ![note[a].span] = st]
    /\ note' = [note EXCEPT ![a] = NoNote]
    /\ UNCHANGED <<ctxVars, ctx, spanType, finished, stamped, errors, emitFlag,
                   collected, pc, cur, next, upto, out, chanVars, histVars>>
-----------------------------------------------------------------------------
(* Finish and FinishWithOption                                             *)

Goto(g, label) == pc' = [pc EXCEPT ![g] = label]
Return(g) == /\ Goto(g, "idle")
             /\ cur' = [cur EXCEPT ![g] = NoSpan]

\* CompareAndSwapInt64(&s.finished, 0, 1) succeeds. (Fault: a plain store.)
FirstFinish_NoCas(s) == TRUE
FirstFinish(s) == ~finished[s]

\* A call of Finish after the first returns at once.
Finish(g, s) ==
    /\ pc[g] = "idle"
    /\ s \in Started
    /\ FirstFinish(s)
    /\ finished' = [finished EXCEPT ![s] = TRUE]
    /\ Goto(g, "stamping")
    /\ cur' = [cur EXCEPT ![g] = s]
    /\ UNCHANGED <<ctxVars, ctx, spanType, stamped, errors, status, emitFlag,
                   collected, next, upto, out, note, chanVars, histVars>>

\* finishTime, duration, fillTag; FinishWithOption also writes the status its
\* caller passes, Finish leaves it.
Stamp(g, st) ==
    /\ pc[g] = "stamping"
    /\ st \in Statuses \cup {status[cur[g]]}
    /\ stamped' = [stamped EXCEPT ![cur[g]] = TRUE]
    /\ status' = [status EXCEPT ![cur[g]] = st]
    /\ Goto(g, "capturing")
    /\ UNCHANGED <<ctxVars, ctx, spanType, finished, errors, emitFlag, collected,
                   cur, next, upto, out, note, chanVars, histVars>>

\* recover(): there is a panic to record, or there is none (or
\* DisablePanicCapture is set).
CapturePanic(g, panic) ==
    /\ pc[g] = "capturing"
    /\ IF panic
       THEN /\ errors' = [errors EXCEPT ![cur[g]] = @ \cup {"panic"}]
            /\ status' = [status EXCEPT ![cur[g]] = 1]
            /\ panicked' = panicked \cup {cur[g]}
       ELSE UNCHANGED <<errors, status, panicked>>
    /\ Goto(g, "metering")
    /\ UNCHANGED <<ctxVars, ctx, spanType, finished, stamped, emitFlag, collected,
                   cur, next, upto, out, note, chanVars, snap, metrics, late>>

\* span.emitMetric: nothing for a common span or without a client.
Measured(s) == HasMetrics /\ spanType[s] # "common"

EmitMetric(g) ==
    /\ pc[g] = "metering"
    /\ metrics' = [metrics EXCEPT ![cur[g]] = IF Measured(cur[g]) THEN @ + 1 ELSE @]
    /\ Goto(g, "counting")
    /\ UNCHANGED <<ctxVars, spanVars, cur, next, upto, out, note, chanVars, snap,
                   panicked, late>>

\* finishCount == len(spans), after the increment. (Faults: off by one; before
\* the increment.)
LastToFinish_Early(t) == finishCount[t] = Len(spans[t])
LastToFinish_OffByOne(t) == finishCount[t] + 2 >= Len(spans[t])
LastToFinish(t) == finishCount[t] + 1 = Len(spans[t])

\* The critical section of traceContext.finishSpan.
FinishSpan(g) ==
    LET t == ctx[cur[g]] IN
    /\ pc[g] = "counting"
    /\ finishCount' = [finishCount EXCEPT ![t] = @ + 1]
    /\ IF LastToFinish(t)
       THEN Goto(g, "collecting") /\ UNCHANGED cur
       ELSE Return(g)
    /\ UNCHANGED <<spans, sampled, spanVars, next, upto, out, note, chanVars, histVars>>

ShouldEmit(s) == ControlEnable => emitFlag[s]

\* tracer.collect and the beginning of emitTrace, up to the range over
\* tc.spans, which is read without spansLock: the loop visits the spans that
\* are in the slice now.
Collect(g) ==
    LET t == ctx[cur[g]] IN
    /\ pc[g] = "collecting"
    /\ IF sampled[t] /\ spans[t] # <<>> /\ ShouldEmit(spans[t][1])
       THEN /\ Goto(g, "emitting")
            /\ next' = [next EXCEPT ![g] = 1]
            /\ upto' = [upto EXCEPT ![g] = Len(spans[t])]
            /\ UNCHANGED cur
       ELSE /\ Return(g)
            /\ UNCHANGED <<next, upto>>
    /\ UNCHANGED <<ctxVars, spanVars, out, note, chanVars, histVars>>

\* CompareAndSwapInt64(&span.collected, 0, 1) succeeds. (Fault: a plain store.)
WinsSpan_NoCas(s) == TRUE
WinsSpan(s) == ~collected[s]

\* "continue" past a span another trace already took. (Fault: "break".)
NextSpan_Break(g, won) == IF won THEN next[g] + 1 ELSE upto[g] + 1
NextSpan(g, won) == next[g] + 1

\* One iteration of that loop: the compare-and-swap on collected and, when it
\* succeeds, the copy of the span into the trace.
CollectSpan(g) ==
    LET s == spans[ctx[cur[g]]][next[g]] IN
    /\ pc[g] = "emitting"
    /\ next[g] <= upto[g]
    /\ next' = [next EXCEPT ![g] = NextSpan(g, WinsSpan(s))]
    /\ IF WinsSpan(s)
       THEN /\ collected' = [collected EXCEPT ![s] = TRUE]
            /\ snap' = [snap EXCEPT ![s] = [stamped |-> stamped[s],
                                            errors |-> errors[s],
                                            status |-> status[s]]]
            /\ out' = [out EXCEPT ![g] = @ \cup {s}]
       ELSE UNCHANGED <<collected, snap, out>>
    /\ UNCHANGED <<ctxVars, ctx, spanType, finished, stamped, errors, status,
                   emitFlag, pc, cur, upto, note, chanVars, metrics, panicked, late>>

EndOfSpans(g) ==
    /\ pc[g] = "emitting"
    /\ next[g] > upto[g]
    /\ Goto(g, "sending")
    /\ UNCHANGED <<ctxVars, spanVars, cur, next, upto, out, note, chanVars, histVars>>

HasRoom == Len(traceChan) < ChanSize

\* (Fault: traceChan <- &trace, without the default case.)
SendTrace_Blocking(g) ==
    /\ pc[g] = "sending"
    /\ HasRoom
    /\ traceChan' = Append(traceChan, out[g])
    /\ out' = [out EXCEPT ![g] = {}]
    /\ Return(g)
    /\ UNCHANGED <<ctxVars, spanVars, next, upto, note, taken, dropped, histVars>>

\* select { case traceChan <- &trace: default: }
SendTrace(g) ==
    /\ pc[g] = "sending"
    /\ IF HasRoom
       THEN traceChan' = Append(traceChan, out[g]) /\ UNCHANGED dropped
       ELSE dropped' = dropped \cup out[g] /\ UNCHANGED traceChan
    /\ out' = [out EXCEPT ![g] = {}]
    /\ Return(g)
    /\ UNCHANGED <<ctxVars, spanVars, next, upto, note, taken, histVars>>

\* A trace sender receives: case item := <-s.in.
Receive ==
    /\ traceChan # <<>>
    /\ taken' = taken \cup Head(traceChan)
    /\ traceChan' = Tail(traceChan)
    /\ UNCHANGED <<ctxVars, spanVars, goVars, dropped, histVars>>
-----------------------------------------------------------------------------
\* What a goroutine does once it is inside Finish: nothing here waits.
FinishStep(g) ==
    \/ \E st \in {0, 1} : Stamp(g, st)
    \/ \E panic \in Panics : CapturePanic(g, panic)
    \/ EmitMetric(g)
    \/ FinishSpan(g)
    \/ Collect(g)
    \/ CollectSpan(g)
    \/ EndOfSpans(g)
    \/ SendTrace(g)

User ==
    \/ \E t \in Trace, s \in Span, ty \in Types, smp, flag \in BOOLEAN :
           StartRoot(t, s, ty, smp, flag)
    \/ \E parent, s \in Span, ty \in Types : StartChild(parent, s, ty)
    \/ \E s \in Span, flag \in BOOLEAN : SetEmitControl(s, flag)
    \/ \E a \in Annotator, s \in Span : RecordError(a, s) \/ SetStatus(a, s)
    \/ \E a \in Annotator : AppendError(a) \/ \E st \in Statuses : WriteStatus(a, st)
    \/ \E g \in Goroutine, s \in Span : Finish(g, s)

Next ==
    \/ User
    \/ \E g \in Goroutine : FinishStep(g)
    \/ Receive

Spec == Init /\ [][Next]_vars

\* A goroutine inside Finish keeps running: the code there never blocks on
\* another component, so the Go scheduler alone justifies weak fairness.
GoroutineFairness == \A g \in Goroutine : WF_vars(FinishStep(g))
FairSpec == Spec /\ GoroutineFairness
-----------------------------------------------------------------------------
(* Properties                                                              *)

SpansOf(t) == {s \in Span : ctx[s] = t}

\* A goroutine is between the two atomic sections of Finish for s.
InFinish(g)  == pc[g] \in {"stamping", "capturing", "metering", "counting"}
Finishing(s) == \E g \in Goroutine : cur[g] = s /\ InFinish(g)

Counted(s) == finished[s] /\ ~Finishing(s)

\* The positions in tc.spans of the spans finishSpan has counted.
CountedIn(t) == {i \in 1..Len(spans[t]) : Counted(spans[t][i])}

\* A goroutine has still to look at s in order to collect it.
ToBeCollected(s) == \E g \in Goroutine :
    /\ cur[g] # NoSpan
    /\ ctx[cur[g]] = ctx[s]
    /\ \/ pc[g] = "collecting"
       \/ /\ pc[g] = "emitting"
          /\ \E i \in next[g]..upto[g] : spans[ctx[s]][i] = s

\* finishCount counts each finished span of the trace once, however many
\* goroutines call Finish on it and in whatever order they reach finishSpan.
FinishCountExact == \A t \in Trace : finishCount[t] = Cardinality(CountedIn(t))

\* No span is left behind: once every span of a sampled trace has been counted,
\* each of them is in a trace, or in the way of a goroutine that is collecting
\* it. This is what finishSpan's last-one-out test is for, asynchronous spans
\* that join a trace already sent included.
NoSpanStranded ==
    ~ControlEnable =>
    \A t \in Trace :
        (sampled[t] /\ \A s \in SpansOf(t) : Counted(s))
        => \A s \in SpansOf(t) : collected[s] \/ ToBeCollected(s)

\* The traces being built, waiting, received and dropped share no span: the
\* backend never sees a span twice, though several goroutines may run
\* emitTrace over the same tc.spans at once (the CAS on collected).
ExportedOnce ==
    /\ \A g, h \in Goroutine : g # h => out[g] \cap out[h] = {}
    /\ \A i, j \in DOMAIN traceChan : i # j => traceChan[i] \cap traceChan[j] = {}
    /\ \A g \in Goroutine, i \in DOMAIN traceChan : out[g] \cap traceChan[i] = {}
    /\ \A g \in Goroutine : out[g] \cap (taken \cup dropped) = {}
    /\ \A i \in DOMAIN traceChan : traceChan[i] \cap (taken \cup dropped) = {}
    /\ taken \cap dropped = {}

\* A span is exported with its times, the panic its Finish recovered and after
\* its metrics, unless it was added in the window between finishSpan's unlock
\* and emitTrace's read of tc.spans.
CompleteUnlessLate ==
    \A s \in Span : collected[s] /\ s \notin late =>
        /\ snap[s].stamped
        /\ s \in panicked => "panic" \in snap[s].errors
        /\ metrics[s] = IF Measured(s) THEN 1 ELSE 0

\* What tracer.go:447 says of a span that is already collected ("may have
\* finished and send out"): a collected span has finished.
EmittedSpansFinished == \A s \in Span : collected[s] => snap[s].stamped

\* tc.spans lists the started spans of the trace, each once.
SpanLists ==
    /\ \A t \in Trace : \A i \in 1..Len(spans[t]) : ctx[spans[t][i]] = t
    /\ \A t \in Trace : \A i, j \in 1..Len(spans[t]) :
           spans[t][i] = spans[t][j] => i = j
    /\ \A s \in Started : \E i \in 1..Len(spans[ctx[s]]) : spans[ctx[s]][i] = s

\* What the program counter of a goroutine says of its local state, and one
\* goroutine at most is past the compare-and-swap of a span and has still to
\* count it.
Goroutines ==
    /\ \A g \in Goroutine :
        /\ pc[g] = "idle" <=> cur[g] = NoSpan
        /\ pc[g] # "idle" => cur[g] \in Started /\ finished[cur[g]]
        /\ pc[g] = "emitting" => next[g] >= 1 /\ upto[g] <= Len(spans[ctx[cur[g]]])
    /\ \A g, h \in Goroutine : g # h /\ InFinish(g) /\ InFinish(h) => cur[g] # cur[h]
    /\ \A s \in Span : finished[s] \/ collected[s] => s \in Started

\* When the last span of a sampled trace has been counted, every span of the
\* trace is collected or some goroutine is on its way to it.
Responsibility ==
    ~ControlEnable =>
    \A t \in Trace :
        sampled[t] /\ finishCount[t] = Len(spans[t])
        => \A s \in SpansOf(t) : collected[s] \/ ToBeCollected(s)

\* Every span in a trace was taken with the CAS on collected.
OnlyCollected ==
    /\ \A g \in Goroutine : \A s \in out[g] : collected[s]
    /\ \A i \in DOMAIN traceChan : \A s \in traceChan[i] : collected[s]
    /\ \A s \in taken \cup dropped : collected[s]

\* What Finish has written of a span by the time it is counted: its times, the
\* panic it recovered and, if it is measured, its metrics.
Metered(s) == finished[s] /\ ~\E g \in Goroutine :
    cur[g] = s /\ pc[g] \in {"stamping", "capturing", "metering"}

Filled ==
    /\ \A s \in Span : finished[s] =>
           stamped[s] \/ \E g \in Goroutine : cur[g] = s /\ pc[g] = "stamping"
    /\ \A s \in panicked : "panic" \in errors[s]
    /\ \A s \in Span :
           metrics[s] = IF Metered(s) /\ Measured(s) THEN 1 ELSE 0

\* A goroutine collects counted spans only, but for the late ones, and a trace
\* holds what Finish had written of them.
Settled(s) == s \in late \/ Counted(s)

OnlySettled ==
    /\ \A g \in Goroutine : pc[g] = "collecting" =>
           \A s \in SpansOf(ctx[cur[g]]) : Settled(s)
    /\ \A g \in Goroutine : pc[g] = "emitting" =>
           \A i \in next[g]..upto[g] : Settled(spans[ctx[cur[g]]][i])
    /\ \A s \in Span : collected[s] /\ s \notin late =>
           /\ Counted(s)
           /\ snap[s].stamped
           /\ s \in panicked => "panic" \in snap[s].errors

IndInv ==
    /\ TypeOK
    /\ SpanLists
    /\ Goroutines
    /\ FinishCountExact
    /\ Responsibility
    /\ OnlyCollected
    /\ ExportedOnce
    /\ Filled
    /\ OnlySettled

\* The view of SpanExport: a span has ended once finishSpan has counted it, a
\* collection is due from there to the end of the loop over tc.spans.
Counting == {s \in Span : Counted(s)}
Due(t)   == {g \in Goroutine : pc[g] \in {"collecting", "emitting"} /\ ctx[cur[g]] = t}
Place(s) ==
    CASE s \in taken -> "taken"
      [] s \in dropped -> "dropped"
      [] \E i \in DOMAIN traceChan : s \in traceChan[i] -> "queued"
      [] \E g \in Goroutine : s \in out[g] -> "held"
      [] OTHER -> "process"

Export == INSTANCE SpanExport
    WITH ended <- Counting,
         due   <- [t \in Trace |-> Cardinality(Due(t))],
         place <- [s \in Span |-> Place(s)]

\* Goroutines, locks and counters implement SpanExport: a collection starts
\* exactly when no span of the trace is open, every span goes out once, and a
\* trace is queued, received or dropped as a whole.
ImplementsExport == Export!Spec

\* Finish never waits for the senders ("non-blocking. otherwise span.Finish
\* could be blocked", tracer.go:536): no fairness of Receive is assumed.
FinishReturns == \A g \in Goroutine :
    pc[g] # "idle" ~> pc[g] = "idle"

AllFinished(t) == SpansOf(t) # {} /\ \A s \in SpansOf(t) : finished[s]
Offered(s) == \/ s \in taken \cup dropped
              \/ \E i \in DOMAIN traceChan : s \in traceChan[i]

\* A sampled trace all of whose spans are finished is offered to the channel,
\* unless a new span joins it.
FinishedTraceOffered == \A t \in Trace :
    (sampled[t] /\ AllFinished(t))
        ~> (~AllFinished(t) \/ \A s \in SpansOf(t) : Offered(s))
=============================================================================
