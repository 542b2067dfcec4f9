----------------------------- MODULE Lifecycle ------------------------------
(***************************************************************************)
(* Start and Stop of the tracers and profilers of one process, and the two *)
(* kinds of background goroutine their Stop waits for: the loop of the     *)
(* service register (trace/internal/service_register/register.go), one for *)
(* the process, and the loop of a tracer's runtime monitor                 *)
(* (trace/aitracer/runtime/runtime.go).                                    *)
(*                                                                         *)
(* Start and Stop run in the goroutine of their owner, a step being the    *)
(* code between two accesses to the register or to the monitor.  The other *)
(* parts that they start and stop belong to one owner each and are not     *)
(* modelled here.  A tracer is built with a runtime monitor, the default.  *)
(***************************************************************************)
EXTENDS Naturals

CONSTANTS Tracer, Profiler,
          BatchTicks   \* ticks of the monitor that fill a batch of metrics

ASSUME LifecycleAssumption == Tracer \cap Profiler = {} /\ BatchTicks \in Nat \ {0}

Owner == Tracer \cup Profiler

VARIABLES
    pc,          \* where an owner is
    \* the singleton Register
    ran,         \* runOnce has run
    stopClosed,  \* stopChan is closed
    loop,        \* runLoop, in the goroutine that the Start of this owner began
    \* the runtime monitor of a tracer and its metrics client
    monitor,     \* "none", "running" (run or select), "gone"
    closeChan,   \* closeChan is closed
    client,      \* "new", "running", "closed"
    unflushed,   \* ticks whose metrics nobody flushes, as client is closed
    crashed      \* "no", or what panicked: "register", "monitor"

ownerVars    == <<pc>>
registerVars == <<ran, stopClosed, loop>>
monitorVars  == <<monitor, closeChan, client, unflushed>>
vars         == <<ownerVars, registerVars, monitorVars, crashed>>

Labels == {"new", "starting", "up", "stopping", "waitRegister", "closing",
           "closeMonitor", "waitMonitor", "down"}

TypeOK ==
    /\ pc \in [Owner -> Labels]
    /\ ran \in BOOLEAN
    /\ stopClosed \in BOOLEAN
    /\ loop \in [Owner -> {"none", "calling", "select", "gone"}]
    /\ monitor \in [Tracer -> {"none", "running", "gone"}]
    /\ closeChan \in [Tracer -> BOOLEAN]
    /\ client \in [Tracer -> {"new", "running", "closed"}]
    /\ unflushed \in [Tracer -> 0..BatchTicks]
    /\ crashed \in {"no", "register", "monitor"}

Init ==
    /\ pc = [o \in Owner |-> "new"]
    /\ ran = FALSE
    /\ stopClosed = FALSE
    /\ loop = [o \in Owner |-> "none"]
    /\ monitor = [t \in Tracer |-> "none"]
    /\ closeChan = [t \in Tracer |-> FALSE]
    /\ client = [t \in Tracer |-> "new"]
    /\ unflushed = [t \in Tracer |-> 0]
    /\ crashed = "no"

Goto(o, label) == pc' = [pc EXCEPT ![o] = label]
-----------------------------------------------------------------------------
(* The register                                                            *)

\* The function runOnce.Do has not run. (Fault: no sync.Once.)
FirstRun_Always == TRUE
FirstRun == ~ran

\* Register.Start, called by the Start of o.
StartRegister(o) ==
    /\ pc[o] = "new"
    /\ ran' = TRUE
    /\ loop' = IF FirstRun THEN [loop EXCEPT ![o] = "calling"] ELSE loop
    /\ Goto(o, "starting")
    /\ UNCHANGED <<stopClosed, monitorVars, crashed>>

\* register() returns: the agent answered or the client timed out.
CallReturns(o) ==
    /\ loop[o] = "calling"
    /\ loop' = [loop EXCEPT ![o] = "select"]
    /\ UNCHANGED <<ownerVars, ran, stopClosed, monitorVars, crashed>>

RegisterTick(o) ==
    /\ loop[o] = "select"
    /\ loop' = [loop EXCEPT ![o] = "calling"]
    /\ UNCHANGED <<ownerVars, ran, stopClosed, monitorVars, crashed>>

\* case <-r.stopChan: return. (Fault: break.)
LoopEnds_Break(o) == FALSE
LoopEnds(o) == TRUE

SeeStop(o) ==
    /\ loop[o] = "select"
    /\ stopClosed
    /\ LoopEnds(o)
    /\ loop' = [loop EXCEPT ![o] = "gone"]
    /\ UNCHANGED <<ownerVars, ran, stopClosed, monitorVars, crashed>>

\* Register.Stop: closing a closed channel panics.
StopRegister(o) ==
    /\ pc[o] = "stopping"
    /\ IF stopClosed
       THEN crashed' = "register" /\ UNCHANGED <<pc, stopClosed>>
       ELSE stopClosed' = TRUE /\ Goto(o, "waitRegister") /\ UNCHANGED crashed
    /\ UNCHANGED <<ran, loop, monitorVars>>

Looping(o) == loop[o] \in {"calling", "select"}

\* r.wg.Wait() returns. (Fault: it is not called.)
LoopsGone_NoWait == TRUE
LoopsGone == \A o \in Owner : ~Looping(o)

RegisterStopped(o) ==
    /\ pc[o] = "waitRegister"
    /\ LoopsGone
    /\ Goto(o, "closing")
    /\ UNCHANGED <<registerVars, monitorVars, crashed>>
-----------------------------------------------------------------------------
(* The runtime monitor                                                     *)

\* Monitor.Start ends the Start of a tracer; a profiler has nothing to do here.
FinishStart(o) ==
    /\ pc[o] = "starting"
    /\ Goto(o, "up")
    /\ IF o \in Tracer
       THEN /\ monitor' = [monitor EXCEPT ![o] = "running"]
            /\ client' = [client EXCEPT ![o] = "running"]
       ELSE UNCHANGED <<monitor, client>>
    /\ UNCHANGED <<registerVars, closeChan, unflushed, crashed>>

\* len(*mc.batchBuf) >= batchSize
FillsBatch(t) == unflushed[t] + 1 >= BatchTicks

\* case <-tc.C: run() emits. The batches of a closed client are flushed by
\* nobody until one is full, and then sent on the closed dataBuf.
MonitorTick(t) ==
    /\ monitor[t] = "running"
    /\ client[t] = "closed"
    /\ IF FillsBatch(t)
       THEN crashed' = "monitor"
       ELSE UNCHANGED crashed
    /\ unflushed' = [unflushed EXCEPT ![t] = @ + 1]
    /\ UNCHANGED <<ownerVars, registerVars, monitor, closeChan, client>>

\* case <-r.closeChan: break. It leaves the select, not the loop around it; a
\* return would make this "gone".
AfterBreak(t) == "running"

SeeClose(t) ==
    /\ monitor[t] = "running"
    /\ closeChan[t]
    /\ monitor' = [monitor EXCEPT ![t] = AfterBreak(t)]
    /\ UNCHANGED <<ownerVars, registerVars, closeChan, client, unflushed, crashed>>

\* Monitor.Close: the client, the channel, wg.Wait.
CloseClient(t) ==
    /\ pc[t] = "closing"
    /\ client' = [client EXCEPT ![t] = "closed"]
    /\ Goto(t, "closeMonitor")
    /\ UNCHANGED <<registerVars, monitor, closeChan, unflushed, crashed>>

CloseMonitor(t) ==
    /\ pc[t] = "closeMonitor"
    /\ closeChan' = [closeChan EXCEPT ![t] = TRUE]
    /\ Goto(t, "waitMonitor")
    /\ UNCHANGED <<registerVars, monitor, client, unflushed, crashed>>
-----------------------------------------------------------------------------
\* The owner of o calls Stop.
Stop(o) ==
    /\ pc[o] = "up"
    /\ Goto(o, "stopping")
    /\ UNCHANGED <<registerVars, monitorVars, crashed>>

\* Stop returns: a profiler's after Register.Stop; a tracer's, what it closes
\* after the monitor included, once the loop of the monitor is gone.
StopReturn(o) ==
    /\ IF o \in Tracer THEN pc[o] = "waitMonitor" /\ monitor[o] = "gone"
                       ELSE pc[o] = "closing"
    /\ Goto(o, "down")
    /\ UNCHANGED <<registerVars, monitorVars, crashed>>

OwnerStep(o) == FinishStart(o) \/ StopRegister(o) \/ RegisterStopped(o) \/ StopReturn(o)
TracerStep(t) == CloseClient(t) \/ CloseMonitor(t)
LoopStep(o) == CallReturns(o) \/ RegisterTick(o) \/ SeeStop(o)
MonitorStep(t) == MonitorTick(t) \/ SeeClose(t)

\* A panic ends the process.
Next ==
    /\ crashed = "no"
    /\ \/ \E o \in Owner : StartRegister(o) \/ Stop(o) \/ OwnerStep(o) \/ LoopStep(o)
       \/ \E t \in Tracer : TracerStep(t) \/ MonitorStep(t)

Spec == Init /\ [][Next]_vars

\* Goroutines run; an HTTP call returns, as the client has a timeout; and a
\* select does not pass over a closed channel for ever.
Alive(action) == crashed = "no" /\ action
FairSpec ==
    /\ Spec
    /\ \A o \in Owner : /\ WF_vars(Alive(OwnerStep(o)))
                        /\ WF_vars(Alive(CallReturns(o)))
                        /\ SF_vars(Alive(SeeStop(o)))
    /\ \A t \in Tracer : WF_vars(Alive(TracerStep(t))) /\ SF_vars(Alive(SeeClose(t)))
-----------------------------------------------------------------------------
(* Properties                                                              *)

\* However many tracers and profilers start, at once or after one another, one
\* goroutine registers the process.
RegisteredOnce == TypeOK /\
    \A o, p \in Owner : loop[o] # "none" /\ loop[p] # "none" => o = p

\* Once Register.Stop has returned no call to the agent is in progress, and
\* none will begin.
NoCallAfterStop ==
    (\E o \in Owner : pc[o] \in {"closing", "closeMonitor", "waitMonitor", "down"})
    => \A o \in Owner : loop[o] # "calling"

\* Register.Stop returns, the agent being away or not.
RegisterStops == \A o \in Owner :
    pc[o] = "waitRegister" ~> (pc[o] # "waitRegister" \/ crashed # "no")

\* sirupsen/example_test.go:30 and other tests end with tracer.Stop(): it
\* returns.
TracerStopReturns == \A t \in Tracer : pc[t] = "stopping" ~> pc[t] = "down"
=============================================================================
