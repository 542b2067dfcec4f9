--------------------------- MODULE Lifecycle_proofs ---------------------------
(***************************************************************************)
(* Theorems about Lifecycle, for any number of tracers and profilers: one  *)
(* goroutine registers the process, and none calls the agent once a        *)
(* Register.Stop has returned.                                             *)
(***************************************************************************)
EXTENDS Lifecycle, TLAPS

AfterStop == {"closing", "closeMonitor", "waitMonitor", "down"}
Stopped   == \E o \in Owner : pc[o] \in AfterStop

\* Nobody is past its Start before runOnce has run, and no loop begins without
\* it; no loop runs behind a Stop that has returned; and the monitor that fills
\* a batch ends the process.
IndInv ==
    /\ TypeOK
    /\ \A o, p \in Owner : loop[o] # "none" /\ loop[p] # "none" => o = p
    /\ ~ran => \A o \in Owner : pc[o] = "new" /\ loop[o] = "none"
    /\ Stopped => LoopsGone
    /\ crashed = "no" => \A t \in Tracer : unflushed[t] < BatchTicks

LEMMA InitInv == Init => IndInv
<1> SUFFICES ASSUME Init PROVE IndInv
  OBVIOUS
<1>1. BatchTicks \in Nat /\ 0 < BatchTicks /\ 0 \in 0..BatchTicks
  BY LifecycleAssumption
<1>2. TypeOK
  BY <1>1 DEF Init, TypeOK, Labels
<1>3. ~Stopped
  BY DEF Init, Stopped, AfterStop
<1>4. \A t \in Tracer : unflushed[t] < BatchTicks
  BY <1>1 DEF Init
<1> QED
  BY <1>2, <1>3, <1>4 DEF Init, IndInv

\* A step that changes a pc only, to one that is not behind a Stop, or when
\* the loops are gone.
LEMMA Moves ==
    ASSUME IndInv, NEW o \in Owner, NEW l \in Labels, pc[o] # "new" \/ ran',
           Goto(o, l), l \in AfterStop => LoopsGone, LoopsGone => LoopsGone'
    PROVE  /\ pc' \in [Owner -> Labels]
           /\ \A p \in Owner : pc'[p] = IF p = o THEN l ELSE pc[p]
           /\ Stopped' => LoopsGone'
BY DEF IndInv, TypeOK, Goto, Stopped

LEMMA RegisterSteps ==
    ASSUME IndInv, NEW o \in Owner,
           StartRegister(o) \/ CallReturns(o) \/ RegisterTick(o) \/ SeeStop(o)
               \/ StopRegister(o) \/ RegisterStopped(o)
    PROVE  IndInv'
<1>t. /\ pc \in [Owner -> Labels]
      /\ loop \in [Owner -> {"none", "calling", "select", "gone"}]
  BY DEF IndInv, TypeOK
<1>1. CASE StartRegister(o)
  <2>1. /\ ran' = TRUE /\ pc[o] = "new"
        /\ pc' = [pc EXCEPT ![o] = "starting"]
        /\ loop' = IF ~ran THEN [loop EXCEPT ![o] = "calling"] ELSE loop
        /\ UNCHANGED <<stopClosed, monitor, closeChan, client, unflushed, crashed>>
    BY <1>1 DEF StartRegister, FirstRun, Goto, monitorVars
  <2>2. TypeOK'
    BY <1>t, <2>1 DEF IndInv, TypeOK, Labels
  <2>3. \A p, q \in Owner : loop'[p] # "none" /\ loop'[q] # "none" => p = q
    BY <1>t, <2>1 DEF IndInv
  <2>4. Stopped' => LoopsGone'
    BY <1>t, <2>1 DEF IndInv, Stopped, AfterStop, LoopsGone, Looping
  <2> QED
    BY <2>1, <2>2, <2>3, <2>4 DEF IndInv
<1>2. CASE CallReturns(o) \/ RegisterTick(o) \/ SeeStop(o)
  <2>1. /\ loop[o] \in {"calling", "select"}
        /\ \E l \in {"select", "calling", "gone"} : loop' = [loop EXCEPT ![o] = l]
        /\ UNCHANGED <<pc, ran, stopClosed, monitor, closeChan, client, unflushed, crashed>>
    BY <1>2 DEF CallReturns, RegisterTick, SeeStop, ownerVars, monitorVars
  <2>2. ~Stopped
    BY <2>1 DEF IndInv, LoopsGone, Looping
  <2>3. TypeOK'
    BY <1>t, <2>1 DEF IndInv, TypeOK
  <2>4. \A p, q \in Owner : loop'[p] # "none" /\ loop'[q] # "none" => p = q
    BY <1>t, <2>1 DEF IndInv
  <2>5. ran /\ ~Stopped'
    BY <2>1, <2>2 DEF IndInv, Stopped
  <2> QED
    BY <2>1, <2>3, <2>4, <2>5 DEF IndInv
<1>3. CASE StopRegister(o)
  <2>1. /\ pc[o] = "stopping"
        /\ UNCHANGED <<ran, loop, monitor, closeChan, client, unflushed>>
        /\ \/ crashed' = "register" /\ UNCHANGED <<pc, stopClosed>>
           \/ stopClosed' = TRUE /\ Goto(o, "waitRegister") /\ UNCHANGED crashed
    BY <1>3 DEF StopRegister, monitorVars
  <2>2. LoopsGone' = LoopsGone
    BY <2>1 DEF LoopsGone, Looping
  <2>3. CASE UNCHANGED pc
    BY <2>1, <2>2, <2>3 DEF IndInv, TypeOK, Stopped
  <2>4. CASE Goto(o, "waitRegister")
    BY <2>1, <2>2, <2>4, Moves DEF IndInv, TypeOK, Labels, AfterStop
  <2> QED
    BY <2>1, <2>3, <2>4
<1>4. CASE RegisterStopped(o)
  <2>1. /\ pc[o] = "waitRegister" /\ LoopsGone /\ Goto(o, "closing")
        /\ UNCHANGED <<ran, stopClosed, loop, monitor, closeChan, client, unflushed, crashed>>
    BY <1>4 DEF RegisterStopped, registerVars, monitorVars
  <2>2. LoopsGone'
    BY <2>1 DEF LoopsGone, Looping
  <2> QED
    BY <2>1, <2>2, Moves DEF IndInv, TypeOK, Labels
<1> QED
  BY <1>1, <1>2, <1>3, <1>4

LEMMA OwnerSteps ==
    ASSUME IndInv, NEW o \in Owner, FinishStart(o) \/ Stop(o) \/ StopReturn(o)
    PROVE  IndInv'
<1>1. UNCHANGED <<ran, stopClosed, loop, closeChan, unflushed, crashed>>
  BY DEF FinishStart, Stop, StopReturn, registerVars, monitorVars
<1>2. /\ monitor' \in [Tracer -> {"none", "running", "gone"}]
      /\ client' \in [Tracer -> {"new", "running", "closed"}]
  BY DEF FinishStart, Stop, StopReturn, monitorVars, IndInv, TypeOK
<1>3. PICK l \in {"up", "stopping", "down"} :
          pc[o] # "new" /\ Goto(o, l) /\ (l = "down" => pc[o] \in AfterStop)
  BY DEF FinishStart, Stop, StopReturn, AfterStop
<1>4. l \in AfterStop => LoopsGone
  BY <1>3 DEF IndInv, Stopped, AfterStop
<1>5. LoopsGone' = LoopsGone
  BY <1>1 DEF LoopsGone, Looping
<1>6. l \in Labels
  BY DEF Labels
<1> QED
  BY <1>1, <1>2, <1>3, <1>4, <1>5, <1>6, Moves DEF IndInv, TypeOK

LEMMA MonitorSteps ==
    ASSUME IndInv, crashed = "no", NEW t \in Tracer,
           CloseClient(t) \/ CloseMonitor(t) \/ MonitorTick(t) \/ SeeClose(t)
    PROVE  IndInv'
<1>o. t \in Owner
  BY DEF Owner
<1>t. /\ monitor \in [Tracer -> {"none", "running", "gone"}]
      /\ closeChan \in [Tracer -> BOOLEAN]
      /\ client \in [Tracer -> {"new", "running", "closed"}]
      /\ unflushed \in [Tracer -> 0..BatchTicks]
  BY DEF IndInv, TypeOK
<1>1. CASE CloseClient(t) \/ CloseMonitor(t)
  <2>1. /\ UNCHANGED <<ran, stopClosed, loop, monitor, unflushed, crashed>>
        /\ closeChan' \in [Tracer -> BOOLEAN]
        /\ client' \in [Tracer -> {"new", "running", "closed"}]
    BY <1>1, <1>t DEF CloseClient, CloseMonitor, registerVars
  <2>2. PICK l \in {"closeMonitor", "waitMonitor"} :
            pc[t] \in AfterStop /\ pc[t] # "new" /\ Goto(t, l)
    BY <1>1 DEF CloseClient, CloseMonitor, AfterStop
  <2>3. LoopsGone /\ LoopsGone' = LoopsGone /\ l \in Labels
    BY <1>o, <2>1, <2>2 DEF IndInv, Stopped, LoopsGone, Looping, Labels
  <2> QED
    BY <1>o, <2>1, <2>2, <2>3, Moves DEF IndInv, TypeOK
<1>2. CASE MonitorTick(t)
  <2>1. /\ UNCHANGED <<pc, ran, stopClosed, loop, monitor, closeChan, client>>
        /\ unflushed' = [unflushed EXCEPT ![t] = @ + 1]
        /\ crashed' = IF FillsBatch(t) THEN "monitor" ELSE crashed
    BY <1>2 DEF MonitorTick, ownerVars, registerVars
  <2>2. unflushed[t] \in 0..BatchTicks /\ unflushed[t] < BatchTicks /\ BatchTicks \in Nat
    BY <1>t, LifecycleAssumption DEF IndInv
  <2>3. unflushed' \in [Tracer -> 0..BatchTicks]
    BY <1>t, <2>1, <2>2
  <2>4. crashed' = "no" => \A u \in Tracer : unflushed'[u] < BatchTicks
    BY <1>t, <2>1, <2>2 DEF IndInv, FillsBatch
  <2> QED
    BY <2>1, <2>3, <2>4 DEF IndInv, TypeOK, Stopped, LoopsGone, Looping
<1>3. CASE SeeClose(t)
  <2>1. /\ UNCHANGED <<pc, ran, stopClosed, loop, closeChan, client, unflushed, crashed>>
        /\ monitor' \in [Tracer -> {"none", "running", "gone"}]
    BY <1>3, <1>t DEF SeeClose, AfterBreak, ownerVars, registerVars
  <2> QED
    BY <2>1 DEF IndInv, TypeOK, Stopped, LoopsGone, Looping
<1> QED
  BY <1>1, <1>2, <1>3

LEMMA Inductive == Spec => []IndInv
<1>1. IndInv /\ [Next]_vars => IndInv'
  <2> SUFFICES ASSUME IndInv, [Next]_vars PROVE IndInv'
    OBVIOUS
  <2>1. CASE UNCHANGED vars
    BY <2>1 DEF vars, ownerVars, registerVars, monitorVars, IndInv, TypeOK, Stopped,
                LoopsGone, Looping
  <2>2. CASE Next
    BY <2>2, RegisterSteps, OwnerSteps, MonitorSteps
    DEF Next, OwnerStep, LoopStep, TracerStep, MonitorStep
  <2> QED
    BY <2>1, <2>2
<1> QED
  BY InitInv, <1>1, PTL DEF Spec

\* sync.Once makes one loop for all owners, whoever starts first.
THEOREM RegisteredOnceCorrect == Spec => []RegisteredOnce
<1>1. IndInv => RegisteredOnce
  BY DEF IndInv, RegisteredOnce
<1> QED
  BY Inductive, <1>1, PTL

\* After a Register.Stop has returned the process never calls the agent again,
\* whatever the other owners of the register do.
THEOREM NoCallAfterStopCorrect == Spec => []NoCallAfterStop
<1>1. IndInv => NoCallAfterStop
  BY DEF IndInv, NoCallAfterStop, Stopped, AfterStop, LoopsGone, Looping
<1> QED
  BY Inductive, <1>1, PTL
=============================================================================
