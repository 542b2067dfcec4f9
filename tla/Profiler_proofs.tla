--------------------------- MODULE Profiler_proofs ---------------------------
(***************************************************************************)
(* Theorems about Profiler, for any profiles, sizes of channels, numbers   *)
(* of retries and limits: timed tasks run once, conditional ones keep      *)
(* within twice their limit in any hour, and Stop takes the profiler down  *)
(* without a send on a closed channel and leaves nothing behind.           *)
(***************************************************************************)
EXTENDS Profiler, FiniteSetTheorems, SequenceTheorems, TLAPS

\* The types the theorems need.
Types ==
    /\ alive \subseteq Driver \cup {"fetcher", "runLoop", "sender"}
    /\ profiles \in [Driver -> SUBSET Profile]
    /\ todo \in [Driver -> SUBSET Profile]
    /\ handledSet \subseteq Profile
    /\ taskChan \in Nat /\ outChan \in Nat
    /\ running \in BOOLEAN
    /\ now \in Nat
    /\ queued \in [Profile -> Nat]

\* When Stop has waited for a part, the part is gone, from the front to the back.
Order ==
    /\ phase \notin {"new", "starting", "running", "fetcher"} => "fetcher" \notin alive
    /\ phase \in {"task", "conditional", "tasks", "sender", "stopped"}
           => "continuous" \notin alive
    /\ phase \in {"conditional", "tasks", "sender", "stopped"} => "task" \notin alive
    /\ phase \in {"tasks", "sender", "stopped"} => "conditional" \notin alive
    /\ phase \in {"new", "starting", "sender", "stopped"} => "runLoop" \notin alive
    /\ phase \in {"new", "starting", "stopped"} => "sender" \notin alive

\* The loops that empty the channels are there until it is their turn.
Loops ==
    /\ phase \in {"running", "fetcher"} \cup Driver => "runLoop" \in alive
    /\ phase \in {"running", "fetcher", "tasks"} \cup Driver => "sender" \in alive

\* runLoop goes when no task waits and the sender when no upload does, and
\* nobody is left who could bring another.
Empty ==
    /\ running => "runLoop" \in alive
    /\ upload # "idle" => "sender" \in alive
    /\ phase = "tasks" /\ "runLoop" \notin alive => taskChan = 0
    /\ phase \in {"sender", "stopped"} => taskChan = 0
    /\ phase = "sender" /\ "sender" \notin alive => outChan = 0
    /\ phase = "stopped" => outChan = 0

\* A timed profile that waits in this tick is due, and one that was queued is
\* remembered.
TimedTasks ==
    /\ \A p \in todo["task"] : StartTime[p] <= now
    /\ \A p \in Profile : /\ queued[p] <= 1
                          /\ queued[p] = 1 => p \in handledSet /\ StartTime[p] <= now

IndInv == Types /\ Order /\ Loops /\ Empty /\ TimedTasks /\ ~panicked

LEMMA InitInv == Init => IndInv
<1> SUFFICES ASSUME Init PROVE IndInv
  OBVIOUS
<1>1. Types
  BY DEF Init, Types
<1>2. Order /\ Loops /\ Empty /\ ~panicked
  BY DEF Init, Order, Loops, Driver, Empty
<1>3. TimedTasks
  BY DEF Init, TimedTasks, Driver
<1> QED
  BY <1>1, <1>2, <1>3 DEF IndInv
-----------------------------------------------------------------------------
(* The steps, one lemma for each part                                      *)

LEMMA FetcherSteps ==
    ASSUME IndInv, ClockTick \/ Start \/ FirstFetch \/ Fetch
    PROVE  IndInv'
<1>1. CASE ClockTick
  <2>1. now' = now + 1 /\ now' \in Nat
    BY <1>1 DEF ClockTick, IndInv, Types
  <2>2. UNCHANGED <<phase, alive, driverVars, chanVars, sendVars, queued, panicked>>
    BY <1>1 DEF ClockTick
  <2>3. StartTime \in [Profile -> Nat]
    BY ProfilerAssumption
  <2>4. TimedTasks'
    BY <2>1, <2>2, <2>3 DEF IndInv, TimedTasks, Types, driverVars, Driver
  <2> QED
    BY <2>1, <2>2, <2>4
       DEF IndInv, Types, Order, Loops, Empty, Driver, driverVars, chanVars, sendVars
<1>2. CASE Start
  BY <1>2 DEF Start, IndInv, Types, Order, Loops, Empty, TimedTasks, Driver,
              driverVars, chanVars, sendVars, clockVars
<1>3. ASSUME NEW s \in Reply PROVE Dispatched(s) \in [Driver -> SUBSET Profile]
  BY ProfilerAssumption DEF Dispatched
<1>4. CASE FirstFetch
  <2>1. /\ phase = "starting" /\ phase' = "running"
        /\ alive' = alive \cup {"fetcher", "runLoop", "sender"}
        /\ UNCHANGED <<todo, handledSet, taskChan, running, outChan, upload, now, queued, panicked>>
    BY <1>4 DEF FirstFetch, chanVars, sendVars
  <2>2. profiles' \in [Driver -> SUBSET Profile]
    BY <1>3, <1>4 DEF FirstFetch, IndInv, Types
  <2> QED
    BY <2>1, <2>2 DEF IndInv, Types, Order, Loops, Empty, TimedTasks, Driver
<1>5. CASE Fetch
  <2>1. profiles' \in [Driver -> SUBSET Profile]
    BY <1>3, <1>5 DEF Fetch
  <2> QED
    BY <1>5, <2>1 DEF Fetch, IndInv, Types, Order, Loops, Empty, TimedTasks, Driver,
                      chanVars, sendVars, clockVars
<1> QED
  BY <1>1, <1>2, <1>4, <1>5

\* What a driver that is there may find: its queue is open.
LEMMA Open ==
    ASSUME IndInv, NEW d \in Driver, d \in alive
    PROVE  ~TaskChanClosed
BY DEF IndInv, Order, Driver, TaskChanClosed

LEMMA QueueSteps ==
    ASSUME IndInv, NEW d \in Driver, d \in alive, NEW p \in Profile,
           Queue \/ UNCHANGED <<taskChan, panicked>>
    PROVE  taskChan' \in Nat /\ ~panicked' /\ phase \notin {"tasks", "sender", "stopped"}
<1>1. ~TaskChanClosed
  BY Open
<1>2. ~panicked'
  BY <1>1, Zenon DEF Queue, IndInv
<1>3. taskChan' \in Nat
  <2>1. taskChan \in Nat
    BY DEF IndInv, Types
  <2> QED
    BY <2>1 DEF Queue
<1> QED
  BY <1>1, <1>2, <1>3 DEF TaskChanClosed

LEMMA DriverSteps ==
    ASSUME IndInv, NEW d \in Driver, Tick(d) \/ DriverStep(d)
    PROVE  IndInv'
<1>1. CASE Tick(d)
  <2>1. /\ todo' = [todo EXCEPT ![d] =
                       IF d = "task" THEN {p \in profiles[d] : StartTime[p] <= now}
                       ELSE profiles[d]]
        /\ UNCHANGED <<phase, alive, profiles, handledSet, taskChan, running, outChan,
                       upload, now, queued, panicked>>
    BY <1>1 DEF Tick, chanVars, sendVars, clockVars
  <2>2. /\ todo' \in [Driver -> SUBSET Profile]
        /\ \A p \in todo'["task"] : p \in todo["task"] \/ StartTime[p] <= now
    BY <2>1 DEF IndInv, Types, Driver
  <2> QED
    BY <2>1, <2>2 DEF IndInv, Types, Order, Loops, Empty, TimedTasks, Driver
<1>2. ASSUME NEW p \in Profile, NextOf(d, p),
             Continuous(p) \/ NotMet(p) \/ Conditional(p)
      PROVE  IndInv'
  <2>1. /\ d \in alive
        /\ UNCHANGED <<phase, alive, profiles, handledSet, running, outChan, upload, now, queued>>
        /\ Queue \/ UNCHANGED <<taskChan, panicked>>
    BY <1>2 DEF NextOf, Continuous, NotMet, Conditional, QueueIfTypes, chanVars, sendVars, clockVars
  <2>2. /\ todo' \in [Driver -> SUBSET Profile]
        /\ todo'["task"] \subseteq todo["task"]
    BY <1>2 DEF NextOf, IndInv, Types, Driver
  <2>3. taskChan' \in Nat /\ ~panicked' /\ phase \notin {"tasks", "sender", "stopped"}
    BY <2>1, QueueSteps
  <2> QED
    BY <2>1, <2>2, <2>3 DEF IndInv, Types, Order, Loops, Empty, TimedTasks, Driver
<1>3. ASSUME NEW p \in Profile, d = "task", Timed(p) PROVE IndInv'
  <2>1. /\ d \in alive /\ p \in todo["task"]
        /\ todo' = [todo EXCEPT !["task"] = @ \ {p}]
        /\ UNCHANGED <<phase, alive, profiles, running, outChan, upload, now>>
        /\ Queue \/ UNCHANGED <<taskChan, panicked>>
    BY <1>3 DEF NextOf, Timed, sendVars
  <2>2. /\ todo' \in [Driver -> SUBSET Profile]
        /\ todo'["task"] \subseteq todo["task"]
    BY <2>1 DEF IndInv, Types, Driver
  <2>3. taskChan' \in Nat /\ ~panicked' /\ phase \notin {"tasks", "sender", "stopped"}
    BY <2>1, QueueSteps
  <2>4. \/ UNCHANGED <<handledSet, queued>>
        \/ /\ p \notin handledSet
           /\ handledSet' = handledSet \cup {p}
           /\ queued' = [queued EXCEPT ![p] = @ + 1]
    BY <1>3 DEF Timed, Remember
  <2>5. /\ handledSet' \subseteq Profile
        /\ queued' \in [Profile -> Nat]
        /\ TimedTasks'
    <3>1. CASE UNCHANGED <<handledSet, queued>>
      BY <2>1, <2>2, <3>1 DEF IndInv, Types, TimedTasks
    <3>2. CASE /\ p \notin handledSet
               /\ handledSet' = handledSet \cup {p}
               /\ queued' = [queued EXCEPT ![p] = @ + 1]
      <4>1. queued[p] = 0
        <5>1. queued[p] \in Nat
          BY DEF IndInv, Types
        <5>2. queued[p] <= 1 /\ queued[p] # 1
          BY <3>2 DEF IndInv, TimedTasks
        <5> QED
          BY <5>1, <5>2
      <4>2. StartTime[p] <= now
        BY <2>1 DEF IndInv, TimedTasks
      <4>3. /\ queued' \in [Profile -> Nat] /\ queued'[p] = 1
            /\ \A q \in Profile : q # p => queued'[q] = queued[q]
        BY <3>2, <4>1 DEF IndInv, Types
      <4> QED
        BY <2>1, <2>2, <3>2, <4>2, <4>3 DEF IndInv, Types, TimedTasks
    <3> QED
      BY <2>4, <3>1, <3>2
  <2> QED
    BY <2>1, <2>2, <2>3, <2>5 DEF IndInv, Types, Order, Loops, Empty
<1>4. CASE SeeClose(d)
  <2>1. /\ phase = d /\ alive' = alive \ {d}
        /\ UNCHANGED <<phase, profiles, todo, handledSet, taskChan, running, outChan, upload,
                       now, queued, panicked>>
    BY <1>4 DEF SeeClose, driverVars, chanVars, sendVars, clockVars
  <2> QED
    BY <2>1 DEF IndInv, Types, Order, Loops, Empty, TimedTasks, Driver
<1>5. ASSUME NEW p \in Profile,
             \/ d = "continuous" /\ Continuous(p)
             \/ d = "conditional" /\ (NotMet(p) \/ Conditional(p))
      PROVE  IndInv'
  <2>1. NextOf(d, p)
    BY <1>5 DEF Continuous, NotMet, Conditional
  <2> QED
    BY <1>2, <1>5, <2>1
<1> QED
  BY <1>1, <1>3, <1>4, <1>5 DEF DriverStep

LEMMA RunSteps ==
    ASSUME IndInv, RunStep
    PROVE  IndInv'
<1>1. CASE RunTask
  <2>1. /\ "runLoop" \in alive /\ taskChan > 0
        /\ running' = TRUE /\ taskChan' = taskChan - 1
        /\ UNCHANGED <<phase, alive, profiles, todo, handledSet, outChan, upload, now,
                       queued, panicked>>
    BY <1>1 DEF RunTask, driverVars, sendVars, clockVars
  <2>2. taskChan' \in Nat
    BY <2>1 DEF IndInv, Types
  <2> QED
    BY <2>1, <2>2 DEF IndInv, Types, Order, Loops, Empty, TimedTasks, Driver
<1>2. CASE TaskEnds
  <2>1. /\ running /\ running' = FALSE
        /\ UNCHANGED <<phase, alive, profiles, todo, handledSet, taskChan, upload, now, queued>>
        /\ \/ UNCHANGED <<outChan, panicked>>
           \/ /\ outChan' = outChan + 1 \/ outChan' = outChan
              /\ panicked' = (panicked \/ OutChanClosed)
    BY <1>2 DEF TaskEnds, driverVars, sendVars
  <2>2. "runLoop" \in alive /\ ~OutChanClosed
    BY <2>1 DEF IndInv, Order, Empty, OutChanClosed
  <2>3. ~panicked'
    BY <2>1, <2>2, Zenon DEF IndInv
  <2>4. outChan' \in Nat
    BY <2>1 DEF IndInv, Types
  <2> QED
    BY <2>1, <2>2, <2>3, <2>4
       DEF IndInv, Types, Order, Loops, Empty, TimedTasks, Driver, OutChanClosed
<1>3. CASE RunLoopEnds
  <2>1. /\ ~running /\ phase = "tasks" /\ taskChan = 0 /\ alive' = alive \ {"runLoop"}
        /\ UNCHANGED <<phase, profiles, todo, handledSet, taskChan, running, outChan, upload,
                       now, queued, panicked>>
    BY <1>3 DEF RunLoopEnds, RunLoopMayEnd, driverVars, chanVars, sendVars, clockVars
  <2> QED
    BY <2>1 DEF IndInv, Types, Order, Loops, Empty, TimedTasks, Driver
<1> QED
  BY <1>1, <1>2, <1>3 DEF RunStep

LEMMA SendSteps ==
    ASSUME IndInv, SendStep
    PROVE  IndInv'
<1>1. CASE TakeUpload
  <2>1. /\ "sender" \in alive /\ outChan > 0 /\ outChan' = outChan - 1 /\ upload' = "send"
        /\ UNCHANGED <<phase, alive, profiles, todo, handledSet, taskChan, running, now,
                       queued, panicked>>
    BY <1>1 DEF TakeUpload, driverVars, clockVars
  <2>2. outChan' \in Nat
    BY <2>1 DEF IndInv, Types
  <2> QED
    BY <2>1, <2>2 DEF IndInv, Types, Order, Loops, Empty, TimedTasks, Driver
<1>2. CASE Request \/ Wake
  <2>1. /\ upload # "idle"
        /\ UNCHANGED <<phase, alive, profiles, todo, handledSet, taskChan, running, outChan,
                       now, queued, panicked>>
    BY <1>2 DEF Request, Wake, driverVars, chanVars, clockVars
  <2> QED
    BY <2>1 DEF IndInv, Types, Order, Loops, Empty, TimedTasks, Driver
<1>3. CASE SenderEnds
  <2>1. /\ upload = "idle" /\ phase = "sender" /\ outChan = 0 /\ alive' = alive \ {"sender"}
        /\ UNCHANGED <<phase, profiles, todo, handledSet, taskChan, running, outChan, upload,
                       now, queued, panicked>>
    BY <1>3 DEF SenderEnds, driverVars, chanVars, sendVars, clockVars
  <2> QED
    BY <2>1 DEF IndInv, Types, Order, Loops, Empty, TimedTasks, Driver
<1> QED
  BY <1>1, <1>2, <1>3 DEF SendStep

LEMMA StopSteps ==
    ASSUME IndInv, Stop \/ StopGoesOn \/ SeeClose("fetcher")
    PROVE  IndInv'
<1>1. CASE Stop
  BY <1>1 DEF Stop, IndInv, Types, Order, Loops, Empty, TimedTasks, Driver, StopOrder,
              driverVars, chanVars, sendVars, clockVars
<1>2. CASE StopGoesOn
  <2>1. PICK i \in 1..6 : /\ phase = StopOrder[i] /\ Goroutine(phase) \notin alive
                          /\ phase' = StopOrder[i + 1]
    BY <1>2 DEF StopGoesOn, StopOrder
  <2>2. UNCHANGED <<alive, profiles, todo, handledSet, taskChan, running, outChan, upload,
                    now, queued, panicked>>
    BY <1>2 DEF StopGoesOn, driverVars, chanVars, sendVars, clockVars
  <2>3. \/ phase = "fetcher" /\ "fetcher" \notin alive /\ phase' = "continuous"
        \/ phase = "continuous" /\ "continuous" \notin alive /\ phase' = "task"
        \/ phase = "task" /\ "task" \notin alive /\ phase' = "conditional"
        \/ phase = "conditional" /\ "conditional" \notin alive /\ phase' = "tasks"
        \/ phase = "tasks" /\ "runLoop" \notin alive /\ phase' = "sender"
        \/ phase = "sender" /\ "sender" \notin alive /\ phase' = "stopped"
    BY <2>1 DEF StopOrder, Goroutine
  <2> QED
    BY <2>2, <2>3 DEF IndInv, Types, Order, Loops, Empty, TimedTasks, Driver
<1>3. CASE SeeClose("fetcher")
  <2>1. /\ phase = "fetcher" /\ alive' = alive \ {"fetcher"}
        /\ UNCHANGED <<phase, profiles, todo, handledSet, taskChan, running, outChan, upload,
                       now, queued, panicked>>
    BY <1>3 DEF SeeClose, driverVars, chanVars, sendVars, clockVars
  <2> QED
    BY <2>1 DEF IndInv, Types, Order, Loops, Empty, TimedTasks, Driver
<1> QED
  BY <1>1, <1>2, <1>3

LEMMA Inductive == Spec => []IndInv
<1>1. IndInv /\ [Next]_vars => IndInv'
  <2> SUFFICES ASSUME IndInv, [Next]_vars PROVE IndInv'
    OBVIOUS
  <2>1. CASE UNCHANGED vars
    BY <2>1 DEF vars, driverVars, chanVars, sendVars, clockVars, IndInv, Types, Order,
                Loops, Empty, TimedTasks
  <2> QED
    BY <2>1, FetcherSteps, DriverSteps, RunSteps, SendSteps, StopSteps DEF Next
<1> QED
  BY InitInv, <1>1, PTL DEF Spec
-----------------------------------------------------------------------------
\* A timed task runs at most once and not before its time, though settings
\* that leave its profile out come in between.
THEOREM TimedOnceCorrect == Spec => []TimedOnce
<1>1. IndInv => TimedOnce
  <2> SUFFICES ASSUME IndInv, NEW p \in Profile
               PROVE  queued[p] <= 1 /\ (queued[p] = 1 => p \in handledSet /\ now >= StartTime[p])
    BY DEF TimedOnce
  <2>1. now \in Nat /\ StartTime[p] \in Nat
    BY ProfilerAssumption DEF IndInv, Types
  <2> QED
    BY <2>1 DEF IndInv, TimedTasks
<1> QED
  BY Inductive, <1>1, PTL

\* Stop closes each channel behind its last sender, and when it returns every
\* goroutine is gone and nothing is left in the channels.
THEOREM CleanStopCorrect == Spec => []CleanStop
<1>1. IndInv => CleanStop
  <2> SUFFICES ASSUME IndInv PROVE CleanStop
    OBVIOUS
  <2>1. TaskChanClosed => alive \cap Driver = {}
    BY DEF IndInv, Order, TaskChanClosed, Driver
  <2>2. OutChanClosed => "runLoop" \notin alive /\ ~running /\ taskChan = 0
    BY DEF IndInv, Order, Empty, OutChanClosed
  <2>3. phase = "stopped" => alive = {} /\ outChan = 0 /\ upload = "idle"
    BY DEF IndInv, Types, Order, Empty, Driver
  <2> QED
    BY <2>1, <2>2, <2>3 DEF CleanStop, IndInv
<1> QED
  BY Inductive, <1>1, PTL
-----------------------------------------------------------------------------
(* The limit of executions per hour                                        *)

Limits == [cnt : 0..ExecutionLimit, expireAt : 0..(MaxNow + Hour)]

\* The rest of the types.
MoreTypes ==
    /\ phase \in {"new", "starting", "running", "fetcher", "tasks", "sender", "stopped"} \cup Driver
    /\ cntLimit \in [Profile -> Limits]
    /\ taskChan <= TaskChanSize /\ outChan <= OutChanSize
    /\ upload \in {"idle", "send", "sleep", "rest"}
    /\ attempt \in 0..RetryCount
    /\ now <= MaxNow
    /\ recent \in [Profile -> Seq(0..MaxNow)]
    /\ panicked \in BOOLEAN

\* The calls s that passed in the hour before t, while the counter is c. Without
\* a window there is room for one more; in a window c.cnt of them are from it,
\* and the first of these opened it an hour before its end.
Window(s, c, t) ==
    /\ \A i, j \in DOMAIN s : i <= j => s[i] <= s[j]
    /\ \A j \in DOMAIN s : s[j] <= t /\ t <= s[j] + Hour
    /\ c.cnt = 0 => Len(s) < ExecutionLimit
    /\ c.cnt > 0 => /\ Len(s) < ExecutionLimit + c.cnt
                    /\ \A j \in DOMAIN s : j + c.cnt <= Len(s) + 1 => s[j] + Hour <= c.expireAt

Windows == \A p \in Profile : Window(recent[p], cntLimit[p], now)

LEMMA LatelyDrops ==
    ASSUME NEW s \in Seq(0..MaxNow), NEW t \in Nat,
           \A i, j \in DOMAIN s : i <= j => s[i] <= s[j]
    PROVE  /\ Lately(s, t) \in Seq(0..MaxNow)
           /\ \E k \in Nat : /\ Len(Lately(s, t)) = Len(s) - k
                             /\ \A j \in DOMAIN Lately(s, t) :
                                    /\ j + k \in DOMAIN s /\ Lately(s, t)[j] = s[j + k]
                                    /\ ~(s[j + k] + Hour < t)
<1> DEFINE old == {j \in DOMAIN s : s[j] + Hour < t}
           n == Len(s)
           k == Cardinality(old)
<1>1. n \in Nat /\ DOMAIN s = 1..n /\ \A j \in 1..n : s[j] \in Nat /\ s[j] \in 0..MaxNow
  BY ProfilerAssumption
<1>2. IsFiniteSet(1..n) /\ Cardinality(1..n) = n
  BY <1>1, FS_Interval
<1>3. IsFiniteSet(old) /\ k \in Nat /\ k <= n
  <2>1. old \in SUBSET (1..n)
    BY <1>1
  <2> QED
    BY <1>2, <2>1, FS_Subset, FS_CardinalityType
<1>4. ASSUME NEW j \in 1..n, s[j] + Hour < t PROVE j <= k
  <2>1. 1..j \subseteq old
    <3> SUFFICES ASSUME NEW i \in 1..j PROVE i \in old
      OBVIOUS
    <3>1. i \in DOMAIN s /\ j \in DOMAIN s /\ i <= j
      BY <1>1
    <3>2. s[i] \in Nat /\ s[j] \in Nat /\ s[i] <= s[j] /\ Hour \in Nat
      BY <1>1, <3>1, ProfilerAssumption
    <3> QED
      BY <1>4, <3>1, <3>2
  <2>2. IsFiniteSet(1..j) /\ Cardinality(1..j) = j
    <3>1. 1 \in Int /\ j \in Int /\ j >= 1
      BY <1>1
    <3> QED
      BY <3>1, FS_Interval
  <2> HIDE DEF old
  <2> QED
    BY <1>3, <2>1, <2>2, FS_Subset
<1>5. Lately(s, t) = SubSeq(s, k + 1, n)
  BY DEF Lately
<1> HIDE DEF old, k, n
<1>6. \A i \in (k + 1)..n : s[i] \in 0..MaxNow
  BY <1>1, <1>3
<1>7. /\ SubSeq(s, k + 1, n) \in Seq(0..MaxNow)
      /\ Len(SubSeq(s, k + 1, n)) = IF k + 1 <= n THEN n - (k + 1) + 1 ELSE 0
      /\ \A i \in 1..(n - (k + 1) + 1) : SubSeq(s, k + 1, n)[i] = s[(k + 1) + i - 1]
  <2>1. k + 1 \in Int /\ n \in Int
    BY <1>1, <1>3
  <2> QED
    BY <1>6, <2>1, SubSeqProperties
<1>8. Len(Lately(s, t)) = n - k /\ DOMAIN Lately(s, t) = 1..(n - k)
  BY <1>1, <1>3, <1>5, <1>7
<1>9. ASSUME NEW j \in 1..(n - k)
      PROVE  j + k \in 1..n /\ Lately(s, t)[j] = s[j + k] /\ ~(s[j + k] + Hour < t)
  <2>1. j + k \in 1..n /\ j \in 1..(n - (k + 1) + 1) /\ (k + 1) + j - 1 = j + k
    BY <1>1, <1>3
  <2>2. ~(j + k <= k)
    BY <1>3
  <2> QED
    BY <1>4, <1>5, <1>7, <2>1, <2>2
<1> QED
  BY <1>1, <1>3, <1>5, <1>7, <1>8, <1>9 DEF n

LEMMA WindowTick ==
    ASSUME NEW s \in Seq(0..MaxNow), NEW c \in Limits, NEW t \in Nat, Window(s, c, t)
    PROVE  Lately(s, t + 1) \in Seq(0..MaxNow) /\ Window(Lately(s, t + 1), c, t + 1)
<1>1. \A i, j \in DOMAIN s : i <= j => s[i] <= s[j]
  BY DEF Window
<1>0. PICK u \in Nat : u = t + 1
  OBVIOUS
<1>2. PICK r \in Seq(0..MaxNow) : r = Lately(s, u)
  BY <1>1, LatelyDrops
<1>3. PICK k \in Nat : /\ Len(r) = Len(s) - k
                       /\ \A j \in DOMAIN r : /\ j + k \in DOMAIN s /\ r[j] = s[j + k]
                                              /\ ~(s[j + k] + Hour < u)
  BY <1>1, <1>2, LatelyDrops
<1>4. Len(s) \in Nat /\ Len(r) \in Nat /\ DOMAIN r = 1..Len(r) /\ DOMAIN s = 1..Len(s)
  OBVIOUS
<1>5. /\ \A j \in DOMAIN s : s[j] \in Nat
      /\ c.cnt \in Nat /\ c.expireAt \in Nat /\ Hour \in Nat /\ ExecutionLimit \in Nat
  BY ProfilerAssumption DEF Limits
<1>6. \A i, j \in DOMAIN r : i <= j => r[i] <= r[j]
  BY <1>1, <1>3, <1>4
<1>7. \A j \in DOMAIN r : r[j] <= u /\ u <= r[j] + Hour
  BY <1>0, <1>3, <1>5 DEF Window
<1>8. c.cnt = 0 => Len(r) < ExecutionLimit
  BY <1>3, <1>4, <1>5 DEF Window
<1>9. c.cnt > 0 => Len(r) < ExecutionLimit + c.cnt
  BY <1>3, <1>4, <1>5 DEF Window
<1>10. ASSUME c.cnt > 0, NEW j \in DOMAIN r, j + c.cnt <= Len(r) + 1
       PROVE  r[j] + Hour <= c.expireAt
  <2>1. (j + k) + c.cnt <= Len(s) + 1
    <3>1. j \in Nat /\ Len(r) = Len(s) - k
      BY <1>3, <1>4
    <3> QED
      BY <1>4, <1>5, <1>10, <3>1
  <2> QED
    BY <1>3, <1>10, <2>1 DEF Window
<1>11. Window(r, c, u)
  BY <1>6, <1>7, <1>8, <1>9, <1>10 DEF Window
<1> QED
  BY <1>0, <1>2, <1>11

\* A window that removeExpired takes away is more than an hour old: none of the
\* calls before it, nor the one that opened it, is in the last hour.
LEMMA WindowExpires ==
    ASSUME NEW s \in Seq(0..MaxNow), NEW c \in Limits, NEW t \in Nat, Window(s, c, t),
           c.cnt > 0, c.expireAt < t
    PROVE  Window(s, NoLimit, t)
<1>1. /\ \A j \in DOMAIN s : s[j] \in Nat
      /\ c.cnt \in Nat /\ c.expireAt \in Nat /\ Hour \in Nat /\ ExecutionLimit \in Nat
      /\ c.cnt <= ExecutionLimit
  BY ProfilerAssumption DEF Limits
<1>2. Len(s) \in Nat /\ DOMAIN s = 1..Len(s)
  OBVIOUS
<1>3. Len(s) < c.cnt
  <2> SUFFICES ASSUME c.cnt <= Len(s) PROVE FALSE
    BY <1>1, <1>2
  <2>1. 1 \in DOMAIN s /\ 1 + c.cnt <= Len(s) + 1
    BY <1>1, <1>2
  <2>2. s[1] + Hour <= c.expireAt /\ t <= s[1] + Hour
    BY <2>1 DEF Window
  <2> QED
    BY <1>1, <2>1, <2>2
<1> QED
  BY <1>1, <1>2, <1>3 DEF Window, NoLimit

\* A call that passes: the first one of a window, or one more.
LEMMA WindowCall ==
    ASSUME NEW s \in Seq(0..MaxNow), NEW c \in Limits, NEW t \in 0..MaxNow, Window(s, c, t),
           c.cnt < ExecutionLimit, NEW d,
           d = IF c.cnt = 0 THEN [cnt |-> 1, expireAt |-> t + Hour]
               ELSE [cnt |-> c.cnt + 1, expireAt |-> c.expireAt]
    PROVE  d \in Limits /\ Append(s, t) \in Seq(0..MaxNow) /\ Window(Append(s, t), d, t)
<1>1. /\ \A j \in DOMAIN s : s[j] \in Nat
      /\ c.cnt \in Nat /\ c.expireAt \in Nat /\ Hour \in Nat /\ ExecutionLimit \in Nat
      /\ t \in Nat /\ t <= MaxNow /\ MaxNow \in Nat
  BY ProfilerAssumption DEF Limits
<1>2. Len(s) \in Nat /\ DOMAIN s = 1..Len(s)
  OBVIOUS
<1>3. PICK r \in Seq(0..MaxNow) :
          /\ r = Append(s, t) /\ Len(r) = Len(s) + 1 /\ DOMAIN r = 1..(Len(s) + 1)
          /\ r[Len(s) + 1] = t /\ \A j \in 1..Len(s) : r[j] = s[j]
  <2>1. Append(s, t) \in Seq(0..MaxNow) /\ Len(Append(s, t)) = Len(s) + 1
    OBVIOUS
  <2>2. DOMAIN Append(s, t) = 1..(Len(s) + 1) /\ Append(s, t)[Len(s) + 1] = t
    BY <1>2, <2>1
  <2>3. \A j \in 1..Len(s) : Append(s, t)[j] = s[j]
    BY <1>2
  <2> QED
    BY <2>1, <2>2, <2>3
<1>4. /\ d \in Limits /\ d.cnt = c.cnt + 1
      /\ d.expireAt = IF c.cnt = 0 THEN t + Hour ELSE c.expireAt
  <2>1. CASE c.cnt = 0
    BY <1>1, <2>1, ProfilerAssumption DEF Limits
  <2>2. CASE c.cnt # 0
    <3>1. d = [cnt |-> c.cnt + 1, expireAt |-> c.expireAt]
      BY <2>2 DEF Limits
    <3>2. c.cnt + 1 \in 0..ExecutionLimit /\ c.expireAt \in 0..(MaxNow + Hour)
      BY <1>1 DEF Limits
    <3> QED
      BY <2>2, <3>1, <3>2 DEF Limits
  <2> QED
    BY <2>1, <2>2
<1>5. \A j \in DOMAIN r : r[j] \in Nat /\ r[j] <= t /\ t <= r[j] + Hour
  BY <1>1, <1>2, <1>3 DEF Window
<1>6. \A i, j \in DOMAIN r : i <= j => r[i] <= r[j]
  <2> SUFFICES ASSUME NEW i \in DOMAIN r, NEW j \in DOMAIN r, i <= j PROVE r[i] <= r[j]
    OBVIOUS
  <2>1. CASE j = Len(s) + 1
    BY <1>3, <1>5, <2>1
  <2>2. CASE j # Len(s) + 1
    BY <1>2, <1>3, <2>2 DEF Window
  <2> QED
    BY <2>1, <2>2
<1>7. Len(r) < ExecutionLimit + d.cnt
  BY <1>1, <1>2, <1>3, <1>4 DEF Window
<1>8. ASSUME NEW j \in DOMAIN r, j + d.cnt <= Len(r) + 1
      PROVE  r[j] + Hour <= d.expireAt
  <2>1. CASE c.cnt = 0
    BY <1>1, <1>4, <1>5, <2>1
  <2>2. CASE c.cnt # 0
    <3>1. j \in DOMAIN s /\ j + c.cnt <= Len(s) + 1
      BY <1>1, <1>2, <1>3, <1>4, <1>8, <2>2
    <3>2. s[j] + Hour <= c.expireAt
      <4>1. c.cnt > 0
        BY <1>1, <2>2
      <4> QED
        BY <3>1, <4>1 DEF Window
    <3>3. r[j] = s[j] /\ d.expireAt = c.expireAt
      BY <1>2, <1>3, <1>4, <2>2, <3>1
    <3> QED
      BY <3>2, <3>3
  <2> QED
    BY <2>1, <2>2
<1>9. d.cnt # 0
  BY <1>1, <1>4
<1>10. Window(r, d, t)
  BY <1>5, <1>6, <1>7, <1>8, <1>9 DEF Window
<1> QED
  BY <1>3, <1>4, <1>10

LEMMA InitWindows == Init => MoreTypes /\ Windows
<1> SUFFICES ASSUME Init PROVE MoreTypes /\ Windows
  OBVIOUS
<1>1. NoLimit \in Limits /\ NoLimit.cnt = 0
  BY ProfilerAssumption DEF NoLimit, Limits
<1>2. <<>> \in Seq(0..MaxNow) /\ Len(<<>>) = 0 /\ DOMAIN <<>> = {}
  OBVIOUS
<1>3. MoreTypes
  <2>1. panicked \in BOOLEAN
    BY DEF Init
  <2> QED
    BY <1>1, <1>2, <2>1, ProfilerAssumption DEF Init, MoreTypes
<1>4. Windows
  BY <1>1, <1>2, ProfilerAssumption DEF Init, Windows, Window
<1> QED
  BY <1>3, <1>4

LEMMA QueueTypes ==
    ASSUME MoreTypes, Types, Queue \/ UNCHANGED <<taskChan, panicked>>
    PROVE  taskChan' <= TaskChanSize /\ panicked' \in BOOLEAN
<1>1. taskChan' <= TaskChanSize
  BY ProfilerAssumption DEF MoreTypes, Types, Queue, HasRoom
<1>2. panicked' \in BOOLEAN
  BY Zenon DEF MoreTypes, Queue
<1> QED
  BY <1>1, <1>2

LEMMA StepMoreTypes ==
    ASSUME IndInv, MoreTypes, Next, cntLimit' \in [Profile -> Limits],
           recent' \in [Profile -> Seq(0..MaxNow)]
    PROVE  MoreTypes'
<1>t. Types /\ RetryCount \in Nat /\ TaskChanSize \in Nat /\ OutChanSize \in Nat
      /\ MaxNow \in Nat /\ attempt \in Nat
  BY ProfilerAssumption DEF IndInv, MoreTypes
<1>1. CASE ClockTick
  <2>1. now' <= MaxNow
    BY <1>1, <1>t DEF ClockTick, Types
  <2> QED
    BY <1>1, <2>1 DEF ClockTick, MoreTypes, driverVars, chanVars, sendVars
<1>2. CASE Start \/ FirstFetch \/ Fetch \/ SeeClose("fetcher")
  BY <1>2 DEF Start, FirstFetch, Fetch, SeeClose, MoreTypes, driverVars, chanVars, sendVars,
              clockVars
<1>3. ASSUME NEW d \in Driver, Tick(d) \/ SeeClose(d) PROVE MoreTypes'
  BY <1>3 DEF Tick, SeeClose, MoreTypes, driverVars, chanVars, sendVars, clockVars
<1>4. ASSUME NEW p \in Profile, Continuous(p) \/ Timed(p) \/ NotMet(p) \/ Conditional(p)
      PROVE  MoreTypes'
  <2>1. Queue \/ UNCHANGED <<taskChan, panicked>>
    BY <1>4 DEF Continuous, Timed, NotMet, Conditional, QueueIfTypes, chanVars, clockVars
  <2>2. UNCHANGED <<phase, outChan, upload, attempt, now>>
    BY <1>4 DEF Continuous, Timed, NotMet, Conditional, chanVars, sendVars, clockVars
  <2> QED
    BY <1>t, <2>1, <2>2, QueueTypes DEF MoreTypes
<1>5. CASE RunStep
  <2>1. taskChan' <= TaskChanSize /\ outChan' <= OutChanSize
    BY <1>5, <1>t DEF RunStep, RunTask, TaskEnds, RunLoopEnds, MoreTypes, Types, chanVars
  <2>2. panicked' \in BOOLEAN
    BY <1>5, Zenon DEF RunStep, RunTask, TaskEnds, RunLoopEnds, MoreTypes, clockVars
  <2> QED
    BY <1>5, <2>1, <2>2 DEF RunStep, RunTask, TaskEnds, RunLoopEnds, MoreTypes, driverVars, sendVars,
                      clockVars
<1>6. CASE SendStep
  <2>1. outChan' <= OutChanSize
    BY <1>6, <1>t DEF SendStep, TakeUpload, Request, Wake, SenderEnds, MoreTypes, Types, chanVars
  <2>2. attempt' \in 0..RetryCount /\ upload' \in {"idle", "send", "sleep", "rest"}
    <3>1. CASE Request
      <4>1. PICK succ \in BOOLEAN, stop \in BOOLEAN :
                /\ attempt' = IF succ \/ attempt = RetryCount THEN 0 ELSE attempt + 1
                /\ upload' \in {"idle", "send", "sleep", "rest"}
        BY <3>1, Zenon DEF Request, NextAttempt
      <4> QED
        BY <1>t, <4>1 DEF MoreTypes
    <3>2. CASE TakeUpload \/ Wake \/ SenderEnds
      BY <3>2 DEF TakeUpload, Wake, SenderEnds, MoreTypes, sendVars
    <3> QED
      BY <1>6, <3>1, <3>2 DEF SendStep
  <2> QED
    BY <1>6, <2>1, <2>2 DEF SendStep, TakeUpload, Request, Wake, SenderEnds, MoreTypes,
                            driverVars, chanVars, clockVars
<1>7. CASE Stop \/ StopGoesOn
  <2>1. phase' \in {"fetcher", "tasks", "sender", "stopped"} \cup Driver
    BY <1>7 DEF Stop, StopGoesOn, StopOrder, Driver
  <2> QED
    BY <1>7, <2>1 DEF Stop, StopGoesOn, MoreTypes, driverVars, chanVars, sendVars, clockVars
<1> QED
  BY <1>1, <1>2, <1>3, <1>4, <1>5, <1>6, <1>7 DEF Next, DriverStep

Counted ==
    /\ cntLimit \in [Profile -> Limits] /\ recent \in [Profile -> Seq(0..MaxNow)]
    /\ Windows

LEMMA StepCounted ==
    ASSUME IndInv, MoreTypes, Windows, [Next]_vars
    PROVE  Counted'
<1>t. /\ cntLimit \in [Profile -> Limits] /\ recent \in [Profile -> Seq(0..MaxNow)]
      /\ now \in Nat /\ now \in 0..MaxNow
  BY ProfilerAssumption DEF MoreTypes, IndInv, Types
<1>1. CASE UNCHANGED <<cntLimit, recent, now>>
  BY <1>1, <1>t DEF Counted, Windows
<1>2. CASE ClockTick
  <2>1. /\ now' = now + 1 /\ recent' = [p \in Profile |-> Lately(recent[p], now + 1)]
        /\ UNCHANGED cntLimit
    BY <1>2 DEF ClockTick, driverVars
  <2>2. ASSUME NEW p \in Profile
        PROVE  Lately(recent[p], now + 1) \in Seq(0..MaxNow)
               /\ Window(Lately(recent[p], now + 1), cntLimit[p], now + 1)
    BY <1>t, WindowTick DEF Windows
  <2> QED
    BY <1>t, <2>1, <2>2 DEF Counted, Windows
<1>3. CASE Tick("conditional")
  <2>1. /\ cntLimit' = [p \in Profile |-> IF Expired(p) THEN NoLimit ELSE cntLimit[p]]
        /\ UNCHANGED <<recent, now>>
    BY <1>3 DEF Tick, clockVars
  <2>2. NoLimit \in Limits
    BY ProfilerAssumption DEF NoLimit, Limits
  <2>3. ASSUME NEW p \in Profile, Expired(p) PROVE Window(recent[p], NoLimit, now)
    BY <1>t, <2>3, WindowExpires DEF Windows, Expired
  <2> QED
    BY <1>t, <2>1, <2>2, <2>3 DEF Counted, Windows
<1>4. ASSUME NEW p \in Profile, Conditional(p), ~UNCHANGED <<cntLimit, recent, now>> PROVE Counted'
  <2> DEFINE d == IF cntLimit[p].cnt = 0 THEN [cnt |-> 1, expireAt |-> now + Hour]
                  ELSE [cnt |-> cntLimit[p].cnt + 1, expireAt |-> cntLimit[p].expireAt]
  <2>1. /\ UnderLimit(p) /\ cntLimit' = [cntLimit EXCEPT ![p] = d]
        /\ recent' = [recent EXCEPT ![p] = Append(@, now)]
        /\ UNCHANGED now
    <3>1. UnderLimit(p) /\ UNCHANGED now
      BY <1>4 DEF Conditional
    <3>2. recent' = [recent EXCEPT ![p] = Append(@, now)]
      BY <1>4, <3>1 DEF Conditional
    <3>3. cntLimit' = [cntLimit EXCEPT ![p] = d]
      BY <1>4, <3>1, Zenon DEF Conditional
    <3> QED
      BY <3>1, <3>2, <3>3
  <2>2. /\ d \in Limits /\ Append(recent[p], now) \in Seq(0..MaxNow)
        /\ Window(Append(recent[p], now), d, now)
    <3>1. Window(recent[p], cntLimit[p], now) /\ cntLimit[p].cnt < ExecutionLimit
      BY <2>1 DEF Windows, UnderLimit
    <3> QED
      BY <1>t, <3>1, WindowCall
  <2> HIDE DEF d
  <2> QED
    BY <1>t, <2>1, <2>2 DEF Counted, Windows
<1>5. ASSUME NEW d \in Driver, Tick(d) \/ DriverStep(d) PROVE Counted'
  <2>1. CASE Tick(d) /\ d # "conditional"
    BY <1>1, <2>1 DEF Tick, clockVars
  <2>2. ASSUME NEW p \in Profile, Continuous(p) \/ Timed(p) \/ NotMet(p) PROVE Counted'
    BY <1>1, <2>2 DEF Continuous, Timed, NotMet, driverVars, clockVars
  <2>3. CASE SeeClose(d)
    BY <1>1, <2>3 DEF SeeClose, driverVars, clockVars
  <2> QED
    BY <1>1, <1>3, <1>4, <1>5, <2>1, <2>2, <2>3 DEF DriverStep
<1>6. CASE Start \/ FirstFetch \/ Fetch \/ SeeClose("fetcher") \/ RunStep \/ SendStep \/ Stop
           \/ StopGoesOn
  BY <1>1, <1>6 DEF Start, FirstFetch, Fetch, SeeClose, RunStep, RunTask, TaskEnds, RunLoopEnds,
     SendStep, TakeUpload, Request, Wake, SenderEnds, Stop, StopGoesOn, driverVars, clockVars
<1>7. CASE UNCHANGED vars
  BY <1>1, <1>7 DEF vars, driverVars, clockVars
<1> QED
  BY <1>2, <1>5, <1>6, <1>7 DEF Next

LEMMA StepWindows ==
    ASSUME IndInv, MoreTypes, Windows, [Next]_vars
    PROVE  MoreTypes' /\ Windows'
<1>1. CASE UNCHANGED vars
  BY <1>1, StepCounted DEF Counted, vars, driverVars, chanVars, sendVars, clockVars, MoreTypes
<1>2. CASE Next
  BY <1>2, StepCounted, StepMoreTypes DEF Counted
<1> QED
  BY <1>1, <1>2

\* A conditional profile passes the limit less than twice executionLimitPerHour
\* times in any hour, whatever the settings do to it meanwhile.
THEOREM LimitAcrossWindowsCorrect == Spec => []LimitAcrossWindows
<1> DEFINE Inv == IndInv /\ MoreTypes /\ Windows
<1>1. IndInv /\ MoreTypes /\ Windows => LimitAcrossWindows
  <2> SUFFICES ASSUME IndInv, MoreTypes, Windows PROVE LimitAcrossWindows
    OBVIOUS
  <2>1. TypeOK
    <3>1. /\ taskChan \in 0..TaskChanSize /\ outChan \in 0..OutChanSize /\ now \in 0..MaxNow
      BY ProfilerAssumption DEF IndInv, Types, MoreTypes
    <3> QED
      BY <3>1 DEF IndInv, Types, MoreTypes, Limits, TypeOK
  <2>2. ASSUME NEW p \in Profile PROVE Len(recent[p]) < 2 * ExecutionLimit
    <3>1. /\ cntLimit[p].cnt \in 0..ExecutionLimit /\ Len(recent[p]) \in Nat
          /\ ExecutionLimit \in Nat \ {0}
      BY ProfilerAssumption DEF MoreTypes, Limits
    <3>2. Window(recent[p], cntLimit[p], now)
      BY DEF Windows
    <3> QED
      BY <3>1, <3>2 DEF Window
  <2> QED
    BY <2>1, <2>2 DEF LimitAcrossWindows
<1>2. Spec => [](IndInv /\ MoreTypes /\ Windows)
  BY Inductive, InitWindows, StepWindows, PTL DEF Spec
<1> QED
  BY <1>1, <1>2, PTL
=============================================================================
