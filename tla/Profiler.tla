------------------------------- MODULE Profiler -------------------------------
(***************************************************************************)
(* The profiler (trace/aiprofiler). Its manager fetches the profiles that  *)
(* the settings ask for and hands each kind to a driver; a driver looks at *)
(* its profiles at every tick of its own ticker and queues tasks on        *)
(* taskChan; runLoop runs them one after the other and queues what they    *)
(* collect on outChan, from which an HTTP sender uploads it. Stop takes    *)
(* this down from the front to the back.                                   *)
(*                                                                         *)
(* Tasks and uploads are counted; what a task collects is reduced to       *)
(* whether there is anything to send, and a trigger condition to whether   *)
(* it is met when it is looked at. Whether a retried request still has a   *)
(* body, and what the server makes of it, is left to the HTTP client. The  *)
(* fetcher drops a reply equal to the last one, which changes nothing      *)
(* here: Handle replaces profiles by equal ones. The service register and  *)
(* the resource monitor have modules or notes of their own.                *)
(***************************************************************************)
EXTENDS Integers, Sequences, FiniteSets

CONSTANTS
    Profile,     \* the profile IDs
    RecordType,  \* [Profile -> {"continuous", "task", "conditional", "other"}]
    StartTime,   \* [Profile -> Nat]: p.StartTime, which the timed driver uses
    Reply,       \* the sets of profiles that settings may have
    Here,        \* profiles whose InstanceIdList is empty or names this instance
    WithTypes,   \* profiles that name a profile type this version knows
    TaskChanSize, OutChanSize, RetryCount,
    Hour,        \* limitExpireTime
    ExecutionLimit, \* executionLimitPerHour
    MaxNow       \* bound of the clock

ASSUME ProfilerAssumption ==
    /\ RecordType \in [Profile -> {"continuous", "task", "conditional", "other"}]
    /\ StartTime \in [Profile -> Nat]
    /\ Reply \subseteq SUBSET Profile /\ {} \in Reply
    /\ Here \subseteq Profile /\ WithTypes \subseteq Profile
    /\ TaskChanSize \in Nat \ {0} /\ OutChanSize \in Nat \ {0}
    /\ RetryCount \in 0..5
    /\ Hour \in Nat \ {0} /\ ExecutionLimit \in Nat \ {0} /\ MaxNow \in Nat

Driver == {"continuous", "task", "conditional"}

VARIABLES
    phase,     \* "new", "starting", "running", then what Stop waits for:
               \* "fetcher", "continuous", "task", "conditional", "tasks",
               \* "sender"; "stopped"
    alive,     \* the goroutines: drivers, "fetcher", "runLoop", "sender"
    profiles,  \* d.profiles
    todo,      \* the profiles left to a driver in this tick
    handledSet, \* TimedDriver.handledSet
    cntLimit,  \* ConditionalDriver.cntLimit: cnt 0 for a profile that has none
    taskChan,  \* how many tasks wait in it
    running,   \* whether runLoop is in run
    outChan,   \* how many ProfileInfos wait in it
    upload,    \* what sendLoop does: "idle", "send", "sleep", or "rest" when the
               \* request that makes it sleep was the last one of an upload
    attempt,   \* i, 0 when there is no upload
    now,
    queued,    \* history: how often a task of a timed profile was queued
    recent,    \* history: when checkExecutionLimit let a profile pass, in the last hour
    panicked   \* history: a send on a closed channel

driverVars == <<profiles, todo, handledSet, cntLimit>>
chanVars   == <<taskChan, running, outChan>>
sendVars   == <<upload, attempt>>
clockVars  == <<now, queued, recent, panicked>>
vars == <<phase, alive, driverVars, chanVars, sendVars, clockVars>>

TypeOK ==
    /\ phase \in {"new", "starting", "running", "fetcher", "tasks", "sender", "stopped"} \cup Driver
    /\ alive \subseteq Driver \cup {"fetcher", "runLoop", "sender"}
    /\ profiles \in [Driver -> SUBSET Profile] /\ todo \in [Driver -> SUBSET Profile]
    /\ handledSet \subseteq Profile
    /\ cntLimit \in [Profile -> [cnt : 0..ExecutionLimit, expireAt : 0..(MaxNow + Hour)]]
    /\ taskChan \in 0..TaskChanSize /\ running \in BOOLEAN
    /\ outChan \in 0..OutChanSize
    /\ upload \in {"idle", "send", "sleep", "rest"}
    /\ attempt \in 0..RetryCount
    /\ now \in 0..MaxNow
    /\ queued \in [Profile -> Nat]
    /\ recent \in [Profile -> Seq(0..MaxNow)]
    /\ panicked \in BOOLEAN

NoLimit == [cnt |-> 0, expireAt |-> 0]

Init ==
    /\ phase = "new"
    /\ alive = {}
    /\ profiles = [d \in Driver |-> {}]
    /\ todo = [d \in Driver |-> {}]
    /\ handledSet = {}
    /\ cntLimit = [p \in Profile |-> NoLimit]
    /\ taskChan = 0 /\ running = FALSE /\ outChan = 0
    /\ upload = "idle" /\ attempt = 0
    /\ now = 0
    /\ queued = [p \in Profile |-> 0]
    /\ recent = [p \in Profile |-> <<>>]
    /\ panicked = FALSE
-----------------------------------------------------------------------------
\* What is at most an hour old at time t of a sequence in the order of time.
Lately(s, t) == SubSeq(s, Cardinality({j \in DOMAIN s : s[j] + Hour < t}) + 1, Len(s))

ClockTick ==
    /\ now < MaxNow
    /\ now' = now + 1
    /\ recent' = [p \in Profile |-> Lately(recent[p], now')]
    /\ UNCHANGED <<phase, alive, driverVars, chanVars, sendVars, queued, panicked>>

\* Start: the drivers run before the first fetch, the sender and runLoop after it.
Start ==
    /\ phase = "new"
    /\ phase' = "starting"
    /\ alive' = Driver
    /\ UNCHANGED <<driverVars, chanVars, sendVars, clockVars>>

\* Manager.HandlerProfileTasks: a profile that is not in s is disabled.
Dispatched(s) == [d \in Driver |-> {p \in s \cap Here : RecordType[p] = d}]

\* The fetcher has settings, or empty ones for a reply other than 200; a
\* request without a reply does nothing.
FirstFetch ==
    /\ phase = "starting"
    /\ phase' = "running"
    /\ alive' = alive \cup {"fetcher", "runLoop", "sender"}
    /\ \/ \E s \in Reply : profiles' = Dispatched(s)
       \/ UNCHANGED profiles
    /\ UNCHANGED <<todo, handledSet, cntLimit, chanVars, sendVars, now,
                   queued, recent, panicked>>

Fetch ==
    /\ "fetcher" \in alive
    /\ \E s \in Reply : profiles' = Dispatched(s)
    /\ UNCHANGED <<phase, alive, todo, handledSet, cntLimit, chanVars, sendVars, clockVars>>
-----------------------------------------------------------------------------
(* The drivers                                                             *)

\* removeExpired: limit.expireAt.Before(time.Now()). (Fault: not yet expired.)
Expired_Early(p) == cntLimit[p].cnt > 0 /\ cntLimit[p].expireAt > now
Expired(p) == cntLimit[p].cnt > 0 /\ cntLimit[p].expireAt < now

\* A ticker fires. The timed driver reads the clock once for all its profiles.
Tick(d) ==
    /\ d \in alive
    /\ todo[d] = {}
    /\ todo' = [todo EXCEPT ![d] =
           IF d = "task" THEN {p \in profiles[d] : StartTime[p] <= now} ELSE profiles[d]]
    /\ cntLimit' = IF d = "conditional"
                   THEN [p \in Profile |-> IF Expired(p) THEN NoLimit ELSE cntLimit[p]]
                   ELSE cntLimit
    /\ UNCHANGED <<phase, alive, profiles, handledSet, chanVars, sendVars, clockVars>>

TaskChanClosed == phase \in {"tasks", "sender", "stopped"}
HasRoom == taskChan < TaskChanSize

\* The select with a default: the task is dropped when the channel is full.
Queue ==
    /\ taskChan' = IF HasRoom /\ ~TaskChanClosed THEN taskChan + 1 ELSE taskChan
    /\ panicked' = (panicked \/ TaskChanClosed)

\* profileToTask returns nil for a profile without a type it knows.
QueueIfTypes(p) ==
    IF p \in WithTypes THEN Queue ELSE UNCHANGED <<taskChan, panicked>>

NextOf(d, p) == d \in alive /\ p \in todo[d] /\ todo' = [todo EXCEPT ![d] = @ \ {p}]

Continuous(p) ==
    /\ NextOf("continuous", p)
    /\ QueueIfTypes(p)
    /\ UNCHANGED <<phase, alive, profiles, handledSet, cntLimit, running, outChan, sendVars,
                   now, queued, recent>>

\* A profile is handled once it is queued. (Fault: only while it is configured.)
Remember_Configured(p) == (handledSet \cup {p}) \cap profiles["task"]
Remember(p) == handledSet \cup {p}

\* Smaller start times first.
Timed(p) ==
    /\ NextOf("task", p)
    /\ \A q \in todo["task"] : StartTime[p] <= StartTime[q]
    /\ IF p \in handledSet \/ p \notin WithTypes
       THEN UNCHANGED <<taskChan, panicked, handledSet, queued>>
       ELSE /\ Queue
            /\ IF HasRoom
               THEN /\ handledSet' = Remember(p)
                    /\ queued' = [queued EXCEPT ![p] = @ + 1]
               ELSE UNCHANGED <<handledSet, queued>>
    /\ UNCHANGED <<phase, alive, profiles, cntLimit, running, outChan, sendVars, now, recent>>

NotMet(p) ==
    /\ NextOf("conditional", p)
    /\ UNCHANGED <<phase, alive, profiles, handledSet, cntLimit, chanVars, sendVars, clockVars>>

\* checkExecutionLimit counts a profile before there is a task, and whether or
\* not the channel takes it.
UnderLimit(p) == cntLimit[p].cnt < ExecutionLimit

Conditional(p) ==
    /\ NextOf("conditional", p)
    /\ IF UnderLimit(p)
       THEN /\ cntLimit' = [cntLimit EXCEPT ![p] =
                   IF @.cnt = 0 THEN [cnt |-> 1, expireAt |-> now + Hour]
                   ELSE [cnt |-> @.cnt + 1, expireAt |-> @.expireAt]]
            /\ recent' = [recent EXCEPT ![p] = Append(@, now)]
            /\ QueueIfTypes(p)
       ELSE UNCHANGED <<cntLimit, recent, taskChan, panicked>>
    /\ UNCHANGED <<phase, alive, profiles, handledSet, running, outChan, sendVars, now, queued>>
-----------------------------------------------------------------------------
(* runLoop and sendLoop                                                    *)

RunTask ==
    /\ "runLoop" \in alive /\ ~running
    /\ taskChan > 0
    /\ running' = TRUE
    /\ taskChan' = taskChan - 1
    /\ UNCHANGED <<phase, alive, driverVars, outChan, sendVars, clockVars>>

OutChanClosed == phase \in {"sender", "stopped"}

\* The collectors have ended, at least one with data or none. Sending does not
\* block.
TaskEnds ==
    /\ running
    /\ running' = FALSE
    /\ \/ UNCHANGED <<outChan, panicked>>
       \/ /\ outChan' = IF outChan < OutChanSize THEN outChan + 1 ELSE outChan
          /\ panicked' = (panicked \/ OutChanClosed)
    /\ UNCHANGED <<phase, alive, driverVars, taskChan, sendVars, now, queued, recent>>

\* The channel is closed, but what is queued in it is still received.
\* (Fault: the loop returns at once.)
RunLoopMayEnd_AtOnce == TRUE
RunLoopMayEnd == taskChan = 0
RunLoopEnds ==
    /\ "runLoop" \in alive /\ ~running
    /\ phase = "tasks" /\ RunLoopMayEnd
    /\ alive' = alive \ {"runLoop"}
    /\ UNCHANGED <<phase, driverVars, chanVars, sendVars, clockVars>>

TakeUpload ==
    /\ "sender" \in alive /\ upload = "idle"
    /\ outChan > 0
    /\ outChan' = outChan - 1
    /\ upload' = "send"
    /\ UNCHANGED <<phase, alive, driverVars, taskChan, running, attempt, clockVars>>

\* i++. (Fault: left out.)
NextAttempt_Same == attempt
NextAttempt == attempt + 1

\* sendRequest answers with succ, for an answer of whatever status, and with
\* the time to sleep: backoffInterval after a failure, what the server asks for
\* otherwise, nothing if that is not set. The loop sleeps only with retries.
Request ==
    /\ upload = "send"
    /\ \E succ, stop \in BOOLEAN :
           LET last  == succ \/ attempt = RetryCount
               sleep == stop /\ RetryCount > 0
           IN  /\ attempt' = IF last THEN 0 ELSE NextAttempt
               /\ upload' = CASE last /\ sleep -> "rest" [] last -> "idle"
                              [] sleep -> "sleep" [] OTHER -> "send"
    /\ UNCHANGED <<phase, alive, driverVars, chanVars, clockVars>>

Wake ==
    /\ upload \in {"sleep", "rest"}
    /\ upload' = IF upload = "rest" THEN "idle" ELSE "send"
    /\ UNCHANGED <<phase, alive, driverVars, chanVars, attempt, clockVars>>

SenderEnds ==
    /\ "sender" \in alive /\ upload = "idle"
    /\ phase = "sender" /\ outChan = 0
    /\ alive' = alive \ {"sender"}
    /\ UNCHANGED <<phase, driverVars, chanVars, sendVars, clockVars>>
-----------------------------------------------------------------------------
(* Stop: close one part, wait for it, go on to the next                    *)

StopOrder ==
    <<"fetcher", "continuous", "task", "conditional", "tasks", "sender", "stopped">>

Goroutine(part) == IF part = "tasks" THEN "runLoop" ELSE part

\* The loop of the fetcher or of a driver takes closeChan.
SeeClose(part) ==
    /\ phase = part /\ part \in alive
    /\ part \in Driver => todo[part] = {}
    /\ alive' = alive \ {part}
    /\ UNCHANGED <<phase, driverVars, chanVars, sendVars, clockVars>>

Stop ==
    /\ phase = "running"
    /\ phase' = StopOrder[1]
    /\ UNCHANGED <<alive, driverVars, chanVars, sendVars, clockVars>>

StopGoesOn ==
    \E i \in 1..(Len(StopOrder) - 1) :
        /\ phase = StopOrder[i]
        /\ Goroutine(phase) \notin alive
        /\ phase' = StopOrder[i + 1]
        /\ UNCHANGED <<alive, driverVars, chanVars, sendVars, clockVars>>

DriverStep(d) ==
    \/ \E p \in Profile :
           \/ d = "continuous" /\ Continuous(p)
           \/ d = "task" /\ Timed(p)
           \/ d = "conditional" /\ (NotMet(p) \/ Conditional(p))
    \/ SeeClose(d)

RunStep  == RunTask \/ TaskEnds \/ RunLoopEnds
SendStep == TakeUpload \/ Request \/ Wake \/ SenderEnds

Next ==
    \/ ClockTick
    \/ Start \/ FirstFetch \/ Fetch \/ SeeClose("fetcher")
    \/ \E d \in Driver : Tick(d) \/ DriverStep(d)
    \/ RunStep \/ SendStep
    \/ Stop \/ StopGoesOn

Spec == Init /\ [][Next]_vars

\* Every goroutine runs when it can; select takes closeChan when it keeps being
\* ready, ticks or not; collectors end, and requests have a timeout.
Fairness ==
    /\ \A d \in Driver : WF_vars(DriverStep(d)) /\ SF_vars(SeeClose(d))
    /\ WF_vars(SeeClose("fetcher"))
    /\ WF_vars(RunStep) /\ WF_vars(SendStep) /\ WF_vars(StopGoesOn)
FairSpec == Spec /\ Fairness
-----------------------------------------------------------------------------
\* A timed profile is queued at most once and never before its time, though its
\* profile comes and goes with the settings (an answer other than 200 clears
\* it) and a full channel refuses it (handledSet in timed_driver.go).
TimedOnce == \A p \in Profile :
    /\ queued[p] <= 1
    /\ queued[p] = 1 => p \in handledSet /\ now >= StartTime[p]

\* "as most 3 executions per hour for one profile" (conditional_diver.go:25): in
\* no hour does a profile pass checkExecutionLimit more than
\* executionLimitPerHour times. The code does not keep this: a window of
\* cntLimit begins at the first pass after the last one was removed, and two
\* windows may share an hour.
LimitPerHour == \A p \in Profile : Len(recent[p]) <= ExecutionLimit

\* What two windows of cntLimit leave of that limit: a profile passes less than
\* twice executionLimitPerHour times in any hour, whatever the settings do to it
\* meanwhile, as the pass that opens the first window is more than an hour
\* before the second.
LimitAcrossWindows ==
    TypeOK /\ \A p \in Profile : Len(recent[p]) < 2 * ExecutionLimit

\* Stop closes a channel when nobody is left who sends on it ("close manager
\* first to avoid write to a closed chan"), and when it returns no goroutine
\* runs and nothing queued is left behind: not a task, nor an upload.
CleanStop ==
    /\ ~panicked
    /\ TaskChanClosed => alive \cap Driver = {}
    /\ OutChanClosed => "runLoop" \notin alive /\ ~running /\ taskChan = 0
    /\ phase = "stopped" => alive = {} /\ outChan = 0 /\ upload = "idle"

\* Stop returns, however long the queues are and whatever the server does.
StopReturns == (phase = "fetcher") ~> (phase = "stopped")
=============================================================================
