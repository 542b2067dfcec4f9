------------------------------ MODULE Settings ------------------------------
(***************************************************************************)
(* Dynamic configuration: the settings fetcher asks the agent every 30s    *)
(* (trace/internal/settings_fetcher), compares the reply with the settings *)
(* it applied last, and hands new ones to the tracer, which reconfigures   *)
(* its sampler and its threshold for slow queries (handleSettings in       *)
(* trace/aitracer/tracer.go), while other goroutines ask that sampler.     *)
(*                                                                         *)
(* Settings are reduced to what the tracer reads: the sample config and    *)
(* the threshold, both in messages the protocol requires, so that only the *)
(* settings that stand for a failed request lack them. Start fetches once  *)
(* before it starts the loop, so that fetches never overlap and fetchLock  *)
(* is free.                                                                *)
(***************************************************************************)
EXTENDS Sampler

CONSTANTS AgentSettings, \* the settings the agent may send: [config, slow]
          Now0, MaxNow, \* the clock at the start and its bound
          MaxCalls      \* a bound on the traces that ask the sampler

NoConfig == [strategy |-> "missing", value |-> <<0, 1>>]
EmptySettings == [config |-> NoConfig, slow |-> 0]
Replies == AgentSettings \cup {EmptySettings}
NotFetched == [config |-> NoConfig, slow |-> -1]

Configs == [strategy : {"all", "ratio", "rate", "unknown"}, value : Int \X (Nat \ {0})]

ASSUME SettingsAssumption ==
    /\ AgentSettings \subseteq [config : Configs, slow : Nat]
    /\ Now0 \in Nat /\ MaxNow \in Nat /\ Now0 <= MaxNow /\ MaxCalls \in Nat

VARIABLES
    agent,       \* the settings the agent would send
    \* Fetcher
    oldSettings, \* NotFetched for nil
    pc,          \* its goroutine; "starting" while Start runs
    reply,       \* what getSettings returned
    failed,      \* the reply stands for a failure (non-200)
    closed,      \* closeChan
    \* tracer
    sampler,
    slowQuery,   \* tracerDynamicConfig.DbSlowQuery
    panicked,    \* an integer division by zero has ended the process
    \* clock and history
    now,
    inForce,     \* the last config given to RefreshConfig
    since,       \* when the sampler was made
    calls,       \* traces that asked the sampler since then
    passes,      \* those that passed
    handed       \* the sum of the weights handed out since then

fetchVars == <<oldSettings, pc, reply, failed, closed>>
histVars  == <<inForce, since, calls, passes, handed>>
vars == <<agent, fetchVars, sampler, slowQuery, panicked, now, histVars>>

TypeOK ==
    /\ agent \in AgentSettings
    /\ oldSettings \in Replies \cup {NotFetched}
    /\ pc \in {"starting", "fetched", "sampler", "dynamic", "waiting", "stopped"}
    /\ reply \in Replies \cup {NotFetched}
    /\ failed \in BOOLEAN /\ closed \in BOOLEAN /\ panicked \in BOOLEAN
    /\ slowQuery \in Nat
    /\ sampler \in Samplers
    /\ sampler.kind = "rate" => sampler.last <= now
    /\ now \in Now0..MaxNow
    /\ calls \in 0..MaxCalls /\ passes \in 0..calls /\ handed \in Nat

Init ==
    /\ agent \in AgentSettings
    /\ oldSettings = NotFetched
    /\ pc = "starting"
    /\ reply = NotFetched
    /\ failed = FALSE
    /\ closed = FALSE
    /\ sampler = AllSampler
    /\ slowQuery = 0
    /\ panicked = FALSE
    /\ now = Now0
    /\ inForce = [strategy |-> "all", value |-> <<0, 1>>]
    /\ since = Now0
    /\ calls = 0 /\ passes = 0 /\ handed = 0
-----------------------------------------------------------------------------
AgentChanges ==
    /\ agent' \in AgentSettings
    /\ UNCHANGED <<fetchVars, sampler, slowQuery, panicked, now, histVars>>

ClockTick ==
    /\ now < MaxNow
    /\ now' = now + 1
    /\ UNCHANGED <<agent, fetchVars, sampler, slowQuery, panicked, histVars>>

Running == ~panicked

\* The end of refreshSettings: Start goes on to start the loop.
Idle == pc' = "waiting" /\ reply' = NotFetched /\ failed' = FALSE

\* Start's own refresh, or that of a tick.
Asks == Running /\ pc \in {"starting", "waiting"}

\* 200 with settings: getSettings returns what the agent has now.
FetchOK ==
    /\ Asks
    /\ pc' = "fetched"
    /\ reply' = agent
    /\ UNCHANGED <<agent, oldSettings, failed, closed, sampler, slowQuery, panicked,
                   now, histVars>>

\* Another status: getSettings returns empty settings and a nil error.
FetchStatus ==
    /\ Asks
    /\ pc' = "fetched"
    /\ reply' = EmptySettings
    /\ failed' = TRUE
    /\ UNCHANGED <<agent, oldSettings, closed, sampler, slowQuery, panicked, now,
                   histVars>>

\* No reply within the timeout, or one that cannot be read or parsed.
FetchError ==
    /\ Asks
    /\ Idle
    /\ UNCHANGED <<agent, oldSettings, closed, sampler, slowQuery, panicked, now,
                   histVars>>

\* bytes.Equal of the two encodings, unless nothing was fetched before. (Fault:
\* only the sample configs are compared.)
SameSettings_Config == oldSettings # NotFetched /\ oldSettings.config = reply.config
SameSettings == oldSettings # NotFetched /\ oldSettings = reply

\* f.oldSettings = &settings. (Fault: empty settings are not remembered.)
Remembered_NonEmpty == IF reply = EmptySettings THEN oldSettings ELSE reply
Remembered == reply

CompareAndStore ==
    /\ Running
    /\ pc = "fetched"
    /\ IF SameSettings
       THEN Idle /\ UNCHANGED oldSettings
       ELSE /\ oldSettings' = Remembered
            /\ pc' = "sampler"
            /\ UNCHANGED <<reply, failed>>
    /\ UNCHANGED <<agent, closed, sampler, slowQuery, panicked, now, histVars>>

\* handleSettingsForSampler returns at once. (Fault: the nil checks are
\* missing, so that RefreshConfig gets the zero config.)
LeavesSampler_Never(c) == c.strategy = "unknown"
LeavesSampler(c) == c.strategy \in {"missing", "unknown"}
ConfigOf(c) == IF c.strategy = "missing" THEN [strategy |-> "all", value |-> <<0, 1>>]
               ELSE c

HandleSettingsForSampler ==
    LET c == ConfigOf(reply.config) IN
    /\ Running
    /\ pc = "sampler"
    /\ pc' = "dynamic"
    /\ IF LeavesSampler(reply.config)
       THEN UNCHANGED <<sampler, panicked, histVars>>
       ELSE /\ inForce' = c
            /\ IF DividesByZero(c)
               THEN panicked' = TRUE /\ UNCHANGED <<sampler, since, calls, passes, handed>>
               ELSE /\ sampler' = Refresh(sampler, c)
                    /\ since' = now
                    /\ calls' = 0 /\ passes' = 0 /\ handed' = 0
                    /\ UNCHANGED panicked
    /\ UNCHANGED <<agent, oldSettings, reply, failed, closed, slowQuery, now>>

HandleSettingsForDynamicConfig ==
    /\ Running
    /\ pc = "dynamic"
    /\ slowQuery' = reply.slow
    /\ Idle
    /\ UNCHANGED <<agent, oldSettings, closed, sampler, panicked, now, histVars>>

\* Fetcher.Stop closes closeChan and waits; the loop looks at it between two
\* fetches only.
Stop ==
    /\ Running
    /\ pc # "starting" /\ ~closed
    /\ closed' = TRUE
    /\ UNCHANGED <<agent, oldSettings, pc, reply, failed, sampler, slowQuery, panicked,
                   now, histVars>>

SeeClose ==
    /\ Running
    /\ pc = "waiting"
    /\ closed
    /\ pc' = "stopped"
    /\ UNCHANGED <<agent, oldSettings, reply, failed, closed, sampler, slowQuery,
                   panicked, now, histVars>>

\* A trace begins in this process: startSpan asks the sampler.
Sample ==
    /\ Running
    /\ calls < MaxCalls
    /\ IF SampleDividesByZero(sampler)
       THEN /\ panicked' = TRUE
            /\ UNCHANGED <<sampler, calls, passes, handed>>
       ELSE \E v \in Verdicts(sampler, now) :
                /\ sampler' = v.sampler
                /\ calls' = calls + 1
                /\ passes' = passes + (IF v.sampled THEN 1 ELSE 0)
                /\ handed' = handed + v.weight
                /\ UNCHANGED panicked
    /\ UNCHANGED <<agent, fetchVars, slowQuery, now, inForce, since>>

Refreshing == CompareAndStore \/ HandleSettingsForSampler
                  \/ HandleSettingsForDynamicConfig

Next ==
    \/ AgentChanges \/ ClockTick
    \/ FetchOK \/ FetchStatus \/ FetchError
    \/ Refreshing
    \/ Stop \/ SeeClose
    \/ Sample

Spec == Init /\ [][Next]_vars

\* The HTTP client has a timeout and the notifiers do not block; select takes
\* closeChan when it keeps being ready. That good replies keep coming is an
\* assumption about the agent, used by Converges only.
FetcherFairness ==
    /\ WF_vars(Refreshing)
    /\ WF_vars(FetchOK \/ FetchStatus \/ FetchError)
    /\ SF_vars(FetchOK)
    /\ SF_vars(SeeClose)
FairSpec == Spec /\ FetcherFairness
-----------------------------------------------------------------------------
\* Outside a refresh the tracer runs with the settings the fetcher compares the
\* next reply with, so that dropping an equal reply (refreshSettings) is safe;
\* and the sampler is the one the last sample config asks for.
InStep ==
    /\ pc \in {"starting", "fetched", "waiting", "stopped"} /\ oldSettings # NotFetched =>
           /\ slowQuery = oldSettings.slow
           /\ ~LeavesSampler(oldSettings.config) => inForce = oldSettings.config
    /\ pc \in {"sampler", "dynamic"} => oldSettings = reply
    /\ pc = "dynamic" /\ ~LeavesSampler(reply.config) => inForce = reply.config

\* With the rate limiter, and with no limit at all, every trace that asks is
\* represented: the weights handed out and the refusals not yet handed out add
\* up to the calls, for any timing (Sample in sampler_ratelimit.go).
WeightsAccount ==
    /\ sampler.kind = "all" => handed = calls
    /\ sampler.kind = "rate" => handed + sampler.noSampled = calls

\* The interval of the rate limiter is that of the config in force.
LimitsAsConfigured ==
    /\ inForce \in Configs
    /\ sampler.kind = "rate" /\ ~panicked =>
           /\ inForce.strategy = "rate"
           /\ inForce.value[1] > 0
           /\ Truncated(inForce.value) > 0
           /\ sampler.interval = Second \div Truncated(inForce.value)

\* What holds these up: the types, a fetched reply, and that empty settings
\* stand for a failed request.
IndInv ==
    /\ TypeOK
    /\ pc \in {"fetched", "sampler", "dynamic"} <=> reply # NotFetched
    /\ failed => reply = EmptySettings
    /\ InStep
    /\ LimitsAsConfigured
    /\ WeightsAccount

\* The rate limiter lets one trace pass per interval, whatever the pauses
\* between the calls. A new one starts at the zero time, from which it catches
\* up with the clock in steps of at most MaxDuration: these pass as well.
CatchUp(i) == (since \div ((MaxDuration \div i) * i)) + 1
RateBound == sampler.kind = "rate" /\ ~panicked /\ sampler.interval > 0
                 /\ sampler.interval <= MaxDuration =>
    passes <= CatchUp(sampler.interval) + (now - since) \div sampler.interval + 1

\* Settings end the process for one reason only: a rate limit below 1 per
\* second, whose integer part is zero, or above one per nanosecond
\* (RefreshConfig and Sample divide integers). No other value does.
PanicsOutOfRange == panicked =>
    /\ inForce.strategy = "rate"
    /\ inForce.value[1] > 0
    /\ Truncated(inForce.value) \notin 1..Second

\* A failed request does not touch the sampler: the empty settings that stand
\* for it have no sample config (handleSettingsForSampler).
FailureKeepsSampling ==
    [][(pc = "sampler" /\ failed) => inForce' = inForce /\ since' = since]_vars

\* If the settings of the agent stop changing, the tracer gets to them again
\* and again, whatever failures come in between.
HasApplied(a) ==
    /\ slowQuery = a.slow
    /\ ~LeavesSampler(a.config) => inForce = a.config
Converges == \A a \in AgentSettings :
    <>[](agent = a) => []<>(HasApplied(a) \/ closed \/ panicked)
=============================================================================
