--------------------------- MODULE Settings_proofs ---------------------------
(***************************************************************************)
(* Theorems about Settings, for any settings the agent may send, any       *)
(* resolution of the clock and any bound on durations: the tracer stays in *)
(* step with the fetcher, the weights account for every trace, the rate    *)
(* limiter keeps its pace, settings end the process for one reason only,   *)
(* and a failed request leaves the sampler alone.                          *)
(***************************************************************************)
EXTENDS Settings, TLAPS

\* The last pass of the rate limiter moves by whole intervals, and never past
\* the time of the call.
LEMMA WholeIntervals ==
    ASSUME NEW e \in Nat, NEW i \in Nat \ {0}
    PROVE  (e \div i) * i \in Nat /\ (e \div i) * i <= e
<1>1. e \div i \in Nat /\ e = i * (e \div i) + (e % i) /\ e % i \in 0..(i - 1)
  OBVIOUS
<1> DEFINE q == e \div i
           r == e % i
<1>2. q \in Nat /\ r \in Nat /\ e = i * q + r
  BY <1>1
<1> HIDE DEF q, r
<1>3. i * q = q * i /\ q * i \in Nat
  BY <1>2
<1>4. q * i \in Nat /\ q * i <= e
  BY <1>2, <1>3
<1> QED
  BY <1>4 DEF q

\* An integer quotient is zero only if the divisor is larger.
LEMMA ZeroQuotient ==
    ASSUME NEW s \in Nat, NEW k \in Nat \ {0}
    PROVE  s \div k \in Nat /\ (s \div k = 0 => k > s)
  OBVIOUS

RateLimiters == [kind : {"rate"}, interval : Nat, last : Nat, noSampled : Nat]

LEMMA Limiters ==
    ASSUME NEW s \in RateLimiters
    PROVE  /\ s \in Samplers /\ s.kind = "rate"
           /\ s.interval \in Nat /\ s.last \in Nat /\ s.noSampled \in Nat
  BY DEF RateLimiters, Samplers

LEMMA SamplerCases ==
    ASSUME NEW s \in Samplers
    PROVE  \/ s = AllSampler \/ s = NoSampler
           \/ s.kind = "ratio" /\ s.permil \in Nat /\ s.weight \in Nat
           \/ s \in RateLimiters
  BY DEF Samplers, RateLimiters

-----------------------------------------------------------------------------
(* What RefreshConfig and Sample do to a sampler                           *)

\* The sampler that RefreshConfig installs is that of the config.
LEMMA RefreshFits ==
    ASSUME NEW s \in Samplers, NEW c \in Configs,
           ~DividesByZero(c), c.strategy # "unknown"
    PROVE  /\ Refresh(s, c) \in Samplers
           /\ Refresh(s, c).kind = "rate" =>
                  /\ c.strategy = "rate" /\ c.value[1] > 0 /\ Truncated(c.value) > 0
                  /\ Refresh(s, c).interval = Second \div Truncated(c.value)
                  /\ Refresh(s, c).last = 0 /\ Refresh(s, c).noSampled = 0
<1> DEFINE n == c.value[1]
           d == c.value[2]
<1>1. n \in Int /\ d \in Nat \ {0} /\ c.strategy \in {"all", "ratio", "rate", "unknown"}
  BY DEF Configs
<1>2. AllSampler \in Samplers /\ NoSampler \in Samplers
      /\ AllSampler.kind # "rate" /\ NoSampler.kind # "rate"
  BY DEF Samplers, AllSampler, NoSampler
<1>3. CASE c.strategy = "all"
  BY <1>2, <1>3 DEF Refresh
<1>4. CASE c.strategy \in {"ratio", "rate"} /\ IsOff(c.value)
  BY <1>2, <1>4 DEF Refresh
<1>5. CASE c.strategy = "ratio" /\ ~IsOff(c.value)
  <2>1. n \in Nat \ {0}
    BY <1>1, <1>5 DEF IsOff
  <2>2. (n * 1000) \div d \in Nat /\ d \div n \in Nat
    BY <1>1, <2>1
  <2>3. Refresh(s, c) = RatioSampler(c.value)
    BY <1>5 DEF Refresh
  <2> QED
    BY <2>2, <2>3 DEF RatioSampler, Samplers
<1>6. CASE c.strategy = "rate" /\ ~IsOff(c.value)
  <2>1. n \in Nat \ {0}
    BY <1>1, <1>6 DEF IsOff
  <2>2. Truncated(c.value) \in Nat \ {0}
    BY <1>1, <1>6, <2>1 DEF DividesByZero, Truncated
  <2>3. Second \div Truncated(c.value) \in Nat
    BY <2>2, SamplerAssumption
  <2>4. Refresh(s, c) = RateLimitSampler(Second \div Truncated(c.value))
    BY <1>6 DEF Refresh
  <2> QED
    BY <1>6, <2>1, <2>2, <2>3, <2>4 DEF RateLimitSampler, Samplers
<1> QED
  BY <1>1, <1>3, <1>4, <1>5, <1>6

\* A call of Sample keeps the kind and the interval, and its weight makes up
\* for the calls refused before it.
LEMMA SampleFits ==
    ASSUME NEW s \in Samplers, NEW t \in Nat, NEW v \in Verdicts(s, t),
           s.kind = "rate" => s.last <= t /\ s.interval # 0
    PROVE  /\ v.sampler \in Samplers /\ v.sampler.kind = s.kind
           /\ v.weight \in Nat
           /\ s.kind = "all" => v.weight = 1
           /\ s.kind = "rate" =>
                  /\ v.sampler.interval = s.interval /\ v.sampler.last <= t
                  /\ v.sampler.noSampled \in Nat
                  /\ v.weight + v.sampler.noSampled = s.noSampled + 1
<1>1. CASE s = AllSampler \/ s = NoSampler
  <2>1. s.kind \in {"all", "none"}
    BY <1>1 DEF AllSampler, NoSampler
  <2>2. \/ v = Answer(TRUE, 1, s)
        \/ s.kind # "all" /\ v = Answer(FALSE, 0, s)
    BY <2>1 DEF Verdicts
  <2>3. /\ v.sampler = s /\ v.weight \in Nat
        /\ s.kind = "all" => v.weight = 1
    BY <2>2 DEF Answer
  <2> QED
    BY <2>1, <2>3
<1>2. CASE s.kind = "ratio"
  <2>1. s.weight \in Nat
    BY <1>2, SamplerCases DEF AllSampler, NoSampler, RateLimiters
  <2>2. v = Answer(TRUE, s.weight, s) \/ v = Answer(FALSE, 0, s)
    BY <1>2 DEF Verdicts, RatioVerdicts
  <2>3. v.sampler = s /\ v.weight \in Nat
    BY <2>1, <2>2 DEF Answer
  <2> QED
    BY <1>2, <2>3
<1>3. CASE s.kind = "rate"
  <2>1. /\ s \in RateLimiters /\ s.last <= t
        /\ s.interval \in Nat \ {0} /\ s.last \in Nat /\ s.noSampled \in Nat
    BY <1>3, SamplerCases DEF AllSampler, NoSampler, RateLimiters
  <2>2. v = RateLimitSample(s, t)
    BY <1>3 DEF Verdicts
  <2>3. CASE Elapsed(s, t) < s.interval
    <3>1. v = Answer(FALSE, 0, [s EXCEPT !.noSampled = @ + 1])
      BY <2>2, <2>3 DEF RateLimitSample
    <3>2. /\ v.sampler = [s EXCEPT !.noSampled = @ + 1]
          /\ v.weight = 0
      BY <3>1 DEF Answer
    <3>3. /\ v.sampler \in RateLimiters /\ v.sampler.interval = s.interval
          /\ v.sampler.last = s.last /\ v.sampler.noSampled = s.noSampled + 1
      BY <2>1, <3>2 DEF RateLimiters
    <3> QED
      BY <1>3, <2>1, <3>2, <3>3, Limiters
  <2>4. CASE ~(Elapsed(s, t) < s.interval)
    <3>1. Elapsed(s, t) \in Nat /\ Elapsed(s, t) <= t - s.last
      BY <2>1, SamplerAssumption DEF Elapsed
    <3>2. NextLast(s, t) \in Nat /\ NextLast(s, t) <= t
      <4> DEFINE m == (Elapsed(s, t) \div s.interval) * s.interval
      <4>1. m \in Nat /\ m <= Elapsed(s, t)
        BY <2>1, <3>1, WholeIntervals
      <4>2. NextLast(s, t) = s.last + m
        BY DEF NextLast
      <4> HIDE DEF m
      <4> QED
        BY <2>1, <3>1, <4>1, <4>2
    <3>3. v = Answer(TRUE, Weight(s), [s EXCEPT !.last = NextLast(s, t), !.noSampled = 0])
      BY <2>2, <2>4 DEF RateLimitSample
    <3>4. /\ v.sampler = [s EXCEPT !.last = NextLast(s, t), !.noSampled = 0]
          /\ v.weight = s.noSampled + 1
      BY <3>3 DEF Answer, Weight
    <3> DEFINE r == [s EXCEPT !.last = NextLast(s, t), !.noSampled = 0]
    <3>5. r \in RateLimiters
      BY <2>1, <3>2 DEF RateLimiters
    <3>6. r.interval = s.interval /\ r.last = NextLast(s, t) /\ r.noSampled = 0
      BY <2>1 DEF RateLimiters
    <3> HIDE DEF r
    <3>7. v.sampler = r /\ v.weight = s.noSampled + 1
      BY <3>4 DEF r
    <3> QED
      BY <1>3, <2>1, <3>2, <3>5, <3>6, <3>7, Limiters
  <2> QED
    BY <2>3, <2>4
<1> QED
  BY <1>1, <1>2, <1>3, SamplerCases, Limiters

-----------------------------------------------------------------------------
(* The inductive invariant                                                 *)

LEMMA ReplyTypes ==
    ASSUME NEW r \in Replies
    PROVE  /\ r # NotFetched
           /\ r.slow \in Nat
           /\ ~LeavesSampler(r.config) => r.config \in Configs /\ ConfigOf(r.config) = r.config
                                          /\ r.config.strategy # "unknown"
<1>1. CASE r \in AgentSettings
  <2>1. r.config \in Configs /\ r.slow \in Nat
    BY <1>1, SettingsAssumption
  <2>2. r.slow # NotFetched.slow
    BY <2>1 DEF NotFetched
  <2> QED
    BY <2>1, <2>2 DEF LeavesSampler, ConfigOf, Configs
<1>2. CASE r = EmptySettings
  <2>1. r.config = NoConfig /\ r.slow = 0 /\ r.slow # NotFetched.slow
    BY <1>2 DEF EmptySettings, NotFetched
  <2>2. LeavesSampler(r.config)
    BY <2>1 DEF LeavesSampler, NoConfig
  <2> QED
    BY <2>1, <2>2
<1> QED
  BY <1>1, <1>2 DEF Replies

LEMMA InitInv == Init => IndInv
<1> SUFFICES ASSUME Init PROVE IndInv
  OBVIOUS
<1>1. TypeOK
  <2>1. sampler \in Samplers /\ sampler.kind # "rate"
    BY DEF Init, Samplers, AllSampler
  <2>2. now \in Now0..MaxNow
    BY SettingsAssumption DEF Init
  <2>3. calls \in 0..MaxCalls /\ passes \in 0..calls /\ handed \in Nat
    BY SettingsAssumption DEF Init
  <2> QED
    BY <2>1, <2>2, <2>3 DEF Init, TypeOK
<1>2. LimitsAsConfigured
  BY DEF Init, LimitsAsConfigured, Configs, AllSampler
<1>3. InStep /\ WeightsAccount
  BY DEF Init, InStep, WeightsAccount, AllSampler
<1> QED
  BY <1>1, <1>2, <1>3 DEF IndInv, Init

LEMMA Inductive == IndInv /\ [Next]_vars => IndInv'
<1> SUFFICES ASSUME IndInv, [Next]_vars PROVE IndInv'
  OBVIOUS
<1> USE DEF fetchVars, histVars, Running, Asks, Idle
<1>t. TypeOK
  BY DEF IndInv
<1>r. reply = NotFetched \/ reply \in Replies
  BY <1>t DEF TypeOK
<1>n. Now0 \in Nat /\ MaxNow \in Nat /\ now \in Nat
  BY <1>t, SettingsAssumption DEF TypeOK
<1>1. CASE AgentChanges
  BY <1>1 DEF AgentChanges, IndInv, TypeOK, InStep, LimitsAsConfigured, WeightsAccount
<1>2. CASE ClockTick
  <2>1. now' \in Now0..MaxNow /\ now <= now'
    BY <1>2, <1>n, <1>t DEF ClockTick, TypeOK
  <2>2. sampler.kind = "rate" => sampler.last <= now'
    <3> SUFFICES ASSUME sampler.kind = "rate" PROVE sampler.last <= now'
      OBVIOUS
    <3>1. sampler \in RateLimiters
      BY <1>t, SamplerCases DEF TypeOK, AllSampler, NoSampler
    <3>2. sampler.last \in Nat /\ sampler.last <= now
      BY <1>t, <3>1, Limiters DEF TypeOK
    <3> QED
      BY <1>n, <2>1, <3>2
  <2> QED
    BY <1>2, <2>1, <2>2
    DEF ClockTick, IndInv, TypeOK, InStep, LimitsAsConfigured, WeightsAccount
<1>3. CASE FetchOK
  <2>1. agent \in Replies
    BY <1>t DEF TypeOK, Replies
  <2>2. agent # NotFetched
    BY <2>1, ReplyTypes
  <2>3. ~failed
    BY <1>3, <1>r, ReplyTypes DEF FetchOK, IndInv, NotFetched, EmptySettings
  <2> QED
    BY <1>3, <2>1, <2>2, <2>3
    DEF FetchOK, IndInv, TypeOK, InStep, LimitsAsConfigured, WeightsAccount
<1>4. CASE FetchStatus
  <2>1. EmptySettings \in Replies /\ EmptySettings # NotFetched
    BY DEF Replies, EmptySettings, NotFetched
  <2> QED
    BY <1>4, <2>1
    DEF FetchStatus, IndInv, TypeOK, InStep, LimitsAsConfigured, WeightsAccount
<1>5. CASE FetchError
  BY <1>5 DEF FetchError, IndInv, TypeOK, InStep, LimitsAsConfigured, WeightsAccount
<1>6. CASE CompareAndStore
  <2>1. reply \in Replies /\ reply # NotFetched
    BY <1>6, <1>r DEF CompareAndStore, IndInv
  <2>2. CASE SameSettings
    BY <1>6, <2>2
    DEF CompareAndStore, IndInv, TypeOK, InStep, LimitsAsConfigured, WeightsAccount
  <2>3. CASE ~SameSettings
    BY <1>6, <2>1, <2>3 DEF CompareAndStore, Remembered, IndInv, TypeOK, InStep,
                            LimitsAsConfigured, WeightsAccount
  <2> QED
    BY <2>2, <2>3
<1>7. CASE HandleSettingsForSampler
  <2> DEFINE c == ConfigOf(reply.config)
  <2>1. reply \in Replies /\ oldSettings = reply
    BY <1>7, <1>r DEF HandleSettingsForSampler, IndInv, InStep
  <2>2. CASE LeavesSampler(reply.config)
    BY <1>7, <2>1, <2>2 DEF HandleSettingsForSampler, IndInv, TypeOK, InStep,
                            LimitsAsConfigured, WeightsAccount
  <2>3. CASE ~LeavesSampler(reply.config)
    <3>1. c \in Configs /\ c = reply.config /\ c.strategy # "unknown"
      BY <2>1, <2>3, ReplyTypes
    <3> HIDE DEF c
    <3>2. inForce' = c
      BY <1>7, <2>3 DEF HandleSettingsForSampler, c
    <3>3. CASE DividesByZero(c)
      BY <1>7, <2>1, <2>3, <3>1, <3>2, <3>3 DEF HandleSettingsForSampler, IndInv, TypeOK,
         InStep, LimitsAsConfigured, WeightsAccount, c
    <3>4. CASE ~DividesByZero(c)
      <4>1. /\ sampler' = Refresh(sampler, c) /\ calls' = 0 /\ passes' = 0 /\ handed' = 0
            /\ UNCHANGED <<panicked, now>>
        BY <1>7, <2>3, <3>4 DEF HandleSettingsForSampler, c
      <4>2. /\ sampler' \in Samplers
            /\ sampler'.kind = "rate" =>
                   /\ c.strategy = "rate" /\ c.value[1] > 0 /\ Truncated(c.value) > 0
                   /\ sampler'.interval = Second \div Truncated(c.value)
                   /\ sampler'.last = 0 /\ sampler'.noSampled = 0
        BY <1>t, <3>1, <3>4, <4>1, RefreshFits DEF TypeOK
      <4>3. TypeOK'
        BY <1>7, <1>n, <1>t, <4>1, <4>2, SettingsAssumption DEF HandleSettingsForSampler, TypeOK
      <4>4. LimitsAsConfigured' /\ WeightsAccount'
        BY <3>1, <3>2, <4>1, <4>2 DEF LimitsAsConfigured, WeightsAccount
      <4>5. InStep'
        BY <1>7, <2>1, <3>1, <3>2 DEF HandleSettingsForSampler, InStep
      <4> QED
        BY <1>7, <4>3, <4>4, <4>5 DEF HandleSettingsForSampler, IndInv
    <3> QED
      BY <3>3, <3>4
  <2> QED
    BY <2>2, <2>3
<1>8. CASE HandleSettingsForDynamicConfig
  <2>1. reply \in Replies /\ oldSettings = reply /\ reply.slow \in Nat
    BY <1>8, <1>r, ReplyTypes DEF HandleSettingsForDynamicConfig, IndInv, InStep
  <2> QED
    BY <1>8, <2>1 DEF HandleSettingsForDynamicConfig, IndInv, TypeOK, InStep,
                      LimitsAsConfigured, WeightsAccount
<1>9. CASE Stop
  BY <1>9 DEF Stop, IndInv, TypeOK, InStep, LimitsAsConfigured, WeightsAccount
<1>10. CASE SeeClose
  BY <1>10 DEF SeeClose, IndInv, TypeOK, InStep, LimitsAsConfigured, WeightsAccount
<1>11. CASE Sample
  <2>1. CASE SampleDividesByZero(sampler)
    BY <1>11, <2>1 DEF Sample, IndInv, TypeOK, InStep, LimitsAsConfigured, WeightsAccount
  <2>2. CASE ~SampleDividesByZero(sampler)
    <3>1. PICK v \in Verdicts(sampler, now) :
              /\ sampler' = v.sampler
              /\ calls' = calls + 1
              /\ passes' = passes + (IF v.sampled THEN 1 ELSE 0)
              /\ handed' = handed + v.weight
      BY <1>11, <2>2 DEF Sample
    <3>2. sampler.kind = "rate" =>
              sampler.last <= now /\ sampler.interval # 0 /\ sampler.noSampled \in Nat
      BY <1>t, <2>2, SamplerCases, Limiters
      DEF TypeOK, SampleDividesByZero, AllSampler, NoSampler
    <3>3. /\ v.sampler \in Samplers /\ v.sampler.kind = sampler.kind
          /\ v.weight \in Nat
          /\ sampler.kind = "all" => v.weight = 1
          /\ sampler.kind = "rate" =>
                 /\ v.sampler.interval = sampler.interval /\ v.sampler.last <= now
                 /\ v.sampler.noSampled \in Nat
                 /\ v.weight + v.sampler.noSampled = sampler.noSampled + 1
      BY <1>t, <1>n, <3>2, SampleFits DEF TypeOK
    <3>4. TypeOK'
      <4>1. calls' \in 0..MaxCalls /\ passes' \in 0..calls' /\ handed' \in Nat
        BY <1>11, <1>t, <3>1, <3>3, SettingsAssumption DEF Sample, TypeOK
      <4> QED
        BY <1>11, <1>t, <2>2, <3>1, <3>3, <4>1 DEF Sample, TypeOK
    <3>5. WeightsAccount'
      BY <1>t, <3>1, <3>2, <3>3 DEF IndInv, TypeOK, WeightsAccount
    <3>6. LimitsAsConfigured' /\ InStep'
      BY <1>11, <2>2, <3>1, <3>3 DEF Sample, IndInv, LimitsAsConfigured, InStep
    <3> QED
      BY <1>11, <3>4, <3>5, <3>6 DEF Sample, IndInv
  <2> QED
    BY <2>1, <2>2
<1>12. CASE UNCHANGED vars
  BY <1>12 DEF vars, IndInv, TypeOK, InStep, LimitsAsConfigured, WeightsAccount
<1> QED
  BY <1>1, <1>2, <1>3, <1>4, <1>5, <1>6, <1>7, <1>8, <1>9, <1>10, <1>11, <1>12
  DEF Next, Refreshing

-----------------------------------------------------------------------------
(* The theorems                                                            *)

\* The tracer runs with the settings the fetcher compares the next reply with,
\* and the sampler is the one the last sample config asks for.
THEOREM InStepCorrect == Spec => []IndInv
  BY InitInv, Inductive, PTL DEF Spec

\* Every trace that asks the rate limiter, or the sampler without a limit, is in
\* the weight of a trace that passed or among the refusals not yet handed out.
THEOREM WeightsCorrect == Spec => []WeightsAccount
<1>1. IndInv => WeightsAccount
  BY DEF IndInv
<1> QED
  BY InStepCorrect, <1>1, PTL

\* Only a rate limit whose integer part is zero or above one per clock tick ends
\* the process with a division by zero.
THEOREM PanicsCorrect == Spec => []PanicsOutOfRange
<1>1. Init => PanicsOutOfRange
  BY DEF Init, PanicsOutOfRange
<1>2. IndInv /\ PanicsOutOfRange /\ [Next]_vars => PanicsOutOfRange'
  <2> SUFFICES ASSUME IndInv, PanicsOutOfRange, [Next]_vars, panicked'
               PROVE  PanicsOutOfRange'
    BY DEF PanicsOutOfRange
  <2>1. CASE panicked
    <3>1. UNCHANGED inForce
      BY <2>1 DEF Next, Refreshing, AgentChanges, ClockTick, FetchOK, FetchStatus,
         FetchError, CompareAndStore, HandleSettingsForSampler,
         HandleSettingsForDynamicConfig, Stop, SeeClose, Sample, Asks, Running, vars, histVars
    <3> QED
      BY <2>1, <3>1 DEF PanicsOutOfRange
  <2>2. CASE ~panicked /\ HandleSettingsForSampler
    <3>1. ~LeavesSampler(reply.config) /\ DividesByZero(inForce')
          /\ inForce' = ConfigOf(reply.config)
      BY <2>2 DEF HandleSettingsForSampler, histVars
    <3>2. reply \in Replies
      BY <2>2 DEF HandleSettingsForSampler, IndInv, TypeOK
    <3>3. inForce' \in Configs
      BY <3>1, <3>2, ReplyTypes
    <3>4. inForce'.value[1] \in Int
      BY <3>3 DEF Configs
    <3> QED
      BY <3>1, <3>4, SamplerAssumption DEF PanicsOutOfRange, DividesByZero, IsOff
  <2>3. CASE ~panicked /\ Sample
    <3>1. sampler.kind = "rate" /\ sampler.interval = 0 /\ UNCHANGED inForce
      BY <2>3 DEF Sample, SampleDividesByZero
    <3>2. /\ inForce \in Configs /\ inForce.strategy = "rate" /\ inForce.value[1] > 0
          /\ Truncated(inForce.value) > 0
          /\ Second \div Truncated(inForce.value) = 0
      BY <2>3, <3>1 DEF IndInv, LimitsAsConfigured
    <3>3. Truncated(inForce.value) \in Nat \ {0}
      <4>1. inForce.value[1] \in Int /\ inForce.value[2] \in Nat \ {0}
        BY <3>2 DEF Configs
      <4> QED
        BY <3>2, <4>1 DEF Truncated
    <3>4. Truncated(inForce.value) > Second
      BY <3>2, <3>3, SamplerAssumption, ZeroQuotient
    <3> QED
      BY <3>1, <3>2, <3>3, <3>4, SamplerAssumption DEF PanicsOutOfRange
  <2> QED
    BY <2>1, <2>2, <2>3 DEF Next, Refreshing, AgentChanges, ClockTick, FetchOK, FetchStatus,
       FetchError, CompareAndStore, HandleSettingsForDynamicConfig, Stop, SeeClose, vars
<1> QED
  BY InStepCorrect, <1>1, <1>2, PTL DEF Spec

\* The settings that stand for a failed request never reach the sampler.
THEOREM FailureKeepsSamplingCorrect == Spec => FailureKeepsSampling
<1>1. IndInv /\ [Next]_vars =>
          [(pc = "sampler" /\ failed) => inForce' = inForce /\ since' = since]_vars
  <2> SUFFICES ASSUME IndInv, Next, pc = "sampler", failed
               PROVE  inForce' = inForce /\ since' = since
    BY DEF vars, histVars
  <2>1. LeavesSampler(reply.config)
    BY DEF IndInv, EmptySettings, NoConfig, LeavesSampler
  <2> QED
    BY <2>1 DEF Next, Refreshing, AgentChanges, ClockTick, FetchOK, FetchStatus, FetchError,
       CompareAndStore, HandleSettingsForSampler, HandleSettingsForDynamicConfig, Stop,
       SeeClose, Sample, Asks, Running, histVars
<1> QED
  BY InStepCorrect, <1>1, PTL DEF Spec, FailureKeepsSampling
-----------------------------------------------------------------------------
(* The pace of the rate limiter                                            *)

\* An integer quotient is the largest number of times the divisor fits.
LEMMA Quotient ==
    ASSUME NEW e \in Nat, NEW i \in Nat \ {0}
    PROVE  /\ e \div i \in Nat
           /\ (e \div i) * i <= e /\ e < (e \div i) * i + i
           /\ \A q \in Nat : q * i <= e => q <= e \div i
<1>1. e \div i \in Nat /\ e = i * (e \div i) + (e % i) /\ e % i \in 0..(i - 1)
  OBVIOUS
<1>2. PICK k \in Nat : k = e \div i
  BY <1>1
<1>3. k * i \in Nat /\ k * i <= e /\ e < k * i + i
  <2>1. i * k = k * i /\ k * i \in Nat
    OBVIOUS
  <2> QED
    BY <1>1, <1>2, <2>1
<1>4. ASSUME NEW q \in Nat, q * i <= e PROVE q <= k
  <2> SUFFICES ASSUME q > k PROVE FALSE
    OBVIOUS
  <2>1. PICK m \in Nat : q = k + 1 + m
    <3>1. q - k - 1 \in Nat /\ q = k + 1 + (q - k - 1)
      OBVIOUS
    <3> QED
      BY <3>1
  <2>2. m * i \in Nat /\ q * i = k * i + i + m * i
    BY <2>1
  <2> QED
    BY <1>3, <1>4, <2>2
<1> QED
  BY <1>2, <1>3, <1>4

\* It grows with the dividend, by one at least when that grows by the divisor.
LEMMA QuotientGrows ==
    ASSUME NEW d \in Nat, NEW e \in Nat, NEW i \in Nat \ {0}
    PROVE  /\ d <= e => d \div i <= e \div i
           /\ d + i <= e => d \div i + 1 <= e \div i
<1>1. PICK k \in Nat : k = d \div i /\ k * i <= d
  BY Quotient
<1>2. k * i \in Nat /\ (k + 1) * i = k * i + i
  OBVIOUS
<1>3. e \div i \in Nat /\ \A q \in Nat : q * i <= e => q <= e \div i
  BY Quotient
<1>4. ASSUME d <= e PROVE k <= e \div i
  BY <1>1, <1>2, <1>3, <1>4
<1>5. ASSUME d + i <= e PROVE k + 1 <= e \div i
  <2>1. (k + 1) * i <= e /\ k + 1 \in Nat
    BY <1>1, <1>2, <1>5
  <2> QED
    BY <1>3, <2>1
<1> QED
  BY <1>1, <1>4, <1>5

\* The step by which a new limiter catches up.
Stride(i) == (MaxDuration \div i) * i

LEMMA Strides ==
    ASSUME NEW i \in Nat \ {0}, i <= MaxDuration
    PROVE  Stride(i) \in Nat \ {0} /\ i <= Stride(i) /\ Stride(i) <= MaxDuration
<1>1. MaxDuration \in Nat
  BY SamplerAssumption
<1>2. PICK k \in Nat : k = MaxDuration \div i /\ k * i <= MaxDuration
  BY <1>1, Quotient
<1>3. k >= 1
  <2>1. 1 * i <= MaxDuration /\ 1 \in Nat
    OBVIOUS
  <2> QED
    BY <1>1, <1>2, <2>1, Quotient
<1>4. k * i \in Nat /\ k * i >= i
  <2>1. PICK m \in Nat : k = m + 1
    <3>1. k - 1 \in Nat /\ k = (k - 1) + 1
      BY <1>3
    <3> QED
      BY <3>1
  <2>2. k * i = m * i + i /\ m * i \in Nat
    BY <2>1
  <2> QED
    BY <2>2
<1> QED
  BY <1>2, <1>4 DEF Stride

\* How often a limiter made at time b has let pass when it last did at s.last:
\* once for each stride until it has caught up with b, after that once for each
\* interval at most.
Paced(s, p, b) ==
    /\ s.last <= b => \/ p * Stride(s.interval) <= s.last
                      \/ p <= b \div Stride(s.interval) + 1 /\ s.last + s.interval > b
    /\ s.last > b => p <= b \div Stride(s.interval) + 2 + (s.last - b) \div s.interval

LEMMA PacedPasses ==
    ASSUME NEW s \in RateLimiters, 0 < s.interval, s.interval <= MaxDuration,
           NEW t \in Nat, s.last <= t, ~(Elapsed(s, t) < s.interval),
           NEW b \in Nat, b <= t, NEW p \in Nat, Paced(s, p, b),
           NEW r \in RateLimiters, r.interval = s.interval, r.last = NextLast(s, t)
    PROVE  Paced(r, p + 1, b)
<1> DEFINE i == s.interval
           w == Stride(i)
           B == b \div w
<1>1. i \in Nat \ {0} /\ s.last \in Nat /\ r.last \in Nat /\ MaxDuration \in Nat
  BY Limiters, SamplerAssumption
<1>2. w \in Nat \ {0} /\ i <= w /\ w <= MaxDuration
  BY <1>1, Strides
<1> HIDE DEF i, w
<1>3. B \in Nat /\ \A q \in Nat : q * w <= b => q <= B
  BY <1>2, Quotient
<1> HIDE DEF B
<1>4. \/ r.last = s.last + w
      \/ s.last + i <= r.last /\ r.last + i > t
  <2>1. CASE t - s.last > MaxDuration
    <3>1. Elapsed(s, t) = MaxDuration
      BY <2>1 DEF Elapsed
    <3> QED
      BY <3>1 DEF NextLast, w, Stride, i
  <2>2. CASE ~(t - s.last > MaxDuration)
    <3>1. PICK e \in Nat : e = t - s.last /\ e >= i /\ Elapsed(s, t) = e
      <4>1. t - s.last \in Nat
        BY <1>1
      <4>2. Elapsed(s, t) = t - s.last
        BY <2>2 DEF Elapsed
      <4>3. ~(Elapsed(s, t) < i)
        BY DEF i
      <4> QED
        BY <1>1, <4>1, <4>2, <4>3
    <3>2. PICK k \in Nat : k = e \div i /\ k * i <= e /\ e < k * i + i
      BY <1>1, <3>1, Quotient
    <3>3. k # 0
      <4> SUFFICES ASSUME k = 0 PROVE FALSE
        OBVIOUS
      <4>1. k * i = 0
        BY <1>1
      <4> QED
        BY <1>1, <3>1, <3>2, <4>1
    <3>4. PICK m \in Nat : k = m + 1
      <4>1. k - 1 \in Nat /\ k = (k - 1) + 1
        BY <3>3
      <4> QED
        BY <4>1
    <3>5. k * i \in Nat /\ m * i \in Nat /\ k * i = m * i + i
      BY <1>1, <3>4
    <3>6. r.last = s.last + k * i
      BY <3>1, <3>2 DEF NextLast, i
    <3> QED
      BY <1>1, <3>1, <3>2, <3>5, <3>6
  <2> QED
    BY <2>1, <2>2
<1>5. s.last + i <= r.last
  BY <1>1, <1>2, <1>4
<1>6. p * w \in Nat /\ (p + 1) * w = p * w + w
  BY <1>2
<1>p. /\ s.last <= b => p * w <= s.last \/ (p <= B + 1 /\ s.last + i > b)
      /\ s.last > b => p <= B + 2 + (s.last - b) \div i
  BY DEF Paced, i, w, B
<1>7. s.last <= b /\ p * w <= s.last => p <= B
  BY <1>1, <1>3, <1>6
<1>8. r.last > b => p + 1 <= B + 2 + (r.last - b) \div i
  <2> SUFFICES ASSUME r.last > b PROVE p + 1 <= B + 2 + (r.last - b) \div i
    OBVIOUS
  <2>1. r.last - b \in Nat /\ (r.last - b) \div i \in Nat
    <3>1. r.last - b \in Nat
      BY <1>1
    <3> QED
      BY <1>1, <3>1, Quotient
  <2>2. CASE s.last <= b
    <3>1. p <= B + 1
      BY <1>3, <1>7, <1>p, <2>2
    <3> QED
      BY <1>3, <2>1, <3>1
  <2>3. CASE s.last > b
    <3>1. s.last - b \in Nat /\ (s.last - b) + i <= r.last - b
      BY <1>1, <1>5, <2>3
    <3>2. (s.last - b) \div i + 1 <= (r.last - b) \div i /\ (s.last - b) \div i \in Nat
      BY <1>1, <2>1, <3>1, QuotientGrows, Quotient
    <3>3. p <= B + 2 + (s.last - b) \div i
      BY <1>p, <2>3
    <3> QED
      BY <1>3, <2>1, <3>2, <3>3
  <2> QED
    BY <1>1, <2>2, <2>3
<1>9. r.last <= b => \/ (p + 1) * w <= r.last
                     \/ p + 1 <= B + 1 /\ r.last + i > b
  <2> SUFFICES ASSUME r.last <= b
               PROVE  (p + 1) * w <= r.last \/ (p + 1 <= B + 1 /\ r.last + i > b)
    OBVIOUS
  <2>1. s.last <= b /\ s.last + i <= b
    BY <1>1, <1>5
  <2>2. p * w <= s.last
    BY <1>1, <1>p, <2>1
  <2>3. p <= B
    BY <1>7, <2>1, <2>2
  <2>4. CASE r.last = s.last + w
    <3>1. (p + 1) * w <= r.last
      <4>1. \A x \in Nat : x <= s.last => x + w <= s.last + w
        BY <1>1, <1>2
      <4> QED
        BY <1>6, <2>2, <2>4, <4>1
    <3> QED
      BY <3>1
  <2>5. CASE r.last + i > t
    <3>1. r.last + i > b /\ p + 1 <= B + 1
      BY <1>1, <1>3, <2>3, <2>5
    <3> QED
      BY <3>1
  <2> QED
    BY <1>4, <2>4, <2>5
<1> QED
  BY <1>8, <1>9 DEF Paced, B, w, i

\* A limiter made at time b has let nothing pass yet.
LEMMA PacedFresh ==
    ASSUME NEW s \in RateLimiters, 0 < s.interval, s.interval <= MaxDuration,
           s.last = 0, NEW b \in Nat
    PROVE  Paced(s, 0, b)
<1>1. Stride(s.interval) \in Nat /\ 0 * Stride(s.interval) = 0
  BY Strides, Limiters
<1> QED
  BY <1>1 DEF Paced

\* While the sampler that was made at since is a rate limiter.
Pacing ==
    /\ since \in Nat /\ since <= now
    /\ sampler.kind = "rate" /\ ~panicked /\ 0 < sampler.interval
           /\ sampler.interval <= MaxDuration => Paced(sampler, passes, since)

LEMMA Clock == IndInv => now \in Nat /\ (Next => now' \in Nat /\ now <= now')
<1> SUFFICES ASSUME IndInv PROVE now \in Nat /\ (Next => now' \in Nat /\ now <= now')
  OBVIOUS
<1>1. now \in Nat
  BY SettingsAssumption DEF IndInv, TypeOK
<1>2. Next => now' = now + 1 \/ UNCHANGED now
  BY DEF Next, Refreshing, AgentChanges, ClockTick, FetchOK, FetchStatus, FetchError,
     CompareAndStore, HandleSettingsForSampler, HandleSettingsForDynamicConfig, Stop,
     SeeClose, Sample, Running
<1> QED
  BY <1>1, <1>2

\* A call of Sample while the limiter works.
LEMMA SamplePaced ==
    ASSUME IndInv, Pacing, Sample, ~panicked', sampler'.kind = "rate", 0 < sampler'.interval,
           sampler'.interval <= MaxDuration
    PROVE  Paced(sampler', passes', since')
<1>t. TypeOK /\ now \in Nat
  BY Clock DEF IndInv
<1>1. ~SampleDividesByZero(sampler) /\ ~panicked /\ UNCHANGED <<since, now>>
  BY DEF Sample, Running
<1>2. PICK v \in Verdicts(sampler, now) :
          sampler' = v.sampler /\ passes' = passes + (IF v.sampled THEN 1 ELSE 0)
  BY <1>1 DEF Sample
<1>3. sampler.kind = "rate" => sampler.last <= now /\ sampler.interval # 0
  BY <1>t, <1>1, SamplerCases, Limiters
  DEF TypeOK, SampleDividesByZero, AllSampler, NoSampler
<1>4. sampler.kind = "rate" /\ sampler'.interval = sampler.interval /\ sampler' \in Samplers
  BY <1>t, <1>2, <1>3, SampleFits DEF TypeOK
<1>5. sampler \in RateLimiters /\ sampler' \in RateLimiters
  BY <1>t, <1>4, SamplerCases DEF TypeOK, AllSampler, NoSampler
<1>6. Paced(sampler, passes, since) /\ since \in Nat /\ since <= now /\ passes \in Nat
  BY <1>t, <1>1, <1>4 DEF Pacing, TypeOK
<1>7. v = RateLimitSample(sampler, now)
  BY <1>2, <1>4 DEF Verdicts
<1>8. CASE Elapsed(sampler, now) < sampler.interval
  <2>1. sampler' = [sampler EXCEPT !.noSampled = @ + 1] /\ v.sampled = FALSE
    BY <1>2, <1>7, <1>8 DEF RateLimitSample, Answer
  <2>2. passes' = passes /\ sampler'.last = sampler.last
    BY <1>2, <1>5, <1>6, <2>1 DEF RateLimiters
  <2> QED
    BY <1>1, <1>4, <1>6, <2>2 DEF Paced
<1>9. CASE ~(Elapsed(sampler, now) < sampler.interval)
  <2>1. /\ sampler' = [sampler EXCEPT !.last = NextLast(sampler, now), !.noSampled = 0]
        /\ v.sampled = TRUE
    BY <1>2, <1>7, <1>9 DEF RateLimitSample, Answer
  <2>2. passes' = passes + 1 /\ sampler'.last = NextLast(sampler, now)
    BY <1>2, <1>5, <2>1 DEF RateLimiters
  <2>3. Paced(sampler', passes + 1, since)
    BY <1>t, <1>3, <1>4, <1>5, <1>6, <1>9, <2>2, PacedPasses
  <2> QED
    BY <1>1, <2>2, <2>3
<1> QED
  BY <1>8, <1>9

LEMMA StepPacing == IndInv /\ Pacing /\ [Next]_vars => Pacing'
<1> SUFFICES ASSUME IndInv, Pacing, [Next]_vars PROVE Pacing'
  OBVIOUS
<1>t. TypeOK /\ IndInv' /\ now \in Nat
  BY Clock, Inductive DEF IndInv
<1>1. CASE UNCHANGED vars
  BY <1>1 DEF vars, histVars, Pacing, Paced
<1>2. CASE Next
  <2>1. now' \in Nat /\ now <= now' /\ since \in Nat /\ since <= now
    BY <1>2, Clock DEF Pacing
  <2>2. UNCHANGED since \/ since' = now
    BY <1>2 DEF Next, Refreshing, AgentChanges, ClockTick, FetchOK, FetchStatus, FetchError,
       CompareAndStore, HandleSettingsForSampler, HandleSettingsForDynamicConfig, Stop,
       SeeClose, Sample, histVars
  <2>3. since' \in Nat /\ since' <= now'
    BY <1>t, <2>1, <2>2
  <2> SUFFICES ASSUME sampler'.kind = "rate", ~panicked', 0 < sampler'.interval,
                      sampler'.interval <= MaxDuration
               PROVE  Paced(sampler', passes', since')
    BY <2>3 DEF Pacing
  <2>4. CASE Sample
    BY <2>4, SamplePaced
  <2>5. CASE HandleSettingsForSampler /\ ~LeavesSampler(reply.config)
    <3> DEFINE c == ConfigOf(reply.config)
    <3>1. /\ sampler' = Refresh(sampler, c) /\ since' = now /\ passes' = 0
          /\ ~DividesByZero(c)
      BY <2>5 DEF HandleSettingsForSampler
    <3>2. c \in Configs /\ c.strategy # "unknown"
      <4>1. reply \in Replies
        BY <2>5, <1>t DEF HandleSettingsForSampler, IndInv, TypeOK
      <4> QED
        BY <2>5, <4>1, ReplyTypes
    <3>3. sampler'.last = 0 /\ sampler' \in Samplers
      BY <1>t, <3>1, <3>2, RefreshFits DEF TypeOK
    <3>4. sampler' \in RateLimiters
      BY <3>3, SamplerCases DEF AllSampler, NoSampler
    <3> QED
      BY <1>t, <3>1, <3>3, <3>4, PacedFresh
  <2>6. CASE UNCHANGED <<sampler, passes, since, panicked>>
    BY <2>6 DEF Pacing
  <2> QED
    BY <1>2, <2>4, <2>5, <2>6 DEF Next, Refreshing, AgentChanges, ClockTick, FetchOK,
       FetchStatus, FetchError, CompareAndStore, HandleSettingsForSampler,
       HandleSettingsForDynamicConfig, Stop, SeeClose, histVars
<1> QED
  BY <1>1, <1>2

\* The rate limiter lets one trace pass per interval, after those with which a
\* new one catches up with the clock.
THEOREM RateBoundCorrect == Spec => []RateBound
<1>1. Init => Pacing
  BY SettingsAssumption DEF Init, Pacing, AllSampler
<1>2. IndInv /\ Pacing => RateBound
  <2> SUFFICES ASSUME IndInv, Pacing, sampler.kind = "rate", ~panicked, sampler.interval > 0,
                      sampler.interval <= MaxDuration
               PROVE  passes <= CatchUp(sampler.interval)
                                    + (now - since) \div sampler.interval + 1
    BY DEF RateBound
  <2> DEFINE i == sampler.interval
             B == since \div Stride(i)
             l == sampler.last
  <2>t. TypeOK /\ now \in Nat /\ since \in Nat /\ since <= now
    BY Clock DEF IndInv, Pacing
  <2>1. sampler \in RateLimiters
    BY <2>t, SamplerCases DEF TypeOK, AllSampler, NoSampler
  <2>2. i \in Nat \ {0} /\ i <= MaxDuration /\ l \in Nat /\ l <= now /\ passes \in Nat
    BY <2>t, <2>1, Limiters DEF TypeOK
  <2>3. Paced(sampler, passes, since)
    BY DEF Pacing
  <2>p. /\ l <= since => passes * Stride(i) <= l \/ passes <= B + 1
        /\ l > since => passes <= B + 2 + (l - since) \div i
    BY <2>3 DEF Paced
  <2>4. CatchUp(i) = B + 1
    BY DEF CatchUp, Stride
  <2> HIDE DEF i, l
  <2>5. Stride(i) \in Nat \ {0}
    BY <2>2, Strides
  <2>6. B \in Nat /\ \A q \in Nat : q * Stride(i) <= since => q <= B
    BY <2>t, <2>5, Quotient
  <2>7. now - since \in Nat /\ (now - since) \div i \in Nat
    <3>1. now - since \in Nat
      BY <2>t
    <3> QED
      BY <2>2, <3>1, Quotient
  <2> HIDE DEF B
  <2>8. CASE l <= since
    <3>1. passes * Stride(i) <= l => passes * Stride(i) <= since
      BY <2>2, <2>5, <2>8, <2>t
    <3>2. passes <= B + 1
      BY <2>2, <2>6, <2>8, <2>p, <3>1
    <3> QED
      BY <2>2, <2>4, <2>6, <2>7, <3>2 DEF i
  <2>9. CASE l > since
    <3>1. l - since \in Nat /\ l - since <= now - since
      BY <2>2, <2>9, <2>t
    <3>2. (l - since) \div i <= (now - since) \div i /\ (l - since) \div i \in Nat
      BY <2>2, <2>7, <3>1, QuotientGrows, Quotient
    <3>3. passes <= B + 2 + (l - since) \div i
      BY <2>9, <2>p
    <3> QED
      BY <2>2, <2>4, <2>6, <2>7, <3>2, <3>3 DEF i
  <2> QED
    BY <2>2, <2>8, <2>9, <2>t
<1> QED
  BY InitInv, Inductive, <1>1, StepPacing, <1>2, PTL DEF Spec
=============================================================================
