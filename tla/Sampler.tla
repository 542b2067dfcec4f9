------------------------------- MODULE Sampler -------------------------------
(***************************************************************************)
(* The sampler a tracer asks for every trace that begins in its process    *)
(* (trace/aitracer/trace_sampler). A sampler is a record; Refresh gives    *)
(* the one RefreshConfig installs and Verdicts what Sample may answer,     *)
(* with the sampler it leaves. Sample holds the read lock of the sampler   *)
(* and the mutex of the rate limiter from beginning to end, so each call   *)
(* is one step.                                                            *)
(*                                                                         *)
(* Time is counted in ticks since the zero time.Time. A configured value   *)
(* is a fraction <<n, d>> with d > 0, for the float64 of the settings.     *)
(***************************************************************************)
EXTENDS Integers

CONSTANTS Second,       \* time.Second
          MaxDuration   \* the largest time.Duration, at which Time.Sub saturates

ASSUME SamplerAssumption == Second \in Nat \ {0} /\ MaxDuration \in Nat \ {0}

Truncated(v) == v[1] \div v[2]

AllSampler == [kind |-> "all"]
NoSampler  == [kind |-> "none"]
RatioSampler(v) == [kind |-> "ratio", permil |-> (v[1] * 1000) \div v[2],
                    weight |-> v[2] \div v[1]]
RateLimitSampler(i) == [kind |-> "rate", interval |-> i, last |-> 0, noSampled |-> 0]

Samplers ==
    {AllSampler, NoSampler}
        \cup [kind : {"ratio"}, permil : Nat, weight : Nat]
        \cup [kind : {"rate"}, interval : Nat, last : Nat, noSampled : Nat]

\* (Fault: a value of zero is let through.)
IsOff_Negative(v) == v[1] < 0
IsOff(v) == v[1] <= 0

\* time.Second / time.Duration(config.Value) divides integers.
DividesByZero(c) == c.strategy = "rate" /\ ~IsOff(c.value) /\ Truncated(c.value) = 0

\* Sampler.RefreshConfig; a strategy it does not know leaves the sampler alone.
Refresh(s, c) ==
    CASE c.strategy = "all" -> AllSampler
      [] c.strategy \in {"ratio", "rate"} /\ IsOff(c.value) -> NoSampler
      [] c.strategy = "ratio" /\ ~IsOff(c.value) -> RatioSampler(c.value)
      [] c.strategy = "rate" /\ ~IsOff(c.value) ->
             RateLimitSampler(Second \div Truncated(c.value))
      [] OTHER -> s

Answer(sampled, weight, s) == [sampled |-> sampled, weight |-> weight, sampler |-> s]

\* now.Sub(s.last)
Elapsed(s, now) == IF now - s.last > MaxDuration THEN MaxDuration ELSE now - s.last

\* s.last moves by whole intervals. (Fault: by one interval.)
NextLast_OneInterval(s, now) == s.last + s.interval
NextLast(s, now) == s.last + (Elapsed(s, now) \div s.interval) * s.interval

\* The weight stands for the traces refused since the last one that passed.
\* (Fault: the one that passes is not counted.)
Weight_Refused(s) == s.noSampled
Weight(s) == s.noSampled + 1

RateLimitSample(s, now) ==
    IF Elapsed(s, now) < s.interval
    THEN Answer(FALSE, 0, [s EXCEPT !.noSampled = @ + 1])
    ELSE Answer(TRUE, Weight(s), [s EXCEPT !.last = NextLast(s, now), !.noSampled = 0])

\* rand.Intn(1000) < s.permil
RatioVerdicts(s) ==
    {IF x < s.permil THEN Answer(TRUE, s.weight, s) ELSE Answer(FALSE, 0, s) :
        x \in {0, 999}}

\* What Sampler.Sample may answer.
Verdicts(s, now) ==
    CASE s.kind = "all"   -> {Answer(TRUE, 1, s)}
      [] s.kind = "none"  -> {Answer(FALSE, 0, s)}
      [] s.kind = "ratio" -> RatioVerdicts(s)
      [] s.kind = "rate"  -> {RateLimitSample(s, now)}

\* A rate limit above one per nanosecond makes the interval 0, and Sample,
\* which is never called before that much time has passed, divides by it.
SampleDividesByZero(s) == s.kind = "rate" /\ s.interval = 0
=============================================================================
