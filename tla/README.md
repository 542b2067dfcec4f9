# Formal model of the APMInsight server SDK for Go

TLA+ modules for the parts of this SDK in which goroutines, channels and an
unreliable agent meet, TLC configurations that check them on small instances,
and TLAPS proofs of what matters most. File names below are relative to `src/`;
`trace/` stands for `src/trace/`, `metrics/` for `src/metrics/`.

## 1. Inventory

| component | state | operations | interacts with |
|---|---|---|---|
| span life cycle (`trace/aitracer/span.go`, `trace_context.go`, `tracer.go`) | per trace: the spans, `finishCount`, the sampling decision; per span: `finished`, `collected`, status, errors, tags, baggage | `StartSpan*`, `SetTag*`, `SetStatus`, `RecordError`, `Finish`, `FinishWithOption`, `collect`, `emitTrace` | `traceChan` (trace senders), metrics client, sampler |
| trace senders (`trace_sender/sender.go`) | channel, batch buffer, ticker | `Start`, `sendLoop`, `WaitStop` | send worker |
| log collector (`log_collector/collector.go`) | the same, with several workers | `Send`, `Start`, `Stop`, `sendLoop` | send worker |
| send workers (`trace/internal/sendworker`) | one connection | `BatchSend`, `CloseConn` | the agent's unix sockets |
| metrics client (`metrics/`) | batch under a lock, slice pool, channel, packets | `Emit*`, flush loop, send loops, `Start`, `Close` | the agent's socket |
| service register (`trace/internal/service_register`) | process-wide singleton, `runOnce`, `stopChan` | `GetRegister`, `Start`, `Stop`, loop | agent (HTTP); tracers and profilers |
| runtime monitor (`trace/aitracer/runtime`) | ticker loop, its own metrics client | `Start`, `Close` | metrics client |
| tracer start/stop (`tracer.go`) | order of the above | `Start`, `Stop` | everything |
| settings fetcher, dynamic configuration (`trace/internal/settings_fetcher`) | last settings | `Start`, `Stop`, refresh, notifiers | agent; sampler; profile manager |
| trace sampler (`trace_sampler/`) | current strategy, time of the last sample | `Sample`, `RefreshConfig` | `startSpan`, settings |
| context propagation (`propagation.go`, `internal/w3c_helper.go`) | none | inject, extract, flags | other processes |
| profiler (`trace/aiprofiler`) | task channel, result channel, tasks of three drivers, hourly limits, resource samples | `Start`, `Stop`, `Handle`, `run`, `send` | settings, register, HTTP back end |
| generated messages (`*.pb.go`) | none | `Size`, `Marshal`, `Unmarshal` of twenty messages | senders, settings, register, profiles |
| instrumentation (`trace/contrib`) | spans in flight of asynchronous clients | start and finish spans around library calls | tracer |
| IDs, tag registers, process information, profile collection | little | | |

What is hard here: goroutines that finish spans of one trace concurrently and
hand the trace over without a lock; asynchronous spans that join a trace that
has already been sent; buffers with three different limits; an agent that goes
away between any two calls; settings that are compared with a previous reply
while failed requests count as replies; a rate limiter that must catch up with
pauses of any length; messages whose three generated functions must agree with
one another and with other versions; contexts that travel by two carriers and
through proxies; slices that travel through a pool; singletons with several
owners; and the order in which `Stop` and `Close` take things down.
`PROJECT.json` lists each of these hazards at its line, with the properties that
guard it.

What makes each component correct: a finished sampled trace is offered exactly
once and complete, and `Finish` never waits (spans); nothing is lost without a
reason or sent twice, batches fit, order is kept, stopping drains (senders,
metrics); one registration for the process, `Stop` returns and nothing runs
after it (register, monitor); the tracer runs with the settings the fetcher
believes it has, and weights stand for all traces that were asked about
(settings, sampler); a message is read as it was written (generated messages,
frames); the processes of a trace stay connected and share one decision
(propagation); no timed task runs twice, a conditional one stays within what the
windows of its hourly limit permit, and nobody writes to a closed channel (profiler).

## 2. Modules

Each module names the code it models in its header; `PROJECT.json` maps each
definition to its lines.

| module | models | instance |
|---|---|---|
| `TraceContext` | spans, traces, collection, `traceChan` | `MCTraceContext` |
| `SpanExport` | the abstract specification `TraceContext` implements | through `TraceContext` |
| `TraceContext_proofs` | theorems about `TraceContext`, which implements `SpanExport` | |
| `SendWorker` | `DatagramWorker`, `StreamWorker`, the agent's socket | through `BatchSender` |
| `BatchSender` | the send loop of traces and logs; extends `SendWorker` | `MCBatchSender` |
| `Delivery` | the abstract specification `BatchSender` implements | through `BatchSender` |
| `BatchSender_proofs` | theorems about `BatchSender`, which implements `Delivery` | |
| `MetricsClient` | `metrics/metrics_client.go`, `sender.go`, `pool.go` | `MCMetricsClient` |
| `MetricsClient_proofs` | theorems about `MetricsClient` | |
| `Lifecycle` | owners of the register, runtime monitor, `Start`/`Stop` | `MCLifecycle` |
| `Lifecycle_proofs` | theorems about `Lifecycle` | |
| `Sampler` | the four samplers and `RefreshConfig`, as operators | through `Settings` |
| `Settings` | fetcher, notifiers, the tracer that asks its sampler; extends `Sampler` | `MCSettings` |
| `Settings_proofs` | theorems about `Settings` | |
| `ProtoFields` | kinds of fields and rows of the tables | through `Protobuf` |
| `SettingsProto`, `TraceProto`, `ProfileProto` | the tables of the generated messages | `MCWire` |
| `Varint` | numbers and lengths as the generated code writes and reads them | through `Protobuf` |
| `Protobuf` | `Size`, `MarshalTo`, `Unmarshal` over such tables | through `Wire` |
| `Frames` | batches of messages, frames, and how the agent takes them apart | through `Wire` |
| `Wire` | a message on its way: frame or body, cut, extended, packed | `MCWire` |
| `Codec_proofs` | theorems about `Varint` and `Frames` | |
| `Profiler` | manager, drivers, `runLoop`, sender, `Stop` | `MCProfiler` |
| `Profiler_proofs` | theorems about `Profiler` | |
| `Propagation` | extract, start, inject, baggage, along a chain of processes | `MCPropagation` |
| `Propagation_proofs` | theorems about `Propagation` | |

### TraceContext

A step is the code between two accesses to shared state. `Finish` is the
sequence *compare-and-swap on `finished`* (`Finish`), *times, tags, status*
(`Stamp`), *recover* (`CapturePanic`), *metrics* (`EmitMetric`), *the critical
section of `finishSpan`* (`FinishSpan`), *`collect` and the checks at the head of
`emitTrace`* (`Collect`), *one step for each span of the loop* (`CollectSpan`),
and *the select on `traceChan`* (`SendTrace`); `pc` says where a goroutine is.
`Collect` remembers the length of `tc.spans`, because Go's `range` evaluates the
slice once; it reads it without the lock. `RecordError` and `SetStatus` test
`finished` in one step and write in another, as the code does.

`snap`, `metrics`, `panicked` and `late` are history: what was exported of a
span, and which spans joined a trace while a goroutine was between the unlock in
`finishSpan` and the read in `emitTrace`. Left out: tags, names, times, IDs. The
slice header of `tc.spans` is read in one piece; the tearing a data race would
permit is not modelled.

### SpanExport

What collection promises, with no goroutine, lock or counter in it: spans start
and end; when the last open span of a trace ends, a collection falls due; while
one is due, spans of that trace are held, each once; and spans that are held
together are queued, taken or dropped together. `TraceContext` instantiates it:
`ended` is the set of counted spans, `due` the number of goroutines between the
unlock of `finishSpan` and the end of `emitTrace`, and `place` follows a span
into a half-built trace, `traceChan`, a sender's hands or the bin. A span may be
held that has not ended: the code permits it, see `late_span`.

### SendWorker and BatchSender

A sender goroutine is either at its `select` or in `BatchSend`; `BatchSend` is
split at each system call, so that the agent can hang up, go away or come back
in between. An item is a number, the order in which it entered the channel, and
has a size. A successful write means that `conn.Write` took the frame, and
"received" and "arrived" mean no more than that: the socket may hold bytes the
agent never reads. No write has a deadline, so a write to a connection that is up
may also wait for ever (`MayBlock`). `bytes` follows `len(batchTrace)`. Frames are sequences of items. A
`nil` item, which no caller sends, and the content of the stream header are left
out. A datagram sender is the instance with `Offset = 0`, `Stream = FALSE`.

### Delivery

What a sender promises about items, with no sizes, buffers, tickers, connections
or retries in it: an item waits in a queue, is kept by one sender, travels in a
frame and arrives, or is gone. The oldest is taken first; what a sender keeps
travels together and before what it takes later, but a large item travels alone
and at once; a frame arrives as a whole, once, or is lost as a whole; and a
sender ends when the queue is closed and it has nothing left. `BatchSender`
instantiates it with the sets of items in the channel, in buffers, in frames and
in what the agent has received.

### MetricsClient

Slices have an identity, since the pool hands them on: `batchBuf`, `free`,
`held`, `flushBatch`, `dataBuf` and `items` hold slices, `content` their items.
A slice that is dropped with a full channel becomes garbage. `recvq` is the
queue of receivers that the Go runtime keeps for a channel; the property
`FlushedEventually` depends on its being first-in first-out. The connection of a
worker is left out: a refused dial and a failed write have the same effect on
all that is modelled. `overlap` is history: a caller was in `emitMetric` during
`Close` or after it. Such a caller may leave its item in the batch or panic on
the closed channel, so `NoSendOnClosed` and `CleanClose` speak of a `Close` that
nobody overlaps; the other properties hold in any case.

### Lifecycle

Owners are tracers and profilers; `loop[o]` is the register loop that the `Start`
of `o` began. `Stop` of a tracer is `Register.Stop`, then `Monitor.Close`; the
rest of `Stop` is never reached (see section 5) and stands behind the guard of
`StopReturn`. `Stop` of a profiler ends with `Register.Stop`; what it does before
that concerns nobody else.

### Sampler and Settings

A sampler is a record; `Refresh` is `RefreshConfig`, `Verdicts` what `Sample` may
answer. `Sample` holds its locks from beginning to end, so it is one step. Time
is in ticks since the zero `time.Time`, with which a rate limiter begins;
`MaxDuration` is where `Time.Sub` saturates, and the truncating conversions to
`time.Duration` are integer divisions. Configured values are fractions. The
numbers a ratio sampler draws are reduced to two, the smallest and the largest.

In `Settings` the fetcher's goroutine waits, fetches, and runs the two notifiers
of the tracer in order; a reply may be good, an answer other than 200, which the
code takes for empty settings, or an error, which it drops. `Sample` comes at
any point between. `Start` fetches once before it starts the loop, so that
fetches do not overlap and `fetchLock` never makes anyone wait. `inForce` and
`since` are history: the last configuration that changed the sampler, and when.

### Generated messages and Wire

`Size`, `MarshalTo` and `Unmarshal` of a message are generated as separate
functions and are separate tables here: which fields `Size` counts and with how
long a key, which fields `MarshalTo` writes and in which order, which `Unmarshal`
takes, with what wire type, and which are required. `Protobuf` interprets the
tables: length-delimited values, packed and repeated numbers, maps, unknown
fields with their groups, a limit on each nested message. Below it is `Varint`:
the loop of `sov` that counts bytes, the loop of `encodeVarint` that writes
them, the loop over `shift` that reads them, and the test of a length against
what is there. `Wire` carries one message: traces and logs in a frame (`Frames`:
each message behind its size in a batch, the batch behind the prefix that
`EncodePreAllocated` writes), everything else as a body. On its way it may be
cut at any byte, extended by a field of a newer version, or have its numbers packed.

`Varint` is about all numbers of 64 bits; TLC's integers have 32, so the run
reads varints below 2^28 and negative ones, and `Codec_proofs` the others. Its
integers have no width: the sum `iNdEx + length` of the code is an int, which
overflows for a length near 2^63 (`log.pb.go:310`, `settings.pb.go:1755`) and would make
the slice expression behind it panic, where `BytesAfter` reports an error. A
message the SDK or the agent wrote, whole or cut, has no such length, as it is the
length of a slice; the theorems about strings assume that positions fit an int. An
entry of a map with two values is left out. The agent is outside the repository:
it takes a frame apart as the comment at `Encode` lays it out.

### Profiler

One goroutine each for the fetcher, three drivers, `runLoop` and the HTTP sender;
`phase` is what `Stop` waits for. `handledSet` and `cntLimit` are the memory of
the timed and of the conditional driver. Whether a trigger condition is met, and
whether a task collected anything to send, is open at every tick. `upload` and
`attempt` follow the retries and pauses of the sender. Names of tasks, the form
that is posted and `DebugTasks` are left out.

### Propagation

A chain of processes, each with its trace, its active span and the carrier it was
called with. `Receive` is `Extract` and `startSpan` together, as the middlewares
call them. A binary `Inject` is two steps, because it counts the baggage and then
ranges over it while `SetBaggageItem` may run in between; when that happens the
extractor reads the length of a key where the flags should be, and `overlapped`
records it. Only the extractor of headers refuses empty IDs (`NoContext`); binary
carriers are written by `Inject`, which has a context, so that theirs are not empty
(`WellFormed`). Header names and case are kept, since header maps decide which format
wins. A traceparent is given as parsed.

## 3. Runs

| run | instance | what it shows |
|---|---|---|
| `spans` | 1 trace, 3 spans, 2 goroutines, channel of 1, no sender that must receive | `NoSpanStranded`, `ExportedOnce`, `IndInv` (the invariant of the proofs, with `FinishCountExact`), `FinishReturns`, `FinishedTraceOffered`, `ImplementsExport` (the refinement) |
| `spans_annotated` | 2 traces, 2 spans, 2 goroutines and an annotator, panics, emit control | `CompleteUnlessLate` |
| `late_span` | 1 trace, 2 spans | violates `EmittedSpansFinished` |
| `senders` | 2 senders, of streams or of datagrams, 2 items of sizes 2, 5, 7, buffer 4+2, channel of 1 | `InOnePlace`, `BatchBound`, `InOrder`, `CleanStop`, `ImplementsDelivery` (the refinement), `FlushedEventually`, `StopsWhenClosed` |
| `metrics` | 2 emitters, 2 workers, 3 slices, 3 items of sizes 2, 2, 3 or 3, 5, 0, batch 2, packet 4, channel of 1, callers that may overlap `Close` | `InOnePlace`, `BufferOwned`, `PacketBound`, `NoSendOnClosed`, `CleanClose`, `FlushedEventually`, `CloseReturns` |
| `register` | 2 tracers, 1 profiler | `RegisteredOnce`, `NoCallAfterStop`, `RegisterStops` |
| `stop_hangs` | 1 tracer | violates `TracerStopReturns` |
| `settings` | 7 settings, a second of 4 ticks, durations of at most 6, clock from 7 to 9, 4 calls | `IndInv` (with `InStep`), `WeightsAccount`, `RateBound`, `PanicsOutOfRange`, `FailureKeepsSampling`, `Converges` |
| `wire` | 20 messages, each field varied, 5 foreign fields, every cut | `Delivered`, `CutNoticed`, `ComparisonExact` |
| `profiler` | 4 profiles, channels of 1, 1 retry, limit 2 per hour of 1 tick | `TimedOnce`, `LimitAcrossWindows`, `CleanStop`, `StopReturns` |
| `hourly_limit` | 1 conditional profile, limit 3 per hour of 2 ticks | violates `LimitPerHour` |
| `hops` | 3 processes, 2 calls of `SetBaggageItem`, weights below and above the range | `Connected`, `SameDecision`, `BaggageKept` |

The type invariants are conjuncts of `IndInv`, `InOnePlace`, `RegisteredOnce`,
`LimitAcrossWindows` and `Connected`.

Bounds. Two goroutines and three spans are the least with which a trace is
completed, sent, reopened by an asynchronous span and collected a second time
while the first collection still runs; `spans_annotated` has two traces, to show
that traces do not disturb one another. A channel of one is full as soon as the
second trace arrives. The sizes in `BatchSender` are one for each branch of the
send loop (two to a batch; larger than `bufferMaxSize` but within the capacity;
larger than the capacity), and with two items an oversized one finds a filled
buffer. In `MetricsClient` three items fill one batch and leave one for the
ticker or for `Close`; of three slices one is the first batch, one replaces it when
it is full and one after the flush of what is left, so that the pool is never
empty when a slice is wanted, as in the code, which makes a new one. Items of equal
size are alike and so are slices at the start, so the run fixes the sequences of
sizes (two items that share a packet and one that does not fit; an oversized one
behind an ordinary one, and one that fails to format) and the first slice. `BatchTicks = 2`
stands for the forty or so ticks of the monitor that fill a batch of 1000. In
`Settings` the rates lie on both sides of one per second and of one per tick, and
the clock begins beyond `MaxDuration`, so that the difference to the zero time
saturates as it does in the code. The values in `Wire` take in turn every branch
of `Size`, `MarshalTo` and `Unmarshal`: zero, one- to three-byte and negative
varints, strings shorter and longer than 127 bytes, absent and repeated fields.
In `Profiler` three tasks compete for one place in `taskChan`, and two windows of
the hourly limit fit before `MaxNow`. In `Propagation` three processes are two
hops, one for each carrier, and a middle process that both extracts and injects.
All bounds are constants (`MaxItems`, `BatchTicks`, `MaxNow`, `MaxCalls`, `MaxProcess`,
`MaxSets`) or the sizes of the constant sets, and appear as guards.

No run checks for deadlock: every part modelled may come to rest, with no spans
left to finish, with its channel closed, or stopped; what must not come to rest
is stated as a liveness property.

Each property has a mutant in `PROJECT.json`: an operator beside the original,
marked *Fault*, with a plausible mistake that makes TLC find the property violated.

## 4. Fairness

* `TraceContext`: weak fairness of the steps of a goroutine inside `Finish`.
  They take locks that are held for a bounded time and never wait for another
  component, so the Go scheduler alone provides it. There is no fairness for the
  senders, and none for users, who need not finish their spans.
* `BatchSender`: weak fairness of a started sender, except while it is in
  `conn.Write` on a connection that is up, as no write has a deadline
  (`worker.go:47`, `105`, `113`); and strong fairness of its tick: the ticker fires
  again and again and Go's `select` picks among ready cases at random. None for the
  agent, which may keep a connection open and never read from it.
  `FlushedEventually` and `StopsWhenClosed` therefore speak of a sender whose writes
  return (`WritesReturn`): the agent reads, or ends the connection. They fail without
  this hypothesis: an agent that hangs keeps the items in the buffer, and `WaitStop` waiting.
* `MetricsClient`: weak fairness of emitters that hold a batch, flusher, workers
  and `Close`; strong fairness of the case `flusherStop`, for the same reason. The
  write of a packet (`metrics/sender.go:33`) has no deadline either; that it returns
  is an assumption, on which `FlushedEventually` and `CloseReturns` rest.
* `Lifecycle`: weak fairness of owners inside `Start` and `Stop`, and of the HTTP
  call, which has a timeout; strong fairness of the cases on closed channels.
* `Settings`: weak fairness of the fetcher, whose requests have a timeout and
  whose notifiers do not block. Strong fairness of a good reply is an assumption
  about the agent and serves `Converges` only: it says that failures come in
  between, not that there are only failures.
* `Profiler`: weak fairness of every goroutine and of `Stop`, strong fairness of
  the cases on closed channels. None for settings, ticks or the server.

## 5. Where the code and what is said of it differ

* `late_span`: a span started between the unlock in `finishSpan` and the read of
  `tc.spans` in `emitTrace` is exported unfinished. The comment in `tracer.go:447`
  supposes that a collected span had finished. `CompleteUnlessLate` shows
  that this window is the only source of incomplete spans.
* `stop_hangs`: `break` in the runtime monitor's loop leaves the `select` only, so
  `tracer.Stop`, with which the examples end, never returns under the default
  configuration. With `AfterBreak` equal to `"gone"` the property holds for a
  tracer that does not share the register. While the loop goes on it emits to a
  closed metrics client, and panics once a batch is full (`MonitorTick`).
* `hourly_limit`: the comment at `conditional_diver.go:25` says "as most 3
  executions per hour for one profile". `checkExecutionLimit` counts in windows of an
  hour, of which the next begins at the first pass after the last has expired, so
  passes late in one and early in the next fall into one hour: 5 for a limit of 3.
  It counts even when the channel is full. `LimitAcrossWindows`, less than twice the
  limit, is the bound that does hold.

Also seen while modelling; the models contain these, but no run is devoted to them:

* An item in the gap `(bufferMaxSize, bufferMaxSize+offset]` makes the batch grow
  (`sender.go:155`, `collector.go:174`), which the preallocation at `sender.go:143`
  means to avoid; when the buffer is empty a frame without items goes out first.
* The singleton register is stopped by each owner: the second `Stop` closes a
  closed channel (`register.go:110`; `profiler.go:212` calls sharing safe), and
  after the first the other owners are up in a process that no longer registers.
* Rate limits below one or above 10^9 per second divide by zero
  (`PanicsOutOfRange` shows that nothing else does).
* `profiler.go:244` says that no task will be executed after the drivers have
  stopped: those already queued are, before `Stop` returns. `Stop` also waits
  through the pauses the server asks for; a pause is ignored when no retry is configured.
* An answer other than 200 to the settings request counts as empty settings and
  clears all profiles. `FailureKeepsSampling` shows that it does not touch the sampler.
* An error or status that passes the test of `finished` before `Finish` and is
  written after it may miss the export, or be in the trace and not in the metric
  (`span.go:239`). Nothing orders such a call with `Finish`, so no property speaks of it.
* Baggage set between the count and the items of a binary `Inject` makes the
  other side misread everything behind it. `SameDecision` and `BaggageKept`
  exclude exactly the calls where this happened (`overlapped`), and say nothing of them.

## 6. Proofs

Every safety invariant of the runs is proved for all values of the constants, but
for the three of `Wire`; so are the refinements of `SpanExport` and `Delivery`
and the action property `FailureKeepsSampling`. Each theorem is `Spec => []P` for
a property `P` of a run, unless it says otherwise, and rests on the assumptions
on constants that its module states and TLC evaluates, on nothing else. Of the
messages, `Codec_proofs` proves what lies below them: numbers, strings, frames.

### TraceContext

`TraceContext_proofs` proves, for all sets of traces, spans, goroutines and
annotators, any channel capacity, with a metrics client or without, and either
value of the emit control, from `TraceAssumption` alone:

* `Inductive`: `Spec => []IndInv`;
* `TypeCorrect`: `Spec => []TypeOK`;
* `FinishCountCorrect`: `Spec => []FinishCountExact`, a conjunct of `IndInv`;
* `ExportedOnceCorrect`: `Spec => []ExportedOnce`;
* `NoSpanStrandedCorrect`: `Spec => []NoSpanStranded`;
* `CompleteUnlessLateCorrect`: `Spec => []CompleteUnlessLate`.

The inductive invariant is `IndInv`, which the run `spans` checks first.
`FinishCountExact` is not inductive alone: a goroutine counts a span of the trace
it works on only because `SpanLists` says that `tc.spans` lists every started
span once, and because `Goroutines` says that at most one goroutine is between
the compare-and-swap on a span and its counting. `NoSpanStranded` needs
`Responsibility`: when the counter has reached the number of spans, each span is
collected or in the way of a goroutine that is collecting. The step that
matters is `CollectSpan`, which either takes the span or finds it taken, and
`AddSpan`, which makes the counter smaller than the number of spans.
`Responsibility` implies `NoSpanStranded` by counting: if every span of the trace
has been counted, the set `CountedIn` is all of `1..Len(spans[t])`, so
`finishCount` is that length by `FinishCountExact`. `ExportedOnce` needs
`OnlyCollected`: whatever is in a trace was taken with the compare-and-swap, so a
span that is taken now is in no other trace.

`CompleteUnlessLate` needs two conjuncts more. `Filled` says how far `Finish` has
come with a span: its times are there unless a goroutine is still at `Stamp`, a
panic that was recovered is among its errors, and its metrics went out once
exactly when nobody is in the first half of `Finish` for it any more.
`OnlySettled` says that a goroutine which is about to collect a trace, or in the
loop over it, has only spans before it that are counted or late (`Settled`). It
becomes true in `FinishSpan`: when `finishCount` reaches the length of `tc.spans`,
all spans of the trace are counted (`AllCounted`, again from `FinishCountExact`).
It stays true because a counted span stays counted (`CountedStays`: nobody passes
the compare-and-swap on `finished` again), and because a span that joins before
`tc.spans` is read is late (`AddsLate`), and one that joins afterwards is behind `upto`.

### Settings

`Settings_proofs` proves, for any settings the agent may send, any resolution of
the clock, any largest duration and any number of calls, from `SamplerAssumption`
and `SettingsAssumption`:

* `InStepCorrect`: `Spec => []IndInv`, and with it `InStep`: between refreshes the
  tracer runs with the settings the next reply is compared with, so that
  dropping an equal reply loses nothing;
* `WeightsCorrect`: `Spec => []WeightsAccount`;
* `PanicsCorrect`: `Spec => []PanicsOutOfRange`;
* `FailureKeepsSamplingCorrect`: `Spec => FailureKeepsSampling`, an action property;
* `RateBoundCorrect`: `Spec => []RateBound`.

`IndInv` adds to the types that `InStep` holds, that the sampler in place is the
one the last configuration asks for (`LimitsAsConfigured`), and that the weights
handed out and the refusals remembered add up to the calls (`WeightsAccount`).
The arithmetic is in lemmas: a rate limiter moves its last pass by whole
intervals and never past the time of the call (`WholeIntervals`, `SampleFits`), and an
integer quotient is zero only if the divisor is larger (`ZeroQuotient`), from
which follows which rates divide by zero.

`RateBound` speaks of the passes since the sampler was made, so `Pacing` ties
them to the limiter's last pass (`Paced`). A new limiter begins at the zero time
and moves its last pass by at most one `Stride` at each pass, the multiple of its
interval that fits `MaxDuration`: as long as it is behind the time at which it was
made, it has passed once for each stride. After that it has passed at most once
for each interval. `PacedPasses` shows that one more pass keeps this, whether the
difference of the times saturates or not.

### TraceContext implements SpanExport

`TraceContext_proofs` ends with `Implements`: `Spec => ImplementsExport`, from
`TraceAssumption` alone. The view of a state is `Counting`, the number of
goroutines in `Due(t)` and `Place(s)`; numbers make sense because `Due(t)` stays
finite (`FiniteDue`), though the set of goroutines need not be. Each action of
`TraceContext` is one step of `SpanExport` or a stutter: `StartRoot` and
`StartChild` are `Start`; `FinishSpan` is `End`, and makes a collection due
exactly if `finishCount` has reached the length of `tc.spans`, which by
`FinishCountExact` and `SpanLists` means that no sibling is open; `CollectSpan`
is `Hold` or finds the span taken; `Collect` with nothing to do and the end of
the loop are `Over`; `SendTrace` moves the spans of a trace to the channel or
drops them, and `Receive` moves them on, each for all spans of the trace at once
because no span is in two traces (`ExportedOnce`). Everything else is a stutter.

### BatchSender

From `SenderAssumption`, for any number of senders and any sizes, as streams or
as datagrams, whatever the agent does:

* `BatchBoundCorrect`: `Spec => []BatchBound`;
* `CleanStopCorrect`: `Spec => []CleanStop`;
* `InOnePlaceCorrect`: `Spec => []InOnePlace`;
* `InOrderCorrect`: `Spec => []InOrder`.

The invariant adds to the types (`Sending`) that the length of a buffer exceeds
the prefix when it holds an item, which is why the test before the last flush
loses nothing; that a frame is being sent only during `BatchSend`; and that a
sender behind its loop has an empty buffer and an empty closed channel.
`InOnePlace` counts places; the proof keeps, for each item, the five sets of
places it may be in, of which exactly one is not empty and has one element
(`Conserved`). Each step changes them for the items it moves only: the head of
the channel was nowhere else (`TakeMoves`), a flush moves a batch into a frame
that was empty (`FlushMoves`), and what leaves a frame goes to the agent or to
`lost` (`FrameMoves`).

For `InOrder` the invariant `Ordered` keeps what a sender is responsible for in
one line: what the agent has got from it, the frame it is sending, its batch and
the channel, where everything in one comes before everything in the next
(`Line`). An item too large for the buffer overtakes the batch, which is why only
items of ordinary size stand in line. What is delivered or lost leaves the front
of the line, `Take` moves the head of the channel to its end, and a smaller
line is still one (`LineShrinks`).

### BatchSender implements Delivery

`ImplementsDeliveryCorrect`: `Spec => ImplementsDelivery`, from `SenderAssumption`
alone. Each action of `BatchSender` is one step of `Delivery` or a stutter:
`Offer` is `Enter`, into the queue or, if the channel is full, into what is gone;
a sender that receives is `Skip`, `Keep`, `SendAlone` or `SendAndKeep`, according
to the branch of the send loop; the ticker and the flush at the end are `Send`; a
write the agent takes is `Arrive`, one given up after its retry `Lose`; the return
is `End`; dialling, hanging up and the first failure of a write are stutters. The
mapping needs two invariants from before. `IndInv` says that a sender at its
`select` has no frame on its way, so that a new frame displaces nothing, and that
a sender which returns has an empty buffer and an empty closed channel. `Ordered`
says that the head of the channel is the oldest item in it and stands in it once,
which is what `Take` asks for. A write moves a frame of the worker to the agent as
a whole (`DeliverPromises`): the retry writes the same frame to a new connection,
and never after the first write has succeeded.

This says more than `InOnePlace` and `InOrder` together: those speak of states,
and allow an item to come back from the agent to a buffer, a frame to arrive in
two halves, or a sender to go on after its end. `Delivery` has no such step.

### MetricsClient

From `ClientAssumption`, for any numbers of callers, workers, slices and items
and any sizes. It says among others that there is a worker: `asyncWokerNumber` is 4
(`metrics/consts.go:7`), and without one `Close` could return with items in the channel.

* `BufferOwnedCorrect`: `Spec => []BufferOwned`;
* `NoSendOnClosedCorrect`: `Spec => []NoSendOnClosed`;
* `InOnePlaceCorrect`: `Spec => []InOnePlace`;
* `CleanCloseCorrect`: `Spec => []CleanClose`;
* `PacketBoundCorrect`: `Spec => []PacketBound`.

`Exclusive` lists the owners a slice may have and says that no two share one; it
is inductive with the types, as what is sent leaves its owner in the same step
(`SendKeeps`), and only a worker in a batch gives a slice back. `Closing` says
that a caller which holds a batch once `Close` has begun overlaps it.

`InOnePlace` rests on `Control`: receivers that wait are in `recvq` once each and
the channel is empty while there is one (`Queued`), the flusher's last flush
leaves an empty batch (`Ending`), and only a slice that somebody owns holds items
(`Stored`), so that a slice from the pool is empty. `Placed` follows an item
through cells of slices and packets, at most one of them, or `delivered` or
`failed`; a step moves the items of one slice or packet, and by `Exclusive` no
other owner sees them move. `CleanClose` follows: after a `Close` that nobody
overlaps the workers are done, with empty packets and an empty channel, and by
`Stored` no slice holds an item, so only `delivered` and `failed` are left.

`PacketBound` is about sums over packets, which are folds. Their induction is
done here with a set in place of the operator that the library's theorem takes
(`Induct`, from the well-foundedness of the order on numbers): a function that
adds over subsets exists (`AddsExists`), in any order (`AddsAny`), so that
appending an item adds its size (`SumMore`, `BytesSums`).

### Lifecycle

For any numbers of tracers and profilers and any size of the monitor's batch:

* `RegisteredOnceCorrect`: `Spec => []RegisteredOnce`;
* `NoCallAfterStopCorrect`: `Spec => []NoCallAfterStop`.

The invariant says that nobody is past `Start` before `runOnce` has run, hence
that only one loop ever begins, and that once an owner is behind `Register.Stop`
the loops are gone for good, since `runOnce` never runs again.

### Profiler

For any profiles, sizes of channels, numbers of retries and limits:

* `TimedOnceCorrect`: `Spec => []TimedOnce`;
* `CleanStopCorrect`: `Spec => []CleanStop`;
* `LimitAcrossWindowsCorrect`: `Spec => []LimitAcrossWindows`.

The invariant follows the order of `Stop`: a goroutine that has been waited for
is gone (`Order`), the loops that empty the channels live until it is their turn
(`Loops`), and a channel whose reader is gone is empty and has no writer left
(`Empty`); so nobody sends on a closed channel. `TimedTasks` says that a task
that has been queued is in `handledSet`, which settings never empty.

`LimitAcrossWindows` is no property of the counter alone, which is set back when a window
ends. `Window` relates it to the times of the calls of the last hour: outside a
window there are fewer of them than the limit; inside one, fewer than the limit
and those of the window together, of which the first is an hour before its end.
So when a window ends, its calls are leaving the hour too (`LatelyDrops`).

### Propagation

From `PropagationAssumption` and `EntryAssumption`, for chains of any length and
any carriers the first process is called with:

* `Inductive`: `Spec => []IndInv`;
* `ConnectedCorrect`, `SameDecisionCorrect`, `BaggageKeptCorrect`:
  `Spec => []Connected`, `[]SameDecision`, `[]BaggageKept`.

`EntryAssumption` says that a traceparent which `ParseTraceParent` accepts has both
IDs, as its checks make sure; carriers made by the SDK are shown to satisfy it.
`IndInv` states the three properties call by call (`Processes`), and for the call
to come what a carrier in flight says of the trace and the active span it was made
from (`InFlight`): the same IDs, decision, weight and baggage (`Says`), and a count
of baggage items that is the number of items unless the call is in `overlapped`.
It says the same of a binary `Inject` that has counted and not yet written.

### Codec

Theorems about the operators of `Varint` and `Frames`, for wires of any length.
They assume that a number fits `int64`, as the type of every field, length and position
does, that a wire consists of bytes, and of a frame that it has less than 2^32 bytes,
since its prefix and the sizes in it have four bytes each.

* `SizeOfVarint`: `Size` counts as many bytes as `MarshalTo` writes, so that
  `Marshal` neither overruns its buffer nor leaves a gap at a number;
* `VarintRoundTrip`: what is read at the position where a number was written is
  this number, and reading goes on behind it, whatever stands before and after;
* `VarintCut`: reading a number that ends too early is an error;
* `VarintPrefixFree`: two wires are equal only if the numbers they begin with are;
* `BytesRoundTrip`, `BytesCut`: the same for a string or an embedded message,
  which is a length and as many bytes;
* `FrameRoundTrip`: `EncodePreAllocated` overwrites the room left for the prefix
  and no byte of the body, and the agent finds the end of the frame, the body
  and the header by the lengths and the offset in the prefix;
* `BatchRoundTrip`: the agent finds the messages of a batch by their sizes, as
  many as were appended, each with its own bytes, in order;
* `MessagesDelivered`: both together, from the send loop to the agent.

The writer shifts a number until less than 128 is left, the reader adds up what
it finds up to the first byte below 128. `ShiftedRule` says what the shifts are
(a recursive function is what its rule says only if a function with this rule
exists, which is shown for each), `LoopsEnd` that the loop ends within ten bytes,
`EncodedBytes` that all bytes but the last are at least 128. Hence the first byte
below 128 that the reader finds is the writer's last; its sum and the writer's
shifts obey the same rule backwards from there (`Chain`, `ReadAt`), because
`y = y % 128 + 128 * (y \div 128)`. For a negative number the tenth byte is the sign
and stands for `-2^63`. For a batch, `Borders` says where the writer's appends end,
and `SplitAtBorders` that the agent's positions are these, one after another, and
that it stops at the last. The inductions take a set where the library's theorem
takes an operator (`Reaches`, as in `MetricsClient_proofs`).

### Only model-checked

Liveness under fairness and ENABLED are beyond the prover: `FinishReturns`,
`FinishedTraceOffered`, `FlushedEventually`, `StopsWhenClosed`, `CloseReturns`,
`RegisterStops`, `Converges` and `StopReturns` stay with TLC. So do `Delivered`,
`CutNoticed` and `ComparisonExact`, which are about whole messages: `Protobuf` uses
RECURSIVE operators for messages within messages, in whose presence the SMT backend is not
available, and an induction over messages would take library theorems with operators as
parameters, which the provers cannot instantiate. `Codec_proofs` covers what such
an induction would rest on.

## 7. Not modelled, and what could follow

Not modelled for good:

* `metrics/format.go`: an encoding whose reader is not in the repository and of
  which only length and failure matter to the client;
* logging and counters for the log, process information, random IDs, profile
  collection, resource readings: data that no property tells apart;
* tags and log attributes, passed by reference from the span to the sender
  without any order between a late `SetTag` and the sender: an invariant that
  excludes the race cannot hold, one that permits it says nothing;
* instrumentation (`trace/contrib`): it starts a span, calls a library and finishes the
  span. Where it does more (the asynchronous producer of `sarama`), what can go
  wrong depends on when the library drains its channels, which is not in the
  repository; `PROJECT.json` lists these hazards without properties;
* generated example services (`trace/contrib/.../kitex_gen`), getters, `String` and
  descriptors of the generated messages.

Every component this project set out to model is modelled, and both abstract
specifications, of what collection and of what sending promise, are proved to be
implemented. What could follow is an abstract specification of the metrics
client, which differs from `Delivery` in that items are copied into slices that
return to a pool, and in that callers overlap `Close`; `Placed` is the invariant
its mapping needs.
