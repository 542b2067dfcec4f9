--------------------------- MODULE MetricsClient ----------------------------
(***************************************************************************)
(* The client of the metrics agent (metrics/metrics_client.go, sender.go,  *)
(* pool.go).  Callers append items to a shared batch; the caller that      *)
(* fills it, and the flusher at every tick, hand it to the workers through *)
(* the channel dataBuf.  After every tick the flusher also sends nil, on   *)
(* which one worker sends the packet it is still filling.                  *)
(*                                                                         *)
(* The receivers that wait on dataBuf are served in the order in which     *)
(* they began to wait, as the Go runtime does.  Items are numbered in the  *)
(* order they are appended; size[i] is the length formatCommon gives item  *)
(* i, 0 if it fails.  The agent may refuse or lose any packet.  Counters   *)
(* for the log and the connection of a worker, which no behaviour depends  *)
(* on, are left out.                                                       *)
(***************************************************************************)
EXTENDS Naturals, FiniteSets, SequencesExt

CONSTANTS Worker,         \* the goroutines in sendLoop (asyncWokerNumber)
          Emitter,        \* the goroutines that call EmitCounter, ...
          Buffer,         \* the slices metricItemPool can give out
          NoBuffer,       \* nil: no slice; as a token, "send your packet"
          BatchSize,      \* batchSize
          MaxPacketSize,  \* maxPacketSize
          ChanSize,       \* asyncChannelSize
          Sizes,          \* the sizes items may have
          MaxItems        \* bound: items emitted

ASSUME ClientAssumption ==
    /\ NoBuffer \notin Buffer
    /\ Worker # {}
    /\ BatchSize \in Nat \ {0}
    /\ MaxPacketSize \in Nat
    /\ ChanSize \in Nat
    /\ Sizes \subseteq Nat
    /\ MaxItems \in Nat

VARIABLES
    size,       \* the sizes of the items
    emitted,    \* how many items have been appended to a batch
    batchBuf,   \* mc.batchBuf
    content,    \* the items in each slice
    free,       \* the slices in the pool, or not made yet
    held,       \* the full batch an emitter is about to offer to dataBuf
    flusher,    \* "off", "select", "batch", "nil", "done": where batchFlushLoop is
    final,      \* this batchFlush is the one after flusherStop
    flushBatch, \* the batch batchFlush is about to send
    dataBuf,    \* the channel: Seq(Buffer \cup {NoBuffer})
    recvq,      \* the workers waiting to receive, the first to wait first
    worker,     \* "off", "ready", "waiting", "batch", "nil", "last", "done"
    items,      \* the batch a worker is formatting
    pos,        \* the next item of it
    packet,     \* the items in packetBuf
    phase,      \* "new", "running", "stopping", "draining", "closed"
    delivered,  \* how often an item was written to the agent
    failed,     \* how often it was given up: full channel, format, dial, write
    crashed,    \* a goroutine has sent on the closed channel
    overlap     \* history: some call of emitMetric had not returned when Close
                \* was called, or began after that

batchVars   == <<size, emitted, batchBuf, content, free, held>>
flusherVars == <<flusher, final, flushBatch>>
workerVars  == <<worker, items, pos, packet>>
endVars     == <<delivered, failed>>
panicVars   == <<crashed, overlap>>
vars == <<batchVars, flusherVars, dataBuf, recvq, workerVars, phase, endVars, panicVars>>

Item  == 1..MaxItems
Token == Buffer \cup {NoBuffer}

TypeOK ==
    /\ size \in [Item -> Sizes]
    /\ emitted \in 0..MaxItems
    /\ batchBuf \in Buffer
    /\ content \in [Buffer -> Seq(Item)]
    /\ free \subseteq Buffer
    /\ held \in [Emitter -> Token]
    /\ flusher \in {"off", "select", "batch", "nil", "done"}
    /\ final \in BOOLEAN
    /\ flushBatch \in Token
    /\ dataBuf \in Seq(Token) /\ Len(dataBuf) <= ChanSize
    /\ recvq \in Seq(Worker)
    /\ worker \in [Worker -> {"off", "ready", "waiting", "batch", "nil", "last", "done"}]
    /\ items \in [Worker -> Token]
    /\ pos \in [Worker -> Nat]
    /\ packet \in [Worker -> Seq(Item)]
    /\ phase \in {"new", "running", "stopping", "draining", "closed"}
    /\ delivered \in [Item -> Nat]
    /\ failed \in [Item -> Nat]
    /\ crashed \in BOOLEAN
    /\ overlap \in BOOLEAN

Init ==
    /\ size \in [Item -> Sizes]
    /\ emitted = 0
    /\ \E b \in Buffer : batchBuf = b /\ free = Buffer \ {b}
    /\ content = [b \in Buffer |-> <<>>]
    /\ held = [e \in Emitter |-> NoBuffer]
    /\ flusher = "off"
    /\ final = FALSE
    /\ flushBatch = NoBuffer
    /\ dataBuf = <<>>
    /\ recvq = <<>>
    /\ worker = [w \in Worker |-> "off"]
    /\ items = [w \in Worker |-> NoBuffer]
    /\ pos = [w \in Worker |-> 1]
    /\ packet = [w \in Worker |-> <<>>]
    /\ phase = "new"
    /\ delivered = [i \in Item |-> 0]
    /\ failed = [i \in Item |-> 0]
    /\ crashed = FALSE
    /\ overlap = FALSE
-----------------------------------------------------------------------------
(* The channel and the pool                                                *)

DataClosed == phase \in {"draining", "closed"}

HasRoom == Len(dataBuf) < ChanSize

CanSend == recvq # <<>> \/ HasRoom

\* Worker w has received tok from dataBuf.
Got(w, tok) ==
    /\ worker' = [worker EXCEPT ![w] = IF tok = NoBuffer THEN "nil" ELSE "batch"]
    /\ items' = [items EXCEPT ![w] = tok]
    /\ pos' = [pos EXCEPT ![w] = 1]
    /\ UNCHANGED packet

\* mc.dataBuf <- tok, when it does not block: to the worker that has waited
\* longest, or else into the buffer.
Send(tok) ==
    IF recvq # <<>>
    THEN Got(Head(recvq), tok) /\ recvq' = Tail(recvq) /\ UNCHANGED dataBuf
    ELSE dataBuf' = Append(dataBuf, tok) /\ UNCHANGED <<recvq, workerVars>>

Tally(count, sequence) ==
    [i \in Item |-> count[i] + Cardinality({j \in DOMAIN sequence : sequence[j] = i})]

\* mc.batchBuf = getMetricItems(). (Fault: the assignment is forgotten.)
NewBatch_Forgotten == UNCHANGED <<batchBuf, free>>
NewBatch == \E b \in free : batchBuf' = b /\ free' = free \ {b}
-----------------------------------------------------------------------------
(* emitMetric                                                              *)

\* The critical section: append, and take the batch when it is full.
EmitMetric(e) ==
    /\ held[e] = NoBuffer
    /\ emitted < MaxItems
    /\ overlap' = (overlap \/ phase \notin {"new", "running"})
    /\ emitted' = emitted + 1
    /\ content' = [content EXCEPT ![batchBuf] = Append(@, emitted')]
    /\ IF Len(content'[batchBuf]) >= BatchSize
       THEN held' = [held EXCEPT ![e] = batchBuf] /\ NewBatch
       ELSE UNCHANGED <<held, batchBuf, free>>
    /\ UNCHANGED <<size, flusherVars, dataBuf, recvq, workerVars, phase, endVars, crashed>>

\* The select with a default: drop the batch when no worker waits and the
\* channel is full.  A send on the closed channel panics.
OfferBatch(e) ==
    /\ held[e] # NoBuffer
    /\ ~DataClosed
    /\ IF CanSend
       THEN Send(held[e]) /\ UNCHANGED <<content, failed>>
       ELSE /\ failed' = Tally(failed, content[held[e]])
            /\ content' = [content EXCEPT ![held[e]] = <<>>]
            /\ UNCHANGED <<dataBuf, recvq, workerVars>>
    /\ held' = [held EXCEPT ![e] = NoBuffer]
    /\ UNCHANGED <<size, emitted, batchBuf, free, flusherVars, phase, delivered, panicVars>>

OfferPanics(e) ==
    /\ held[e] # NoBuffer
    /\ DataClosed
    /\ crashed' = TRUE
    /\ UNCHANGED <<batchVars, flusherVars, dataBuf, recvq, workerVars, phase, endVars, overlap>>
-----------------------------------------------------------------------------
(* batchFlushLoop                                                          *)

\* The critical section of batchFlush.
TakeBatch(last) ==
    /\ flusher = "select"
    /\ final' = last
    /\ IF content[batchBuf] # <<>>
       THEN flusher' = "batch" /\ flushBatch' = batchBuf /\ NewBatch
       ELSE flusher' = "nil" /\ UNCHANGED <<flushBatch, batchBuf, free>>
    /\ UNCHANGED <<size, emitted, content, held, dataBuf, recvq, workerVars, phase,
                   endVars, panicVars>>

Tick == phase # "new" /\ TakeBatch(FALSE)

\* case <-mc.flusherStop
FlusherStop == phase = "stopping" /\ TakeBatch(TRUE)

SendBatch ==
    /\ flusher = "batch"
    /\ CanSend
    /\ Send(flushBatch)
    /\ flusher' = "nil"
    /\ flushBatch' = NoBuffer
    /\ UNCHANGED <<final, batchVars, phase, endVars, panicVars>>

Flushed == flusher' = IF final THEN "done" ELSE "select"

\* mc.dataBuf <- nil, whether or not there was a batch. (Fault: not at every
\* tick, only when there are items again.)
SendNil_WithItemsOnly ==
    /\ flusher = "nil"
    /\ CanSend
    /\ IF content[batchBuf] # <<>>
       THEN Send(NoBuffer) ELSE UNCHANGED <<dataBuf, recvq, workerVars>>
    /\ Flushed
    /\ UNCHANGED <<final, flushBatch, batchVars, phase, endVars, panicVars>>
SendNil ==
    /\ flusher = "nil"
    /\ CanSend
    /\ Send(NoBuffer)
    /\ Flushed
    /\ UNCHANGED <<final, flushBatch, batchVars, phase, endVars, panicVars>>
-----------------------------------------------------------------------------
(* sendLoop                                                                *)

Goto(w, label) == worker' = [worker EXCEPT ![w] = label]

\* sender.SendPacket: written, or lost to an error of Dial or Write.
SendPacket(sequence) ==
    \/ delivered' = Tally(delivered, sequence) /\ UNCHANGED failed
    \/ failed' = Tally(failed, sequence) /\ UNCHANGED delivered

\* The head of "for items := range mc.dataBuf".
Receive(w) ==
    /\ worker[w] = "ready"
    /\ dataBuf # <<>>
    /\ Got(w, Head(dataBuf))
    /\ dataBuf' = Tail(dataBuf)
    /\ UNCHANGED <<batchVars, flusherVars, recvq, phase, endVars, panicVars>>

Wait(w) ==
    /\ worker[w] = "ready"
    /\ dataBuf = <<>>
    /\ IF DataClosed
       THEN Goto(w, "last") /\ UNCHANGED recvq
       ELSE Goto(w, "waiting") /\ recvq' = Append(recvq, w)
    /\ UNCHANGED <<batchVars, flusherVars, dataBuf, items, pos, packet, phase, endVars,
                   panicVars>>

Bytes(sequence) == SumFunction([j \in DOMAIN sequence |-> size[sequence[j]]])

\* len(packetBuf)+len(data) <= maxPacketSize. (Fault: the item alone.)
Fits_ItemOnly(w, i) == size[i] <= MaxPacketSize
Fits(w, i) == Bytes(packet[w]) + size[i] <= MaxPacketSize

\* packetBuf = append(packetBuf[:0], data...). (Fault: not cut back.)
Restart_Uncut(w, i) == packet' = [packet EXCEPT ![w] = Append(@, i)]
Restart(w, i) == packet' = [packet EXCEPT ![w] = <<i>>]

\* One item of a batch.
FormatItem(w) ==
    LET i == content[items[w]][pos[w]] IN
    /\ worker[w] = "batch"
    /\ pos[w] <= Len(content[items[w]])
    /\ pos' = [pos EXCEPT ![w] = @ + 1]
    /\ \/ /\ size[i] = 0
          /\ failed' = Tally(failed, <<i>>)
          /\ UNCHANGED <<packet, delivered>>
       \/ /\ size[i] > 0 /\ Fits(w, i)
          /\ packet' = [packet EXCEPT ![w] = Append(@, i)]
          /\ UNCHANGED endVars
       \/ /\ ~Fits(w, i) /\ size[i] > MaxPacketSize
          /\ SendPacket(<<i>>)
          /\ UNCHANGED packet
       \/ /\ ~Fits(w, i) /\ size[i] <= MaxPacketSize
          /\ SendPacket(packet[w])
          /\ Restart(w, i)
    /\ UNCHANGED <<batchVars, flusherVars, dataBuf, recvq, worker, items, phase, panicVars>>

\* putMetricItems, at the end of the batch.
PutMetricItems(w) ==
    /\ worker[w] = "batch"
    /\ pos[w] > Len(content[items[w]])
    /\ content' = [content EXCEPT ![items[w]] = <<>>]
    /\ free' = free \cup {items[w]}
    /\ items' = [items EXCEPT ![w] = NoBuffer]
    /\ Goto(w, "ready")
    /\ UNCHANGED <<size, emitted, batchBuf, held, flusherVars, dataBuf, recvq, pos, packet,
                   phase, endVars, panicVars>>

\* Send what is in the packet, if there is anything, and go on at label.
EmptyPacket(w, label) ==
    /\ IF packet[w] # <<>> THEN SendPacket(packet[w]) ELSE UNCHANGED endVars
    /\ packet' = [packet EXCEPT ![w] = <<>>]
    /\ Goto(w, label)
    /\ UNCHANGED <<batchVars, flusherVars, dataBuf, recvq, items, pos, phase, panicVars>>

\* The token nil. (Fault: the worker takes it for the end.)
FlushPacket_Returns(w) == worker[w] = "nil" /\ EmptyPacket(w, "done")
FlushPacket(w) == worker[w] = "nil" /\ EmptyPacket(w, "ready")

\* After the loop. (Fault: the worker returns at once.)
LastPacket_Forgotten(w) ==
    /\ worker[w] = "last"
    /\ Goto(w, "done")
    /\ UNCHANGED <<batchVars, flusherVars, dataBuf, recvq, items, pos, packet, phase, endVars,
                   panicVars>>
LastPacket(w) == worker[w] = "last" /\ EmptyPacket(w, "done")
-----------------------------------------------------------------------------
(* Start and Close                                                         *)

Start ==
    /\ phase = "new"
    /\ phase' = "running"
    /\ flusher' = "select"
    /\ worker' = [w \in Worker |-> "ready"]
    /\ UNCHANGED <<batchVars, final, flushBatch, dataBuf, recvq, items, pos, packet, endVars,
                   panicVars>>

\* close(mc.flusherStop)
StopFlusher ==
    /\ phase = "running"
    /\ overlap' = \E e \in Emitter : held[e] # NoBuffer
    /\ phase' = "stopping"
    /\ UNCHANGED <<batchVars, flusherVars, dataBuf, recvq, workerVars, endVars, crashed>>

\* mc.flusherWg.Wait() returns. (Fault: it is not called.)
FlusherGone_NoWait == TRUE
FlusherGone == flusher = "done"

\* close(mc.dataBuf) ends the loops of the workers that wait.
CloseData ==
    /\ phase = "stopping"
    /\ FlusherGone
    /\ phase' = "draining"
    /\ worker' = [w \in Worker |-> IF worker[w] = "waiting" THEN "last" ELSE worker[w]]
    /\ recvq' = <<>>
    /\ UNCHANGED <<batchVars, flusherVars, dataBuf, items, pos, packet, endVars, panicVars>>

\* mc.senderWg.Wait() returns, and so does Close.
CloseReturn ==
    /\ phase = "draining"
    /\ \A w \in Worker : worker[w] = "done"
    /\ phase' = "closed"
    /\ UNCHANGED <<batchVars, flusherVars, dataBuf, recvq, workerVars, endVars, panicVars>>
-----------------------------------------------------------------------------
FlusherStep == Tick \/ FlusherStop \/ SendBatch \/ SendNil

WorkerStep(w) == Receive(w) \/ Wait(w) \/ FormatItem(w) \/ PutMetricItems(w)
                 \/ FlushPacket(w) \/ LastPacket(w)

\* A panic ends the process.
Next ==
    /\ ~crashed
    /\ \/ \E e \in Emitter : EmitMetric(e) \/ OfferBatch(e) \/ OfferPanics(e)
       \/ FlusherStep
       \/ \E w \in Worker : WorkerStep(w)
       \/ Start \/ StopFlusher \/ CloseData \/ CloseReturn

Spec == Init /\ [][Next]_vars

\* Goroutines run when they can, the ticker fires again and again, and the
\* flusher's select does not pass over flusherStop for ever, as select picks
\* among its ready cases at random. The Write of SendPacket (sender.go:33) has
\* no deadline; that it returns is an assumption about the agent, which reads
\* its datagrams or closes its socket.
ClientFairness ==
    /\ \A e \in Emitter : WF_vars(~crashed /\ OfferBatch(e))
    /\ WF_vars(~crashed /\ FlusherStep)
    /\ SF_vars(~crashed /\ FlusherStop)
    /\ \A w \in Worker : WF_vars(~crashed /\ WorkerStep(w))
    /\ WF_vars(~crashed /\ (CloseData \/ CloseReturn))
FairSpec == Spec /\ ClientFairness
-----------------------------------------------------------------------------
(* Properties                                                              *)

\* Where item i is: the cells of slices it has not been read from, packets.
Cells(i) ==
    {c \in Buffer \X Item : LET b == c[1]
                                j == c[2]
                            IN  /\ j \in DOMAIN content[b] /\ content[b][j] = i
                                /\ \A w \in Worker : items[w] = b => j >= pos[w]}
Packed(i) ==
    {c \in Worker \X Item : c[2] \in DOMAIN packet[c[1]] /\ packet[c[1]][c[2]] = i}

\* An item emitted is in exactly one slice or packet, or it was written once or
\* given up once: swapping the batch under the lock, the recycling of slices
\* through the pool and the packing in sendLoop neither lose nor repeat it.
InOnePlace == TypeOK /\ \A i \in 1..emitted :
    Cardinality(Cells(i)) + Cardinality(Packed(i)) + delivered[i] + failed[i] = 1

Owners(b) ==
    {<<"pool", 0>> : x \in free \cap {b}}
    \cup {<<"batchBuf", 0>> : x \in {batchBuf} \cap {b}}
    \cup {<<"flusher", 0>> : x \in {flushBatch} \cap {b}}
    \cup {<<"emitter", e>> : e \in {e \in Emitter : held[e] = b}}
    \cup {<<"dataBuf", j>> : j \in {j \in DOMAIN dataBuf : dataBuf[j] = b}}
    \cup {<<"worker", w>> : w \in {w \in Worker : items[w] = b}}

\* No slice has two owners: metricItemPool never gives out a slice that
\* someone still appends to, has queued or is reading.
BufferOwned == \A b \in Buffer : Cardinality(Owners(b)) <= 1

\* The packet a worker fills stays a datagram the agent accepts.
PacketBound == \A w \in Worker : Bytes(packet[w]) <= MaxPacketSize

\* When dataBuf is closed nobody has anything left to send on it, which would
\* panic: the flusher is gone and, if no call of emitMetric overlaps Close,
\* so are the batches callers hold.
NoSendOnClosed == DataClosed =>
    flusher = "done" /\ (~overlap => ~crashed /\ \A e \in Emitter : held[e] = NoBuffer)

\* When a Close that no call of emitMetric overlaps returns, every item has been
\* written or given up: none is left in the batch, the channel or a packet.
CleanClose ==
    ~overlap /\ phase = "closed" => \A i \in 1..emitted : delivered[i] + failed[i] = 1

\* An item emitted leaves a started client that nobody closes, though the nil
\* of a tick reaches only one of the workers; the agent's part is that the
\* writes return.
FlushedEventually == \A i \in Item :
    (i <= emitted /\ phase = "running") ~> (phase # "running" \/ delivered[i] + failed[i] > 0)

\* Close returns, unless an overlapping caller panics: the flusher's last sends,
\* which block, find workers that still receive, as their writes return.
CloseReturns == (phase = "stopping") ~> (phase = "closed" \/ crashed)
=============================================================================
