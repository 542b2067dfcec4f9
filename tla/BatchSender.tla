---------------------------- MODULE BatchSender -----------------------------
(***************************************************************************)
(* The senders of traces and logs: trace_sender/sender.go and              *)
(* log_collector/collector.go run the same sendLoop.  Senders share one    *)
(* channel; each gathers the items it receives in a buffer that it hands   *)
(* to its SendWorker when the buffer is full, when its ticker fires and    *)
(* when the channel has been closed and drained.                           *)
(*                                                                         *)
(* Items are numbered in the order they enter the channel; size[i] is the  *)
(* marshalled size of item i with its 4 byte length prefix.                *)
(***************************************************************************)
EXTENDS SendWorker, FiniteSets

CONSTANTS Sizes,          \* the sizes items may have
          BufferMaxSize,  \* bufferMaxSize
          PrefixLen,      \* the length of the prefix of a stream frame
          ChanSize,       \* capacity of the channel
          MaxItems        \* bound: items offered to the channel

ASSUME SenderAssumption ==
    /\ Sizes \subseteq Nat \ {0}
    /\ BufferMaxSize \in Nat
    /\ PrefixLen \in Nat \ {0}
    /\ ChanSize \in Nat
    /\ MaxItems \in Nat

VARIABLES
    size,      \* the sizes of the items
    offered,   \* how many items have been offered to the channel
    dropped,   \* items the channel had no room for
    in,        \* the channel: Seq of items
    closed,    \* the channel is closed
    state,     \* a sender is "new", in its "loop", "draining" its last frame, "stopped"
    batch,     \* the items in batchTrace / batchLog
    bytes,     \* its length
    unfit      \* items MarshalTo failed on

senderVars == <<size, offered, dropped, in, closed, state, batch, bytes, unfit>>
vars == <<senderVars, workerVars>>

Item  == 1..MaxItems
Offset == IF stream THEN PrefixLen ELSE 0   \* room for the prefix
Room  == BufferMaxSize + Offset      \* the capacity batchTrace is made with
Known == 1..offered

TypeOK ==
    /\ size \in [Item -> Sizes]
    /\ offered \in 0..MaxItems
    /\ dropped \subseteq Item
    /\ in \in Seq(Item)
    /\ Len(in) <= ChanSize
    /\ closed \in BOOLEAN
    /\ state \in [Sender -> {"new", "loop", "draining", "stopped"}]
    /\ batch \in [Sender -> Seq(Item)]
    /\ bytes \in [Sender -> Nat]
    /\ unfit \subseteq Item
    /\ stream \in BOOLEAN /\ listening \in BOOLEAN
    /\ conn \in [Sender -> {"nil", "up", "down", "closed"}]
    /\ call \in [Sender -> {"none", "dial", "write", "redial", "rewrite"}]
    /\ sending \in [Sender -> Seq(Item)]
    /\ leaked \in Nat
    /\ received \in Seq([from : Sender, items : Seq(Item)])
    /\ lost \subseteq Item

Init ==
    /\ size \in [Item -> Sizes]
    /\ offered = 0
    /\ dropped = {}
    /\ in = <<>>
    /\ closed = FALSE
    /\ state = [k \in Sender |-> "new"]
    /\ batch = [k \in Sender |-> <<>>]
    /\ unfit = {}
    /\ WorkerInit
    /\ bytes = [k \in Sender |-> Offset]
-----------------------------------------------------------------------------
HasRoom == Len(in) < ChanSize

\* emitTrace's send, and LogCollector.Send: drop when the channel is full.
Offer ==
    /\ ~closed
    /\ offered < MaxItems
    /\ offered' = offered + 1
    /\ IF HasRoom
       THEN in' = Append(in, offered') /\ UNCHANGED dropped
       ELSE dropped' = dropped \cup {offered'} /\ UNCHANGED in
    /\ UNCHANGED <<size, closed, state, batch, bytes, unfit, workerVars>>

\* close(s.in), by tracer.Stop or LogCollector.Stop.
CloseIn ==
    /\ ~closed
    /\ closed' = TRUE
    /\ UNCHANGED <<size, offered, dropped, in, state, batch, bytes, unfit, workerVars>>

Start(k) ==
    /\ state[k] = "new"
    /\ state' = [state EXCEPT ![k] = "loop"]
    /\ UNCHANGED <<size, offered, dropped, in, closed, batch, bytes, unfit, workerVars>>

\* A sender is at its select.
AtSelect(k) == state[k] = "loop" /\ call[k] = "none"

\* batchTrace = batchTrace[:s.offset] and, when there is one, append(item).
\* (Fault: the buffer is not cut back.)
Refill_Uncut(k, items) ==
    /\ batch' = [batch EXCEPT ![k] = @ \o items]
    /\ bytes' = [bytes EXCEPT ![k] = IF items = <<>> THEN @ ELSE @ + size[items[1]]]
Refill(k, items) ==
    /\ batch' = [batch EXCEPT ![k] = items]
    /\ bytes' = [bytes EXCEPT ![k] = IF items = <<>> THEN Offset ELSE Offset + size[items[1]]]

\* The ticker finds something to send. (Fault: it waits for a full buffer.)
HasBatch_Full(k) == bytes[k] >= Room
HasBatch(k) == bytes[k] > Offset

\* case <-tc.C
Tick(k) ==
    /\ AtSelect(k)
    /\ HasBatch(k)
    /\ BatchSend(k, batch[k])
    /\ Refill(k, <<>>)
    /\ UNCHANGED <<size, offered, dropped, in, closed, state, unfit>>

\* case item := <-s.in
Take(k) ==
    /\ AtSelect(k)
    /\ in # <<>>
    /\ in' = Tail(in)
    /\ UNCHANGED <<size, offered, dropped, closed, state>>

\* MarshalTo fails: the item is logged and skipped.
TakeUnfit(k) ==
    /\ Take(k)
    /\ unfit' = unfit \cup {Head(in)}
    /\ UNCHANGED <<batch, bytes, workerVars>>

\* len(batchTrace)+len(sizePrefixData) <= s.bufferMaxSize+s.offset.
\* (Fault: the capacity is compared with the item alone.)
Fits_ItemOnly(k, i) == size[i] <= Room
Fits(k, i) == bytes[k] + size[i] <= Room

\* len(sizePrefixData) > s.bufferMaxSize+s.offset: too large for any batch.
\* (Fault: every item that does not fit goes out alone.)
Oversized_Always(i) == TRUE
Oversized(i) == size[i] > Room

TakeAndBuffer(k) ==
    /\ Take(k)
    /\ Fits(k, Head(in))
    /\ batch' = [batch EXCEPT ![k] = Append(@, Head(in))]
    /\ bytes' = [bytes EXCEPT ![k] = @ + size[Head(in)]]
    /\ UNCHANGED <<unfit, workerVars>>

\* An oversized item is sent alone at once, before what is in the buffer.
TakeAndSendAlone(k) ==
    /\ Take(k)
    /\ ~Fits(k, Head(in))
    /\ Oversized(Head(in))
    /\ BatchSend(k, <<Head(in)>>)
    /\ UNCHANGED <<batch, bytes, unfit>>

TakeAndFlush(k) ==
    /\ Take(k)
    /\ ~Fits(k, Head(in))
    /\ ~Oversized(Head(in))
    /\ BatchSend(k, batch[k])
    /\ Refill(k, <<Head(in)>>)
    /\ UNCHANGED unfit

\* The channel is closed and empty: flush what is left and return.
\* (Fault: return without the flush.)
LeavesUnsent_NoFlush(k) == FALSE
LeavesUnsent(k) == bytes[k] > Offset

SeeClosed(k) ==
    /\ AtSelect(k)
    /\ closed /\ in = <<>>
    /\ state' = [state EXCEPT ![k] = "draining"]
    /\ IF LeavesUnsent(k)
       THEN BatchSend(k, batch[k]) /\ Refill(k, <<>>)
       ELSE UNCHANGED <<batch, bytes, workerVars>>
    /\ UNCHANGED <<size, offered, dropped, in, closed, unfit>>

\* The deferred CloseConn and wg.Done.
Return(k) ==
    /\ state[k] = "draining"
    /\ call[k] = "none"
    /\ state' = [state EXCEPT ![k] = "stopped"]
    /\ CloseConn(k)
    /\ UNCHANGED <<size, offered, dropped, in, closed, batch, bytes, unfit>>

SenderStep(k) ==
    \/ Tick(k)
    \/ TakeUnfit(k)
    \/ TakeAndBuffer(k)
    \/ TakeAndSendAlone(k)
    \/ TakeAndFlush(k)
    \/ SeeClosed(k)
    \/ Return(k)
    \/ WorkerStep(k) /\ UNCHANGED senderVars

Next ==
    \/ Offer
    \/ CloseIn
    \/ \E k \in Sender : Start(k) \/ SenderStep(k)
    \/ AgentStep /\ UNCHANGED senderVars

Spec == Init /\ [][Next]_vars

\* A started sender runs, except that nothing makes conn.Write return on a
\* connection that is up. Its ticker fires again and again: the select chooses
\* among ready cases at random, so neither the ticker nor the channel is passed
\* over for ever.
SenderFairness == \A k \in Sender : /\ WF_vars(SenderStep(k) /\ ~MayBlock(k))
                                    /\ SF_vars(Tick(k))
FairSpec == Spec /\ SenderFairness
-----------------------------------------------------------------------------
(* Properties                                                              *)

Buffered(k) == ItemsOf(batch[k]) \cup ItemsOf(sending[k])
Arrived     == UNION {ItemsOf(received[i].items) : i \in DOMAIN received}

\* Every item offered is in exactly one place - the channel, the buffer or the
\* outgoing frame of one sender, the agent - or it was dropped, unfit or lost:
\* sendLoop neither forgets an item nor sends it twice, across flushes,
\* retries and the handling of oversized items.
Places(i) ==
    {<<"in", j>> : j \in {j \in DOMAIN in : in[j] = i}}
    \cup {<<"batch", k>> : k \in {k \in Sender : i \in ItemsOf(batch[k])}}
    \cup {<<"sending", k>> : k \in {k \in Sender : i \in ItemsOf(sending[k])}}
    \cup {<<"received", j>> : j \in {j \in DOMAIN received : i \in ItemsOf(received[j].items)}}
    \cup {<<"gone", c>> : c \in {c \in {"dropped", "unfit", "lost"} :
                                   \/ c = "dropped" /\ i \in dropped
                                   \/ c = "unfit" /\ i \in unfit
                                   \/ c = "lost" /\ i \in lost}}

InOnePlace == TypeOK /\ \A i \in Known : Cardinality(Places(i)) = 1

\* A frame that carries several items fits the buffer it was built in.
FrameBound(frame, n) == Len(frame) > 1 => n <= Room
BatchBound == \A k \in Sender : FrameBound(batch[k], bytes[k])

\* The items of ordinary size that one sender delivers arrive in the order in
\* which they entered the channel.
InOrder ==
    \A m, n \in DOMAIN received : \A a \in DOMAIN received[m].items :
        \A b \in DOMAIN received[n].items :
            LET x == received[m].items[a]
                y == received[n].items[b]
            IN  (/\ received[m].from = received[n].from
                 /\ size[x] <= Room /\ size[y] <= Room
                 /\ (m < n \/ (m = n /\ a < b)))
                => x < y

\* WaitStop returns only when nothing this sender received is unsent, and its
\* connection is closed; no connection is dropped without being closed.
CleanStop ==
    /\ leaked = 0
    /\ \A k \in Sender : state[k] = "stopped" =>
           /\ batch[k] = <<>> /\ sending[k] = <<>>
           /\ closed /\ in = <<>>
           /\ conn[k] \in {"nil", "closed"}

\* The view of Delivery: what is in buffers, frames and the channel as sets.
From(k) == UNION {ItemsOf(received[m].items) : m \in {m \in DOMAIN received : received[m].from = k}}

Promised == INSTANCE Delivery
    WITH large   <- {i \in Item : Oversized(i)},
         open    <- ~closed,
         entered <- offered,
         queue   <- ItemsOf(in),
         kept    <- [k \in Sender |-> ItemsOf(batch[k])],
         frame   <- [k \in Sender |-> ItemsOf(sending[k])],
         arrived <- [k \in Sender |-> From(k)],
         gone    <- dropped \cup unfit \cup lost,
         ended   <- {k \in Sender : state[k] = "stopped"}

\* sendLoop and its worker implement Delivery, through flushes, oversized items,
\* reconnections and retries: a buffer goes out as a whole and before what is
\* taken later, a frame arrives whole and once or not at all, and a sender
\* returns only from a closed channel with nothing left to send.
ImplementsDelivery == Promised!Spec

\* Each write of sender k returns: the agent reads, or ends the connection.
WritesReturn(k) == []<>~MayBlock(k)

\* An item in the buffer of a sender whose writes return leaves it, though the
\* traffic never fills the buffer, the agent goes away and comes back, and the
\* writes of the other senders may block for ever.
FlushedEventually ==
    \A k \in Sender : WritesReturn(k) =>
        \A i \in Item : i \in ItemsOf(batch[k]) ~> i \notin ItemsOf(batch[k])

\* Once the channel is closed a started sender empties it and returns, so that
\* WaitStop (and tracer.Stop) does not hang on an agent that is away; an agent
\* that holds a connection without reading it does hang it (WritesReturn).
StopsWhenClosed ==
    \A k \in Sender : WritesReturn(k) =>
        ((closed /\ state[k] = "loop") ~> state[k] = "stopped")
=============================================================================
