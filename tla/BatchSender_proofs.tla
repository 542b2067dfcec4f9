-------------------------- MODULE BatchSender_proofs --------------------------
(***************************************************************************)
(* Theorems about BatchSender, for any number of senders, sizes of items   *)
(* and of buffers, streams or datagrams, whatever the agent does: how much *)
(* a batch holds and what a sender leaves behind; that no item is          *)
(* forgotten or sent twice; and the order in which items arrive.           *)
(***************************************************************************)
EXTENDS BatchSender, FiniteSetTheorems, TLAPS

USE SenderAssumption

\* The length of a buffer tells whether it holds anything; a frame is being
\* sent only during BatchSend; a sender that has seen the closed channel holds
\* nothing; and a connection is open only while a sender may still close it.
Holds(k) ==
    /\ bytes[k] >= Offset
    /\ batch[k] # <<>> => bytes[k] > Offset
    /\ call[k] = "none" => sending[k] = <<>>
    /\ state[k] = "new" => batch[k] = <<>>
    /\ state[k] \in {"new", "stopped"} => call[k] = "none"
    /\ state[k] \in {"draining", "stopped"} => closed /\ in = <<>> /\ batch[k] = <<>>
    /\ state[k] = "stopped" => conn[k] \in {"nil", "closed"}

Sending == (\A k \in Sender : Holds(k)) /\ leaked = 0

IndInv == TypeOK /\ Sending /\ BatchBound

LEMMA Capacity == Offset \in Nat /\ Room \in Nat /\ BufferMaxSize \in Nat
BY DEF Offset, Room

LEMMA Positive == \A n \in Sizes : n \in Nat /\ n > 0
<1> SUFFICES ASSUME NEW n \in Sizes PROVE n \in Nat /\ n > 0
  OBVIOUS
<1>1. n \in Nat \ {0}
  BY Zenon
<1> QED
  BY <1>1, SMT

LEMMA InitInv == Init => IndInv
<1> SUFFICES ASSUME Init PROVE IndInv
  OBVIOUS
<1>1. TypeOK
  <2>1. /\ <<>> \in Seq(Item) /\ <<>> \in Seq([from : Sender, items : Seq(Item)])
        /\ Len(in) = 0
    BY DEF Init
  <2>2. /\ conn \in [Sender -> {"nil", "up", "down", "closed"}]
        /\ call \in [Sender -> {"none", "dial", "write", "redial", "rewrite"}]
        /\ sending \in [Sender -> Seq(Item)]
        /\ leaked \in Nat /\ lost \subseteq Item
        /\ received \in Seq([from : Sender, items : Seq(Item)])
        /\ stream \in BOOLEAN /\ listening \in BOOLEAN
    BY <2>1 DEF Init, WorkerInit
  <2>3. bytes \in [Sender -> Nat] /\ batch \in [Sender -> Seq(Item)]
    BY <2>1, Capacity DEF Init
  <2>4. /\ offered \in 0..MaxItems /\ in \in Seq(Item) /\ Len(in) <= ChanSize
        /\ dropped \subseteq Item /\ unfit \subseteq Item /\ closed \in BOOLEAN
        /\ state \in [Sender -> {"new", "loop", "draining", "stopped"}]
    <3>1. offered = 0 /\ 0 \in 0..MaxItems
      BY DEF Init
    <3>2. in = <<>> /\ 0 <= ChanSize
      BY DEF Init
    <3>3. dropped = {} /\ unfit = {} /\ closed = FALSE
      BY DEF Init
    <3>4. state \in [Sender -> {"new", "loop", "draining", "stopped"}]
      BY DEF Init
    <3> QED
      BY <2>1, <3>1, <3>2, <3>3, <3>4
  <2>5. size \in [Item -> Sizes]
    BY DEF Init
  <2> QED
    BY <2>2, <2>3, <2>4, <2>5 DEF TypeOK
<1>2. Sending
  BY Capacity DEF Init, WorkerInit, Sending, Holds
<1>3. BatchBound
  BY DEF Init, BatchBound, FrameBound
<1> QED
  BY <1>1, <1>2, <1>3 DEF IndInv
-----------------------------------------------------------------------------
(* The channel                                                             *)

LEMMA ChannelSteps ==
    ASSUME IndInv, Offer \/ CloseIn
    PROVE  IndInv'
<1> USE DEF workerVars
<1>1. CASE Offer
  <2>1. /\ ~closed /\ offered' = offered + 1
        /\ \/ Len(in) < ChanSize /\ in' = Append(in, offered') /\ UNCHANGED dropped
           \/ dropped' = dropped \cup {offered'} /\ UNCHANGED in
        /\ UNCHANGED <<size, closed, state, batch, bytes, unfit, workerVars>>
    BY <1>1 DEF Offer, HasRoom
  <2>2. offered' \in 0..MaxItems /\ offered' \in Item
    BY <1>1 DEF Offer, IndInv, TypeOK, Item
  <2>3. in' \in Seq(Item) /\ Len(in') <= ChanSize /\ dropped' \subseteq Item
    <3>1. /\ in \in Seq(Item) /\ Len(in) <= ChanSize /\ dropped \subseteq Item
          /\ Len(in) \in Nat
      BY DEF IndInv, TypeOK
    <3>2. Append(in, offered') \in Seq(Item) /\ Len(Append(in, offered')) = Len(in) + 1
      BY <2>2, <3>1
    <3>3. CASE Len(in) < ChanSize /\ in' = Append(in, offered') /\ UNCHANGED dropped
      BY <3>1, <3>2, <3>3
    <3>4. CASE dropped' = dropped \cup {offered'} /\ UNCHANGED in
      BY <2>2, <3>1, <3>4
    <3> QED
      BY <2>1, <3>3, <3>4
  <2>4. TypeOK'
    BY <2>1, <2>2, <2>3 DEF IndInv, TypeOK
  <2>5. \A k \in Sender : state[k] \notin {"draining", "stopped"}
    BY <2>1 DEF IndInv, Sending, Holds
  <2>6. Sending'
    BY <2>1, <2>5 DEF IndInv, Sending, Holds, Offset
  <2> QED
    BY <2>1, <2>4, <2>6 DEF IndInv, BatchBound, FrameBound, Room, Offset
<1>2. CASE CloseIn
  <2>1. /\ closed' = TRUE
        /\ UNCHANGED <<size, offered, dropped, in, state, batch, bytes, unfit, workerVars>>
    BY <1>2 DEF CloseIn
  <2>2. TypeOK'
    BY <2>1 DEF IndInv, TypeOK
  <2>3. Sending'
    BY <2>1 DEF IndInv, Sending, Holds, Offset
  <2> QED
    BY <2>1, <2>2, <2>3 DEF IndInv, BatchBound, FrameBound, Room, Offset
<1> QED
  BY <1>1, <1>2
-----------------------------------------------------------------------------
(* The worker and the agent                                                *)

LEMMA AgentSteps ==
    ASSUME IndInv, AgentStep, UNCHANGED senderVars
    PROVE  IndInv'
<1> USE DEF senderVars
<1>1. /\ UNCHANGED <<stream, call, sending, leaked, received, lost>>
      /\ listening' \in BOOLEAN
      /\ conn' \in [Sender -> {"nil", "up", "down", "closed"}]
      /\ \A k \in Sender : conn'[k] = conn[k] \/ conn[k] = "up"
  BY DEF AgentStep, AgentDown, AgentUp, AgentHangsUp, HangUp, IndInv, TypeOK
<1>2. TypeOK'
  BY <1>1 DEF IndInv, TypeOK
<1>3. Sending'
  BY <1>1 DEF IndInv, Sending, Holds, Offset
<1> QED
  BY <1>1, <1>2, <1>3 DEF IndInv, BatchBound, FrameBound, Room, Offset

LEMMA WorkerSteps ==
    ASSUME IndInv, NEW k \in Sender, WorkerStep(k), UNCHANGED senderVars
    PROVE  IndInv'
<1> USE DEF senderVars
<1>t. /\ conn \in [Sender -> {"nil", "up", "down", "closed"}]
      /\ call \in [Sender -> {"none", "dial", "write", "redial", "rewrite"}]
      /\ sending \in [Sender -> Seq(Item)]
      /\ received \in Seq([from : Sender, items : Seq(Item)])
      /\ lost \subseteq Item
  BY DEF IndInv, TypeOK
<1>1. /\ call[k] # "none" /\ UNCHANGED <<stream, listening, leaked>>
      /\ \E c \in {"nil", "up", "down", "closed"} : conn' = [conn EXCEPT ![k] = c]
      /\ \/ /\ \E l \in {"write", "redial", "rewrite"} : call' = [call EXCEPT ![k] = l]
            /\ UNCHANGED <<sending, received, lost>>
         \/ Deliver(k)
         \/ GiveUp(k)
  <2>1. conn = [conn EXCEPT ![k] = conn[k]] /\ conn[k] \in {"nil", "up", "down", "closed"}
    BY <1>t
  <2>2. CASE Dial(k)
    BY <2>1, <2>2 DEF Dial
  <2>3. CASE Write(k)
    BY <2>1, <2>3 DEF Write
  <2>4. CASE BrokenPipe(k)
    BY <2>1, <2>4 DEF BrokenPipe, MayRetry
  <2>5. CASE Redial(k)
    <3>1. AfterCloseConn(conn[k]) \in {"nil", "closed"}
      BY DEF AfterCloseConn
    <3> QED
      BY <2>5, <3>1 DEF Redial
  <2>6. CASE WriteError(k)
    BY <2>6 DEF WriteError, AfterError
  <2> QED
    BY <2>2, <2>3, <2>4, <2>5, <2>6 DEF WorkerStep
<1>2. ItemsOf(sending[k]) \subseteq Item /\ [from |-> k, items |-> sending[k]]
          \in [from : Sender, items : Seq(Item)]
  BY <1>t DEF ItemsOf
<1>3. /\ call' \in [Sender -> {"none", "dial", "write", "redial", "rewrite"}]
      /\ conn' \in [Sender -> {"nil", "up", "down", "closed"}]
      /\ sending' \in [Sender -> Seq(Item)]
      /\ received' \in Seq([from : Sender, items : Seq(Item)])
      /\ lost' \subseteq Item
      /\ call'[k] = "none" => sending'[k] = <<>>
      /\ \A j \in Sender : j # k => call'[j] = call[j] /\ sending'[j] = sending[j]
                                    /\ conn'[j] = conn[j]
  <2>1. /\ call' \in [Sender -> {"none", "dial", "write", "redial", "rewrite"}]
        /\ conn' \in [Sender -> {"nil", "up", "down", "closed"}]
        /\ sending' \in [Sender -> Seq(Item)]
    <3>1. conn' \in [Sender -> {"nil", "up", "down", "closed"}]
      BY <1>t, <1>1
    <3>2. CASE Deliver(k) \/ GiveUp(k)
      <4>1. <<>> \in Seq(Item)
        OBVIOUS
      <4> QED
        BY <1>t, <3>1, <3>2, <4>1 DEF Deliver, GiveUp
    <3>3. CASE /\ \E l \in {"write", "redial", "rewrite"} : call' = [call EXCEPT ![k] = l]
               /\ UNCHANGED <<sending, received, lost>>
      BY <1>t, <3>1, <3>3
    <3> QED
      BY <1>1, <3>2, <3>3
  <2>2. received' \in Seq([from : Sender, items : Seq(Item)])
    <3>1. received' = received \/ received' = Append(received, [from |-> k, items |-> sending[k]])
      BY <1>1 DEF Deliver, GiveUp
    <3> DEFINE Frame == [from : Sender, items : Seq(Item)]
               frame == [from |-> k, items |-> sending[k]]
    <3>2. frame \in Frame /\ received \in Seq(Frame)
      BY <1>t, <1>2
    <3> HIDE DEF Frame, frame
    <3>3. Append(received, frame) \in Seq(Frame)
      BY <3>2
    <3>4. received' = received \/ received' = Append(received, frame)
      BY <3>1 DEF frame
    <3>5. received' \in Seq(Frame)
      BY <3>2, <3>3, <3>4
    <3> QED
      BY <3>5 DEF Frame
  <2>3. lost' \subseteq Item
    BY <1>t, <1>1, <1>2 DEF Deliver, GiveUp
  <2>4. call'[k] = "none" => sending'[k] = <<>>
    <3>1. CASE Deliver(k) \/ GiveUp(k)
      BY <1>t, <3>1 DEF Deliver, GiveUp
    <3>2. CASE \E l \in {"write", "redial", "rewrite"} : call' = [call EXCEPT ![k] = l]
      BY <1>t, <3>2
    <3> QED
      BY <1>1, <3>1, <3>2
  <2>5. \A j \in Sender : j # k => call'[j] = call[j] /\ sending'[j] = sending[j]
                                    /\ conn'[j] = conn[j]
    <3>1. PICK c : conn' = [conn EXCEPT ![k] = c]
      BY <1>1
    <3>2. \A j \in Sender : j # k => conn'[j] = conn[j]
      BY <1>t, <3>1
    <3>3. CASE Deliver(k) \/ GiveUp(k)
      BY <1>t, <3>2, <3>3 DEF Deliver, GiveUp
    <3>4. CASE /\ \E l \in {"write", "redial", "rewrite"} : call' = [call EXCEPT ![k] = l]
               /\ UNCHANGED <<sending, received, lost>>
      BY <1>t, <3>2, <3>4
    <3> QED
      BY <1>1, <3>3, <3>4
  <2> QED
    BY <2>1, <2>2, <2>3, <2>4, <2>5
<1>4. TypeOK'
  BY <1>1, <1>3 DEF IndInv, TypeOK
<1>5. Sending'
  <2>1. state[k] \in {"loop", "draining"}
    BY <1>1 DEF IndInv, Sending, Holds, TypeOK
  <2> QED
    BY <1>1, <1>3, <2>1 DEF IndInv, Sending, Holds, Offset
<1> QED
  BY <1>1, <1>4, <1>5 DEF IndInv, BatchBound, FrameBound, Room, Offset
-----------------------------------------------------------------------------
(* The sender                                                              *)

\* When a step of sender k leaves the other senders alone, and what is in the
\* channel too once one has seen it closed, only k has to be looked at.
LEMMA OfOne ==
    ASSUME IndInv, NEW k \in Sender, UNCHANGED <<stream, leaked, closed>>,
           in' = in \/ \A j \in Sender : state[j] \notin {"draining", "stopped"},
           \A j \in Sender : j # k =>
               /\ batch'[j] = batch[j] /\ bytes'[j] = bytes[j] /\ call'[j] = call[j]
               /\ sending'[j] = sending[j] /\ state'[j] = state[j] /\ conn'[j] = conn[j],
           Holds(k)', FrameBound(batch[k], bytes[k])'
    PROVE  Sending' /\ BatchBound'
<1>1. ASSUME NEW j \in Sender PROVE Holds(j)' /\ FrameBound(batch[j], bytes[j])'
  <2>1. CASE j = k
    BY <2>1
  <2>2. CASE j # k
    <3>1. Holds(j) /\ FrameBound(batch[j], bytes[j])
      BY DEF IndInv, Sending, BatchBound
    <3> QED
      BY <2>2, <3>1 DEF Holds, FrameBound, Room, Offset
  <2> QED
    BY <2>1, <2>2
<1> QED
  BY <1>1 DEF Sending, BatchBound, IndInv

\* What a call of BatchSend and a refilled buffer leave behind.
Sends(k) ==
    /\ call' \in [Sender -> {"none", "dial", "write", "redial", "rewrite"}]
    /\ sending' \in [Sender -> Seq(Item)]
    /\ call'[k] # "none"
    /\ \A j \in Sender : j # k => call'[j] = call[j] /\ sending'[j] = sending[j]
    /\ UNCHANGED <<stream, listening, conn, leaked, received, lost>>

Refilled(k, items) ==
    /\ batch' \in [Sender -> Seq(Item)] /\ bytes' \in [Sender -> Nat]
    /\ batch'[k] = items
    /\ bytes'[k] >= Offset
    /\ items # <<>> => bytes'[k] > Offset
    /\ Len(batch'[k]) <= 1
    /\ \A j \in Sender : j # k => batch'[j] = batch[j] /\ bytes'[j] = bytes[j]

LEMMA Calls ==
    ASSUME TypeOK, NEW k \in Sender, NEW frame \in Seq(Item), BatchSend(k, frame)
    PROVE  Sends(k)
BY DEF BatchSend, TypeOK, Sends

LEMMA Refills ==
    ASSUME TypeOK, NEW k \in Sender, NEW items \in {<<>>} \cup {<<i>> : i \in Item},
           Refill(k, items)
    PROVE  Refilled(k, items)
<1>1. items \in Seq(Item) /\ Len(items) <= 1 /\ (items # <<>> => items[1] \in Item)
  <2>1. CASE items = <<>>
    BY <2>1
  <2>2. CASE items # <<>>
    <3>1. PICK i \in Item : items = <<i>>
      BY <2>2
    <3> QED
      BY <3>1
  <2> QED
    BY <2>1, <2>2
<1>2. batch' = [batch EXCEPT ![k] = items] /\ batch \in [Sender -> Seq(Item)]
  BY DEF Refill, TypeOK
<1>3. PICK n \in Nat : /\ bytes' = [bytes EXCEPT ![k] = n]
                       /\ n >= Offset /\ (items # <<>> => n > Offset)
  <2>0. bytes' = [bytes EXCEPT ![k] = IF items = <<>> THEN Offset
                                       ELSE Offset + size[items[1]]]
    BY DEF Refill
  <2>1. CASE items = <<>>
    <3>1. bytes' = [bytes EXCEPT ![k] = Offset]
      BY <2>0, <2>1
    <3>2. Offset \in Nat /\ Offset >= Offset
      BY Capacity
    <3> QED
      BY <2>1, <3>1, <3>2
  <2>2. CASE items # <<>>
    <3>1. bytes' = [bytes EXCEPT ![k] = Offset + size[items[1]]]
      BY <2>0, <2>2
    <3>2. size[items[1]] \in Sizes
      BY <1>1, <2>2 DEF TypeOK
    <3>3. size[items[1]] \in Nat /\ size[items[1]] > 0
      BY <3>2, Positive
    <3> DEFINE n == Offset + size[items[1]]
    <3>4. n \in Nat /\ n > Offset
      BY <3>3, Capacity
    <3>5. bytes' = [bytes EXCEPT ![k] = n]
      BY <3>1
    <3> HIDE DEF n
    <3>6. n >= Offset
      BY <3>4, Capacity
    <3> QED
      BY <3>4, <3>5, <3>6
  <2> QED
    BY <2>1, <2>2
<1>4. bytes \in [Sender -> Nat]
  BY DEF TypeOK
<1> QED
  BY <1>1, <1>2, <1>3, <1>4 DEF Refilled

\* What the sender takes from the channel.
LEMMA Takes ==
    ASSUME IndInv, NEW k \in Sender, Take(k)
    PROVE  /\ Head(in) \in Item /\ in' \in Seq(Item) /\ Len(in') <= ChanSize
           /\ size[Head(in)] \in Nat /\ size[Head(in)] > 0
           /\ state[k] = "loop" /\ call[k] = "none"
           /\ \A j \in Sender : state[j] \notin {"draining", "stopped"}
           /\ UNCHANGED <<size, offered, dropped, closed, state>>
<1>1. in \in Seq(Item) /\ in # <<>> /\ Len(in) <= ChanSize
  BY DEF Take, IndInv, TypeOK
<1>2. Head(in) \in Item /\ Tail(in) \in Seq(Item) /\ Len(Tail(in)) <= ChanSize
  BY <1>1
<1>3. size[Head(in)] \in Nat /\ size[Head(in)] > 0
  <2>1. size[Head(in)] \in Sizes
    BY <1>2 DEF IndInv, TypeOK
  <2> QED
    BY <2>1, Positive
<1> QED
  BY <1>1, <1>2, <1>3 DEF Take, AtSelect, IndInv, Sending, Holds

LEMMA TakeSteps ==
    ASSUME IndInv, NEW k \in Sender,
           TakeUnfit(k) \/ TakeAndBuffer(k) \/ TakeAndSendAlone(k) \/ TakeAndFlush(k)
    PROVE  IndInv'
<1>0. Take(k)
  BY DEF TakeUnfit, TakeAndBuffer, TakeAndSendAlone, TakeAndFlush
<1> DEFINE i == Head(in)
<1>t. /\ TypeOK /\ batch \in [Sender -> Seq(Item)] /\ bytes \in [Sender -> Nat]
      /\ i \in Item /\ size[i] \in Nat /\ size[i] > 0
      /\ \A j \in Sender : state[j] \notin {"draining", "stopped"}
  BY <1>0, Takes DEF IndInv, TypeOK
<1>1. CASE TakeUnfit(k)
  <2>1. unfit' \subseteq Item /\ UNCHANGED <<batch, bytes, workerVars>>
    BY <1>1, <1>t DEF TakeUnfit, TypeOK
  <2>2. TypeOK'
    BY <1>0, <2>1, Takes DEF IndInv, TypeOK, workerVars
  <2>3. Sending'
    BY <1>0, <2>1, Takes DEF IndInv, Sending, Holds, Offset, workerVars
  <2> QED
    BY <2>1, <2>2, <2>3 DEF IndInv, BatchBound, FrameBound, Room, Offset, workerVars
<1>2. CASE TakeAndBuffer(k)
  <2>1. /\ bytes[k] + size[i] <= Room
        /\ batch' = [batch EXCEPT ![k] = Append(@, i)]
        /\ bytes' = [bytes EXCEPT ![k] = @ + size[i]]
        /\ UNCHANGED <<unfit, workerVars>>
    BY <1>2 DEF TakeAndBuffer, Fits
  <2>2. /\ batch' \in [Sender -> Seq(Item)] /\ bytes' \in [Sender -> Nat]
        /\ bytes'[k] > Offset /\ bytes'[k] <= Room
        /\ \A j \in Sender : j # k => batch'[j] = batch[j] /\ bytes'[j] = bytes[j]
    BY <1>t, <2>1, Capacity DEF IndInv, Sending, Holds
  <2>3. TypeOK'
    BY <1>0, <2>1, <2>2, Takes DEF IndInv, TypeOK, workerVars
  <2>4. Sending'
    <3>1. state[k] = "loop" /\ call[k] = "none" /\ UNCHANGED <<closed, state>>
      BY <1>0, Takes
    <3> QED
      BY <1>t, <2>1, <2>2, <3>1, Capacity DEF IndInv, Sending, Holds, Offset, workerVars
  <2>5. BatchBound'
    BY <2>1, <2>2 DEF IndInv, BatchBound, FrameBound, Room, Offset, workerVars
  <2> QED
    BY <2>3, <2>4, <2>5 DEF IndInv
<1>3. CASE TakeAndSendAlone(k)
  <2>1. BatchSend(k, <<i>>) /\ <<i>> \in Seq(Item) /\ UNCHANGED <<batch, bytes, unfit>>
    BY <1>3, <1>t DEF TakeAndSendAlone
  <2>2. TypeOK'
    BY <1>0, <1>t, <2>1, Takes, Calls DEF TypeOK, Sends
  <2>3. Sends(k)
    BY <1>t, <2>1, Calls
  <2>4. Holds(k)' /\ FrameBound(batch[k], bytes[k])'
    BY <1>0, <2>1, <2>3, Takes
       DEF Sends, IndInv, Sending, BatchBound, Holds, FrameBound, Room, Offset
  <2>5. Sending' /\ BatchBound'
    BY <1>0, <1>t, <2>1, <2>3, <2>4, Takes, OfOne DEF Sends
  <2> QED
    BY <2>2, <2>5 DEF IndInv
<1>4. CASE TakeAndFlush(k)
  <2>1. BatchSend(k, batch[k]) /\ batch[k] \in Seq(Item) /\ Refill(k, <<i>>) /\ UNCHANGED unfit
    BY <1>4, <1>t DEF TakeAndFlush
  <2>2. Sends(k)
    BY <1>t, <2>1, Calls
  <2>3. Refilled(k, <<i>>)
    BY <1>t, <2>1, Refills
  <2>4. TypeOK'
    BY <1>0, <1>t, <2>1, <2>2, <2>3, Takes DEF TypeOK, Sends, Refilled
  <2>5. Holds(k)' /\ FrameBound(batch[k], bytes[k])'
    BY <1>0, <2>2, <2>3, Takes, Capacity DEF Sends, Refilled, Holds, FrameBound, Room, Offset
  <2>6. Sending' /\ BatchBound'
    BY <1>0, <1>t, <2>2, <2>3, <2>5, Takes, OfOne DEF Sends, Refilled
  <2> QED
    BY <2>4, <2>6 DEF IndInv
<1> QED
  BY <1>1, <1>2, <1>3, <1>4

LEMMA OtherSteps ==
    ASSUME IndInv, NEW k \in Sender, Start(k) \/ Tick(k) \/ SeeClosed(k) \/ Return(k)
    PROVE  IndInv'
<1>t. /\ TypeOK /\ batch[k] \in Seq(Item) /\ Holds(k) /\ leaked = 0
      /\ state \in [Sender -> {"new", "loop", "draining", "stopped"}]
      /\ conn \in [Sender -> {"nil", "up", "down", "closed"}]
      /\ bytes[k] \in Nat /\ FrameBound(batch[k], bytes[k])
  BY DEF IndInv, TypeOK, Sending, BatchBound
<1>1. CASE Start(k)
  <2>1. /\ state[k] = "new" /\ state' = [state EXCEPT ![k] = "loop"]
        /\ UNCHANGED <<size, offered, dropped, in, closed, batch, bytes, unfit, workerVars>>
    BY <1>1 DEF Start
  <2>2. TypeOK'
    BY <1>t, <2>1 DEF TypeOK, workerVars
  <2>3. Holds(k)' /\ FrameBound(batch[k], bytes[k])'
    BY <1>t, <2>1 DEF Holds, FrameBound, Room, Offset, workerVars
  <2>4. Sending' /\ BatchBound'
    BY <1>t, <2>1, <2>3, OfOne DEF workerVars
  <2> QED
    BY <2>2, <2>4 DEF IndInv
<1>2. CASE Tick(k)
  <2>1. /\ BatchSend(k, batch[k]) /\ Refill(k, <<>>) /\ state[k] = "loop"
        /\ UNCHANGED <<size, offered, dropped, in, closed, state, unfit>>
    BY <1>2 DEF Tick, AtSelect
  <2>2. Sends(k) /\ Refilled(k, <<>>)
    BY <1>t, <2>1, Calls, Refills
  <2>3. TypeOK'
    BY <1>t, <2>1, <2>2 DEF TypeOK, Sends, Refilled
  <2>4. Holds(k)' /\ FrameBound(batch[k], bytes[k])'
    BY <2>1, <2>2, Capacity DEF Sends, Refilled, Holds, FrameBound, Room, Offset
  <2>5. Sending' /\ BatchBound'
    BY <2>1, <2>2, <2>4, OfOne DEF Sends, Refilled
  <2> QED
    BY <2>3, <2>5 DEF IndInv
<1>3. CASE SeeClosed(k)
  <2>1. /\ closed /\ in = <<>> /\ state[k] = "loop" /\ call[k] = "none"
        /\ state' = [state EXCEPT ![k] = "draining"]
        /\ UNCHANGED <<size, offered, dropped, in, closed, unfit>>
    BY <1>3 DEF SeeClosed, AtSelect
  <2>2. CASE LeavesUnsent(k)
    <3>1. BatchSend(k, batch[k]) /\ Refill(k, <<>>)
      BY <1>3, <2>2 DEF SeeClosed
    <3>2. Sends(k) /\ Refilled(k, <<>>)
      BY <1>t, <3>1, Calls, Refills
    <3>3. TypeOK'
      BY <1>t, <2>1, <3>2 DEF TypeOK, Sends, Refilled
    <3>4. Holds(k)' /\ FrameBound(batch[k], bytes[k])'
      BY <1>t, <2>1, <3>2, Capacity DEF Sends, Refilled, Holds, FrameBound, Room, Offset
    <3>5. Sending' /\ BatchBound'
      BY <1>t, <2>1, <3>2, <3>4, OfOne DEF Sends, Refilled
    <3> QED
      BY <3>3, <3>5 DEF IndInv
  <2>3. CASE ~LeavesUnsent(k)
    <3>1. UNCHANGED <<batch, bytes, workerVars>>
      BY <1>3, <2>3 DEF SeeClosed
    <3>2. batch[k] = <<>>
      BY <1>t, <2>3 DEF LeavesUnsent, Holds
    <3>3. TypeOK'
      BY <1>t, <2>1, <3>1 DEF TypeOK, workerVars
    <3>4. Holds(k)' /\ FrameBound(batch[k], bytes[k])'
      BY <1>t, <2>1, <3>1, <3>2 DEF Holds, FrameBound, Room, Offset, workerVars
    <3>5. Sending' /\ BatchBound'
      BY <1>t, <2>1, <3>1, <3>4, OfOne DEF workerVars
    <3> QED
      BY <3>3, <3>5 DEF IndInv
  <2> QED
    BY <2>2, <2>3
<1>4. CASE Return(k)
  <2>1. /\ state[k] = "draining" /\ call[k] = "none"
        /\ state' = [state EXCEPT ![k] = "stopped"]
        /\ conn' = [conn EXCEPT ![k] = AfterCloseConn(@)]
        /\ UNCHANGED <<size, offered, dropped, in, closed, batch, bytes, unfit>>
        /\ UNCHANGED <<stream, listening, call, sending, leaked, received, lost>>
    BY <1>4 DEF Return, CloseConn
  <2>2. AfterCloseConn(conn[k]) \in {"nil", "closed"}
    BY DEF AfterCloseConn
  <2>3. TypeOK'
    BY <1>t, <2>1, <2>2 DEF TypeOK
  <2>4. Holds(k)' /\ FrameBound(batch[k], bytes[k])'
    BY <1>t, <2>1, <2>2 DEF Holds, FrameBound, Room, Offset
  <2>5. Sending' /\ BatchBound'
    BY <1>t, <2>1, <2>4, OfOne
  <2> QED
    BY <2>3, <2>5 DEF IndInv
<1> QED
  BY <1>1, <1>2, <1>3, <1>4
-----------------------------------------------------------------------------
LEMMA StutterInv == IndInv /\ UNCHANGED vars => IndInv'
BY DEF vars, senderVars, workerVars, IndInv, TypeOK, Sending, Holds, BatchBound, FrameBound,
       Room, Offset

LEMMA Inductive == IndInv /\ [Next]_vars => IndInv'
<1> SUFFICES ASSUME IndInv, [Next]_vars PROVE IndInv'
  OBVIOUS
<1>1. CASE UNCHANGED vars
  BY <1>1, StutterInv
<1>2. CASE Offer \/ CloseIn
  BY <1>2, ChannelSteps
<1>3. CASE AgentStep /\ UNCHANGED senderVars
  BY <1>3, AgentSteps
<1>4. ASSUME NEW k \in Sender, Start(k) \/ SenderStep(k) PROVE IndInv'
  <2>1. CASE WorkerStep(k) /\ UNCHANGED senderVars
    BY <2>1, WorkerSteps
  <2>2. CASE Start(k) \/ Tick(k) \/ SeeClosed(k) \/ Return(k)
    BY <2>2, OtherSteps
  <2>3. CASE TakeUnfit(k) \/ TakeAndBuffer(k) \/ TakeAndSendAlone(k) \/ TakeAndFlush(k)
    BY <2>3, TakeSteps
  <2> QED
    BY <1>4, <2>1, <2>2, <2>3 DEF SenderStep
<1> QED
  BY <1>1, <1>2, <1>3, <1>4 DEF Next

LEMMA Invariance == Spec => []IndInv
<1>1. Init => IndInv
  BY InitInv
<1>2. IndInv /\ [Next]_vars => IndInv'
  BY Inductive
<1> QED
  BY <1>1, <1>2, PTL DEF Spec

\* A sender that has returned, whatever the agent did meanwhile, holds nothing,
\* left nothing in the closed channel and left no connection open: sendLoop's
\* flush and the deferred CloseConn.
THEOREM CleanStopCorrect == Spec => []CleanStop
<1>1. IndInv => CleanStop
  <2> SUFFICES ASSUME IndInv PROVE CleanStop
    OBVIOUS
  <2>1. \A k \in Sender : state[k] = "stopped" =>
            /\ batch[k] = <<>> /\ sending[k] = <<>>
            /\ closed /\ in = <<>>
            /\ conn[k] \in {"nil", "closed"}
    BY DEF IndInv, Sending, Holds
  <2> QED
    BY <2>1 DEF IndInv, Sending, CleanStop
<1> QED
  BY <1>1, Invariance, PTL

\* No frame of several items outgrows the buffer of sendLoop, whatever the sizes
\* of the items and the capacity.
THEOREM BatchBoundCorrect == Spec => []BatchBound
<1>1. IndInv => BatchBound
  BY DEF IndInv
<1> QED
  BY <1>1, Invariance, PTL
-----------------------------------------------------------------------------
(* No item is forgotten or sent twice                                      *)


\* Where an item is, for each kind of place.
InChan(i)    == {j \in DOMAIN in : in[j] = i}
InBatch(i)   == {k \in Sender : i \in ItemsOf(batch[k])}
InFrame(i)   == {k \in Sender : i \in ItemsOf(sending[k])}
InAgent(i)   == {j \in DOMAIN received : i \in ItemsOf(received[j].items)}
Gone(i)      == {c \in {"dropped", "unfit", "lost"} : \/ c = "dropped" /\ i \in dropped
                                                      \/ c = "unfit" /\ i \in unfit
                                                      \/ c = "lost" /\ i \in lost}

Single(S) == \E x : S = {x}

\* An item that was offered is in one place, any other nowhere.
At(a, b, c, d, e) ==
    \/ Single(a) /\ b = {} /\ c = {} /\ d = {} /\ e = {}
    \/ a = {} /\ Single(b) /\ c = {} /\ d = {} /\ e = {}
    \/ a = {} /\ b = {} /\ Single(c) /\ d = {} /\ e = {}
    \/ a = {} /\ b = {} /\ c = {} /\ Single(d) /\ e = {}
    \/ a = {} /\ b = {} /\ c = {} /\ d = {} /\ Single(e)

Somewhere(i) == At(InChan(i), InBatch(i), InFrame(i), InAgent(i), Gone(i))
Nowhere(i)   == /\ InChan(i) = {} /\ InBatch(i) = {} /\ InFrame(i) = {}
                /\ InAgent(i) = {} /\ Gone(i) = {}

Conserved == \A i \in Item : IF i <= offered THEN Somewhere(i) ELSE Nowhere(i)

LEMMA SomewhereOnce ==
    ASSUME NEW i, Somewhere(i)
    PROVE  Cardinality(Places(i)) = 1
<1>1. Places(i) = {<<"in", j>> : j \in InChan(i)} \cup {<<"batch", k>> : k \in InBatch(i)}
                      \cup {<<"sending", k>> : k \in InFrame(i)}
                      \cup {<<"received", j>> : j \in InAgent(i)}
                      \cup {<<"gone", c>> : c \in Gone(i)}
  BY DEF Places, InChan, InBatch, InFrame, InAgent, Gone
<1>2. \E p : Places(i) = {p}
  <2>1. ASSUME NEW x, NEW tag PROVE {<<tag, y>> : y \in {x}} = {<<tag, x>>}
    OBVIOUS
  <2>2. ASSUME NEW tag PROVE {<<tag, y>> : y \in {}} = {}
    OBVIOUS
  <2>3. PICK x : \/ Places(i) = {<<"in", x>>}
                 \/ Places(i) = {<<"batch", x>>}
                 \/ Places(i) = {<<"sending", x>>}
                 \/ Places(i) = {<<"received", x>>}
                 \/ Places(i) = {<<"gone", x>>}
    <3>1. CASE Single(InChan(i)) /\ InBatch(i) = {} /\ InFrame(i) = {}
                   /\ InAgent(i) = {} /\ Gone(i) = {}
      BY <1>1, <2>1, <2>2, <3>1 DEF Single
    <3>2. CASE InChan(i) = {} /\ Single(InBatch(i)) /\ InFrame(i) = {}
                   /\ InAgent(i) = {} /\ Gone(i) = {}
      BY <1>1, <2>1, <2>2, <3>2 DEF Single
    <3>3. CASE InChan(i) = {} /\ InBatch(i) = {} /\ Single(InFrame(i))
                   /\ InAgent(i) = {} /\ Gone(i) = {}
      BY <1>1, <2>1, <2>2, <3>3 DEF Single
    <3>4. CASE InChan(i) = {} /\ InBatch(i) = {} /\ InFrame(i) = {}
                   /\ Single(InAgent(i)) /\ Gone(i) = {}
      BY <1>1, <2>1, <2>2, <3>4 DEF Single
    <3>5. CASE InChan(i) = {} /\ InBatch(i) = {} /\ InFrame(i) = {}
                   /\ InAgent(i) = {} /\ Single(Gone(i))
      BY <1>1, <2>1, <2>2, <3>5 DEF Single
    <3> QED
      BY <3>1, <3>2, <3>3, <3>4, <3>5 DEF Somewhere, At
  <2> QED
    BY <2>3
<1> QED
  BY <1>2, FS_Singleton

LEMMA InitConserved == Init => Conserved
<1> SUFFICES ASSUME Init, NEW i \in Item PROVE Nowhere(i) /\ ~(i <= offered)
  BY DEF Conserved
<1>1. InChan(i) = {} /\ InAgent(i) = {} /\ Gone(i) = {}
  BY DEF Init, WorkerInit, InChan, InAgent, Gone
<1>2. InBatch(i) = {} /\ InFrame(i) = {}
  BY DEF Init, WorkerInit, InBatch, InFrame, ItemsOf
<1> QED
  BY <1>1, <1>2 DEF Nowhere, Init, Item

\* Nothing moves.
LEMMA NothingMoves ==
    ASSUME Conserved, UNCHANGED <<offered, in, batch, sending, received, dropped, unfit, lost>>
    PROVE  Conserved'
BY DEF Conserved, Somewhere, Nowhere, InChan, InBatch, InFrame, InAgent, Gone, Item
-----------------------------------------------------------------------------
(* How each kind of place changes                                          *)

LEMMA Frames ==
    /\ ItemsOf(<<>>) = {}
    /\ \A i : ItemsOf(<<i>>) = {i}
    /\ \A s \in Seq(Item), i \in Item : ItemsOf(Append(s, i)) = ItemsOf(s) \cup {i}
<1>1. ItemsOf(<<>>) = {}
  BY DEF ItemsOf
<1>2. ASSUME NEW i PROVE ItemsOf(<<i>>) = {i}
  BY DEF ItemsOf
<1>3. ASSUME NEW s \in Seq(Item), NEW i \in Item
      PROVE  ItemsOf(Append(s, i)) = ItemsOf(s) \cup {i}
  <2>1. /\ DOMAIN s = 1..Len(s) /\ Len(s) \in Nat
        /\ DOMAIN Append(s, i) = 1..(Len(s) + 1)
        /\ \A j \in 1..Len(s) : Append(s, i)[j] = s[j]
        /\ Append(s, i)[Len(s) + 1] = i
    OBVIOUS
  <2> QED
    BY <2>1 DEF ItemsOf
<1> QED
  BY <1>1, <1>2, <1>3

\* The frame k is sending is the argument of the call.
LEMMA CallMoves ==
    ASSUME IndInv, NEW k \in Sender, NEW frame \in Seq(Item), BatchSend(k, frame), NEW i
    PROVE  /\ InFrame(i)' = IF i \in ItemsOf(frame) THEN InFrame(i) \cup {k} ELSE InFrame(i)
           /\ k \notin InFrame(i)
           /\ UNCHANGED <<received, lost>>
<1>1. /\ sending[k] = <<>> /\ sending' = [sending EXCEPT ![k] = frame]
      /\ sending \in [Sender -> Seq(Item)] /\ UNCHANGED <<received, lost>>
  BY DEF BatchSend, IndInv, Sending, Holds, TypeOK
<1>2. ItemsOf(sending[k]) = {}
  BY <1>1, Frames
<1>3. \A j \in Sender : ItemsOf(sending'[j]) = IF j = k THEN ItemsOf(frame)
                                                ELSE ItemsOf(sending[j])
  BY <1>1
<1> QED
  BY <1>1, <1>2, <1>3 DEF InFrame

LEMMA RefillMoves ==
    ASSUME IndInv, NEW k \in Sender, NEW items, Refill(k, items), NEW i
    PROVE  InBatch(i)' = IF i \in ItemsOf(items) THEN InBatch(i) \cup {k} ELSE InBatch(i) \ {k}
<1>1. batch' = [batch EXCEPT ![k] = items] /\ batch \in [Sender -> Seq(Item)]
  BY DEF Refill, IndInv, TypeOK
<1>2. \A j \in Sender : ItemsOf(batch'[j]) = IF j = k THEN ItemsOf(items)
                                              ELSE ItemsOf(batch[j])
  BY <1>1
<1> QED
  BY <1>2 DEF InBatch

\* The head of the channel was nowhere else, and what is behind it moves up.
MovesUp(i) ==
    /\ InChan(i) = {} => InChan(i)' = {}
    /\ Single(InChan(i)) => Single(InChan(i)')

LeavesChan(h) ==
    /\ h <= offered /\ UNCHANGED <<offered, dropped>>
    /\ InChan(h)' = {} /\ InBatch(h) = {} /\ InFrame(h) = {}
    /\ InAgent(h) = {} /\ Gone(h) = {}
    /\ \A i \in Item : i # h => MovesUp(i)

LEMMA TakeMoves ==
    ASSUME IndInv, Conserved, NEW k \in Sender, Take(k), NEW h \in Item, h = Head(in)
    PROVE  LeavesChan(h)
<1>1. /\ in \in Seq(Item) /\ in # <<>> /\ in' = Tail(in) /\ UNCHANGED <<offered, dropped>>
      /\ h \in Item /\ offered \in Nat
  BY Takes DEF Take, IndInv, TypeOK
<1>2. /\ Len(in) \in Nat /\ Len(in) > 0 /\ DOMAIN in = 1..Len(in) /\ h = in[1]
      /\ DOMAIN in' = 1..(Len(in) - 1)
      /\ \A j \in 1..(Len(in) - 1) : in'[j] = in[j + 1]
  BY <1>1
<1>3. 1 \in InChan(h)
  BY <1>2 DEF InChan
<1>4. h <= offered
  BY <1>1, <1>3 DEF Conserved, Nowhere
<1>5. /\ InChan(h) = {1} /\ InBatch(h) = {} /\ InFrame(h) = {}
      /\ InAgent(h) = {} /\ Gone(h) = {}
  <2>1. Somewhere(h)
    BY <1>1, <1>4 DEF Conserved
  <2> QED
    BY <1>3, <2>1 DEF Somewhere, At, Single
<1>6. ASSUME NEW i PROVE \A j : j \in InChan(i)' <=> j \in 1..(Len(in) - 1) /\ j + 1 \in InChan(i)
  BY <1>2 DEF InChan
<1>7. InChan(h)' = {}
  BY <1>5, <1>6
<1>8. ASSUME NEW i \in Item, i # h
      PROVE  MovesUp(i)
  <2>1. ASSUME InChan(i) = {} PROVE InChan(i)' = {}
    BY <1>6, <2>1
  <2>2. ASSUME Single(InChan(i)) PROVE Single(InChan(i)')
    <3>1. PICK j : InChan(i) = {j}
      BY <2>2 DEF Single
    <3>2. j \in 2..Len(in)
      BY <1>2, <1>8, <3>1 DEF InChan
    <3>3. InChan(i)' = {j - 1}
      BY <1>2, <1>6, <3>1, <3>2
    <3> QED
      BY <3>3 DEF Single
  <2> QED
    BY <2>1, <2>2 DEF MovesUp
<1> QED
  BY <1>1, <1>4, <1>5, <1>7, <1>8 DEF LeavesChan
-----------------------------------------------------------------------------
(* The steps                                                               *)

LEMMA OfferMoves ==
    ASSUME IndInv, Conserved, Offer
    PROVE  Conserved'
<1> PICK n : n = offered + 1
  OBVIOUS
<1>1. /\ offered' = n /\ n = offered + 1 /\ n \in Item /\ offered \in Nat
      /\ UNCHANGED <<batch, sending, received, unfit, lost>>
      /\ in \in Seq(Item) /\ DOMAIN in = 1..Len(in) /\ Len(in) \in Nat
  BY DEF Offer, workerVars, IndInv, TypeOK, Item
<1>2. ASSUME NEW i
      PROVE  UNCHANGED <<InBatch(i), InFrame(i), InAgent(i)>>
  BY <1>1 DEF InBatch, InFrame, InAgent
<1>3. Nowhere(n)
  BY <1>1 DEF Conserved
<1>4. ASSUME NEW i \in Item, i # n PROVE UNCHANGED <<InChan(i), Gone(i)>>
  <2>1. CASE in' = Append(in, n) /\ UNCHANGED dropped
    <3>1. DOMAIN in' = 1..(Len(in) + 1) /\ in'[Len(in) + 1] = n
          /\ \A j \in 1..Len(in) : in'[j] = in[j]
      BY <1>1, <2>1
    <3> QED
      BY <1>1, <1>4, <2>1, <3>1 DEF InChan, Gone
  <2>2. CASE dropped' = dropped \cup {n} /\ UNCHANGED in
    BY <1>1, <1>4, <2>2 DEF InChan, Gone
  <2> QED
    BY <1>1, <2>1, <2>2 DEF Offer
<1>5. Somewhere(n)'
  <2>1. CASE in' = Append(in, n) /\ UNCHANGED dropped
    <3>1. DOMAIN in' = 1..(Len(in) + 1) /\ in'[Len(in) + 1] = n
          /\ \A j \in 1..Len(in) : in'[j] = in[j]
      BY <1>1, <2>1
    <3>2. InChan(n)' = {Len(in) + 1}
      BY <1>1, <1>3, <3>1 DEF InChan, Nowhere
    <3>3. Gone(n)' = {}
      BY <1>1, <1>3, <2>1 DEF Gone, Nowhere
    <3> QED
      BY <1>2, <1>3, <3>2, <3>3 DEF Somewhere, At, Single, Nowhere
  <2>2. CASE dropped' = dropped \cup {n} /\ UNCHANGED in
    <3>1. InChan(n)' = {}
      BY <1>3, <2>2 DEF InChan, Nowhere
    <3>2. Gone(n)' = {"dropped"}
      BY <1>1, <1>3, <2>2 DEF Gone, Nowhere
    <3> QED
      BY <1>2, <1>3, <3>1, <3>2 DEF Somewhere, At, Single, Nowhere
  <2> QED
    BY <1>1, <2>1, <2>2 DEF Offer
<1>6. ASSUME NEW i \in Item PROVE IF i <= n THEN Somewhere(i)' ELSE Nowhere(i)'
  <2>1. CASE i = n
    BY <1>5, <2>1, <1>1
  <2>2. CASE i # n
    <3>1. IF i <= offered THEN Somewhere(i) ELSE Nowhere(i)
      BY DEF Conserved
    <3>2. i <= n <=> i <= offered
      BY <1>1, <2>2 DEF Item
    <3> QED
      BY <1>2, <1>4, <2>2, <3>1, <3>2 DEF Somewhere, Nowhere
  <2> QED
    BY <2>1, <2>2
<1> QED
  BY <1>1, <1>6 DEF Conserved, Item

\* What leaves a frame goes to one place.
LEMMA FrameMoves ==
    ASSUME IndInv, Conserved, NEW k \in Sender, Deliver(k) \/ GiveUp(k),
           UNCHANGED senderVars
    PROVE  Conserved'
<1>1. /\ sending' = [sending EXCEPT ![k] = <<>>] /\ sending \in [Sender -> Seq(Item)]
      /\ received \in Seq([from : Sender, items : Seq(Item)])
      /\ UNCHANGED <<offered, in, batch, dropped, unfit>>
  BY DEF Deliver, GiveUp, senderVars, IndInv, TypeOK
<1>2. \A j \in Sender : ItemsOf(sending'[j]) = IF j = k THEN {} ELSE ItemsOf(sending[j])
  BY <1>1, Frames
<1>3. ASSUME NEW i PROVE /\ UNCHANGED <<InChan(i), InBatch(i)>>
                         /\ InFrame(i)' = InFrame(i) \ {k}
  BY <1>1, <1>2 DEF InChan, InBatch, InFrame
<1>4. ASSUME NEW i \in Item, k \notin InFrame(i) PROVE UNCHANGED <<InAgent(i), Gone(i)>>
  <2>1. i \notin ItemsOf(sending[k])
    BY <1>4 DEF InFrame
  <2>2. CASE Deliver(k)
    <3> DEFINE r == [from |-> k, items |-> sending[k]]
    <3>1. received' = Append(received, r) /\ r.items = sending[k] /\ UNCHANGED lost
      BY <2>2 DEF Deliver
    <3> HIDE DEF r
    <3>2. /\ DOMAIN received = 1..Len(received) /\ Len(received) \in Nat
          /\ DOMAIN received' = 1..(Len(received) + 1)
          /\ \A j \in 1..Len(received) : received'[j] = received[j]
          /\ received'[Len(received) + 1] = r
      BY <1>1, <3>1
    <3> QED
      BY <1>1, <2>1, <3>1, <3>2 DEF InAgent, Gone
  <2>3. CASE GiveUp(k)
    BY <1>1, <2>1, <2>3 DEF GiveUp, InAgent, Gone
  <2> QED
    BY <2>2, <2>3
<1>5. ASSUME NEW i \in Item, k \in InFrame(i), i <= offered PROVE Somewhere(i)'
  <2>1. /\ InChan(i) = {} /\ InBatch(i) = {} /\ InFrame(i) = {k}
        /\ InAgent(i) = {} /\ Gone(i) = {}
    BY <1>5 DEF Conserved, Somewhere, At, Single
  <2>2. i \in ItemsOf(sending[k])
    BY <1>5 DEF InFrame
  <2>3. CASE Deliver(k)
    <3> DEFINE r == [from |-> k, items |-> sending[k]]
    <3>1. received' = Append(received, r) /\ r.items = sending[k] /\ UNCHANGED lost
      BY <2>3 DEF Deliver
    <3> HIDE DEF r
    <3>2. /\ DOMAIN received = 1..Len(received) /\ Len(received) \in Nat
          /\ DOMAIN received' = 1..(Len(received) + 1)
          /\ \A j \in 1..Len(received) : received'[j] = received[j]
          /\ received'[Len(received) + 1] = r
      BY <1>1, <3>1
    <3>3. InAgent(i)' = {Len(received) + 1}
      BY <2>1, <2>2, <3>1, <3>2 DEF InAgent
    <3>4. Gone(i)' = {}
      BY <1>1, <2>1, <3>1 DEF Gone
    <3> QED
      BY <1>3, <2>1, <3>3, <3>4 DEF Somewhere, At, Single
  <2>4. CASE GiveUp(k)
    <3>1. InAgent(i)' = {}
      BY <2>1, <2>4 DEF GiveUp, InAgent
    <3>2. Gone(i)' = {"lost"}
      BY <1>1, <2>1, <2>2, <2>4 DEF GiveUp, Gone
    <3> QED
      BY <1>3, <2>1, <3>1, <3>2 DEF Somewhere, At, Single
  <2> QED
    BY <2>3, <2>4
<1>6. ASSUME NEW i \in Item PROVE IF i <= offered THEN Somewhere(i)' ELSE Nowhere(i)'
  <2>1. CASE k \in InFrame(i)
    <3>1. i <= offered
      BY <2>1 DEF Conserved, Nowhere
    <3> QED
      BY <1>5, <2>1, <3>1
  <2>2. CASE k \notin InFrame(i)
    <3>1. UNCHANGED <<InChan(i), InBatch(i), InFrame(i), InAgent(i), Gone(i)>>
      BY <1>3, <1>4, <2>2
    <3> QED
      BY <3>1 DEF Conserved, Somewhere, Nowhere
  <2> QED
    BY <2>1, <2>2
<1> QED
  BY <1>1, <1>6 DEF Conserved, Item

\* An item that moves up in the channel, or from the batch to the frame of a
\* sender, is still in one place.
LEMMA AtMoves ==
    ASSUME NEW a, NEW b, NEW c, NEW d, NEW e, At(a, b, c, d, e)
    PROVE  /\ \A x : (a = {} => x = {}) /\ (Single(a) => Single(x)) => At(x, b, c, d, e)
           /\ \A k \in b : At(a, b \ {k}, c \cup {k}, d, e)
<1>1. \A x : (a = {} => x = {}) /\ (Single(a) => Single(x)) => At(x, b, c, d, e)
  BY DEF At
<1>2. ASSUME NEW k \in b PROVE At(a, b \ {k}, c \cup {k}, d, e)
  <2>1. a = {} /\ Single(b) /\ c = {} /\ d = {} /\ e = {}
    BY <1>2 DEF At
  <2>2. b = {k}
    BY <1>2, <2>1 DEF Single
  <2>3. b \ {k} = {} /\ c \cup {k} = {k}
    BY <2>1, <2>2
  <2> QED
    BY <2>1, <2>3 DEF At, Single
<1> QED
  BY <1>1, <1>2

\* The batch becomes the frame, and another item may begin the next batch.
LEMMA FlushMoves ==
    ASSUME IndInv, NEW k \in Sender, BatchSend(k, batch[k]), NEW items, Refill(k, items),
           UNCHANGED <<dropped, unfit>>, NEW i
    PROVE  /\ UNCHANGED <<InAgent(i), Gone(i)>>
           /\ InBatch(i)' = IF i \in ItemsOf(items) THEN InBatch(i) \cup {k}
                            ELSE InBatch(i) \ {k}
           /\ InFrame(i)' = IF k \in InBatch(i) THEN InFrame(i) \cup {k} ELSE InFrame(i)
<1>1. batch[k] \in Seq(Item)
  BY DEF IndInv, TypeOK
<1>2. /\ InFrame(i)' = IF i \in ItemsOf(batch[k]) THEN InFrame(i) \cup {k} ELSE InFrame(i)
      /\ UNCHANGED <<received, lost>>
  BY <1>1, CallMoves
<1>3. k \in InBatch(i) <=> i \in ItemsOf(batch[k])
  BY DEF InBatch
<1> QED
  BY <1>2, <1>3, RefillMoves DEF InAgent, Gone

LEMMA TickMoves ==
    ASSUME IndInv, Conserved, NEW k \in Sender, BatchSend(k, batch[k]), Refill(k, <<>>),
           UNCHANGED <<offered, in, dropped, unfit>>
    PROVE  Conserved'
<1>1. ASSUME NEW i \in Item
      PROVE  /\ UNCHANGED <<InChan(i), InAgent(i), Gone(i)>>
             /\ InBatch(i)' = InBatch(i) \ {k}
             /\ InFrame(i)' = IF k \in InBatch(i) THEN InFrame(i) \cup {k} ELSE InFrame(i)
  BY FlushMoves, Frames DEF InChan
<1>2. ASSUME NEW i \in Item PROVE IF i <= offered THEN Somewhere(i)' ELSE Nowhere(i)'
  <2>0. IF i <= offered THEN Somewhere(i) ELSE Nowhere(i)
    BY DEF Conserved
  <2>1. CASE k \in InBatch(i)
    <3>1. i <= offered /\ Somewhere(i)
      BY <2>0, <2>1 DEF Nowhere
    <3> QED
      BY <1>1, <2>1, <3>1, AtMoves DEF Somewhere
  <2>2. CASE k \notin InBatch(i)
    <3>1. UNCHANGED <<InBatch(i), InFrame(i)>>
      BY <1>1, <2>2
    <3> QED
      BY <1>1, <2>0, <3>1 DEF Somewhere, Nowhere
  <2> QED
    BY <2>1, <2>2
<1> QED
  BY <1>2 DEF Conserved, Item

LEMMA TakesMove ==
    ASSUME IndInv, Conserved, NEW k \in Sender,
           TakeUnfit(k) \/ TakeAndBuffer(k) \/ TakeAndSendAlone(k) \/ TakeAndFlush(k)
    PROVE  Conserved'
<1>0. Take(k)
  BY DEF TakeUnfit, TakeAndBuffer, TakeAndSendAlone, TakeAndFlush
<1>p. PICK h \in Item : h = Head(in)
  BY <1>0, Takes
<1>l. LeavesChan(h)
  BY <1>0, <1>p, TakeMoves
<1>1. /\ h <= offered /\ UNCHANGED <<offered, dropped>>
      /\ InChan(h)' = {} /\ InBatch(h) = {} /\ InFrame(h) = {}
      /\ InAgent(h) = {} /\ Gone(h) = {}
      /\ \A i \in Item : i # h => MovesUp(i)
  BY <1>l DEF LeavesChan
<1> DEFINE Stays(i) == UNCHANGED <<InBatch(i), InFrame(i), InAgent(i), Gone(i)>>
<1>2. ASSUME NEW i \in Item, i # h, Stays(i)
      PROVE  IF i <= offered THEN Somewhere(i)' ELSE Nowhere(i)'
  <2>1. IF i <= offered THEN Somewhere(i) ELSE Nowhere(i)
    BY DEF Conserved
  <2> QED
    <3>1. /\ InChan(i) = {} => InChan(i)' = {}
          /\ Single(InChan(i)) => Single(InChan(i)')
      BY <1>1, <1>2 DEF MovesUp
    <3>2. CASE Somewhere(i) /\ i <= offered
      <4>1. At(InChan(i)', InBatch(i), InFrame(i), InAgent(i), Gone(i))
        BY <3>1, <3>2, AtMoves DEF Somewhere
      <4> QED
        BY <1>2, <3>2, <4>1 DEF Somewhere
    <3>3. CASE Nowhere(i) /\ ~(i <= offered)
      BY <1>2, <3>1, <3>3 DEF Nowhere
    <3> QED
      BY <2>1, <3>2, <3>3
<1>3. ASSUME Somewhere(h)', \A i \in Item : i # h => Stays(i) PROVE Conserved'
  BY <1>1, <1>2, <1>3 DEF Conserved, Item
<1>4. CASE TakeUnfit(k)
  <2>1. unfit' = unfit \cup {h} /\ UNCHANGED <<batch, sending, received, lost, dropped>>
    BY <1>1, <1>p, <1>4 DEF TakeUnfit, workerVars
  <2>2. ASSUME NEW i PROVE /\ UNCHANGED <<InBatch(i), InFrame(i), InAgent(i)>>
                           /\ i # h => UNCHANGED Gone(i)
    BY <2>1 DEF InBatch, InFrame, InAgent, Gone
  <2>3. Gone(h)' = {"unfit"}
    BY <1>1, <2>1 DEF Gone
  <2>4. Somewhere(h)'
    BY <1>1, <2>2, <2>3 DEF Somewhere, At, Single
  <2> QED
    BY <1>3, <2>2, <2>4
<1>5. CASE TakeAndBuffer(k)
  <2>1. /\ batch' = [batch EXCEPT ![k] = Append(@, h)]
        /\ UNCHANGED <<unfit, sending, received, lost, dropped>>
    BY <1>1, <1>p, <1>5 DEF TakeAndBuffer, workerVars
  <2>2. /\ batch \in [Sender -> Seq(Item)]
        /\ ItemsOf(Append(batch[k], h)) = ItemsOf(batch[k]) \cup {h}
    BY <1>1, Frames DEF IndInv, TypeOK
  <2>3. \A j \in Sender : ItemsOf(batch'[j]) = IF j = k THEN ItemsOf(batch[j]) \cup {h}
                                                ELSE ItemsOf(batch[j])
    BY <2>1, <2>2
  <2>4. ASSUME NEW i PROVE /\ UNCHANGED <<InFrame(i), InAgent(i), Gone(i)>>
                           /\ InBatch(i)' = IF i = h THEN InBatch(i) \cup {k} ELSE InBatch(i)
    <3>1. UNCHANGED <<InFrame(i), InAgent(i), Gone(i)>>
      BY <2>1 DEF InFrame, InAgent, Gone
    <3>2. InBatch(i)' = IF i = h THEN InBatch(i) \cup {k} ELSE InBatch(i)
      BY <2>3 DEF InBatch
    <3> QED
      BY <3>1, <3>2
  <2>5. Somewhere(h)'
    BY <1>1, <2>4 DEF Somewhere, At, Single
  <2> QED
    BY <1>3, <2>4, <2>5
<1>6. CASE TakeAndSendAlone(k)
  <2>1. BatchSend(k, <<h>>) /\ <<h>> \in Seq(Item) /\ UNCHANGED <<batch, unfit, dropped>>
    BY <1>1, <1>p, <1>6 DEF TakeAndSendAlone
  <2>2. ASSUME NEW i PROVE /\ UNCHANGED <<InBatch(i), InAgent(i), Gone(i)>>
                           /\ InFrame(i)' = IF i = h THEN InFrame(i) \cup {k} ELSE InFrame(i)
    <3>1. /\ InFrame(i)' = IF i \in ItemsOf(<<h>>) THEN InFrame(i) \cup {k} ELSE InFrame(i)
          /\ UNCHANGED <<received, lost>>
      BY <2>1, CallMoves
    <3>2. ItemsOf(<<h>>) = {h}
      BY Frames
    <3>3. UNCHANGED <<InBatch(i), InAgent(i), Gone(i)>>
      BY <2>1, <3>1 DEF InBatch, InAgent, Gone
    <3> QED
      BY <3>1, <3>2, <3>3
  <2>3. Somewhere(h)'
    BY <1>1, <2>2 DEF Somewhere, At, Single
  <2> QED
    BY <1>3, <2>2, <2>3
<1>7. CASE TakeAndFlush(k)
  <2>1. BatchSend(k, batch[k]) /\ Refill(k, <<h>>) /\ UNCHANGED <<dropped, unfit>>
    BY <1>1, <1>p, <1>7 DEF TakeAndFlush
  <2>2. ASSUME NEW i
        PROVE  /\ UNCHANGED <<InAgent(i), Gone(i)>>
               /\ InBatch(i)' = IF i = h THEN InBatch(i) \cup {k} ELSE InBatch(i) \ {k}
               /\ InFrame(i)' = IF k \in InBatch(i) THEN InFrame(i) \cup {k} ELSE InFrame(i)
    BY <2>1, FlushMoves, Frames
  <2>3. Somewhere(h)'
    BY <1>1, <2>2 DEF Somewhere, At, Single
  <2>4. ASSUME NEW i \in Item, i # h
        PROVE  IF i <= offered THEN Somewhere(i)' ELSE Nowhere(i)'
    <3>1. CASE k \notin InBatch(i)
      BY <1>2, <2>2, <2>4, <3>1
    <3>2. CASE k \in InBatch(i)
      <4>1. i <= offered /\ Somewhere(i)
        BY <3>2 DEF Conserved, Nowhere
      <4>2. At(InChan(i), InBatch(i)', InFrame(i)', InAgent(i)', Gone(i)')
        BY <2>2, <2>4, <3>2, <4>1, AtMoves DEF Somewhere
      <4> QED
        <5>1. /\ InChan(i) = {} => InChan(i)' = {}
              /\ Single(InChan(i)) => Single(InChan(i)')
          BY <1>1, <2>4 DEF MovesUp
        <5>2. At(InChan(i)', InBatch(i)', InFrame(i)', InAgent(i)', Gone(i)')
          BY <4>2, <5>1, AtMoves
        <5> QED
          BY <4>1, <5>2 DEF Somewhere
    <3> QED
      BY <3>1, <3>2
  <2> QED
    BY <1>1, <2>3, <2>4 DEF Conserved, Item
<1> QED
  BY <1>4, <1>5, <1>6, <1>7
-----------------------------------------------------------------------------
LEMMA StepConserves == IndInv /\ Conserved /\ [Next]_vars => Conserved'
<1> SUFFICES ASSUME IndInv, Conserved, [Next]_vars PROVE Conserved'
  OBVIOUS
<1> DEFINE Still == UNCHANGED <<offered, in, batch, sending, received, dropped, unfit, lost>>
<1>1. CASE UNCHANGED vars
  BY <1>1, NothingMoves DEF vars, senderVars, workerVars
<1>2. CASE Offer
  BY <1>2, OfferMoves
<1>3. CASE CloseIn \/ (AgentStep /\ UNCHANGED senderVars)
  <2>1. Still
    BY <1>3 DEF CloseIn, AgentStep, AgentDown, AgentUp, AgentHangsUp, senderVars, workerVars
  <2> QED
    BY <2>1, NothingMoves
<1>4. ASSUME NEW k \in Sender, Start(k) \/ SenderStep(k) PROVE Conserved'
  <2>1. CASE Start(k) \/ Return(k)
    BY <2>1, NothingMoves DEF Start, Return, CloseConn, workerVars
  <2>2. CASE Tick(k)
    BY <2>2, TickMoves DEF Tick
  <2>3. CASE SeeClosed(k)
    <3>1. CASE LeavesUnsent(k)
      BY <2>3, <3>1, TickMoves DEF SeeClosed
    <3>2. CASE ~LeavesUnsent(k)
      BY <2>3, <3>2, NothingMoves DEF SeeClosed, workerVars
    <3> QED
      BY <3>1, <3>2
  <2>4. CASE TakeUnfit(k) \/ TakeAndBuffer(k) \/ TakeAndSendAlone(k) \/ TakeAndFlush(k)
    BY <2>4, TakesMove
  <2>5. CASE WorkerStep(k) /\ UNCHANGED senderVars
    <3>1. Deliver(k) \/ GiveUp(k) \/ UNCHANGED <<sending, received, lost>>
      BY <2>5 DEF WorkerStep, Dial, Write, BrokenPipe, Redial, WriteError
    <3>2. CASE Deliver(k) \/ GiveUp(k)
      BY <2>5, <3>2, FrameMoves
    <3>3. CASE UNCHANGED <<sending, received, lost>>
      BY <2>5, <3>3, NothingMoves DEF senderVars
    <3> QED
      BY <3>1, <3>2, <3>3
  <2> QED
    BY <1>4, <2>1, <2>2, <2>3, <2>4, <2>5 DEF SenderStep
<1> QED
  BY <1>1, <1>2, <1>3, <1>4 DEF Next

\* Every item offered to the channel is in the channel, in the batch or the
\* frame of one sender or with the agent, or was dropped, unfit or lost, and in
\* one of these only: through flushes, retries and oversized items.
THEOREM InOnePlaceCorrect == Spec => []InOnePlace
<1>1. Init => Conserved
  BY InitConserved
<1>2. IndInv /\ Conserved /\ [Next]_vars => Conserved'
  BY StepConserves
<1>3. IndInv /\ Conserved => InOnePlace
  <2> SUFFICES ASSUME IndInv, Conserved PROVE InOnePlace
    OBVIOUS
  <2>1. \A i \in Known : i \in Item /\ i <= offered
    BY DEF Known, IndInv, TypeOK, Item
  <2> QED
    BY <2>1, SomewhereOnce DEF Conserved, InOnePlace, IndInv
<1> QED
  BY <1>1, <1>2, <1>3, Invariance, PTL DEF Spec
-----------------------------------------------------------------------------
(* Order                                                                   *)

Before(S, T) == \A x \in S, y \in T : x < y

Ordinary(i) == size[i] <= Room

\* The items of ordinary size of a sequence enter it in their order.
Rising(s) ==
    \A a, b \in DOMAIN s : a < b /\ Ordinary(s[a]) /\ Ordinary(s[b]) => s[a] < s[b]

\* The items of ordinary size of sender k at the agent, in its frame, in its
\* batch, and what is in the channel.
Got(k)  == {i \in Item : Ordinary(i) /\ \E m \in DOMAIN received :
                            received[m].from = k /\ i \in ItemsOf(received[m].items)}
Sent(k) == {i \in ItemsOf(sending[k]) : Ordinary(i)}
Kept(k) == ItemsOf(batch[k])
Left    == ItemsOf(in)

\* Each of four sets is before the next ones, and all have been offered.
InLine(g, s, b, c) ==
    /\ Before(g, s) /\ Before(g, b) /\ Before(g, c)
    /\ Before(s, b) /\ Before(s, c) /\ Before(b, c)

Line(k) ==
    /\ InLine(Got(k), Sent(k), Kept(k), Left)
    /\ Got(k) \cup Sent(k) \cup Kept(k) \subseteq Known
    /\ Rising(batch[k]) /\ Rising(sending[k])
    /\ \A i \in Kept(k) : Ordinary(i)

Ordered ==
    /\ \A k \in Sender : Line(k)
    /\ Left \subseteq Known
    /\ \A a, b \in DOMAIN in : a < b => in[a] < in[b]
    /\ InOrder

\* Smaller sets stay in line, and empty ones are in any line.
LEMMA LineShrinks ==
    ASSUME NEW g, NEW s, NEW b, NEW c, InLine(g, s, b, c),
           NEW s2, s2 \subseteq s, NEW b2, b2 \subseteq b, NEW c2, c2 \subseteq c
    PROVE  InLine(g, s2, b2, c2)
BY DEF InLine, Before

LEMMA InitOrdered == Init => Ordered
<1> SUFFICES ASSUME Init PROVE Ordered
  OBVIOUS
<1>1. /\ in = <<>> /\ received = <<>> /\ DOMAIN in = {} /\ DOMAIN received = {}
      /\ \A k \in Sender : batch[k] = <<>> /\ sending[k] = <<>>
  BY DEF Init, WorkerInit
<1>2. ItemsOf(<<>>) = {} /\ Rising(<<>>)
  BY DEF ItemsOf, Rising
<1>3. Left = {}
  BY <1>1, <1>2 DEF Left
<1>4. ASSUME NEW k \in Sender PROVE Line(k)
  <2>1. Got(k) = {} /\ Sent(k) = {} /\ Kept(k) = {}
    BY <1>1, <1>2 DEF Got, Sent, Kept
  <2> QED
    BY <1>1, <1>2, <1>3, <2>1 DEF Line, InLine, Before
<1>5. InOrder
  BY <1>1 DEF InOrder
<1> QED
  BY <1>1, <1>3, <1>4, <1>5 DEF Ordered

\* What a step leaves alone.
LEMMA SameSets ==
    ASSUME NEW k \in Sender, UNCHANGED <<size, stream>>
    PROVE  /\ \A i : Ordinary(i)' <=> Ordinary(i)
           /\ UNCHANGED received => Got(k)' = Got(k)
           /\ sending'[k] = sending[k] => Sent(k)' = Sent(k)
           /\ batch'[k] = batch[k] => Kept(k)' = Kept(k)
           /\ UNCHANGED in => UNCHANGED Left
           /\ \A s : Rising(s)' <=> Rising(s)
           /\ UNCHANGED received => UNCHANGED InOrder
<1>1. UNCHANGED Room
  BY DEF Room, Offset
<1>2. \A i : Ordinary(i)' <=> Ordinary(i)
  BY <1>1 DEF Ordinary
<1>3. UNCHANGED received => Got(k)' = Got(k)
  BY <1>2 DEF Got, Item
<1>4. sending'[k] = sending[k] => Sent(k)' = Sent(k)
  BY <1>2 DEF Sent
<1>5. batch'[k] = batch[k] => Kept(k)' = Kept(k)
  BY DEF Kept
<1>6. UNCHANGED in => UNCHANGED Left
  BY DEF Left
<1>7. \A s : Rising(s)' <=> Rising(s)
  BY <1>2 DEF Rising
<1>8. UNCHANGED received => UNCHANGED InOrder
  BY <1>1 DEF InOrder
<1> QED
  BY <1>2, <1>3, <1>4, <1>5, <1>6, <1>7, <1>8

\* A sender that a step leaves alone stays in line while the channel shrinks.
LEMMA LineKept ==
    ASSUME Ordered, NEW j \in Sender, UNCHANGED <<size, stream, offered>>,
           Got(j)' = Got(j), sending'[j] = sending[j], batch'[j] = batch[j],
           Left' \subseteq Left
    PROVE  Line(j)'
<1>1. Line(j)
  BY DEF Ordered
<1>2. Sent(j)' = Sent(j) /\ Kept(j)' = Kept(j) /\ UNCHANGED Known
  BY SameSets DEF Known
<1>3. InLine(Got(j), Sent(j), Kept(j), Left')
  BY <1>1, LineShrinks DEF Line
<1> QED
  BY <1>1, <1>2, <1>3, SameSets DEF Line

\* Nothing that order depends on changes.
LEMMA StillOrdered ==
    ASSUME Ordered, UNCHANGED <<size, stream, offered, in, received, sending, batch>>
    PROVE  Ordered'
<1>1. ASSUME NEW k \in Sender PROVE Line(k)' /\ UNCHANGED Left /\ UNCHANGED InOrder
  BY SameSets, LineKept
<1>2. CASE Sender = {}
  BY <1>2 DEF Ordered, Left, Known, InOrder, Room, Offset
<1>3. CASE Sender # {}
  BY <1>1, <1>3 DEF Ordered, Known
<1> QED
  BY <1>2, <1>3

\* When a step of sender k leaves the other senders alone, only k has to be
\* looked at.
LEMMA OrderOfOne ==
    ASSUME Ordered, NEW k \in Sender, UNCHANGED <<size, stream, offered>>,
           Left' \subseteq Left, \A a, b \in DOMAIN in' : a < b => in'[a] < in'[b],
           \A j \in Sender : j # k =>
               /\ Got(j)' = Got(j) /\ sending'[j] = sending[j] /\ batch'[j] = batch[j],
           Line(k)', InOrder'
    PROVE  Ordered'
<1>1. ASSUME NEW j \in Sender PROVE Line(j)'
  <2>1. CASE j = k
    BY <2>1
  <2>2. CASE j # k
    BY <2>2, LineKept
  <2> QED
    BY <2>1, <2>2
<1>2. Left' \subseteq Known'
  BY DEF Ordered, Known
<1> QED
  BY <1>1, <1>2 DEF Ordered

LEMMA OfferOrdered ==
    ASSUME IndInv, Ordered, Offer
    PROVE  Ordered'
<1> PICK n : n = offered + 1
  OBVIOUS
<1>1. /\ offered' = n /\ n \in Item /\ offered \in Nat
      /\ UNCHANGED <<size, stream, batch, sending, received>>
      /\ in \in Seq(Item)
      /\ in' = Append(in, n) \/ in' = in
  BY DEF Offer, workerVars, IndInv, TypeOK, Item
<1>2. /\ DOMAIN in = 1..Len(in) /\ Len(in) \in Nat
      /\ DOMAIN Append(in, n) = 1..(Len(in) + 1) /\ Append(in, n)[Len(in) + 1] = n
      /\ \A j \in 1..Len(in) : Append(in, n)[j] = in[j]
  BY <1>1
<1>3. Known' = Known \cup {n} /\ \A i \in Known : i < n
  BY <1>1 DEF Known
<1>4. Left' \subseteq Left \cup {n}
  BY <1>1, Frames DEF Left
<1>5. \A a, b \in DOMAIN in' : a < b => in'[a] < in'[b]
  <2>1. CASE in' = in
    BY <2>1 DEF Ordered
  <2>2. CASE in' = Append(in, n)
    <3> SUFFICES ASSUME NEW a \in 1..(Len(in) + 1), NEW b \in 1..(Len(in) + 1), a < b
                 PROVE  in'[a] < in'[b]
      BY <1>2, <2>2
    <3>1. a \in 1..Len(in) /\ in'[a] = in[a] /\ in[a] \in Left
      BY <1>2, <2>2 DEF Left, ItemsOf
    <3>2. CASE b = Len(in) + 1
      BY <1>2, <1>3, <2>2, <3>1, <3>2 DEF Ordered
    <3>3. CASE b \in 1..Len(in)
      BY <1>2, <2>2, <3>1, <3>3 DEF Ordered
    <3> QED
      BY <1>2, <3>2, <3>3
  <2> QED
    BY <1>1, <2>1, <2>2
<1>6. ASSUME NEW k \in Sender PROVE Line(k)'
  <2>1. Line(k)
    BY DEF Ordered
  <2>2. Got(k)' = Got(k) /\ Sent(k)' = Sent(k) /\ Kept(k)' = Kept(k)
    BY <1>1, SameSets
  <2>3. InLine(Got(k), Sent(k), Kept(k), Left \cup {n})
    BY <1>3, <2>1 DEF Line, InLine, Before
  <2>4. InLine(Got(k), Sent(k), Kept(k), Left')
    BY <1>4, <2>3, LineShrinks
  <2> QED
    BY <1>1, <1>3, <2>1, <2>2, <2>4, SameSets DEF Line
<1>7. InOrder'
  BY <1>1 DEF Ordered, InOrder, Room, Offset
<1> QED
  BY <1>3, <1>4, <1>5, <1>6, <1>7 DEF Ordered
-----------------------------------------------------------------------------
(* A frame arrives, or is given up                                         *)

LEMMA DeliverOrdered ==
    ASSUME IndInv, Ordered, NEW k \in Sender, Deliver(k), UNCHANGED <<senderVars, stream>>
    PROVE  Ordered'
<1> DEFINE r == [from |-> k, items |-> sending[k]]
<1>1. /\ received' = Append(received, r)
      /\ sending' = [sending EXCEPT ![k] = <<>>] /\ sending \in [Sender -> Seq(Item)]
      /\ received \in Seq([from : Sender, items : Seq(Item)])
      /\ UNCHANGED <<size, offered, in, batch, stream>>
      /\ r.from = k /\ r.items = sending[k]
  BY DEF Deliver, senderVars, IndInv, TypeOK
<1> HIDE DEF r
<1>2. /\ DOMAIN received = 1..Len(received) /\ Len(received) \in Nat
      /\ DOMAIN received' = 1..(Len(received) + 1)
      /\ \A j \in 1..Len(received) : received'[j] = received[j]
      /\ received'[Len(received) + 1] = r
  BY <1>1
<1> DEFINE N == Len(received) + 1
           All == DOMAIN received
<1>n. /\ DOMAIN received' = All \cup {N} /\ N \notin All /\ received'[N] = r
      /\ \A m \in All : received'[m] = received[m]
  BY <1>2
<1> HIDE DEF N, All
<1>3. \A i : Ordinary(i)' <=> Ordinary(i)
  BY <1>1, SameSets
<1>4. ASSUME NEW j \in Sender, j # k
      PROVE  Got(j)' = Got(j) /\ sending'[j] = sending[j] /\ batch'[j] = batch[j]
  <2>1. ASSUME NEW i \in Item
        PROVE  (\E m \in DOMAIN received' : received'[m].from = j /\ i \in ItemsOf(received'[m].items))
                 <=> (\E m \in DOMAIN received : received[m].from = j /\ i \in ItemsOf(received[m].items))
    BY <1>1, <1>n, <1>4 DEF All
  <2>2. Got(j)' = Got(j)
    BY <1>3, <2>1 DEF Got, Item
  <2> QED
    BY <1>1, <1>4, <2>2
<1>5. Got(k)' = Got(k) \cup Sent(k)
  <2>1. ASSUME NEW i \in Item
        PROVE  (\E m \in DOMAIN received' : received'[m].from = k /\ i \in ItemsOf(received'[m].items))
                 <=> \/ \E m \in DOMAIN received : received[m].from = k /\ i \in ItemsOf(received[m].items)
                     \/ i \in ItemsOf(sending[k])
    BY <1>1, <1>n DEF All
  <2>2. ItemsOf(sending[k]) \subseteq Item
    BY <1>1 DEF ItemsOf
  <2> QED
    BY <1>3, <2>1, <2>2 DEF Got, Sent, Item
<1>6. sending'[k] = <<>> /\ Sent(k)' = {} /\ Rising(sending[k])'
  <2>1. sending'[k] = <<>>
    BY <1>1
  <2>2. ItemsOf(<<>>) = {} /\ Rising(<<>>)
    BY DEF ItemsOf, Rising
  <2> QED
    BY <1>1, <2>1, <2>2, SameSets DEF Sent
<1>7. Line(k)'
  <2>1. Line(k)
    BY DEF Ordered
  <2>2. Kept(k)' = Kept(k) /\ Left' = Left /\ Known' = Known /\ Rising(batch[k])'
    BY <1>1, <2>1, SameSets DEF Known, Line
  <2>3. InLine(Got(k) \cup Sent(k), {}, Kept(k), Left)
    BY <2>1 DEF Line, InLine, Before
  <2> QED
    BY <1>3, <1>5, <1>6, <2>1, <2>2, <2>3 DEF Line
<1>8. InOrder'
  <2>0. UNCHANGED Room
    BY <1>1 DEF Room, Offset
  <2> SUFFICES ASSUME NEW m \in DOMAIN received', NEW n \in DOMAIN received',
                      NEW a \in DOMAIN received'[m].items, NEW b \in DOMAIN received'[n].items,
                      received'[m].from = received'[n].from,
                      size'[received'[m].items[a]] <= Room', size'[received'[n].items[b]] <= Room',
                      m < n \/ (m = n /\ a < b)
               PROVE  received'[m].items[a] < received'[n].items[b]
    BY DEF InOrder
  <2>a. /\ m \in All \cup {N} /\ n \in All \cup {N}
        /\ Ordinary(received'[m].items[a]) /\ Ordinary(received'[n].items[b])
    BY <1>1, <1>n, <2>0 DEF Ordinary
  <2>1. CASE n \in All
    <3>1. m \in All
      BY <1>2, <2>a, <2>1 DEF N, All
    <3> QED
      BY <1>n, <2>a, <2>1, <3>1 DEF Ordered, InOrder, Ordinary, All
  <2>2. CASE n = N /\ m \in All
    <3>1. received'[n] = r /\ received'[m] = received[m]
      BY <1>n, <2>2
    <3>2. received[m].items \in Seq(Item)
      <4>1. received[m] \in [from : Sender, items : Seq(Item)]
        <5> DEFINE Frame == [from : Sender, items : Seq(Item)]
        <5>1. received \in Seq(Frame)
          BY <1>1
        <5> HIDE DEF Frame
        <5>2. received[m] \in Frame
          BY <2>2, <5>1 DEF All
        <5> QED
          BY <5>2 DEF Frame
      <4> QED
        BY <4>1
    <3>3. a \in DOMAIN received[m].items /\ received[m].items[a] \in Item
      BY <3>1, <3>2
    <3>4. received[m].items[a] \in Got(k)
      BY <1>1, <2>a, <2>2, <3>1, <3>3 DEF Got, ItemsOf, All
    <3>5. sending[k][b] \in Sent(k)
      BY <1>1, <2>a, <3>1 DEF Sent, ItemsOf
    <3> QED
      BY <1>1, <3>1, <3>4, <3>5 DEF Ordered, Line, InLine, Before
  <2>3. CASE n = N /\ m = N
    <3>1. Rising(sending[k])
      BY DEF Ordered, Line
    <3>2. a < b
      BY <1>2, <2>3 DEF N
    <3> QED
      BY <1>1, <1>n, <2>a, <2>3, <3>1, <3>2 DEF Rising
  <2> QED
    BY <2>a, <2>1, <2>2, <2>3
<1>9. UNCHANGED Left
  BY <1>1 DEF Left
<1> QED
  BY <1>1, <1>4, <1>7, <1>8, <1>9, OrderOfOne DEF Ordered

LEMMA GiveUpOrdered ==
    ASSUME IndInv, Ordered, NEW k \in Sender, GiveUp(k), UNCHANGED <<senderVars, stream>>
    PROVE  Ordered'
<1>1. /\ sending' = [sending EXCEPT ![k] = <<>>] /\ sending \in [Sender -> Seq(Item)]
      /\ UNCHANGED <<size, offered, in, batch, stream, received>>
  BY DEF GiveUp, senderVars, IndInv, TypeOK
<1>2. ItemsOf(<<>>) = {} /\ Rising(<<>>)
  BY DEF ItemsOf, Rising
<1>3. sending'[k] = <<>> /\ \A j \in Sender : j # k => sending'[j] = sending[j]
  BY <1>1
<1>4. Sent(k)' = {} /\ Rising(sending[k])'
  BY <1>1, <1>2, <1>3, SameSets DEF Sent
<1>5. Line(k)'
  <2>1. Line(k)
    BY DEF Ordered
  <2>2. /\ Got(k)' = Got(k) /\ Kept(k)' = Kept(k) /\ Left' = Left /\ Known' = Known
        /\ Rising(batch[k])' /\ \A i : Ordinary(i)' <=> Ordinary(i)
    BY <1>1, <2>1, SameSets DEF Known, Line
  <2>3. InLine(Got(k), {}, Kept(k), Left)
    BY <2>1 DEF Line, InLine, Before
  <2> QED
    BY <1>4, <2>1, <2>2, <2>3 DEF Line
<1>6. UNCHANGED <<Left, InOrder>> /\ \A j \in Sender : Got(j)' = Got(j)
  BY <1>1, SameSets
<1> QED
  BY <1>1, <1>3, <1>5, <1>6, OrderOfOne DEF Ordered
-----------------------------------------------------------------------------
(* A batch becomes a frame; an item is taken                               *)

\* What a call of BatchSend does to the order.
LEMMA CallOrder ==
    ASSUME IndInv, Ordered, NEW k \in Sender, NEW frame \in Seq(Item), BatchSend(k, frame),
           UNCHANGED size
    PROVE  /\ Sent(k)' = {i \in ItemsOf(frame) : Ordinary(i)} /\ Sent(k) = {}
           /\ sending'[k] = frame /\ UNCHANGED <<stream, received>>
           /\ \A j \in Sender : j # k => sending'[j] = sending[j]
           /\ \A j \in Sender : Got(j)' = Got(j)
           /\ InOrder'
<1>1. /\ sending[k] = <<>> /\ sending' = [sending EXCEPT ![k] = frame]
      /\ sending \in [Sender -> Seq(Item)] /\ UNCHANGED <<stream, received>>
  BY DEF BatchSend, IndInv, Sending, Holds, TypeOK
<1>2. ItemsOf(<<>>) = {}
  BY DEF ItemsOf
<1>3. sending'[k] = frame /\ \A j \in Sender : j # k => sending'[j] = sending[j]
  BY <1>1
<1>4. InOrder' /\ \A j \in Sender : Got(j)' = Got(j)
  BY <1>1, SameSets DEF Ordered
<1>5. \A i : Ordinary(i)' <=> Ordinary(i)
  BY <1>1, SameSets
<1> QED
  BY <1>1, <1>2, <1>3, <1>4, <1>5 DEF Sent

LEMMA RefillOrder ==
    ASSUME IndInv, NEW k \in Sender, NEW items, Refill(k, items)
    PROVE  /\ batch'[k] = items /\ Kept(k)' = ItemsOf(items)
           /\ \A j \in Sender : j # k => batch'[j] = batch[j]
BY DEF Refill, IndInv, TypeOK, Kept

LEMMA FlushOrdered ==
    ASSUME IndInv, Ordered, NEW k \in Sender, BatchSend(k, batch[k]), Refill(k, <<>>),
           UNCHANGED <<size, offered, in>>
    PROVE  Ordered'
<1>1. Line(k) /\ batch[k] \in Seq(Item)
  BY DEF Ordered, IndInv, TypeOK
<1>2. /\ Sent(k)' = Kept(k) /\ Sent(k) = {} /\ sending'[k] = batch[k]
      /\ UNCHANGED <<stream, received>>
      /\ \A j \in Sender : j # k => sending'[j] = sending[j]
      /\ \A j \in Sender : Got(j)' = Got(j)
      /\ InOrder'
  BY <1>1, CallOrder DEF Line, Kept
<1>3. /\ batch'[k] = <<>> /\ Kept(k)' = {}
      /\ \A j \in Sender : j # k => batch'[j] = batch[j]
  BY RefillOrder, Frames
<1>4. Line(k)'
  <2>1. /\ Left' = Left /\ Known' = Known
        /\ Rising(sending[k])' /\ Rising(batch[k])'
    <3>1. Rising(<<>>)
      BY DEF Rising
    <3> QED
      BY <1>1, <1>2, <1>3, <3>1, SameSets DEF Line, Known
  <2>2. InLine(Got(k), Kept(k), {}, Left)
    BY <1>1 DEF Line, InLine, Before
  <2> QED
    BY <1>1, <1>2, <1>3, <2>1, <2>2 DEF Line
<1>5. UNCHANGED Left
  BY DEF Left
<1> QED
  BY <1>2, <1>3, <1>4, <1>5, OrderOfOne DEF Ordered

\* What is taken was in front of the channel, and behind all that was taken.
LEMMA TakeOrder ==
    ASSUME IndInv, Ordered, NEW k \in Sender, Take(k), NEW h \in Item, h = Head(in)
    PROVE  /\ h \in Left /\ h \in Known /\ Left' \subseteq Left /\ Before({h}, Left')
           /\ \A a, b \in DOMAIN in' : a < b => in'[a] < in'[b]
           /\ UNCHANGED <<size, offered, Known>>
<1>1. in \in Seq(Item) /\ in # <<>> /\ in' = Tail(in) /\ UNCHANGED <<size, offered>>
  BY Takes DEF Take, IndInv, TypeOK
<1>2. /\ Len(in) \in Nat /\ Len(in) > 0 /\ DOMAIN in = 1..Len(in) /\ h = in[1]
      /\ DOMAIN in' = 1..(Len(in) - 1)
      /\ \A j \in 1..(Len(in) - 1) : in'[j] = in[j + 1]
  BY <1>1
<1>3. \A j \in DOMAIN in' : j + 1 \in DOMAIN in /\ in'[j] = in[j + 1] /\ 1 < j + 1
  BY <1>2
<1>4. h \in Left
  BY <1>2 DEF Left, ItemsOf
<1>5. Left' \subseteq Left
  BY <1>3 DEF Left, ItemsOf
<1>6. Before({h}, Left')
  BY <1>2, <1>3 DEF Ordered, Before, Left, ItemsOf
<1>7. ASSUME NEW a \in DOMAIN in', NEW b \in DOMAIN in', a < b PROVE in'[a] < in'[b]
  <2>1. a + 1 < b + 1
    BY <1>2, <1>7
  <2> QED
    BY <1>3, <2>1 DEF Ordered
<1> QED
  BY <1>1, <1>4, <1>5, <1>6, <1>7 DEF Ordered, Known

LEMMA TakesOrdered ==
    ASSUME IndInv, Ordered, NEW k \in Sender,
           TakeUnfit(k) \/ TakeAndBuffer(k) \/ TakeAndSendAlone(k) \/ TakeAndFlush(k)
    PROVE  Ordered'
<1>0. Take(k)
  BY DEF TakeUnfit, TakeAndBuffer, TakeAndSendAlone, TakeAndFlush
<1>p. PICK h \in Item : h = Head(in)
  BY <1>0, Takes
<1>1. /\ h \in Left /\ h \in Known /\ Left' \subseteq Left /\ Before({h}, Left')
      /\ \A a, b \in DOMAIN in' : a < b => in'[a] < in'[b]
      /\ UNCHANGED <<size, offered, Known>>
  BY <1>0, <1>p, TakeOrder
<1>2. Line(k)
  BY DEF Ordered
<1>3. InLine(Got(k), Sent(k), Kept(k), Left')
  BY <1>1, <1>2, LineShrinks DEF Line
<1>t. /\ size[h] \in Nat /\ Room \in Nat /\ Offset \in Nat /\ bytes[k] \in Nat
      /\ bytes[k] >= Offset /\ batch \in [Sender -> Seq(Item)]
  BY <1>0, <1>p, Takes, Capacity DEF IndInv, TypeOK, Sending, Holds
<1>4. CASE TakeUnfit(k)
  <2>1. UNCHANGED <<stream, received, sending, batch>>
    BY <1>4 DEF TakeUnfit, workerVars
  <2>2. InOrder' /\ \A j \in Sender : Got(j)' = Got(j)
    BY <1>1, <2>1, SameSets DEF Ordered
  <2>3. Line(k)'
    BY <1>1, <2>1, <2>2, LineKept
  <2> QED
    BY <1>1, <2>1, <2>2, <2>3, OrderOfOne
<1>5. CASE TakeAndBuffer(k)
  <2>1. /\ batch' = [batch EXCEPT ![k] = Append(@, h)] /\ bytes[k] + size[h] <= Room
        /\ UNCHANGED <<stream, received, sending>>
    BY <1>p, <1>5 DEF TakeAndBuffer, Fits, workerVars
  <2>2. /\ batch'[k] = Append(batch[k], h) /\ batch[k] \in Seq(Item)
        /\ \A j \in Sender : j # k => batch'[j] = batch[j]
    BY <1>t, <2>1
  <2>3. Kept(k)' = Kept(k) \cup {h}
    BY <2>2, Frames DEF Kept
  <2>4. Ordinary(h)
    BY <1>t, <2>1 DEF Ordinary
  <2>5. Before(Kept(k), {h}) /\ Before(Sent(k), {h}) /\ Before(Got(k), {h})
    BY <1>1, <1>2 DEF Line, InLine, Before
  <2>6. InLine(Got(k), Sent(k), Kept(k) \cup {h}, Left')
    BY <1>1, <1>3, <2>5 DEF InLine, Before
  <2>7. InOrder' /\ \A j \in Sender : Got(j)' = Got(j)
    BY <1>1, <2>1, SameSets DEF Ordered
  <2>8. Rising(Append(batch[k], h))
    <3> DEFINE s == batch[k]
               t == Append(s, h)
    <3>1. /\ DOMAIN s = 1..Len(s) /\ Len(s) \in Nat /\ DOMAIN t = 1..(Len(s) + 1)
          /\ t[Len(s) + 1] = h /\ \A j \in 1..Len(s) : t[j] = s[j]
      BY <2>2
    <3>2. \A j \in 1..Len(s) : s[j] < h
      BY <2>5, <3>1 DEF Before, Kept, ItemsOf
    <3>3. Rising(s)
      BY <1>2 DEF Line
    <3> HIDE DEF s, t
    <3>4. ASSUME NEW a \in 1..(Len(s) + 1), NEW b \in 1..(Len(s) + 1), a < b,
                 Ordinary(t[a]), Ordinary(t[b])
          PROVE  t[a] < t[b]
      <4>1. a \in 1..Len(s)
        BY <3>1, <3>4
      <4>2. CASE b = Len(s) + 1
        BY <3>1, <3>2, <4>1, <4>2
      <4>3. CASE b \in 1..Len(s)
        BY <3>1, <3>3, <3>4, <4>1, <4>3 DEF Rising
      <4> QED
        BY <3>1, <4>2, <4>3
    <3>5. Rising(t)
      BY <3>1, <3>4 DEF Rising
    <3> QED
      BY <3>5 DEF s, t
  <2>9. Line(k)'
    <3>1. /\ Sent(k)' = Sent(k) /\ Got(k)' = Got(k) /\ Rising(batch[k])' /\ Rising(sending[k])'
          /\ \A i : Ordinary(i)' <=> Ordinary(i)
      BY <1>1, <1>2, <2>1, <2>2, <2>8, SameSets DEF Line
    <3> QED
      BY <1>1, <1>2, <2>3, <2>4, <2>6, <3>1 DEF Line
  <2> QED
    BY <1>1, <2>1, <2>2, <2>7, <2>9, OrderOfOne
<1>6. CASE TakeAndSendAlone(k)
  <2>1. /\ BatchSend(k, <<h>>) /\ <<h>> \in Seq(Item) /\ UNCHANGED batch
        /\ size[h] > Room
    BY <1>p, <1>6 DEF TakeAndSendAlone, Oversized
  <2>2. ~Ordinary(h)
    BY <1>t, <2>1 DEF Ordinary
  <2>3. /\ Sent(k)' = {} /\ sending'[k] = <<h>> /\ UNCHANGED <<stream, received>>
        /\ \A j \in Sender : j # k => sending'[j] = sending[j]
        /\ \A j \in Sender : Got(j)' = Got(j)
        /\ InOrder'
    <3>1. {i \in ItemsOf(<<h>>) : Ordinary(i)} = {}
      BY <2>2, Frames
    <3> QED
      BY <1>1, <2>1, <3>1, CallOrder
  <2>4. InLine(Got(k), {}, Kept(k), Left')
    BY <1>3, LineShrinks
  <2>5. Rising(<<h>>)
    BY <2>2 DEF Rising
  <2>6. Line(k)'
    <3>1. /\ Kept(k)' = Kept(k) /\ Rising(batch[k])' /\ Rising(sending[k])'
          /\ \A i : Ordinary(i)' <=> Ordinary(i)
      BY <1>1, <1>2, <2>1, <2>3, <2>5, SameSets DEF Line
    <3> QED
      BY <1>1, <1>2, <2>3, <2>4, <3>1 DEF Line
  <2> QED
    BY <1>1, <2>1, <2>3, <2>6, OrderOfOne
<1>7. CASE TakeAndFlush(k)
  <2>1. /\ BatchSend(k, batch[k]) /\ batch[k] \in Seq(Item) /\ Refill(k, <<h>>)
        /\ ~(size[h] > Room)
    BY <1>p, <1>t, <1>7 DEF TakeAndFlush, Oversized
  <2>2. Ordinary(h)
    BY <1>t, <2>1 DEF Ordinary
  <2>3. /\ Sent(k)' = Kept(k) /\ sending'[k] = batch[k] /\ UNCHANGED <<stream, received>>
        /\ \A j \in Sender : j # k => sending'[j] = sending[j]
        /\ \A j \in Sender : Got(j)' = Got(j)
        /\ InOrder'
    BY <1>1, <1>2, <2>1, CallOrder DEF Line, Kept
  <2>4. /\ batch'[k] = <<h>> /\ Kept(k)' = {h}
        /\ \A j \in Sender : j # k => batch'[j] = batch[j]
    BY <2>1, RefillOrder, Frames
  <2>5. InLine(Got(k), Kept(k), {h}, Left')
    BY <1>1, <1>2 DEF Line, InLine, Before
  <2>6. Rising(<<h>>)
    BY DEF Rising
  <2>7. Line(k)'
    <3>1. /\ Rising(batch[k])' /\ Rising(sending[k])'
          /\ \A i : Ordinary(i)' <=> Ordinary(i)
      BY <1>1, <1>2, <2>3, <2>4, <2>6, SameSets DEF Line
    <3> QED
      BY <1>1, <1>2, <2>2, <2>3, <2>4, <2>5, <3>1 DEF Line
  <2> QED
    BY <1>1, <2>3, <2>4, <2>7, OrderOfOne
<1> QED
  BY <1>4, <1>5, <1>6, <1>7
-----------------------------------------------------------------------------
LEMMA StepOrders == IndInv /\ Ordered /\ [Next]_vars => Ordered'
<1> SUFFICES ASSUME IndInv, Ordered, [Next]_vars PROVE Ordered'
  OBVIOUS
<1>1. CASE UNCHANGED vars
  BY <1>1, StillOrdered DEF vars, senderVars, workerVars
<1>2. CASE Offer
  BY <1>2, OfferOrdered
<1>3. CASE CloseIn \/ (AgentStep /\ UNCHANGED senderVars)
  BY <1>3, StillOrdered
     DEF CloseIn, AgentStep, AgentDown, AgentUp, AgentHangsUp, senderVars, workerVars
<1>4. ASSUME NEW k \in Sender, Start(k) \/ SenderStep(k) PROVE Ordered'
  <2>1. CASE Start(k) \/ Return(k)
    BY <2>1, StillOrdered DEF Start, Return, CloseConn, workerVars
  <2>2. CASE Tick(k)
    BY <2>2, FlushOrdered DEF Tick
  <2>3. CASE SeeClosed(k)
    <3>1. CASE LeavesUnsent(k)
      BY <2>3, <3>1, FlushOrdered DEF SeeClosed
    <3>2. CASE ~LeavesUnsent(k)
      BY <2>3, <3>2, StillOrdered DEF SeeClosed, workerVars
    <3> QED
      BY <3>1, <3>2
  <2>4. CASE TakeUnfit(k) \/ TakeAndBuffer(k) \/ TakeAndSendAlone(k) \/ TakeAndFlush(k)
    BY <2>4, TakesOrdered
  <2>5. CASE WorkerStep(k) /\ UNCHANGED senderVars
    <3>1. /\ UNCHANGED stream
          /\ Deliver(k) \/ GiveUp(k) \/ UNCHANGED <<sending, received>>
      BY <2>5 DEF WorkerStep, Dial, Write, BrokenPipe, Redial, WriteError
    <3>2. CASE Deliver(k)
      BY <2>5, <3>1, <3>2, DeliverOrdered
    <3>3. CASE GiveUp(k)
      BY <2>5, <3>1, <3>3, GiveUpOrdered
    <3>4. CASE UNCHANGED <<sending, received>>
      BY <2>5, <3>1, <3>4, StillOrdered DEF senderVars
    <3> QED
      BY <3>1, <3>2, <3>3, <3>4
  <2> QED
    BY <1>4, <2>1, <2>2, <2>3, <2>4, <2>5 DEF SenderStep
<1> QED
  BY <1>1, <1>2, <1>3, <1>4 DEF Next

\* The items of ordinary size that one sender delivers arrive in the order in
\* which they entered the channel: an item that is sent before what is in the
\* buffer is an oversized one, and a retry repeats the frame that failed.
THEOREM InOrderCorrect == Spec => []InOrder
<1>1. Init => Ordered
  BY InitOrdered
<1>2. IndInv /\ Ordered /\ [Next]_vars => Ordered'
  BY StepOrders
<1>3. Ordered => InOrder
  BY DEF Ordered
<1> QED
  BY <1>1, <1>2, <1>3, Invariance, PTL DEF Spec
-----------------------------------------------------------------------------
(* BatchSender implements Delivery                                         *)

\* The variables of Delivery, in this view.
Large       == {i \in Item : Oversized(i)}
KeptBy      == [k \in Sender |-> ItemsOf(batch[k])]
FramedBy    == [k \in Sender |-> ItemsOf(sending[k])]
ArrivedFrom == [k \in Sender |-> From(k)]
Missed      == dropped \cup unfit \cup lost
Returned    == {k \in Sender : state[k] = "stopped"}

View == <<Large, closed, offered, Left, KeptBy, FramedBy, ArrivedFrom, Missed, Returned>>

Promises == [Promised!Next]_(Promised!vars)

LEMMA SameView == UNCHANGED View => Promises
BY DEF View, Promises, Promised!vars, Large, KeptBy, FramedBy, ArrivedFrom, Missed, Returned, Left

\* A step of sender k changes at most one value of a function into sets.
LEMMA ViewOfOne ==
    ASSUME NEW k \in Sender, NEW f, NEW g, \A j \in Sender : j # k => g[j] = f[j]
    PROVE  [j \in Sender |-> ItemsOf(g[j])]
               = [[j \in Sender |-> ItemsOf(f[j])] EXCEPT ![k] = ItemsOf(g[k])]
OBVIOUS

\* What the view takes from the variables a step leaves alone.
LEMMA SameParts ==
    /\ UNCHANGED <<size, stream>> => UNCHANGED Large
    /\ UNCHANGED batch => UNCHANGED KeptBy
    /\ UNCHANGED sending => UNCHANGED FramedBy
    /\ UNCHANGED received => UNCHANGED ArrivedFrom
    /\ UNCHANGED in => UNCHANGED Left
    /\ UNCHANGED <<dropped, unfit, lost>> => UNCHANGED Missed
    /\ UNCHANGED state => UNCHANGED Returned
<1>1. UNCHANGED <<size, stream>> => UNCHANGED Large
  BY DEF Large, Oversized, Room, Offset
<1>2. UNCHANGED received => UNCHANGED ArrivedFrom
  BY DEF ArrivedFrom, From
<1> QED
  BY <1>1, <1>2 DEF KeptBy, FramedBy, Left, Missed, Returned

LEMMA InitPromises == Init => Promised!Init
<1> SUFFICES ASSUME Init PROVE Promised!Init
  OBVIOUS
<1>1. /\ in = <<>> /\ received = <<>> /\ DOMAIN received = {} /\ offered = 0 /\ closed = FALSE
      /\ dropped = {} /\ unfit = {} /\ lost = {}
      /\ \A k \in Sender : batch[k] = <<>> /\ sending[k] = <<>> /\ state[k] = "new"
  BY DEF Init, WorkerInit
<1>2. ItemsOf(<<>>) = {} /\ \A k \in Sender : From(k) = {}
  BY <1>1, Frames DEF From
<1> QED
  BY <1>1, <1>2 DEF Promised!Init, Promised!Nothing
-----------------------------------------------------------------------------
LEMMA OfferPromises ==
    ASSUME IndInv, Offer
    PROVE  Promises
<1> PICK n : n = offered + 1
  OBVIOUS
<1>1. /\ offered' = n /\ n \in Item /\ in \in Seq(Item) /\ ~closed
      /\ UNCHANGED <<size, closed, stream, state, batch, sending, received, unfit, lost>>
      /\ \/ in' = Append(in, n) /\ UNCHANGED dropped
         \/ dropped' = dropped \cup {n} /\ UNCHANGED in
  BY DEF Offer, workerVars, IndInv, TypeOK, Item
<1>2. UNCHANGED <<Large, KeptBy, FramedBy, ArrivedFrom, Returned>>
  BY <1>1, SameParts
<1>3. \/ Left' = Left \cup {n} /\ UNCHANGED Missed
      \/ Missed' = Missed \cup {n} /\ UNCHANGED Left
  <2>1. CASE in' = Append(in, n) /\ UNCHANGED dropped
    BY <1>1, <2>1, Frames, SameParts DEF Left
  <2>2. CASE dropped' = dropped \cup {n} /\ UNCHANGED in
    BY <1>1, <2>2, SameParts DEF Missed
  <2> QED
    BY <1>1, <2>1, <2>2
<1>4. Promised!Enter(n)
  BY <1>1, <1>2, <1>3
     DEF Promised!Enter, Large, KeptBy, FramedBy, ArrivedFrom, Missed, Returned, Left
<1> QED
  BY <1>1, <1>4 DEF Promises, Promised!Next

\* The item at the head of the channel is the oldest in it, and only there.
LEMMA TakePromises ==
    ASSUME IndInv, Ordered, NEW k \in Sender, Take(k), NEW h \in Item, h = Head(in),
           UNCHANGED <<stream, received>>
    PROVE  /\ Promised!Take(k, h) /\ h \in Left
           /\ UNCHANGED <<Large, closed, offered, ArrivedFrom, Returned>>
<1>1. /\ in \in Seq(Item) /\ in # <<>> /\ in' = Tail(in) /\ state[k] = "loop"
      /\ UNCHANGED <<size, offered, dropped, closed, state>>
  BY Takes DEF Take, IndInv, TypeOK
<1>2. /\ Len(in) \in Nat /\ Len(in) > 0 /\ DOMAIN in = 1..Len(in) /\ h = in[1]
      /\ DOMAIN in' = 1..(Len(in) - 1)
      /\ \A j \in 1..(Len(in) - 1) : in'[j] = in[j + 1]
  BY <1>1
<1>3. h \in Left
  BY <1>2 DEF Left, ItemsOf
<1>4. \A j \in 2..Len(in) : h < in[j]
  BY <1>2 DEF Ordered
<1>i. \A j \in DOMAIN in : in[j] \in Item /\ in[j] \in Nat
  BY <1>1, <1>2 DEF Item
<1>5. \A j \in Left : h <= j
  <2> SUFFICES ASSUME NEW j \in DOMAIN in PROVE h <= in[j]
    BY DEF Left, ItemsOf
  <2>1. CASE j = 1
    BY <1>2, <1>i, <2>1
  <2>2. CASE j \in 2..Len(in)
    BY <1>2, <1>4, <1>i, <2>2
  <2> QED
    BY <1>2, <2>1, <2>2
<1>6. Left' = Left \ {h}
  <2>1. ASSUME NEW x \in Left' PROVE x \in Left \ {h}
    <3>1. PICK j \in 1..(Len(in) - 1) : x = in[j + 1]
      BY <1>2, <2>1 DEF Left, ItemsOf
    <3>2. j + 1 \in 2..Len(in) /\ j + 1 \in DOMAIN in
      BY <1>2, <3>1
    <3>3. h < x
      BY <1>4, <3>1, <3>2
    <3>4. x # h
      BY <1>2, <1>i, <3>1, <3>2, <3>3
    <3> QED
      BY <3>1, <3>2, <3>4 DEF Left, ItemsOf
  <2>2. ASSUME NEW x \in Left \ {h} PROVE x \in Left'
    <3>1. PICK j \in 1..Len(in) : x = in[j]
      BY <1>2, <2>2 DEF Left, ItemsOf
    <3>2. j # 1
      BY <1>2, <2>2, <3>1
    <3>3. j - 1 \in 1..(Len(in) - 1) /\ (j - 1) + 1 = j
      BY <1>2, <3>1, <3>2
    <3>4. in'[j - 1] = x
      BY <1>2, <3>1, <3>3
    <3> QED
      BY <1>2, <3>3, <3>4 DEF Left, ItemsOf
  <2> QED
    BY <2>1, <2>2
<1>7. UNCHANGED <<Large, ArrivedFrom, Returned>>
  BY <1>1, SameParts
<1>8. k \notin Returned
  BY <1>1 DEF Returned
<1> QED
  BY <1>1, <1>3, <1>5, <1>6, <1>7, <1>8
     DEF Promised!Take, Large, ArrivedFrom, Returned, Left

\* A call of BatchSend puts the items of its argument into the frame of k,
\* which was empty.
LEMMA CallPromises ==
    ASSUME IndInv, NEW k \in Sender, NEW s \in Seq(Item), BatchSend(k, s)
    PROVE  /\ Promised!Put(k, ItemsOf(s)) /\ UNCHANGED <<ArrivedFrom, stream, received, lost>>
           /\ state[k] # "stopped" => k \notin Returned
<1>1. /\ sending[k] = <<>> /\ sending' = [sending EXCEPT ![k] = s]
      /\ sending \in [Sender -> Seq(Item)] /\ UNCHANGED <<stream, received, lost>>
  BY DEF BatchSend, IndInv, Sending, Holds, TypeOK
<1>2. sending'[k] = s /\ \A j \in Sender : j # k => sending'[j] = sending[j]
  BY <1>1
<1>3. FramedBy' = [FramedBy EXCEPT ![k] = ItemsOf(s)]
  BY <1>2, ViewOfOne DEF FramedBy
<1>4. FramedBy[k] = {}
  BY <1>1, Frames DEF FramedBy
<1> QED
  BY <1>1, <1>3, <1>4, SameParts DEF Promised!Put, FramedBy, Returned

LEMMA RefillPromises ==
    ASSUME IndInv, NEW k \in Sender, NEW items, Refill(k, items)
    PROVE  KeptBy' = [KeptBy EXCEPT ![k] = ItemsOf(items)]
<1>1. batch'[k] = items /\ \A j \in Sender : j # k => batch'[j] = batch[j]
  BY RefillOrder
<1> QED
  BY <1>1, ViewOfOne DEF KeptBy

LEMMA TakesPromise ==
    ASSUME IndInv, Ordered, NEW k \in Sender,
           TakeUnfit(k) \/ TakeAndBuffer(k) \/ TakeAndSendAlone(k) \/ TakeAndFlush(k)
    PROVE  Promises
<1>0. Take(k)
  BY DEF TakeUnfit, TakeAndBuffer, TakeAndSendAlone, TakeAndFlush
<1>p. PICK h \in Item : h = Head(in)
  BY <1>0, Takes
<1>t. /\ size[h] \in Nat /\ Room \in Nat /\ bytes[k] \in Nat /\ UNCHANGED dropped
      /\ batch \in [Sender -> Seq(Item)] /\ batch[k] \in Seq(Item)
  BY <1>0, <1>p, Takes, Capacity DEF IndInv, TypeOK
<1>q. ASSUME Promised!SenderStep(k) PROVE Promises
  BY <1>q DEF Promises, Promised!Next
<1>s. ASSUME h \in Left, \/ Promised!Skip(k, h) \/ Promised!Keep(k, h)
                         \/ Promised!SendAlone(k, h) \/ Promised!SendAndKeep(k, h)
      PROVE  Promises
  BY <1>q, <1>s DEF Promised!SenderStep, Left
<1>1. CASE TakeUnfit(k)
  <2>1. /\ unfit' = unfit \cup {h}
        /\ UNCHANGED <<batch, sending, stream, received, lost>>
    BY <1>p, <1>1 DEF TakeUnfit, workerVars
  <2>2. Promised!Take(k, h) /\ h \in Left
    BY <1>0, <1>p, <2>1, TakePromises
  <2>3. Missed' = Missed \cup {h} /\ UNCHANGED <<KeptBy, FramedBy>>
    BY <1>t, <2>1, SameParts DEF Missed
  <2>4. Promised!Skip(k, h)
    BY <2>2, <2>3 DEF Promised!Skip, KeptBy, FramedBy, Missed
  <2> QED
    BY <1>s, <2>2, <2>4
<1>2. CASE TakeAndBuffer(k)
  <2>1. /\ batch' = [batch EXCEPT ![k] = Append(@, h)] /\ bytes[k] + size[h] <= Room
        /\ UNCHANGED <<sending, stream, received, lost, unfit>>
    BY <1>p, <1>2 DEF TakeAndBuffer, Fits, workerVars
  <2>2. Promised!Take(k, h) /\ h \in Left
    BY <1>0, <1>p, <2>1, TakePromises
  <2>3. h \notin Large
    BY <1>t, <2>1 DEF Large, Oversized
  <2>4. /\ batch'[k] = Append(batch[k], h)
        /\ \A j \in Sender : j # k => batch'[j] = batch[j]
    BY <1>t, <2>1
  <2>5. KeptBy' = [KeptBy EXCEPT ![k] = ItemsOf(batch[k]) \cup {h}]
    <3>1. ItemsOf(batch'[k]) = ItemsOf(batch[k]) \cup {h}
      BY <1>t, <2>4, Frames
    <3>2. KeptBy' = [KeptBy EXCEPT ![k] = ItemsOf(batch'[k])]
      BY <2>4, ViewOfOne DEF KeptBy
    <3> QED
      BY <3>1, <3>2
  <2>6. KeptBy[k] = ItemsOf(batch[k])
    BY DEF KeptBy
  <2>7. UNCHANGED <<FramedBy, Missed>>
    BY <1>t, <2>1, SameParts
  <2>8. Promised!Keep(k, h)
    BY <2>2, <2>3, <2>5, <2>6, <2>7 DEF Promised!Keep, Large, KeptBy, FramedBy, Missed
  <2> QED
    BY <1>s, <2>2, <2>8
<1>3. CASE TakeAndSendAlone(k)
  <2>1. /\ BatchSend(k, <<h>>) /\ <<h>> \in Seq(Item) /\ UNCHANGED <<batch, unfit>>
        /\ size[h] > Room
    BY <1>p, <1>3 DEF TakeAndSendAlone, Oversized
  <2>2. Promised!Put(k, {h}) /\ UNCHANGED <<stream, received, lost>>
    <3>1. ItemsOf(<<h>>) = {h}
      BY Frames
    <3>2. Promised!Put(k, ItemsOf(<<h>>)) /\ UNCHANGED <<stream, received, lost>>
      BY <2>1, CallPromises
    <3> QED
      BY <3>1, <3>2
  <2>3. Promised!Take(k, h) /\ h \in Left
    BY <1>0, <1>p, <2>2, TakePromises
  <2>4. h \in Large
    BY <2>1 DEF Large, Oversized
  <2>5. UNCHANGED <<KeptBy, Missed>>
    BY <1>t, <2>1, <2>2, SameParts
  <2>6. Promised!SendAlone(k, h)
    BY <2>2, <2>3, <2>4, <2>5 DEF Promised!SendAlone, Large, KeptBy, Missed
  <2> QED
    BY <1>s, <2>3, <2>6
<1>4. CASE TakeAndFlush(k)
  <2>1. /\ BatchSend(k, batch[k]) /\ Refill(k, <<h>>) /\ UNCHANGED unfit
        /\ ~(size[h] > Room)
    BY <1>p, <1>4 DEF TakeAndFlush, Oversized
  <2>2. Promised!Put(k, ItemsOf(batch[k])) /\ UNCHANGED <<stream, received, lost>>
    BY <1>t, <2>1, CallPromises
  <2>3. Promised!Take(k, h) /\ h \in Left
    BY <1>0, <1>p, <2>2, TakePromises
  <2>4. h \notin Large
    BY <2>1 DEF Large, Oversized
  <2>5. KeptBy' = [KeptBy EXCEPT ![k] = {h}]
    BY <2>1, RefillPromises, Frames
  <2>6. KeptBy[k] = ItemsOf(batch[k])
    BY DEF KeptBy
  <2>7. UNCHANGED Missed
    BY <1>t, <2>1, <2>2, SameParts
  <2>8. Promised!SendAndKeep(k, h)
    BY <2>2, <2>3, <2>4, <2>5, <2>6, <2>7 DEF Promised!SendAndKeep, Large, KeptBy, Missed
  <2> QED
    BY <1>s, <2>3, <2>8
<1> QED
  BY <1>1, <1>2, <1>3, <1>4
-----------------------------------------------------------------------------
(* What is kept goes out, a frame arrives or is given up, a sender returns *)

LEMMA FlushPromises ==
    ASSUME IndInv, NEW k \in Sender, state[k] # "stopped",
           BatchSend(k, batch[k]), Refill(k, <<>>),
           UNCHANGED <<size, offered, dropped, in, closed, unfit>>, Returned' = Returned
    PROVE  Promises
<1>1. /\ Promised!Put(k, ItemsOf(batch[k])) /\ UNCHANGED <<stream, received, lost>>
      /\ k \notin Returned
  <2>1. batch[k] \in Seq(Item)
    BY DEF IndInv, TypeOK
  <2> QED
    BY <2>1, CallPromises
<1>2. KeptBy' = [KeptBy EXCEPT ![k] = {}]
  BY RefillPromises, Frames
<1>3. KeptBy[k] = ItemsOf(batch[k])
  BY DEF KeptBy
<1>4. UNCHANGED <<Large, Left, ArrivedFrom, Missed>>
  BY <1>1, SameParts
<1>5. Promised!Send(k)
  BY <1>1, <1>2, <1>3, <1>4
     DEF Promised!Send, Large, Left, KeptBy, ArrivedFrom, Missed, Returned
<1> QED
  BY <1>5 DEF Promises, Promised!Next, Promised!SenderStep

\* The frame of k leaves it.
LEMMA Emptied ==
    ASSUME IndInv, NEW k \in Sender, Deliver(k) \/ GiveUp(k)
    PROVE  /\ FramedBy' = [FramedBy EXCEPT ![k] = {}]
           /\ FramedBy[k] = ItemsOf(sending[k])
<1>1. sending' = [sending EXCEPT ![k] = <<>>] /\ sending \in [Sender -> Seq(Item)]
  BY DEF Deliver, GiveUp, IndInv, TypeOK
<1>2. sending'[k] = <<>> /\ \A j \in Sender : j # k => sending'[j] = sending[j]
  BY <1>1
<1>3. FramedBy' = [FramedBy EXCEPT ![k] = ItemsOf(sending'[k])]
  BY <1>2, ViewOfOne DEF FramedBy
<1> QED
  BY <1>2, <1>3, Frames DEF FramedBy

LEMMA DeliverPromises ==
    ASSUME IndInv, NEW k \in Sender, state[k] # "stopped", Deliver(k),
           UNCHANGED <<senderVars, stream>>
    PROVE  Promises
<1> DEFINE r == [from |-> k, items |-> sending[k]]
<1>1. /\ received' = Append(received, r) /\ r.from = k /\ r.items = sending[k]
      /\ received \in Seq([from : Sender, items : Seq(Item)])
      /\ UNCHANGED <<size, offered, dropped, in, closed, state, batch, unfit, lost, stream>>
  BY DEF Deliver, senderVars, IndInv, TypeOK
<1> HIDE DEF r
<1>2. /\ DOMAIN received = 1..Len(received) /\ Len(received) \in Nat
      /\ DOMAIN received' = 1..(Len(received) + 1)
      /\ \A j \in 1..Len(received) : received'[j] = received[j]
      /\ received'[Len(received) + 1] = r
  BY <1>1
<1>3. \A j \in Sender : \A i : i \in From(j) <=>
          \E m \in 1..Len(received) : received[m].from = j /\ i \in ItemsOf(received[m].items)
  BY <1>2 DEF From
<1>4. \A j \in Sender : \A i : i \in From(j)' <=>
          \E m \in 1..(Len(received) + 1) :
              received'[m].from = j /\ i \in ItemsOf(received'[m].items)
  BY <1>2 DEF From
<1>5. \A m : m \in 1..(Len(received) + 1) <=> m \in 1..Len(received) \/ m = Len(received) + 1
  BY <1>2
<1>6. From(k)' = From(k) \cup ItemsOf(sending[k])
  <2>1. r.from = k /\ r.items = sending[k]
    BY <1>1
  <2>2. ASSUME NEW i PROVE i \in From(k)' <=> i \in From(k) \/ i \in ItemsOf(sending[k])
    BY <1>2, <1>3, <1>4, <1>5, <2>1
  <2> QED
    BY <2>2
<1>7. ASSUME NEW j \in Sender, j # k PROVE From(j)' = From(j)
  <2>1. ASSUME NEW i PROVE i \in From(j)' <=> i \in From(j)
    <3>1. received'[Len(received) + 1].from # j
      BY <1>1, <1>2, <1>7
    <3> QED
      BY <1>2, <1>3, <1>4, <1>5, <3>1
  <2>2. \A i : i \in From(j)' <=> i \in From(j)
    BY <2>1
  <2> QED
    BY <2>2 DEF From
<1>8. ArrivedFrom' = [ArrivedFrom EXCEPT ![k] = ArrivedFrom[k] \cup FramedBy[k]]
  <2>1. ArrivedFrom[k] = From(k) /\ FramedBy[k] = ItemsOf(sending[k])
    BY DEF ArrivedFrom, FramedBy
  <2> QED
    BY <1>6, <1>7, <2>1 DEF ArrivedFrom
<1>9. /\ FramedBy' = [FramedBy EXCEPT ![k] = {}]
      /\ UNCHANGED <<Large, Left, KeptBy, Missed, Returned>>
  BY <1>1, Emptied, SameParts
<1>10. k \notin Returned
  BY DEF Returned
<1>11. Promised!Arrive(k)
  BY <1>1, <1>8, <1>9, <1>10
     DEF Promised!Arrive, Large, Left, KeptBy, FramedBy, ArrivedFrom, Missed, Returned
<1> QED
  BY <1>11 DEF Promises, Promised!Next, Promised!SenderStep

LEMMA GiveUpPromises ==
    ASSUME IndInv, NEW k \in Sender, state[k] # "stopped", GiveUp(k),
           UNCHANGED <<senderVars, stream>>
    PROVE  Promises
<1>1. /\ lost' = lost \cup ItemsOf(sending[k])
      /\ UNCHANGED <<size, offered, dropped, in, closed, state, batch, unfit, received, stream>>
  BY DEF GiveUp, senderVars
<1>2. /\ FramedBy' = [FramedBy EXCEPT ![k] = {}] /\ FramedBy[k] = ItemsOf(sending[k])
      /\ UNCHANGED <<Large, Left, KeptBy, ArrivedFrom, Returned>>
  BY <1>1, Emptied, SameParts
<1>3. Missed' = Missed \cup FramedBy[k]
  BY <1>1, <1>2 DEF Missed
<1>4. k \notin Returned
  BY DEF Returned
<1>5. Promised!Lose(k)
  BY <1>1, <1>2, <1>3, <1>4
     DEF Promised!Lose, Large, Left, KeptBy, FramedBy, ArrivedFrom, Missed, Returned
<1> QED
  BY <1>5 DEF Promises, Promised!Next, Promised!SenderStep

LEMMA ReturnPromises ==
    ASSUME IndInv, NEW k \in Sender, Return(k)
    PROVE  Promises
<1>1. /\ closed /\ in = <<>> /\ batch[k] = <<>> /\ sending[k] = <<>>
      /\ state \in [Sender -> {"new", "loop", "draining", "stopped"}]
      /\ state' = [state EXCEPT ![k] = "stopped"]
      /\ UNCHANGED <<size, offered, dropped, in, closed, batch, unfit,
                     stream, sending, received, lost>>
  BY DEF Return, CloseConn, IndInv, TypeOK, Sending, Holds
<1>2. Left = {} /\ KeptBy[k] = {} /\ FramedBy[k] = {}
  BY <1>1, Frames DEF Left, KeptBy, FramedBy
<1>3. Returned' = Returned \cup {k}
  BY <1>1 DEF Returned
<1>4. UNCHANGED <<Large, Left, KeptBy, FramedBy, ArrivedFrom, Missed>>
  BY <1>1, SameParts
<1>5. Promised!End(k)
  BY <1>1, <1>2, <1>3, <1>4
     DEF Promised!End, Large, Left, KeptBy, FramedBy, ArrivedFrom, Missed, Returned
<1> QED
  BY <1>5 DEF Promises, Promised!Next, Promised!SenderStep

\* Nothing that the view shows changes.
LEMMA StillPromises ==
    ASSUME UNCHANGED <<size, stream, offered, dropped, in, closed, batch, sending, received,
                       unfit, lost>>, Returned' = Returned
    PROVE  Promises
<1>1. UNCHANGED View
  BY SameParts DEF View
<1> QED
  BY <1>1, SameView

\* Only a return changes who has returned.
LEMMA StillReturned ==
    ASSUME IndInv, NEW k \in Sender, Start(k) \/ SeeClosed(k)
    PROVE  Returned' = Returned /\ state[k] # "stopped"
BY DEF Start, SeeClosed, AtSelect, IndInv, TypeOK, Returned

LEMMA StepPromises == IndInv /\ Ordered /\ [Next]_vars => Promises
<1> SUFFICES ASSUME IndInv, Ordered, [Next]_vars PROVE Promises
  OBVIOUS
<1>1. CASE UNCHANGED vars
  BY <1>1, StillPromises DEF vars, senderVars, workerVars, Returned
<1>2. CASE Offer
  BY <1>2, OfferPromises
<1>3. CASE CloseIn
  <2>1. /\ ~closed /\ closed' = TRUE
        /\ UNCHANGED <<size, stream, offered, dropped, in, state, batch, sending, received,
                       unfit, lost>>
    BY <1>3 DEF CloseIn, workerVars
  <2>2. UNCHANGED <<Large, Left, KeptBy, FramedBy, ArrivedFrom, Missed, Returned>>
    BY <2>1, SameParts
  <2>3. Promised!CloseQueue
    BY <2>1, <2>2
       DEF Promised!CloseQueue, Large, Left, KeptBy, FramedBy, ArrivedFrom, Missed, Returned
  <2> QED
    BY <2>3 DEF Promises, Promised!Next
<1>4. CASE AgentStep /\ UNCHANGED senderVars
  BY <1>4, StillPromises
     DEF AgentStep, AgentDown, AgentUp, AgentHangsUp, senderVars, Returned
<1>5. ASSUME NEW k \in Sender, Start(k) \/ SenderStep(k) PROVE Promises
  <2>1. CASE Start(k)
    BY <2>1, StillReturned, StillPromises DEF Start, workerVars
  <2>2. CASE Tick(k)
    BY <2>2, FlushPromises DEF Tick, AtSelect, Returned
  <2>3. CASE SeeClosed(k)
    <3>1. CASE LeavesUnsent(k)
      BY <2>3, <3>1, StillReturned, FlushPromises DEF SeeClosed
    <3>2. CASE ~LeavesUnsent(k)
      BY <2>3, <3>2, StillReturned, StillPromises DEF SeeClosed, workerVars
    <3> QED
      BY <3>1, <3>2
  <2>4. CASE TakeUnfit(k) \/ TakeAndBuffer(k) \/ TakeAndSendAlone(k) \/ TakeAndFlush(k)
    BY <2>4, TakesPromise
  <2>5. CASE Return(k)
    BY <2>5, ReturnPromises
  <2>6. CASE WorkerStep(k) /\ UNCHANGED senderVars
    <3>1. /\ UNCHANGED stream /\ call[k] # "none"
          /\ Deliver(k) \/ GiveUp(k) \/ UNCHANGED <<sending, received, lost>>
      BY <2>6 DEF WorkerStep, Dial, Write, BrokenPipe, Redial, WriteError, MayRetry
    <3>2. state[k] # "stopped"
      BY <3>1 DEF IndInv, Sending, Holds
    <3>3. CASE Deliver(k)
      BY <2>6, <3>1, <3>2, <3>3, DeliverPromises
    <3>4. CASE GiveUp(k)
      BY <2>6, <3>1, <3>2, <3>4, GiveUpPromises
    <3>5. CASE UNCHANGED <<sending, received, lost>>
      BY <2>6, <3>1, <3>5, StillPromises DEF senderVars, Returned
    <3> QED
      BY <3>1, <3>3, <3>4, <3>5
  <2> QED
    BY <1>5, <2>1, <2>2, <2>3, <2>4, <2>5, <2>6 DEF SenderStep
<1> QED
  BY <1>1, <1>2, <1>3, <1>4, <1>5 DEF Next

\* sendLoop and its worker implement Delivery, for any number of senders and any
\* sizes, through whatever the agent does: every step is one of Delivery's, or
\* changes nothing it shows.
THEOREM ImplementsDeliveryCorrect == Spec => ImplementsDelivery
<1>1. Init => Ordered /\ Promised!Init
  BY InitOrdered, InitPromises
<1>2. IndInv /\ Ordered /\ [Next]_vars => Ordered'
  BY StepOrders
<1>3. IndInv /\ Ordered /\ [Next]_vars => [Promised!Next]_(Promised!vars)
  BY StepPromises DEF Promises
<1>4. Spec => Promised!Init /\ [][Promised!Next]_(Promised!vars)
  BY <1>1, <1>2, <1>3, Invariance, PTL DEF Spec
<1> QED
  BY <1>4 DEF ImplementsDelivery, Promised!Spec
=============================================================================
