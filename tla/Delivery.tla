------------------------------- MODULE Delivery -------------------------------
(***************************************************************************)
(* What the senders of traces and logs promise, without sizes, buffers,    *)
(* tickers, connections and retries: an item goes one way, from the queue  *)
(* into what one sender keeps, from there into a frame and to the agent.   *)
(* The oldest item is taken first; what a sender keeps goes out as a whole *)
(* before what it takes later, except that a large item goes out alone and *)
(* at once; a frame arrives whole, once, or not at all; and a sender ends  *)
(* only when the queue is closed and nothing is left to be sent.  To arrive *)
(* is to be taken by a write on a connection to the agent.                 *)
(*                                                                         *)
(* Items are numbered in the order in which they come.                     *)
(***************************************************************************)
EXTENDS Naturals

CONSTANTS Sender, Item

VARIABLES
    large,    \* the items too large to be kept with others
    open,     \* the queue takes items
    entered,  \* how many items have come
    queue,    \* the items nobody has taken
    kept,     \* [Sender -> SUBSET Item], taken and not on their way yet
    frame,    \* [Sender -> SUBSET Item], on their way together
    arrived,  \* [Sender -> SUBSET Item], written to the agent
    gone,     \* the items that will not arrive
    ended     \* the senders that have returned

vars == <<large, open, entered, queue, kept, frame, arrived, gone, ended>>

Nothing == [k \in Sender |-> {}]

Init ==
    /\ large \subseteq Item
    /\ open = TRUE
    /\ entered = 0
    /\ queue = {}
    /\ kept = Nothing
    /\ frame = Nothing
    /\ arrived = Nothing
    /\ gone = {}
    /\ ended = {}
-----------------------------------------------------------------------------
Enter(i) ==
    /\ open
    /\ i = entered + 1
    /\ entered' = i
    /\ \/ queue' = queue \cup {i} /\ UNCHANGED gone
       \/ gone' = gone \cup {i} /\ UNCHANGED queue
    /\ UNCHANGED <<large, open, kept, frame, arrived, ended>>

CloseQueue ==
    /\ open
    /\ open' = FALSE
    /\ UNCHANGED <<large, entered, queue, kept, frame, arrived, gone, ended>>

\* Sender k has taken i, the oldest item.
Take(k, i) ==
    /\ k \notin ended
    /\ i \in queue
    /\ \A j \in queue : i <= j
    /\ queue' = queue \ {i}
    /\ UNCHANGED <<large, open, entered, arrived, ended>>

Skip(k, i) ==
    /\ Take(k, i)
    /\ gone' = gone \cup {i}
    /\ UNCHANGED <<kept, frame>>

Keep(k, i) ==
    /\ Take(k, i)
    /\ i \notin large
    /\ kept' = [kept EXCEPT ![k] = @ \cup {i}]
    /\ UNCHANGED <<frame, gone>>

Put(k, items) ==
    /\ frame[k] = {}
    /\ frame' = [frame EXCEPT ![k] = items]

\* A large item overtakes what its sender keeps.
SendAlone(k, i) ==
    /\ Take(k, i)
    /\ i \in large
    /\ Put(k, {i})
    /\ UNCHANGED <<kept, gone>>

SendAndKeep(k, i) ==
    /\ Take(k, i)
    /\ i \notin large
    /\ Put(k, kept[k])
    /\ kept' = [kept EXCEPT ![k] = {i}]
    /\ UNCHANGED gone

Send(k) ==
    /\ k \notin ended
    /\ Put(k, kept[k])
    /\ kept' = [kept EXCEPT ![k] = {}]
    /\ UNCHANGED <<large, open, entered, queue, arrived, gone, ended>>

Arrive(k) ==
    /\ k \notin ended
    /\ arrived' = [arrived EXCEPT ![k] = @ \cup frame[k]]
    /\ frame' = [frame EXCEPT ![k] = {}]
    /\ UNCHANGED <<large, open, entered, queue, kept, gone, ended>>

Lose(k) ==
    /\ k \notin ended
    /\ gone' = gone \cup frame[k]
    /\ frame' = [frame EXCEPT ![k] = {}]
    /\ UNCHANGED <<large, open, entered, queue, kept, arrived, ended>>

End(k) ==
    /\ ~open /\ queue = {}
    /\ kept[k] = {} /\ frame[k] = {}
    /\ ended' = ended \cup {k}
    /\ UNCHANGED <<large, open, entered, queue, kept, frame, arrived, gone>>

SenderStep(k) ==
    \/ Send(k) \/ Arrive(k) \/ Lose(k) \/ End(k)
    \/ \E i \in queue : Skip(k, i) \/ Keep(k, i) \/ SendAlone(k, i) \/ SendAndKeep(k, i)

Next ==
    \/ \E i \in Item : Enter(i)
    \/ CloseQueue
    \/ \E k \in Sender : SenderStep(k)

Spec == Init /\ [][Next]_vars
=============================================================================
