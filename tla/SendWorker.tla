----------------------------- MODULE SendWorker -----------------------------
(***************************************************************************)
(* The workers that write frames to the agent's unix sockets               *)
(* (trace/internal/sendworker/worker.go): one DatagramWorker or            *)
(* StreamWorker per sender goroutine, and the agent at the other end, which *)
(* may close a connection, go away and come back between any two calls.    *)
(*                                                                         *)
(* A frame is the sequence of the items it carries.  A stream worker frames *)
(* it with EncodePreAllocated, in place, in the Offset bytes its caller     *)
(* left free; the content of that prefix is no concern here.               *)
(***************************************************************************)
EXTENDS Naturals, Sequences

CONSTANTS Sender    \* the sender goroutines, each with a worker of its own

VARIABLES
    stream,     \* the workers are StreamWorkers, not DatagramWorkers
    listening,  \* the agent accepts connections
    conn,       \* w.conn: "nil", "up", "down" (closed by the agent), "closed" (by us)
    call,       \* where BatchSend is: "none", "dial", "write", "redial", "rewrite"
    sending,    \* the frame BatchSend was called with
    leaked,     \* connections dropped without a Close
    received,   \* Seq([from, items]): the frames conn.Write took; the kernel has
                \* them, whether the agent reads them is not known to the code
    lost        \* items of frames BatchSend gave up on

workerVars == <<stream, listening, conn, call, sending, leaked, received, lost>>

ItemsOf(frame) == {frame[i] : i \in DOMAIN frame}

WorkerInit ==
    /\ stream \in BOOLEAN
    /\ listening \in BOOLEAN
    /\ conn = [k \in Sender |-> "nil"]
    /\ call = [k \in Sender |-> "none"]
    /\ sending = [k \in Sender |-> <<>>]
    /\ leaked = 0
    /\ received = <<>>
    /\ lost = {}
-----------------------------------------------------------------------------
\* The call of BatchSend(data, tags) by a sender.
BatchSend(k, frame) ==
    /\ call[k] = "none"
    /\ sending' = [sending EXCEPT ![k] = frame]
    /\ call' = [call EXCEPT ![k] = IF conn[k] = "nil" THEN "dial" ELSE "write"]
    /\ UNCHANGED <<stream, listening, conn, leaked, received, lost>>

\* BatchSend returns once a write has taken the frame. (Fault: after the first
\* write it goes on to the second.)
Deliver_Twice(k) ==
    /\ received' = Append(received, [from |-> k, items |-> sending[k]])
    /\ call' = [call EXCEPT ![k] = IF @ = "write" THEN "rewrite" ELSE "none"]
    /\ sending' = [sending EXCEPT ![k] = IF call[k] = "write" THEN @ ELSE <<>>]
    /\ UNCHANGED lost
Deliver(k) ==
    /\ received' = Append(received, [from |-> k, items |-> sending[k]])
    /\ sending' = [sending EXCEPT ![k] = <<>>]
    /\ call' = [call EXCEPT ![k] = "none"]
    /\ UNCHANGED lost

GiveUp(k) ==
    /\ lost' = lost \cup ItemsOf(sending[k])
    /\ sending' = [sending EXCEPT ![k] = <<>>]
    /\ call' = [call EXCEPT ![k] = "none"]
    /\ UNCHANGED received

\* newConn when there is no connection; without one BatchSend returns.
Dial(k) ==
    /\ call[k] = "dial"
    /\ IF listening
       THEN /\ conn' = [conn EXCEPT ![k] = "up"]
            /\ call' = [call EXCEPT ![k] = "write"]
            /\ UNCHANGED <<sending, received, lost>>
       ELSE UNCHANGED conn /\ GiveUp(k)
    /\ UNCHANGED <<stream, listening, leaked>>

\* conn.Write returns no error: the frame is on its way in the connection.
Write(k) ==
    /\ call[k] \in {"write", "rewrite"}
    /\ conn[k] = "up"
    /\ Deliver(k)
    /\ UNCHANGED <<stream, listening, conn, leaked>>

\* Only the first write of a BatchSend is tried again. (Fault: every write.)
MayRetry_Always(k) == call[k] \in {"write", "rewrite"}
MayRetry(k) == call[k] = "write"

\* conn.Write fails with "broken pipe": a stream worker closes the connection
\* and tries again once.
BrokenPipe(k) ==
    /\ stream
    /\ MayRetry(k)
    /\ conn[k] = "down"
    /\ call' = [call EXCEPT ![k] = "redial"]
    /\ UNCHANGED <<stream, listening, conn, sending, leaked, received, lost>>

\* CloseConn closes w.conn but does not set it to nil.
AfterCloseConn(c) == IF c = "nil" THEN "nil" ELSE "closed"

\* CloseConn, newConn. When the dial fails w.conn is still the closed
\* connection, so that "if w.conn == nil" does not return.
Redial(k) ==
    LET c == AfterCloseConn(conn[k]) IN
    /\ call[k] = "redial"
    /\ conn' = [conn EXCEPT ![k] = IF listening THEN "up" ELSE c]
    /\ leaked' = IF listening /\ c \in {"up", "down"} THEN leaked + 1 ELSE leaked
    /\ call' = [call EXCEPT ![k] = "rewrite"]
    /\ UNCHANGED <<stream, listening, sending, received, lost>>

\* w.conn after conn.Close()
AfterError == "nil"

\* Any other error, or an error of the second write: Close and w.conn = nil.
WriteError(k) ==
    /\ call[k] \in {"write", "rewrite"}
    /\ conn' = [conn EXCEPT ![k] = AfterError]
    /\ GiveUp(k)
    /\ UNCHANGED <<stream, listening, leaked>>

\* No write has a deadline: as long as the agent keeps a connection open and
\* does not read from it, conn.Write may go on waiting.
MayBlock(k) == call[k] \in {"write", "rewrite"} /\ conn[k] = "up"

WorkerStep(k) == Dial(k) \/ Write(k) \/ BrokenPipe(k) \/ Redial(k) \/ WriteError(k)

\* CloseConn when the sender goroutine returns.
CloseConn(k) ==
    /\ conn' = [conn EXCEPT ![k] = AfterCloseConn(@)]
    /\ UNCHANGED <<stream, listening, call, sending, leaked, received, lost>>
-----------------------------------------------------------------------------
(* The agent, which is not part of this repository                          *)

HangUp(c) == IF c = "up" THEN "down" ELSE c

AgentDown ==
    /\ listening
    /\ listening' = FALSE
    /\ conn' = [k \in Sender |-> HangUp(conn[k])]
    /\ UNCHANGED <<stream, call, sending, leaked, received, lost>>

AgentUp ==
    /\ ~listening
    /\ listening' = TRUE
    /\ UNCHANGED <<stream, conn, call, sending, leaked, received, lost>>

AgentHangsUp(k) ==
    /\ conn[k] = "up"
    /\ conn' = [conn EXCEPT ![k] = HangUp(@)]
    /\ UNCHANGED <<stream, listening, call, sending, leaked, received, lost>>

AgentStep == AgentDown \/ AgentUp \/ \E k \in Sender : AgentHangsUp(k)
=============================================================================
