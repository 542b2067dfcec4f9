------------------------- MODULE MetricsClient_proofs -------------------------
(***************************************************************************)
(* Theorems about MetricsClient, for any numbers of callers, workers,     *)
(* slices and items and any sizes: a slice of the pool never has two       *)
(* owners, nobody is left to send when dataBuf is closed, no item is lost  *)
(* or repeated, Close leaves none behind, and no packet is too large.      *)
(***************************************************************************)
EXTENDS MetricsClient, FiniteSetTheorems, WellFoundedInduction, TLAPS

USE ClientAssumption DEF Token

\* The types the theorems need.
Types ==
    /\ batchBuf \in Buffer
    /\ free \subseteq Buffer
    /\ held \in [Emitter -> Token]
    /\ flushBatch \in Token
    /\ dataBuf \in Seq(Token)
    /\ recvq \in Seq(Worker)
    /\ worker \in [Worker -> {"off", "ready", "waiting", "batch", "nil", "last", "done"}]
    /\ items \in [Worker -> Token]
    /\ \A w \in Worker : worker[w] = "batch" => items[w] \in Buffer

\* Of two owners at least one has no slice, each with those named before it.
Exclusive ==
    /\ batchBuf \notin free
    /\ flushBatch \notin free \cup {batchBuf}
    /\ \A e \in Emitter :
           /\ held[e] \notin free \cup {batchBuf}
           /\ held[e] = flushBatch => held[e] = NoBuffer
           /\ \A d \in Emitter : d # e /\ held[e] = held[d] => held[e] = NoBuffer
    /\ \A j \in DOMAIN dataBuf :
           /\ dataBuf[j] \notin free \cup {batchBuf}
           /\ dataBuf[j] = flushBatch => dataBuf[j] = NoBuffer
           /\ \A e \in Emitter : dataBuf[j] = held[e] => dataBuf[j] = NoBuffer
           /\ \A i \in DOMAIN dataBuf : i # j /\ dataBuf[j] = dataBuf[i] => dataBuf[j] = NoBuffer
    /\ \A w \in Worker :
           /\ items[w] \notin free \cup {batchBuf}
           /\ items[w] = flushBatch => items[w] = NoBuffer
           /\ \A e \in Emitter : items[w] = held[e] => items[w] = NoBuffer
           /\ \A j \in DOMAIN dataBuf : items[w] = dataBuf[j] => items[w] = NoBuffer
           /\ \A v \in Worker : v # w /\ items[w] = items[v] => items[w] = NoBuffer

\* A caller that still holds a batch once Close has begun overlaps it.
Closing ==
    /\ phase \in {"new", "running", "stopping", "draining", "closed"}
    /\ DataClosed => flusher = "done"
    /\ ~crashed \/ overlap
    /\ phase \notin {"new", "running"} /\ ~overlap => \A e \in Emitter : held[e] = NoBuffer

IndInv == Types /\ Exclusive /\ Closing

LEMMA InitInv == Init => IndInv
<1> SUFFICES ASSUME Init PROVE IndInv
  OBVIOUS
<1>1. Types
  <2>1. dataBuf \in Seq(Token) /\ recvq \in Seq(Worker)
    BY DEF Init
  <2>2. batchBuf \in Buffer /\ free \subseteq Buffer
    BY DEF Init
  <2> QED
    BY <2>1, <2>2 DEF Init, Types
<1>2. Exclusive
  <2>1. DOMAIN dataBuf = {}
    BY DEF Init
  <2> QED
    BY <2>1 DEF Init, Exclusive
<1>3. Closing
  BY DEF Init, Closing, DataClosed
<1> QED
  BY <1>1, <1>2, <1>3 DEF IndInv
-----------------------------------------------------------------------------
(* The channel                                                             *)

LEMMA SendTypes ==
    ASSUME Types, NEW tok \in Token, Send(tok)
    PROVE  /\ dataBuf' \in Seq(Token) /\ recvq' \in Seq(Worker)
           /\ worker' \in [Worker -> {"off", "ready", "waiting", "batch", "nil", "last", "done"}]
           /\ items' \in [Worker -> Token]
           /\ \A w \in Worker : worker'[w] = "batch" => items'[w] \in Buffer
           /\ \/ \E w \in Worker : items' = [items EXCEPT ![w] = tok] /\ UNCHANGED dataBuf
              \/ dataBuf' = Append(dataBuf, tok) /\ UNCHANGED items
<1>1. CASE recvq # <<>>
  <2>1. Head(recvq) \in Worker /\ Tail(recvq) \in Seq(Worker)
    BY <1>1 DEF Types
  <2>2. Got(Head(recvq), tok) /\ recvq' = Tail(recvq) /\ UNCHANGED dataBuf
    BY <1>1 DEF Send
  <2> QED
    BY <2>1, <2>2 DEF Got, Types
<1>2. CASE recvq = <<>>
  <2>1. dataBuf' = Append(dataBuf, tok) /\ UNCHANGED <<recvq, worker, items>>
    BY <1>2 DEF Send, workerVars
  <2> QED
    BY <2>1 DEF Types
<1> QED
  BY <1>1, <1>2

\* What is sent leaves its owner.
LEMMA SendKeeps ==
    ASSUME Types, Exclusive, NEW tok \in Token, Send(tok), UNCHANGED <<batchBuf, free>>,
           held' \in [Emitter -> Token], \A e \in Emitter : held'[e] \in {held[e], NoBuffer},
           flushBatch' \in {flushBatch, NoBuffer},
           tok # NoBuffer =>
               /\ tok \notin free \cup {batchBuf} /\ tok # flushBatch'
               /\ \A e \in Emitter : held'[e] # tok
               /\ \A j \in DOMAIN dataBuf : dataBuf[j] # tok
               /\ \A w \in Worker : items[w] # tok
    PROVE  Exclusive'
<1>t. /\ batchBuf \in Buffer /\ free \subseteq Buffer /\ dataBuf \in Seq(Token)
      /\ items \in [Worker -> Token] /\ NoBuffer \notin Buffer
  BY DEF Types
<1>0. /\ batchBuf' \notin free'
      /\ flushBatch' \notin free' \cup {batchBuf'}
      /\ \A e \in Emitter :
           /\ held'[e] \notin free' \cup {batchBuf'}
           /\ held'[e] = flushBatch' => held'[e] = NoBuffer
           /\ \A d \in Emitter : d # e /\ held'[e] = held'[d] => held'[e] = NoBuffer
  BY <1>t DEF Exclusive
<1>1. CASE \E w \in Worker : items' = [items EXCEPT ![w] = tok] /\ UNCHANGED dataBuf
  <2>1. PICK w \in Worker : items' = [items EXCEPT ![w] = tok] /\ UNCHANGED dataBuf
    BY <1>1
  <2>2. \A v \in Worker : items'[v] = IF v = w THEN tok ELSE items[v]
    BY <1>t, <2>1
  <2>3. \A j \in DOMAIN dataBuf' :
           /\ dataBuf'[j] \notin free' \cup {batchBuf'}
           /\ dataBuf'[j] = flushBatch' => dataBuf'[j] = NoBuffer
           /\ \A e \in Emitter : dataBuf'[j] = held'[e] => dataBuf'[j] = NoBuffer
           /\ \A i \in DOMAIN dataBuf' :
                  i # j /\ dataBuf'[j] = dataBuf'[i] => dataBuf'[j] = NoBuffer
    BY <1>t, <2>1 DEF Exclusive
  <2>4. \A v \in Worker :
           /\ items'[v] \notin free' \cup {batchBuf'}
           /\ items'[v] = flushBatch' => items'[v] = NoBuffer
           /\ \A e \in Emitter : items'[v] = held'[e] => items'[v] = NoBuffer
           /\ \A j \in DOMAIN dataBuf' : items'[v] = dataBuf'[j] => items'[v] = NoBuffer
           /\ \A u \in Worker : u # v /\ items'[v] = items'[u] => items'[v] = NoBuffer
    BY <1>t, <2>1, <2>2 DEF Exclusive
  <2> QED
    BY <1>0, <2>3, <2>4 DEF Exclusive
<1>2. CASE dataBuf' = Append(dataBuf, tok) /\ UNCHANGED items
  <2>1. /\ DOMAIN dataBuf = 1..Len(dataBuf) /\ Len(dataBuf) \in Nat
        /\ DOMAIN dataBuf' = 1..(Len(dataBuf) + 1)
        /\ \A j \in DOMAIN dataBuf' : IF j = Len(dataBuf) + 1 THEN dataBuf'[j] = tok
                                      ELSE j \in DOMAIN dataBuf /\ dataBuf'[j] = dataBuf[j]
    BY <1>t, <1>2
  <2>2. \A j \in DOMAIN dataBuf' :
           /\ dataBuf'[j] \notin free' \cup {batchBuf'}
           /\ dataBuf'[j] = flushBatch' => dataBuf'[j] = NoBuffer
           /\ \A e \in Emitter : dataBuf'[j] = held'[e] => dataBuf'[j] = NoBuffer
           /\ \A i \in DOMAIN dataBuf' :
                  i # j /\ dataBuf'[j] = dataBuf'[i] => dataBuf'[j] = NoBuffer
    BY <1>t, <2>1 DEF Exclusive
  <2>3. \A v \in Worker :
           /\ items'[v] \notin free' \cup {batchBuf'}
           /\ items'[v] = flushBatch' => items'[v] = NoBuffer
           /\ \A e \in Emitter : items'[v] = held'[e] => items'[v] = NoBuffer
           /\ \A j \in DOMAIN dataBuf' : items'[v] = dataBuf'[j] => items'[v] = NoBuffer
           /\ \A u \in Worker : u # v /\ items'[v] = items'[u] => items'[v] = NoBuffer
    BY <1>t, <1>2, <2>1 DEF Exclusive
  <2> QED
    BY <1>0, <2>2, <2>3 DEF Exclusive
<1> QED
  BY <1>1, <1>2, SendTypes
-----------------------------------------------------------------------------
(* The callers                                                             *)

LEMMA EmitterSteps ==
    ASSUME IndInv, ~crashed, NEW e \in Emitter,
           EmitMetric(e) \/ OfferBatch(e) \/ OfferPanics(e)
    PROVE  IndInv'
<1>t. Types /\ Exclusive /\ Closing
  BY DEF IndInv
<1>1. CASE EmitMetric(e)
  <2>1. /\ held[e] = NoBuffer /\ overlap' = (overlap \/ phase \notin {"new", "running"})
        /\ \/ held' = [held EXCEPT ![e] = batchBuf] /\ NewBatch
           \/ UNCHANGED <<held, batchBuf, free>>
        /\ UNCHANGED <<flusher, flushBatch, dataBuf, recvq, worker, items, phase, crashed>>
    BY <1>1 DEF EmitMetric, flusherVars, workerVars
  <2>2. CASE UNCHANGED <<held, batchBuf, free>>
    BY <1>t, <2>1, <2>2 DEF IndInv, Types, Exclusive, Closing, DataClosed
  <2>3. CASE held' = [held EXCEPT ![e] = batchBuf] /\ NewBatch
    <3>1. PICK b \in free : batchBuf' = b /\ free' = free \ {b}
      BY <2>3 DEF NewBatch
    <3>2. /\ held' \in [Emitter -> Token]
          /\ \A d \in Emitter : held'[d] = IF d = e THEN batchBuf ELSE held[d]
      BY <1>t, <2>3 DEF Types
    <3>3. Types'
      BY <1>t, <2>1, <3>1, <3>2 DEF Types
    <3>4. Exclusive'
      BY <1>t, <2>1, <3>1, <3>2 DEF Types, Exclusive
    <3>5. Closing'
      BY <1>t, <2>1 DEF Closing, DataClosed
    <3> QED
      BY <3>3, <3>4, <3>5 DEF IndInv
  <2> QED
    BY <2>1, <2>2, <2>3
<1>2. CASE OfferBatch(e)
  <2>1. /\ held[e] # NoBuffer /\ ~DataClosed /\ held' = [held EXCEPT ![e] = NoBuffer]
        /\ Send(held[e]) \/ UNCHANGED <<dataBuf, recvq, worker, items>>
        /\ UNCHANGED <<batchBuf, free, flusher, flushBatch, phase, crashed, overlap>>
    BY <1>2 DEF OfferBatch, flusherVars, workerVars, panicVars
  <2>2. /\ held' \in [Emitter -> Token] /\ held[e] \in Token
        /\ \A d \in Emitter : held'[d] = IF d = e THEN NoBuffer ELSE held[d]
    BY <1>t, <2>1 DEF Types
  <2>3. Closing'
    BY <1>t, <2>1, <2>2 DEF Closing, DataClosed
  <2>4. CASE Send(held[e])
    <3>1. Types'
      BY <1>t, <2>1, <2>2, <2>4, SendTypes DEF Types
    <3>2. /\ held[e] \notin free \cup {batchBuf} /\ held[e] # flushBatch'
          /\ \A d \in Emitter : held'[d] # held[e]
          /\ \A j \in DOMAIN dataBuf : dataBuf[j] # held[e]
          /\ \A w \in Worker : items[w] # held[e]
      BY <1>t, <2>1, <2>2 DEF Exclusive
    <3>3. Exclusive'
      BY <1>t, <2>1, <2>2, <2>4, <3>2, SendKeeps
    <3> QED
      BY <2>3, <3>1, <3>3 DEF IndInv
  <2>5. CASE UNCHANGED <<dataBuf, recvq, worker, items>>
    <3>1. Types'
      BY <1>t, <2>1, <2>2, <2>5 DEF Types
    <3>2. Exclusive'
      BY <1>t, <2>1, <2>2, <2>5 DEF Types, Exclusive
    <3> QED
      BY <2>3, <3>1, <3>2 DEF IndInv
  <2> QED
    BY <2>1, <2>4, <2>5
<1>3. CASE OfferPanics(e)
  <2>1. /\ held[e] # NoBuffer /\ DataClosed
        /\ UNCHANGED <<batchBuf, free, held, flusher, flushBatch, dataBuf, recvq, worker, items,
                       phase, overlap>>
    BY <1>3 DEF OfferPanics, batchVars, flusherVars, workerVars
  <2>2. overlap
    BY <1>t, <2>1 DEF Closing, DataClosed
  <2> QED
    BY <1>t, <2>1, <2>2 DEF IndInv, Types, Exclusive, Closing, DataClosed
<1> QED
  BY <1>1, <1>2, <1>3
-----------------------------------------------------------------------------
(* The flusher                                                             *)

LEMMA FlusherSteps ==
    ASSUME IndInv, ~crashed, FlusherStep
    PROVE  IndInv'
<1>t. Types /\ Exclusive /\ Closing
  BY DEF IndInv
<1>1. CASE Tick \/ FlusherStop
  <2>1. /\ flusher = "select"
        /\ \/ flushBatch' = batchBuf /\ NewBatch
           \/ UNCHANGED <<flushBatch, batchBuf, free>>
        /\ UNCHANGED <<held, dataBuf, recvq, worker, items, phase, crashed, overlap>>
    BY <1>1 DEF Tick, FlusherStop, TakeBatch, workerVars, panicVars
  <2>2. Closing'
    BY <1>t, <2>1 DEF Closing, DataClosed
  <2>3. Types' /\ Exclusive'
    <3>1. CASE UNCHANGED <<flushBatch, batchBuf, free>>
      BY <1>t, <2>1, <3>1 DEF Types, Exclusive
    <3>2. CASE flushBatch' = batchBuf /\ NewBatch
      <4>1. PICK b \in free : batchBuf' = b /\ free' = free \ {b}
        BY <3>2 DEF NewBatch
      <4>2. Types'
        BY <1>t, <2>1, <3>2, <4>1 DEF Types
      <4>3. Exclusive'
        BY <1>t, <2>1, <3>2, <4>1 DEF Types, Exclusive
      <4> QED
        BY <4>2, <4>3
    <3> QED
      BY <2>1, <3>1, <3>2
  <2> QED
    BY <2>2, <2>3 DEF IndInv
<1>2. CASE SendBatch
  <2>1. /\ flusher = "batch" /\ flusher' = "nil" /\ Send(flushBatch) /\ flushBatch' = NoBuffer
        /\ UNCHANGED <<batchBuf, free, held, phase, crashed, overlap>>
    BY <1>2 DEF SendBatch, batchVars, panicVars
  <2>2. Closing'
    BY <1>t, <2>1 DEF Closing, DataClosed
  <2>3. Types'
    BY <1>t, <2>1, SendTypes DEF Types
  <2>4. /\ flushBatch \in Token /\ held' \in [Emitter -> Token]
        /\ flushBatch # NoBuffer =>
               /\ flushBatch \notin free \cup {batchBuf} /\ flushBatch # flushBatch'
               /\ \A e \in Emitter : held'[e] # flushBatch
               /\ \A j \in DOMAIN dataBuf : dataBuf[j] # flushBatch
               /\ \A w \in Worker : items[w] # flushBatch
    BY <1>t, <2>1 DEF Types, Exclusive
  <2>5. Exclusive'
    BY <1>t, <2>1, <2>4, SendKeeps
  <2> QED
    BY <2>2, <2>3, <2>5 DEF IndInv
<1>3. CASE SendNil
  <2>1. /\ flusher = "nil" /\ Send(NoBuffer)
        /\ UNCHANGED <<flushBatch, batchBuf, free, held, phase, crashed, overlap>>
    BY <1>3 DEF SendNil, batchVars, panicVars
  <2>2. Closing'
    BY <1>t, <2>1 DEF Closing, DataClosed
  <2>3. Types'
    BY <1>t, <2>1, SendTypes DEF Types
  <2>4. Exclusive'
    BY <1>t, <2>1, SendKeeps DEF Types
  <2> QED
    BY <2>2, <2>3, <2>4 DEF IndInv
<1> QED
  BY <1>1, <1>2, <1>3 DEF FlusherStep
-----------------------------------------------------------------------------
(* The workers                                                             *)

LEMMA WorkerSteps ==
    ASSUME IndInv, ~crashed, NEW w \in Worker, WorkerStep(w)
    PROVE  IndInv'
<1>t. Types /\ Exclusive /\ Closing
  BY DEF IndInv
<1>0. /\ UNCHANGED <<batchBuf, held, flusher, flushBatch, phase, crashed, overlap>>
  BY DEF WorkerStep, Receive, Wait, FormatItem, PutMetricItems, FlushPacket, LastPacket,
         EmptyPacket, batchVars, flusherVars, panicVars
<1>c. Closing'
  BY <1>t, <1>0 DEF Closing, DataClosed
<1>1. CASE Receive(w)
  <2>1. /\ dataBuf # <<>> /\ Got(w, Head(dataBuf)) /\ dataBuf' = Tail(dataBuf)
        /\ UNCHANGED <<free, recvq>>
    BY <1>1 DEF Receive, batchVars
  <2>2. /\ Head(dataBuf) \in Token /\ Head(dataBuf) = dataBuf[1]
        /\ Tail(dataBuf) \in Seq(Token) /\ Len(dataBuf) \in Nat /\ Len(dataBuf) > 0
        /\ DOMAIN dataBuf = 1..Len(dataBuf) /\ DOMAIN dataBuf' = 1..(Len(dataBuf) - 1)
        /\ \A j \in DOMAIN dataBuf' : dataBuf'[j] = dataBuf[j + 1]
    BY <1>t, <2>1 DEF Types
  <2>3. \A v \in Worker : items'[v] = IF v = w THEN dataBuf[1] ELSE items[v]
    BY <1>t, <2>1, <2>2 DEF Got, Types
  <2>4. Types'
    BY <1>t, <1>0, <2>1, <2>2 DEF Types, Got
  <2>5. \A j \in DOMAIN dataBuf' :
            /\ j + 1 \in DOMAIN dataBuf /\ j + 1 # 1
            /\ \A i \in DOMAIN dataBuf' : i # j => i + 1 # j + 1
    BY <2>2
  <2>6. \A j \in DOMAIN dataBuf' :
           /\ dataBuf'[j] \notin free' \cup {batchBuf'}
           /\ dataBuf'[j] = flushBatch' => dataBuf'[j] = NoBuffer
           /\ \A e \in Emitter : dataBuf'[j] = held'[e] => dataBuf'[j] = NoBuffer
           /\ \A i \in DOMAIN dataBuf' :
                  i # j /\ dataBuf'[j] = dataBuf'[i] => dataBuf'[j] = NoBuffer
    BY <1>t, <1>0, <2>1, <2>2, <2>5 DEF Exclusive
  <2>7. \A v \in Worker :
           /\ items'[v] \notin free' \cup {batchBuf'}
           /\ items'[v] = flushBatch' => items'[v] = NoBuffer
           /\ \A e \in Emitter : items'[v] = held'[e] => items'[v] = NoBuffer
           /\ \A j \in DOMAIN dataBuf' : items'[v] = dataBuf'[j] => items'[v] = NoBuffer
           /\ \A u \in Worker : u # v /\ items'[v] = items'[u] => items'[v] = NoBuffer
    <3>1. 1 \in DOMAIN dataBuf
      BY <2>2
    <3> QED
      BY <1>t, <1>0, <2>1, <2>2, <2>3, <2>5, <3>1 DEF Exclusive
  <2>8. Exclusive'
    BY <1>t, <1>0, <2>1, <2>6, <2>7 DEF Exclusive
  <2> QED
    BY <1>c, <2>4, <2>8 DEF IndInv
<1>2. CASE Wait(w)
  <2>1. /\ \E l \in {"last", "waiting"} : worker' = [worker EXCEPT ![w] = l]
        /\ recvq' = recvq \/ recvq' = Append(recvq, w)
        /\ UNCHANGED <<free, dataBuf, items>>
    BY <1>2 DEF Wait, Goto, batchVars
  <2>2. Types'
    <3>1. recvq' \in Seq(Worker)
      <4>1. recvq \in Seq(Worker) /\ Append(recvq, w) \in Seq(Worker)
        BY <1>t DEF Types
      <4> QED
        BY <2>1, <4>1
    <3>2. PICK l \in {"last", "waiting"} : worker' = [worker EXCEPT ![w] = l]
      BY <2>1
    <3> QED
      BY <1>t, <1>0, <2>1, <3>1, <3>2 DEF Types
  <2>3. Exclusive'
    BY <1>t, <1>0, <2>1 DEF Exclusive
  <2> QED
    BY <1>c, <2>2, <2>3 DEF IndInv
<1>3. CASE FormatItem(w)
  <2>1. UNCHANGED <<free, dataBuf, recvq, worker, items>>
    BY <1>3 DEF FormatItem, batchVars
  <2>2. Types' /\ Exclusive'
    BY <1>t, <1>0, <2>1 DEF Types, Exclusive
  <2> QED
    BY <1>c, <2>2 DEF IndInv
<1>4. CASE PutMetricItems(w)
  <2>1. /\ items[w] \in Buffer /\ free' = free \cup {items[w]}
        /\ items' = [items EXCEPT ![w] = NoBuffer]
        /\ worker' = [worker EXCEPT ![w] = "ready"]
        /\ UNCHANGED <<dataBuf, recvq>>
    BY <1>t, <1>4 DEF PutMetricItems, Goto, Types
  <2>2. Types'
    BY <1>t, <1>0, <2>1 DEF Types
  <2>3. \A v \in Worker : items'[v] = IF v = w THEN NoBuffer ELSE items[v]
    BY <1>t, <2>1 DEF Types
  <2>4. Exclusive'
    BY <1>t, <1>0, <2>1, <2>3 DEF Types, Exclusive
  <2> QED
    BY <1>c, <2>2, <2>4 DEF IndInv
<1>5. CASE FlushPacket(w) \/ LastPacket(w)
  <2>1. /\ \E l \in {"ready", "done"} : worker' = [worker EXCEPT ![w] = l]
        /\ UNCHANGED <<free, dataBuf, recvq, items>>
    BY <1>5 DEF FlushPacket, LastPacket, EmptyPacket, Goto, batchVars
  <2>2. Types'
    BY <1>t, <1>0, <2>1 DEF Types
  <2>3. Exclusive'
    BY <1>t, <1>0, <2>1 DEF Exclusive
  <2> QED
    BY <1>c, <2>2, <2>3 DEF IndInv
<1> QED
  BY <1>1, <1>2, <1>3, <1>4, <1>5 DEF WorkerStep
-----------------------------------------------------------------------------
(* Start and Close                                                         *)

LEMMA PhaseSteps ==
    ASSUME IndInv, ~crashed, Start \/ StopFlusher \/ CloseData \/ CloseReturn
    PROVE  IndInv'
<1>t. Types /\ Exclusive /\ Closing
  BY DEF IndInv
<1>0. /\ UNCHANGED <<batchBuf, free, held, flushBatch, dataBuf, items, crashed>>
      /\ recvq' = recvq \/ recvq' = <<>>
  BY DEF Start, StopFlusher, CloseData, CloseReturn, batchVars, flusherVars, workerVars,
         panicVars
<1>1. Exclusive'
  BY <1>t, <1>0 DEF Exclusive
<1>2. Types'
  <2>1. worker' \in [Worker -> {"off", "ready", "waiting", "batch", "nil", "last", "done"}]
        /\ \A w \in Worker : worker'[w] = "batch" => worker[w] = "batch"
    BY <1>t DEF Types, Start, StopFlusher, CloseData, CloseReturn, workerVars
  <2>2. recvq' \in Seq(Worker)
    <3>1. recvq \in Seq(Worker) /\ <<>> \in Seq(Worker)
      BY <1>t DEF Types
    <3> QED
      BY <1>0, <3>1
  <2> QED
    BY <1>t, <1>0, <2>1, <2>2 DEF Types
<1>3. Closing'
  <2>1. CASE Start
    BY <1>t, <1>0, <2>1 DEF Start, Closing, DataClosed, panicVars
  <2>2. CASE StopFlusher
    BY <1>t, <1>0, <2>2 DEF StopFlusher, Closing, DataClosed, flusherVars
  <2>3. CASE CloseData
    BY <1>t, <1>0, <2>3 DEF CloseData, FlusherGone, Closing, DataClosed, flusherVars, panicVars
  <2>4. CASE CloseReturn
    BY <1>t, <1>0, <2>4 DEF CloseReturn, Closing, DataClosed, flusherVars, panicVars
  <2> QED
    BY <2>1, <2>2, <2>3, <2>4
<1> QED
  BY <1>1, <1>2, <1>3 DEF IndInv
-----------------------------------------------------------------------------
LEMMA Inductive == IndInv /\ [Next]_vars => IndInv'
<1> SUFFICES ASSUME IndInv, [Next]_vars PROVE IndInv'
  OBVIOUS
<1>1. CASE UNCHANGED vars
  BY <1>1 DEF vars, batchVars, flusherVars, workerVars, panicVars, IndInv, Types, Exclusive,
              Closing, DataClosed
<1>2. CASE Next
  <2>0. ~crashed
    BY <1>2 DEF Next
  <2>1. ASSUME NEW e \in Emitter, EmitMetric(e) \/ OfferBatch(e) \/ OfferPanics(e)
        PROVE  IndInv'
    BY <2>0, <2>1, EmitterSteps
  <2>2. CASE FlusherStep
    BY <2>0, <2>2, FlusherSteps
  <2>3. ASSUME NEW w \in Worker, WorkerStep(w) PROVE IndInv'
    BY <2>0, <2>3, WorkerSteps
  <2>4. CASE Start \/ StopFlusher \/ CloseData \/ CloseReturn
    BY <2>0, <2>4, PhaseSteps
  <2> QED
    BY <1>2, <2>1, <2>2, <2>3, <2>4 DEF Next
<1> QED
  BY <1>1, <1>2

LEMMA Invariance == Spec => []IndInv
<1>1. Init => IndInv
  BY InitInv
<1>2. IndInv /\ [Next]_vars => IndInv'
  BY Inductive
<1> QED
  BY <1>1, <1>2, PTL DEF Spec

LEMMA AtMostOne ==
    ASSUME NEW S, \A p, q \in S : p = q
    PROVE  Cardinality(S) <= 1
<1>1. CASE S = {}
  BY <1>1, FS_EmptySet
<1>2. CASE S # {}
  <2>1. PICK p : S = {p}
    BY <1>2
  <2>2. Cardinality(S) = 1
    BY <2>1, FS_Singleton
  <2> QED
    BY <2>2
<1> QED
  BY <1>1, <1>2

\* metricItemPool never gives out a slice that is the batch, is held by the
\* flusher or a caller, waits in dataBuf or is being read by a worker, and none
\* of these share one.
THEOREM BufferOwnedCorrect == Spec => []BufferOwned
<1>1. IndInv => BufferOwned
  <2> SUFFICES ASSUME IndInv, NEW b \in Buffer PROVE Cardinality(Owners(b)) <= 1
    BY DEF BufferOwned
  <2>t. Types /\ Exclusive /\ b # NoBuffer
    BY DEF IndInv
  <2> DEFINE E == {e \in Emitter : held[e] = b}
             D == {j \in DOMAIN dataBuf : dataBuf[j] = b}
             W == {w \in Worker : items[w] = b}
  <2>1. /\ b \in free => batchBuf # b /\ flushBatch # b /\ E = {} /\ D = {} /\ W = {}
        /\ b = batchBuf => flushBatch # b /\ E = {} /\ D = {} /\ W = {}
        /\ b = flushBatch => E = {} /\ D = {} /\ W = {}
        /\ \A e, d \in E : e = d
        /\ E # {} => D = {} /\ W = {}
        /\ \A i, j \in D : i = j
        /\ D # {} => W = {}
        /\ \A v, w \in W : v = w
    BY <2>t DEF Exclusive
  <2>2. \A p \in Owners(b) :
            \/ p = <<"pool", 0>> /\ b \in free
            \/ p = <<"batchBuf", 0>> /\ b = batchBuf
            \/ p = <<"flusher", 0>> /\ b = flushBatch
            \/ \E e \in E : p = <<"emitter", e>>
            \/ \E j \in D : p = <<"dataBuf", j>>
            \/ \E w \in W : p = <<"worker", w>>
    BY DEF Owners
  <2> HIDE DEF E, D, W
  <2>3. \A p, q \in Owners(b) : p = q
    BY <2>1, <2>2
  <2> QED
    BY <2>3, AtMostOne
<1> QED
  BY <1>1, Invariance, PTL

\* Close waits for the flusher before it closes dataBuf, so that the flusher
\* never sends on it; a caller that does has overlapped Close.
THEOREM NoSendOnClosedCorrect == Spec => []NoSendOnClosed
<1>1. IndInv => NoSendOnClosed
  BY DEF IndInv, Closing, NoSendOnClosed, DataClosed
<1> QED
  BY <1>1, Invariance, PTL
-----------------------------------------------------------------------------
(* Where the slices, the workers and the flusher are                       *)

DataTypes ==
    /\ size \in [Item -> Sizes]
    /\ emitted \in 0..MaxItems
    /\ content \in [Buffer -> Seq(Item)]
    /\ flusher \in {"off", "select", "batch", "nil", "done"}
    /\ final \in BOOLEAN
    /\ Len(dataBuf) <= ChanSize
    /\ pos \in [Worker -> Nat \ {0}]
    /\ packet \in [Worker -> Seq(Item)]
    /\ delivered \in [Item -> Nat]
    /\ failed \in [Item -> Nat]
    /\ crashed \in BOOLEAN
    /\ overlap \in BOOLEAN

\* The workers that wait are those in recvq, each once, and nobody waits while
\* there is something to receive.
Queued ==
    /\ \A w \in Worker : worker[w] # "batch" => items[w] = NoBuffer
    /\ \A i \in DOMAIN recvq : worker[recvq[i]] = "waiting"
    /\ \A i, j \in DOMAIN recvq : recvq[i] = recvq[j] => i = j
    /\ \A w \in Worker : worker[w] = "waiting" => \E i \in DOMAIN recvq : recvq[i] = w
    /\ recvq # <<>> => dataBuf = <<>>
    /\ \A w \in Worker : worker[w] \in {"last", "done"} => DataClosed /\ dataBuf = <<>>
    /\ \A w \in Worker : worker[w] = "done" => packet[w] = <<>>
    /\ phase = "new" => \A w \in Worker : worker[w] = "off"
    /\ phase = "closed" => \A w \in Worker : worker[w] = "done"

\* The batchFlush after flusherStop leaves an empty batch.
Ending ==
    /\ flushBatch # NoBuffer => flusher = "batch"
    /\ final => phase \notin {"new", "running"} /\ flusher \in {"batch", "nil", "done"}
    /\ flusher = "done" => final
    /\ phase = "new" => flusher = "off"
    /\ final /\ ~overlap => content[batchBuf] = <<>>

\* A slice that somebody has; one in the pool is empty.
Owned(b) ==
    \/ b = batchBuf \/ b = flushBatch
    \/ \E e \in Emitter : held[e] = b
    \/ \E j \in DOMAIN dataBuf : dataBuf[j] = b
    \/ \E w \in Worker : items[w] = b

Stored == \A b \in Buffer : content[b] # <<>> => Owned(b)

Control == DataTypes /\ Queued /\ Ending /\ Stored

LEMMA InitControl == Init => Control
<1> SUFFICES ASSUME Init PROVE Control
  OBVIOUS
<1>0. <<>> \in Seq(Item) /\ DOMAIN <<>> = {} /\ Len(<<>>) = 0
  OBVIOUS
<1>1. DataTypes
  <2>1. /\ content \in [Buffer -> Seq(Item)] /\ packet \in [Worker -> Seq(Item)]
        /\ pos \in [Worker -> Nat \ {0}]
    BY <1>0 DEF Init
  <2>2. delivered \in [Item -> Nat] /\ failed \in [Item -> Nat]
    BY DEF Init
  <2>3. emitted \in 0..MaxItems /\ Len(dataBuf) <= ChanSize
    BY <1>0 DEF Init
  <2> QED
    BY <2>1, <2>2, <2>3 DEF Init, DataTypes
<1>2. Queued
  BY <1>0 DEF Init, Queued
<1>3. Ending
  BY DEF Init, Ending
<1>4. Stored
  BY DEF Init, Stored
<1> QED
  BY <1>1, <1>2, <1>3, <1>4 DEF Control

\* What Send does: a worker that was waiting has the token, or the channel.
Handed(w, tok) ==
    /\ worker[w] = "waiting" /\ items[w] = NoBuffer
    /\ worker' = [worker EXCEPT ![w] = IF tok = NoBuffer THEN "nil" ELSE "batch"]
    /\ items' = [items EXCEPT ![w] = tok]
    /\ pos' = [pos EXCEPT ![w] = 1]
    /\ UNCHANGED <<dataBuf, packet>>

Buffered(tok) ==
    /\ dataBuf' = Append(dataBuf, tok) /\ UNCHANGED <<worker, items, pos, packet>>
    /\ Len(dataBuf') = Len(dataBuf) + 1
    /\ \A j \in 1..Len(dataBuf) : dataBuf'[j] = dataBuf[j]
    /\ dataBuf'[Len(dataBuf) + 1] = tok

LEMMA SendQueues ==
    ASSUME Types, DataTypes, Queued, NEW tok \in Token, CanSend, Send(tok), ~DataClosed,
           UNCHANGED phase
    PROVE  /\ Queued'
           /\ Len(dataBuf') <= ChanSize
           /\ pos' \in [Worker -> Nat \ {0}] /\ UNCHANGED packet
           /\ (\E w \in Worker : Handed(w, tok)) \/ Buffered(tok)
<1>t. /\ dataBuf \in Seq(Token) /\ recvq \in Seq(Worker) /\ pos \in [Worker -> Nat \ {0}]
      /\ worker \in [Worker -> {"off", "ready", "waiting", "batch", "nil", "last", "done"}]
      /\ items \in [Worker -> Token] /\ Len(dataBuf) <= ChanSize
      /\ DataClosed' = DataClosed
  BY DEF Types, DataTypes, DataClosed
<1>1. CASE recvq # <<>>
  <2>1. PICK w \in Worker : w = Head(recvq)
    BY <1>1, <1>t
  <2>2. /\ Got(w, tok) /\ recvq' = Tail(recvq) /\ UNCHANGED <<dataBuf, packet>>
    BY <1>1, <2>1 DEF Send, Got
  <2>3. /\ 1 \in DOMAIN recvq /\ w = recvq[1]
        /\ DOMAIN recvq = 1..Len(recvq) /\ Len(recvq) \in Nat
        /\ DOMAIN recvq' = 1..(Len(recvq) - 1)
        /\ \A i \in DOMAIN recvq' : recvq'[i] = recvq[i + 1] /\ i + 1 \in DOMAIN recvq
    BY <1>1, <1>t, <2>1, <2>2
  <2>4. worker[w] = "waiting" /\ items[w] = NoBuffer
    BY <2>3 DEF Queued
  <2>5. /\ worker' = [worker EXCEPT ![w] = IF tok = NoBuffer THEN "nil" ELSE "batch"]
        /\ items' = [items EXCEPT ![w] = tok] /\ pos' = [pos EXCEPT ![w] = 1]
    BY <2>2 DEF Got
  <2>6. \A v \in Worker :
            /\ worker'[v] = IF v = w THEN IF tok = NoBuffer THEN "nil" ELSE "batch"
                            ELSE worker[v]
            /\ items'[v] = IF v = w THEN tok ELSE items[v]
    BY <1>t, <2>5
  <2>7. \A i \in DOMAIN recvq' : recvq'[i] # w /\ recvq'[i] \in Worker
    <3>1. \A i \in DOMAIN recvq' : i + 1 # 1
      BY <2>3
    <3>2. \A i \in DOMAIN recvq' : recvq[i + 1] # recvq[1]
      BY <2>3, <3>1 DEF Queued
    <3> QED
      BY <1>t, <2>3, <3>2
  <2>8. Queued'
    <3>1. \A i \in DOMAIN recvq' : worker'[recvq'[i]] = "waiting"
      BY <2>3, <2>6, <2>7 DEF Queued
    <3>2. \A i, j \in DOMAIN recvq' : recvq'[i] = recvq'[j] => i = j
      <4>1. \A i, j \in DOMAIN recvq' : recvq[i + 1] = recvq[j + 1] => i + 1 = j + 1
        BY <2>3 DEF Queued
      <4>2. \A i, j \in DOMAIN recvq' : i + 1 = j + 1 => i = j
        BY <2>3
      <4> QED
        BY <2>3, <4>1, <4>2
    <3>3. ASSUME NEW v \in Worker, worker'[v] = "waiting"
          PROVE  \E i \in DOMAIN recvq' : recvq'[i] = v
      <4>1. v # w /\ worker[v] = "waiting"
        BY <2>6, <3>3
      <4>2. PICK i \in DOMAIN recvq : recvq[i] = v
        BY <4>1 DEF Queued
      <4>3. i # 1
        BY <2>3, <4>1, <4>2
      <4>4. i - 1 \in DOMAIN recvq' /\ (i - 1) + 1 = i
        BY <2>3, <4>2, <4>3
      <4> QED
        BY <2>3, <4>2, <4>4
    <3>4. \A v \in Worker : worker'[v] # "batch" => items'[v] = NoBuffer
      BY <2>6 DEF Queued
    <3>5. dataBuf' = <<>>
      BY <1>1, <2>2 DEF Queued
    <3>6. phase # "new" /\ phase # "closed"
      BY <2>4 DEF Queued
    <3>7. \A v \in Worker : worker'[v] \in {"last", "done"} => worker[v] = worker'[v]
      BY <2>6
    <3> QED
      BY <1>t, <2>2, <3>1, <3>2, <3>3, <3>4, <3>5, <3>6, <3>7 DEF Queued
  <2>9. Handed(w, tok)
    BY <2>2, <2>4, <2>5 DEF Handed
  <2>10. pos' \in [Worker -> Nat \ {0}]
    BY <1>t, <2>5
  <2> QED
    BY <1>t, <2>2, <2>8, <2>9, <2>10
<1>2. CASE recvq = <<>>
  <2>1. dataBuf' = Append(dataBuf, tok) /\ UNCHANGED <<recvq, worker, items, pos, packet>>
    BY <1>2 DEF Send, workerVars
  <2>2. /\ Len(dataBuf') = Len(dataBuf) + 1 /\ Len(dataBuf) \in Nat
        /\ \A j \in 1..Len(dataBuf) : dataBuf'[j] = dataBuf[j]
        /\ dataBuf'[Len(dataBuf) + 1] = tok
    BY <1>t, <2>1
  <2>3. Len(dataBuf) < ChanSize
    BY <1>2 DEF CanSend, HasRoom
  <2>4. Queued'
    BY <1>2, <1>t, <2>1 DEF Queued
  <2>5. Len(dataBuf') <= ChanSize
    BY <2>2, <2>3
  <2>6. Buffered(tok)
    BY <2>1, <2>2 DEF Buffered
  <2> QED
    BY <1>t, <2>1, <2>4, <2>5, <2>6
<1> QED
  BY <1>1, <1>2

\* What is sent is still somebody's, and so is everything else.
LEMMA SendOwned ==
    ASSUME Types, Queued, NEW tok \in Token,
           (\E w \in Worker : Handed(w, tok)) \/ Buffered(tok),
           UNCHANGED batchBuf, NEW b \in Buffer, Owned(b),
           b = flushBatch => b \in {tok, flushBatch'},
           \A e \in Emitter : b = held[e] => b \in {tok, held'[e]}
    PROVE  Owned(b)'
<1>t. /\ dataBuf \in Seq(Token) /\ items \in [Worker -> Token] /\ b # NoBuffer
  BY DEF Types
<1>1. CASE \E w \in Worker : Handed(w, tok)
  <2>1. PICK w \in Worker : Handed(w, tok)
    BY <1>1
  <2>2. /\ \A v \in Worker : items'[v] = IF v = w THEN tok ELSE items[v]
        /\ items[w] = NoBuffer /\ dataBuf' = dataBuf
    BY <1>t, <2>1 DEF Handed
  <2>3. tok = b => Owned(b)'
    BY <2>2 DEF Owned
  <2>4. ASSUME NEW v \in Worker, items[v] = b PROVE items'[v] = b
    BY <1>t, <2>2, <2>4
  <2> QED
    BY <2>2, <2>3, <2>4 DEF Owned
<1>2. CASE Buffered(tok)
  <2>1. /\ DOMAIN dataBuf = 1..Len(dataBuf) /\ Len(dataBuf) \in Nat
        /\ DOMAIN dataBuf' = 1..(Len(dataBuf) + 1)
        /\ \A j \in 1..Len(dataBuf) : dataBuf'[j] = dataBuf[j]
        /\ dataBuf'[Len(dataBuf) + 1] = tok /\ items' = items
    BY <1>t, <1>2 DEF Buffered
  <2>2. /\ DOMAIN dataBuf \subseteq DOMAIN dataBuf' /\ Len(dataBuf) + 1 \in DOMAIN dataBuf'
    BY <2>1
  <2>3. tok = b => Owned(b)'
    BY <2>1, <2>2 DEF Owned
  <2> QED
    BY <2>1, <2>2, <2>3 DEF Owned
<1> QED
  BY <1>1, <1>2
-----------------------------------------------------------------------------
LEMMA TallyTypes ==
    ASSUME NEW count \in [Item -> Nat], NEW sequence \in Seq(Item)
    PROVE  Tally(count, sequence) \in [Item -> Nat]
<1>1. ASSUME NEW i \in Item
      PROVE  count[i] + Cardinality({j \in DOMAIN sequence : sequence[j] = i}) \in Nat
  <2>1. DOMAIN sequence = 1..Len(sequence) /\ Len(sequence) \in Nat
    OBVIOUS
  <2>2. IsFiniteSet(1..Len(sequence))
    BY <2>1, FS_Interval
  <2>3. IsFiniteSet({j \in DOMAIN sequence : sequence[j] = i})
    BY <2>1, <2>2, FS_Subset
  <2>4. Cardinality({j \in DOMAIN sequence : sequence[j] = i}) \in Nat
    BY <2>3, FS_CardinalityType
  <2> QED
    BY <2>4
<1> QED
  BY <1>1 DEF Tally

\* A new batch is empty.
LEMMA FreshEmpty ==
    ASSUME Types, Exclusive, DataTypes, Stored, NEW b \in free
    PROVE  b \in Buffer /\ content[b] = <<>>
<1>1. ~Owned(b)
  BY DEF Types, Exclusive, Owned
<1> QED
  BY <1>1 DEF Types, Stored

LEMMA EmitterControl ==
    ASSUME IndInv, Control, ~crashed, NEW e \in Emitter,
           EmitMetric(e) \/ OfferBatch(e) \/ OfferPanics(e)
    PROVE  Control'
<1>t. Types /\ Exclusive /\ Closing /\ DataTypes /\ Queued /\ Ending /\ Stored
  BY DEF IndInv, Control
<1>1. CASE EmitMetric(e)
  <2>1. /\ held[e] = NoBuffer /\ overlap' = (overlap \/ phase \notin {"new", "running"})
        /\ emitted < MaxItems /\ emitted' = emitted + 1
        /\ content' = [content EXCEPT ![batchBuf] = Append(@, emitted')]
        /\ \/ held' = [held EXCEPT ![e] = batchBuf] /\ NewBatch
           \/ UNCHANGED <<held, batchBuf, free>>
        /\ UNCHANGED <<size, flusher, final, flushBatch, dataBuf, recvq, worker, items, pos,
                       packet, phase, delivered, failed, crashed>>
    BY <1>1 DEF EmitMetric, flusherVars, workerVars, endVars
  <2>2. emitted' \in Item /\ emitted' \in 0..MaxItems
    BY <1>t, <2>1 DEF DataTypes, Item
  <2>3. content' \in [Buffer -> Seq(Item)]
    <3>1. content[batchBuf] \in Seq(Item)
      BY <1>t DEF DataTypes, Types
    <3>2. Append(content[batchBuf], emitted') \in Seq(Item)
      BY <2>2, <3>1
    <3> QED
      BY <1>t, <2>1, <3>2 DEF DataTypes
  <2>4. DataTypes'
    <3>1. overlap' \in BOOLEAN
      BY <2>1
    <3> QED
      BY <1>t, <2>1, <2>2, <2>3, <3>1 DEF DataTypes, Item
  <2>5. Queued'
    BY <1>t, <2>1 DEF Queued, DataClosed
  <2>6. Ending'
    BY <1>t, <2>1 DEF Ending
  <2>7. Stored'
    <3> SUFFICES ASSUME NEW b \in Buffer, content'[b] # <<>> PROVE Owned(b)'
      BY DEF Stored
    <3>1. CASE b = batchBuf
      <4>1. CASE held' = [held EXCEPT ![e] = batchBuf]
        <5>1. held'[e] = b
          BY <1>t, <3>1, <4>1 DEF Types
        <5> QED
          BY <5>1 DEF Owned
      <4>2. CASE UNCHANGED batchBuf
        BY <3>1, <4>2 DEF Owned
      <4> QED
        BY <2>1, <4>1, <4>2
    <3>2. CASE b # batchBuf
      <4>1. content[b] # <<>>
        BY <1>t, <2>1, <3>2 DEF DataTypes
      <4>2. Owned(b)
        BY <1>t, <4>1 DEF Stored
      <4>3. \A d \in Emitter : held[d] = b => held'[d] = b
        BY <1>t, <2>1 DEF Types
      <4> QED
        BY <2>1, <3>2, <4>2, <4>3 DEF Owned
    <3> QED
      BY <3>1, <3>2
  <2> QED
    BY <2>4, <2>5, <2>6, <2>7 DEF Control
<1>2. CASE OfferBatch(e)
  <2>1. /\ held[e] # NoBuffer /\ ~DataClosed /\ held' = [held EXCEPT ![e] = NoBuffer]
        /\ UNCHANGED <<size, emitted, batchBuf, flusher, final, flushBatch, phase, delivered,
                       crashed, overlap>>
    BY <1>2 DEF OfferBatch, flusherVars, panicVars
  <2>2. /\ held[e] \in Buffer
        /\ \A d \in Emitter : held'[d] = IF d = e THEN NoBuffer ELSE held[d]
    BY <1>t, <2>1 DEF Types
  <2>3. CASE CanSend
    <3>1. Send(held[e]) /\ UNCHANGED <<content, failed>>
      BY <1>2, <2>3 DEF OfferBatch
    <3>2. /\ Queued' /\ Len(dataBuf') <= ChanSize
          /\ pos' \in [Worker -> Nat \ {0}] /\ UNCHANGED packet
          /\ (\E w \in Worker : Handed(w, held[e])) \/ Buffered(held[e])
      BY <1>t, <2>1, <2>2, <2>3, <3>1, SendQueues
    <3>3. DataTypes'
      BY <1>t, <2>1, <3>1, <3>2 DEF DataTypes
    <3>4. Ending'
      BY <1>t, <2>1, <3>1 DEF Ending
    <3>5. Stored'
      <4> SUFFICES ASSUME NEW b \in Buffer, content'[b] # <<>> PROVE Owned(b)'
        BY DEF Stored
      <4>1. Owned(b)
        BY <1>t, <3>1 DEF Stored
      <4>2. /\ b = flushBatch => b \in {held[e], flushBatch'}
            /\ \A d \in Emitter : b = held[d] => b \in {held[e], held'[d]}
        BY <2>1, <2>2
      <4> QED
        BY <1>t, <2>1, <2>2, <3>2, <4>1, <4>2, SendOwned
    <3> QED
      BY <3>2, <3>3, <3>4, <3>5 DEF Control
  <2>4. CASE ~CanSend
    <3>1. /\ failed' = Tally(failed, content[held[e]])
          /\ content' = [content EXCEPT ![held[e]] = <<>>]
          /\ UNCHANGED <<dataBuf, recvq, worker, items, pos, packet>>
      BY <1>2, <2>4 DEF OfferBatch, workerVars
    <3>2. failed' \in [Item -> Nat]
      BY <1>t, <2>2, <3>1, TallyTypes DEF DataTypes
    <3>3. content' \in [Buffer -> Seq(Item)]
      <4>1. <<>> \in Seq(Item)
        OBVIOUS
      <4> QED
        BY <1>t, <3>1, <4>1 DEF DataTypes
    <3>4. DataTypes'
      BY <1>t, <2>1, <3>1, <3>2, <3>3 DEF DataTypes
    <3>5. Queued'
      BY <1>t, <2>1, <3>1 DEF Queued, DataClosed
    <3>6. Ending'
      BY <1>t, <2>1, <2>2, <3>1 DEF Ending, DataTypes, Types
    <3>7. Stored'
      <4> SUFFICES ASSUME NEW b \in Buffer, content'[b] # <<>> PROVE Owned(b)'
        BY DEF Stored
      <4>1. b # held[e] /\ content[b] # <<>>
        BY <1>t, <2>2, <3>1 DEF DataTypes
      <4>2. Owned(b)
        BY <1>t, <4>1 DEF Stored
      <4>3. \A d \in Emitter : held[d] = b => held'[d] = b
        BY <2>2, <4>1
      <4> QED
        BY <2>1, <3>1, <4>2, <4>3 DEF Owned
    <3> QED
      BY <3>4, <3>5, <3>6, <3>7 DEF Control
  <2> QED
    BY <2>3, <2>4
<1>3. CASE OfferPanics(e)
  <2>1. /\ crashed' = TRUE
        /\ UNCHANGED <<batchVars, flusherVars, dataBuf, recvq, workerVars, phase, endVars,
                       overlap>>
    BY <1>3 DEF OfferPanics
  <2>2. DataTypes'
    BY <1>t, <2>1 DEF batchVars, flusherVars, workerVars, endVars, DataTypes
  <2>3. Queued' /\ Ending'
    BY <1>t, <2>1 DEF batchVars, flusherVars, workerVars, Queued, Ending, DataClosed
  <2>4. Stored'
    BY <1>t, <2>1 DEF batchVars, flusherVars, workerVars, Stored, Owned
  <2> QED
    BY <2>2, <2>3, <2>4 DEF Control
<1> QED
  BY <1>1, <1>2, <1>3

LEMMA FlusherControl ==
    ASSUME IndInv, Control, FlusherStep
    PROVE  Control'
<1>t. Types /\ Exclusive /\ Closing /\ DataTypes /\ Queued /\ Ending /\ Stored
  BY DEF IndInv, Control
<1>1. CASE Tick \/ FlusherStop
  <2>1. /\ flusher = "select"
        /\ \/ final' = FALSE /\ phase # "new"
           \/ final' = TRUE /\ phase = "stopping"
        /\ \/ /\ content[batchBuf] # <<>>
              /\ flusher' = "batch" /\ flushBatch' = batchBuf /\ NewBatch
           \/ /\ content[batchBuf] = <<>>
              /\ flusher' = "nil" /\ UNCHANGED <<flushBatch, batchBuf, free>>
        /\ UNCHANGED <<size, emitted, content, held, dataBuf, recvq, worker, items, pos, packet,
                       phase, delivered, failed, crashed, overlap>>
    BY <1>1 DEF Tick, FlusherStop, TakeBatch, workerVars, endVars, panicVars
  <2>2. DataTypes'
    BY <1>t, <2>1 DEF DataTypes
  <2>3. Queued'
    BY <1>t, <2>1 DEF Queued, DataClosed
  <2>4. flushBatch = NoBuffer
    BY <1>t, <2>1 DEF Ending
  <2>5. content[batchBuf'] = <<>>
    <3>1. CASE NewBatch
      <4>1. PICK b \in free : batchBuf' = b
        BY <3>1 DEF NewBatch
      <4> QED
        BY <1>t, <4>1, FreshEmpty
    <3> QED
      BY <2>1, <3>1
  <2>6. Ending'
    BY <1>t, <2>1, <2>4, <2>5 DEF Ending
  <2>7. Stored'
    <3> SUFFICES ASSUME NEW b \in Buffer, content[b] # <<>> PROVE Owned(b)'
      BY <2>1 DEF Stored
    <3>1. Owned(b) /\ b # NoBuffer
      BY <1>t DEF Stored
    <3>2. b = batchBuf => b \in {batchBuf', flushBatch'}
      BY <2>1
    <3> QED
      BY <2>1, <2>4, <3>1, <3>2 DEF Owned
  <2> QED
    BY <2>2, <2>3, <2>6, <2>7 DEF Control
<1>2. ASSUME NEW tok \in {flushBatch, NoBuffer}, Send(tok), CanSend, flusher \in {"batch", "nil"},
             flushBatch' \in {flushBatch, NoBuffer}, tok = flushBatch \/ UNCHANGED flushBatch,
             flushBatch' # NoBuffer => flusher' = "batch",
             flusher' \in {"select", "nil", "done"}, final => flusher' \in {"nil", "done"},
             flusher' = "done" => final,
             UNCHANGED <<final, batchVars, phase, endVars, panicVars>>
      PROVE  Control'
  <2>1. UNCHANGED <<size, emitted, batchBuf, content, free, held, final, phase, delivered, failed,
                    crashed, overlap>>
    BY <1>2 DEF batchVars, endVars, panicVars
  <2>2. tok \in Token /\ ~DataClosed /\ phase # "new"
    BY <1>t, <1>2 DEF Types, Closing, Ending
  <2>3. /\ Queued' /\ Len(dataBuf') <= ChanSize
        /\ pos' \in [Worker -> Nat \ {0}] /\ UNCHANGED packet
        /\ (\E w \in Worker : Handed(w, tok)) \/ Buffered(tok)
    BY <1>t, <1>2, <2>2, SendQueues
  <2>4. DataTypes'
    BY <1>t, <1>2, <2>1, <2>3 DEF DataTypes
  <2>5. Ending'
    BY <1>t, <1>2, <2>1, <2>2 DEF Ending
  <2>6. Stored'
    <3> SUFFICES ASSUME NEW b \in Buffer, content[b] # <<>> PROVE Owned(b)'
      BY <2>1 DEF Stored
    <3>1. Owned(b)
      BY <1>t DEF Stored
    <3>2. b = flushBatch => b \in {tok, flushBatch'}
      BY <1>2
    <3>3. \A e \in Emitter : b = held[e] => b \in {tok, held'[e]}
      BY <2>1
    <3> QED
      BY <1>t, <2>1, <2>2, <2>3, <3>1, <3>2, <3>3, SendOwned
  <2> QED
    BY <2>3, <2>4, <2>5, <2>6 DEF Control
<1>3. CASE SendBatch
  BY <1>2, <1>3 DEF SendBatch
<1>4. CASE SendNil
  <2>1. flushBatch = NoBuffer
    BY <1>t, <1>4 DEF SendNil, Ending
  <2> QED
    BY <1>2, <1>4, <2>1 DEF SendNil, Flushed
<1> QED
  BY <1>1, <1>3, <1>4 DEF FlusherStep

LEMMA SendPacketTypes ==
    ASSUME DataTypes, NEW sequence \in Seq(Item), SendPacket(sequence)
    PROVE  delivered' \in [Item -> Nat] /\ failed' \in [Item -> Nat]
<1>1. delivered \in [Item -> Nat] /\ failed \in [Item -> Nat]
  BY DEF DataTypes
<1>2. /\ Tally(delivered, sequence) \in [Item -> Nat]
      /\ Tally(failed, sequence) \in [Item -> Nat]
  BY <1>1, TallyTypes
<1> QED
  BY <1>1, <1>2 DEF SendPacket

\* One item, and what becomes of it.
Formats(w, i) ==
    /\ worker[w] = "batch" /\ items[w] \in Buffer
    /\ pos[w] \in DOMAIN content[items[w]] /\ content[items[w]][pos[w]] = i
    /\ pos' = [pos EXCEPT ![w] = @ + 1]
    /\ \/ failed' = Tally(failed, <<i>>) /\ UNCHANGED <<packet, delivered>>
       \/ packet' = [packet EXCEPT ![w] = Append(@, i)] /\ UNCHANGED <<delivered, failed>>
       \/ SendPacket(<<i>>) /\ UNCHANGED packet
       \/ SendPacket(packet[w]) /\ packet' = [packet EXCEPT ![w] = <<i>>]
    /\ UNCHANGED <<content, dataBuf, recvq, worker, items>>

LEMMA FormatItems ==
    ASSUME Types, DataTypes, NEW w \in Worker, FormatItem(w)
    PROVE  \E i \in Item : Formats(w, i)
<1>1. /\ worker[w] = "batch" /\ pos[w] <= Len(content[items[w]])
      /\ UNCHANGED <<content, dataBuf, recvq, worker, items>>
  BY DEF FormatItem, batchVars
<1>2. items[w] \in Buffer /\ pos[w] \in Nat \ {0}
  BY <1>1 DEF Types, DataTypes
<1>3. content[items[w]] \in Seq(Item)
  BY <1>2 DEF DataTypes
<1>4. pos[w] \in DOMAIN content[items[w]]
  BY <1>1, <1>2, <1>3
<1>5. PICK i \in Item : i = content[items[w]][pos[w]]
  BY <1>3, <1>4
<1>6. Formats(w, i)
  BY <1>1, <1>2, <1>4, <1>5 DEF FormatItem, Formats, Restart, endVars
<1> QED
  BY <1>6

LEMMA EmptyPacketControl ==
    ASSUME IndInv, Control, NEW w \in Worker, worker[w] \in {"nil", "last"},
           NEW label \in {"ready", "done"}, label = "done" <=> worker[w] = "last",
           EmptyPacket(w, label)
    PROVE  Control'
<1>t. Types /\ Closing /\ DataTypes /\ Queued /\ Ending /\ Stored
  BY DEF IndInv, Control
<1>1. /\ packet' = [packet EXCEPT ![w] = <<>>] /\ worker' = [worker EXCEPT ![w] = label]
      /\ UNCHANGED <<size, emitted, batchBuf, content, free, held, flusher, final, flushBatch,
                     dataBuf, recvq, items, pos, phase, crashed, overlap>>
  BY DEF EmptyPacket, Goto, batchVars, flusherVars, panicVars
<1>2. delivered' \in [Item -> Nat] /\ failed' \in [Item -> Nat]
  <2>1. CASE packet[w] # <<>>
    <3>1. SendPacket(packet[w]) /\ packet[w] \in Seq(Item)
      BY <1>t, <2>1 DEF EmptyPacket, DataTypes
    <3> QED
      BY <1>t, <3>1, SendPacketTypes
  <2>2. CASE packet[w] = <<>>
    BY <1>t, <2>2 DEF EmptyPacket, endVars, DataTypes
  <2> QED
    BY <2>1, <2>2
<1>3. DataTypes'
  <2>1. <<>> \in Seq(Item)
    OBVIOUS
  <2> QED
    BY <1>t, <1>1, <1>2, <2>1 DEF DataTypes
<1>4. \A v \in Worker : /\ worker'[v] = IF v = w THEN label ELSE worker[v]
                        /\ packet'[v] = IF v = w THEN <<>> ELSE packet[v]
  BY <1>t, <1>1 DEF Types, DataTypes
<1>5. Queued'
  <2>1. \A i \in DOMAIN recvq : recvq[i] # w /\ recvq[i] \in Worker
    BY <1>t DEF Queued, Types
  <2>2. phase # "new" /\ phase # "closed"
    BY <1>t DEF Queued
  <2> QED
    BY <1>t, <1>1, <1>4, <2>1, <2>2 DEF Queued, DataClosed
<1>6. Ending' /\ Stored'
  BY <1>t, <1>1 DEF Ending, Stored, Owned
<1> QED
  BY <1>3, <1>5, <1>6 DEF Control

LEMMA WorkerControl ==
    ASSUME IndInv, Control, NEW w \in Worker, WorkerStep(w)
    PROVE  Control'
<1>t. Types /\ Exclusive /\ Closing /\ DataTypes /\ Queued /\ Ending /\ Stored
  BY DEF IndInv, Control
<1>0. UNCHANGED <<size, emitted, batchBuf, held, flusher, final, flushBatch, phase, crashed,
                  overlap>>
  BY DEF WorkerStep, Receive, Wait, FormatItem, PutMetricItems, FlushPacket, LastPacket,
         EmptyPacket, batchVars, flusherVars, panicVars
<1>1. CASE Receive(w)
  <2>1. /\ worker[w] = "ready" /\ dataBuf # <<>>
        /\ worker' = [worker EXCEPT ![w] = IF dataBuf[1] = NoBuffer THEN "nil" ELSE "batch"]
        /\ items' = [items EXCEPT ![w] = dataBuf[1]] /\ pos' = [pos EXCEPT ![w] = 1]
        /\ dataBuf' = Tail(dataBuf)
        /\ UNCHANGED <<content, recvq, packet, delivered, failed>>
    BY <1>1 DEF Receive, Got, batchVars, endVars
  <2>2. /\ Len(dataBuf) \in Nat /\ Len(dataBuf) > 0
        /\ DOMAIN dataBuf = 1..Len(dataBuf) /\ DOMAIN dataBuf' = 1..(Len(dataBuf) - 1)
        /\ Len(dataBuf') = Len(dataBuf) - 1
        /\ \A j \in DOMAIN dataBuf' : dataBuf'[j] = dataBuf[j + 1]
    BY <1>t, <2>1 DEF Types
  <2>3. \A v \in Worker :
            /\ items'[v] = IF v = w THEN dataBuf[1] ELSE items[v]
            /\ worker'[v] = IF v = w THEN IF dataBuf[1] = NoBuffer THEN "nil" ELSE "batch"
                            ELSE worker[v]
    BY <1>t, <2>1 DEF Types
  <2>4. DataTypes'
    <3>1. Len(dataBuf') <= ChanSize
      BY <1>t, <2>2 DEF DataTypes
    <3> QED
      BY <1>t, <1>0, <2>1, <3>1 DEF DataTypes
  <2>5. Queued'
    <3>1. \A i \in DOMAIN recvq : recvq[i] # w /\ recvq[i] \in Worker
      BY <1>t, <2>1 DEF Queued, Types
    <3>2. phase # "new" /\ phase # "closed" /\ recvq = <<>>
      BY <1>t, <2>1 DEF Queued
    <3>3. \A v \in Worker : worker[v] \notin {"last", "done"}
      BY <1>t, <2>1 DEF Queued
    <3> QED
      BY <1>t, <1>0, <2>1, <2>3, <3>1, <3>2, <3>3 DEF Queued, DataClosed
  <2>6. Ending'
    BY <1>t, <1>0, <2>1 DEF Ending
  <2>7. Stored'
    <3> SUFFICES ASSUME NEW b \in Buffer, content[b] # <<>> PROVE Owned(b)'
      BY <2>1 DEF Stored
    <3>1. Owned(b) /\ b # NoBuffer /\ items[w] = NoBuffer
      BY <1>t, <2>1 DEF Stored, Queued
    <3>2. ASSUME NEW j \in DOMAIN dataBuf, dataBuf[j] = b PROVE Owned(b)'
      <4>1. CASE j = 1
        BY <2>3, <3>2, <4>1 DEF Owned
      <4>2. CASE j # 1
        <5>1. j - 1 \in DOMAIN dataBuf' /\ (j - 1) + 1 = j
          BY <2>2, <4>2
        <5>2. dataBuf'[j - 1] = b
          BY <2>2, <3>2, <5>1
        <5> QED
          BY <5>1, <5>2 DEF Owned
      <4> QED
        BY <4>1, <4>2
    <3>3. \A v \in Worker : items[v] = b => items'[v] = b
      BY <2>3, <3>1
    <3> QED
      BY <1>0, <3>1, <3>2, <3>3 DEF Owned
  <2> QED
    BY <2>4, <2>5, <2>6, <2>7 DEF Control
<1>2. CASE Wait(w)
  <2>1. /\ worker[w] = "ready" /\ dataBuf = <<>>
        /\ \/ DataClosed /\ worker' = [worker EXCEPT ![w] = "last"] /\ UNCHANGED recvq
           \/ /\ ~DataClosed /\ worker' = [worker EXCEPT ![w] = "waiting"]
              /\ recvq' = Append(recvq, w)
        /\ UNCHANGED <<content, dataBuf, items, pos, packet, delivered, failed>>
    BY <1>2 DEF Wait, Goto, batchVars, endVars
  <2>2. DataTypes'
    BY <1>t, <1>0, <2>1 DEF DataTypes
  <2>3. Queued'
    <3>0. /\ \A i \in DOMAIN recvq : recvq[i] # w /\ recvq[i] \in Worker
          /\ phase # "new" /\ phase # "closed" /\ DataClosed' = DataClosed
      BY <1>t, <1>0, <2>1 DEF Queued, Types, DataClosed
    <3>1. CASE DataClosed /\ worker' = [worker EXCEPT ![w] = "last"] /\ UNCHANGED recvq
      <4>1. \A v \in Worker : worker'[v] = IF v = w THEN "last" ELSE worker[v]
        BY <1>t, <3>1 DEF Types
      <4> QED
        BY <1>t, <1>0, <2>1, <3>0, <3>1, <4>1 DEF Queued
    <3>2. CASE /\ ~DataClosed /\ worker' = [worker EXCEPT ![w] = "waiting"]
               /\ recvq' = Append(recvq, w)
      <4>1. \A v \in Worker : worker'[v] = IF v = w THEN "waiting" ELSE worker[v]
        BY <1>t, <3>2 DEF Types
      <4>2. /\ DOMAIN recvq = 1..Len(recvq) /\ Len(recvq) \in Nat
            /\ DOMAIN recvq' = 1..(Len(recvq) + 1)
            /\ \A i \in 1..Len(recvq) : recvq'[i] = recvq[i]
            /\ recvq'[Len(recvq) + 1] = w
        BY <1>t, <3>2 DEF Types
      <4>3. \A i \in DOMAIN recvq' : i \in DOMAIN recvq \/ i = Len(recvq) + 1
        BY <4>2
      <4>4. /\ \A i \in DOMAIN recvq' : worker'[recvq'[i]] = "waiting"
            /\ \A i, j \in DOMAIN recvq' : recvq'[i] = recvq'[j] => i = j
        BY <1>t, <3>0, <4>1, <4>2, <4>3 DEF Queued
      <4>5. ASSUME NEW v \in Worker, worker'[v] = "waiting"
            PROVE  \E i \in DOMAIN recvq' : recvq'[i] = v
        <5>1. CASE v = w
          BY <4>2, <5>1
        <5>2. CASE v # w
          <6>1. PICK i \in DOMAIN recvq : recvq[i] = v
            BY <1>t, <4>1, <4>5, <5>2 DEF Queued
          <6> QED
            BY <4>2, <6>1
        <5> QED
          BY <5>1, <5>2
      <4> QED
        BY <1>t, <1>0, <2>1, <3>0, <4>1, <4>4, <4>5 DEF Queued
    <3> QED
      BY <2>1, <3>1, <3>2
  <2>4. Ending' /\ Stored'
    BY <1>t, <1>0, <2>1 DEF Ending, Stored, Owned
  <2> QED
    BY <2>2, <2>3, <2>4 DEF Control
<1>3. CASE FormatItem(w)
  <2>1. PICK i \in Item : Formats(w, i)
    BY <1>t, <1>3, FormatItems
  <2>2. /\ <<i>> \in Seq(Item) /\ packet[w] \in Seq(Item) /\ Append(packet[w], i) \in Seq(Item)
    BY <1>t DEF DataTypes
  <2>3. packet' \in [Worker -> Seq(Item)]
    BY <1>t, <2>1, <2>2 DEF Formats, DataTypes
  <2>4. delivered' \in [Item -> Nat] /\ failed' \in [Item -> Nat]
    <3>1. delivered \in [Item -> Nat] /\ failed \in [Item -> Nat]
      BY <1>t DEF DataTypes
    <3>2. Tally(failed, <<i>>) \in [Item -> Nat]
      BY <2>2, <3>1, TallyTypes
    <3>3. CASE SendPacket(<<i>>)
      BY <1>t, <2>2, <3>3, SendPacketTypes
    <3>4. CASE SendPacket(packet[w])
      BY <1>t, <2>2, <3>4, SendPacketTypes
    <3> QED
      BY <2>1, <3>1, <3>2, <3>3, <3>4 DEF Formats
  <2>5. pos' \in [Worker -> Nat \ {0}]
    BY <1>t, <2>1 DEF Formats, DataTypes
  <2>6. DataTypes'
    BY <1>t, <1>0, <2>1, <2>3, <2>4, <2>5 DEF Formats, DataTypes
  <2>7. Queued'
    <3>1. \A v \in Worker : worker[v] = "done" => packet'[v] = packet[v]
      BY <1>t, <2>1 DEF Formats, DataTypes
    <3> QED
      BY <1>t, <1>0, <2>1, <3>1 DEF Formats, Queued, DataClosed
  <2>8. Ending' /\ Stored'
    BY <1>t, <1>0, <2>1 DEF Formats, Ending, Stored, Owned
  <2> QED
    BY <2>6, <2>7, <2>8 DEF Control
<1>4. CASE PutMetricItems(w)
  <2>1. /\ items[w] \in Buffer /\ worker[w] = "batch"
        /\ content' = [content EXCEPT ![items[w]] = <<>>]
        /\ items' = [items EXCEPT ![w] = NoBuffer]
        /\ worker' = [worker EXCEPT ![w] = "ready"]
        /\ UNCHANGED <<dataBuf, recvq, pos, packet, delivered, failed>>
    BY <1>t, <1>4 DEF PutMetricItems, Goto, Types, endVars
  <2>2. \A v \in Worker : /\ items'[v] = IF v = w THEN NoBuffer ELSE items[v]
                          /\ worker'[v] = IF v = w THEN "ready" ELSE worker[v]
    BY <1>t, <2>1 DEF Types
  <2>3. DataTypes'
    <3>1. <<>> \in Seq(Item)
      OBVIOUS
    <3> QED
      BY <1>t, <1>0, <2>1, <3>1 DEF DataTypes
  <2>4. Queued'
    <3>1. \A i \in DOMAIN recvq : recvq[i] # w /\ recvq[i] \in Worker
      BY <1>t, <2>1 DEF Queued, Types
    <3>2. phase # "new" /\ phase # "closed"
      BY <1>t, <2>1 DEF Queued
    <3> QED
      BY <1>t, <1>0, <2>1, <2>2, <3>1, <3>2 DEF Queued, DataClosed
  <2>5. Ending'
    BY <1>t, <1>0, <2>1 DEF Ending, DataTypes, Types
  <2>6. Stored'
    <3> SUFFICES ASSUME NEW b \in Buffer, content'[b] # <<>> PROVE Owned(b)'
      BY DEF Stored
    <3>1. b # items[w] /\ content[b] # <<>>
      BY <1>t, <2>1 DEF DataTypes
    <3>2. Owned(b)
      BY <1>t, <3>1 DEF Stored
    <3> QED
      BY <1>0, <2>1, <2>2, <3>1, <3>2 DEF Owned
  <2> QED
    BY <2>3, <2>4, <2>5, <2>6 DEF Control
<1>5. CASE FlushPacket(w) \/ LastPacket(w)
  BY <1>5, EmptyPacketControl DEF FlushPacket, LastPacket
<1> QED
  BY <1>1, <1>2, <1>3, <1>4, <1>5 DEF WorkerStep

LEMMA PhaseControl ==
    ASSUME IndInv, Control, Start \/ StopFlusher \/ CloseData \/ CloseReturn
    PROVE  Control'
<1>t. Types /\ Closing /\ DataTypes /\ Queued /\ Ending /\ Stored
  BY DEF IndInv, Control
<1>0. /\ UNCHANGED <<size, emitted, batchBuf, content, free, held, final, flushBatch, dataBuf,
                     items, pos, packet, delivered, failed, crashed>>
  BY DEF Start, StopFlusher, CloseData, CloseReturn, batchVars, flusherVars, workerVars,
         panicVars, endVars
<1>1. Stored'
  BY <1>t, <1>0 DEF Stored, Owned
<1>2. DataTypes'
  <2>1. flusher' \in {"off", "select", "batch", "nil", "done"} /\ overlap' \in BOOLEAN
    BY <1>t DEF DataTypes, Start, StopFlusher, CloseData, CloseReturn, flusherVars, panicVars
  <2> QED
    BY <1>t, <1>0, <2>1 DEF DataTypes
<1>3. Ending'
  BY <1>t, <1>0 DEF Ending, Start, StopFlusher, CloseData, CloseReturn, flusherVars, panicVars
<1>4. Queued'
  <2>1. CASE Start
    <3>1. /\ phase = "new" /\ phase' = "running" /\ UNCHANGED recvq
          /\ worker' = [w \in Worker |-> "ready"]
      BY <2>1 DEF Start
    <3>2. \A w \in Worker : worker[w] = "off" /\ items[w] = NoBuffer
      BY <1>t, <3>1 DEF Queued
    <3>3. DOMAIN recvq = {}
      <4>1. \A i \in DOMAIN recvq : recvq[i] \in Worker
        BY <1>t DEF Types
      <4> QED
        BY <1>t, <3>2, <4>1 DEF Queued
    <3> QED
      BY <1>t, <1>0, <3>1, <3>2, <3>3 DEF Queued
  <2>2. CASE StopFlusher
    BY <1>t, <1>0, <2>2 DEF StopFlusher, Queued, DataClosed, workerVars
  <2>3. CASE CloseData
    <3>1. /\ phase = "stopping" /\ phase' = "draining" /\ recvq' = <<>>
          /\ worker' = [w \in Worker |-> IF worker[w] = "waiting" THEN "last" ELSE worker[w]]
      BY <2>3 DEF CloseData
    <3>2. \A w \in Worker : worker[w] = "waiting" => dataBuf = <<>>
      <4>1. \A i \in DOMAIN recvq : recvq # <<>>
        BY <1>t DEF Types
      <4> QED
        BY <1>t, <4>1 DEF Queued
    <3>3. DOMAIN recvq' = {}
      BY <3>1
    <3> QED
      BY <1>t, <1>0, <3>1, <3>2, <3>3 DEF Queued, DataClosed
  <2>4. CASE CloseReturn
    BY <1>t, <1>0, <2>4 DEF CloseReturn, Queued, DataClosed, workerVars
  <2> QED
    BY <2>1, <2>2, <2>3, <2>4
<1> QED
  BY <1>1, <1>2, <1>3, <1>4 DEF Control

LEMMA StepControl == IndInv /\ Control /\ [Next]_vars => Control'
<1> SUFFICES ASSUME IndInv, Control, [Next]_vars PROVE Control'
  OBVIOUS
<1>1. CASE UNCHANGED vars
  BY <1>1 DEF vars, batchVars, flusherVars, workerVars, endVars, panicVars, Control, DataTypes,
              Queued, Ending, Stored, Owned, DataClosed
<1>2. CASE Next
  BY <1>2, EmitterControl, FlusherControl, WorkerControl, PhaseControl DEF Next
<1> QED
  BY <1>1, <1>2
-----------------------------------------------------------------------------
(* Every item is in one place                                              *)

Single(S) == \E x \in S : S = {x}

\* An item emitted is in one cell or packet, or has been written or given up.
At(C, P, d, f) ==
    \/ Single(C) /\ P = {} /\ d = 0 /\ f = 0
    \/ C = {} /\ Single(P) /\ d = 0 /\ f = 0
    \/ C = {} /\ P = {} /\ d = 1 /\ f = 0
    \/ C = {} /\ P = {} /\ d = 0 /\ f = 1

Nowhere(i) == Cells(i) = {} /\ Packed(i) = {} /\ delivered[i] = 0 /\ failed[i] = 0
Somewhere(i) == At(Cells(i), Packed(i), delivered[i], failed[i])

Placed == \A i \in Item : IF i <= emitted THEN Somewhere(i) ELSE Nowhere(i)

Lengths ==
    /\ \A b \in Buffer : Len(content[b]) <= emitted
    /\ \A w \in Worker : Len(packet[w]) <= MaxItems

LEMMA SomewhereOnce ==
    ASSUME DataTypes, NEW i \in Item, Somewhere(i)
    PROVE  Cardinality(Cells(i)) + Cardinality(Packed(i)) + delivered[i] + failed[i] = 1
<1>1. Cardinality({}) = 0 /\ \A S : Single(S) => Cardinality(S) = 1
  BY FS_EmptySet, FS_Singleton DEF Single
<1>2. delivered[i] \in Nat /\ failed[i] \in Nat
  BY DEF DataTypes
<1> DEFINE c == Cardinality(Cells(i))
           p == Cardinality(Packed(i))
<1>3. \/ c = 1 /\ p = 0 /\ delivered[i] = 0 /\ failed[i] = 0
      \/ c = 0 /\ p = 1 /\ delivered[i] = 0 /\ failed[i] = 0
      \/ c = 0 /\ p = 0 /\ delivered[i] = 1 /\ failed[i] = 0
      \/ c = 0 /\ p = 0 /\ delivered[i] = 0 /\ failed[i] = 1
  BY <1>1 DEF Somewhere, At
<1> HIDE DEF c, p
<1>4. c + p + delivered[i] + failed[i] = 1
  BY <1>2, <1>3
<1> QED
  BY <1>4 DEF c, p

LEMMA InitPlaced == Init => Placed /\ Lengths
<1> SUFFICES ASSUME Init PROVE Placed /\ Lengths
  OBVIOUS
<1>0. DOMAIN <<>> = {} /\ Len(<<>>) = 0
  OBVIOUS
<1>1. Lengths
  BY <1>0 DEF Init, Lengths
<1>2. ASSUME NEW i \in Item PROVE Nowhere(i) /\ ~(i <= emitted)
  BY <1>0 DEF Init, Nowhere, Cells, Packed, Item
<1> QED
  BY <1>1, <1>2 DEF Placed

\* Item i is in cell j of slice b, and not yet read; item i is the j-th of the
\* packet of w.
Stands(i, b, j) ==
    /\ j \in DOMAIN content[b] /\ content[b][j] = i
    /\ \A w \in Worker : items[w] = b => j >= pos[w]
Packs(i, w, j) == j \in DOMAIN packet[w] /\ packet[w][j] = i

LEMMA CellsPairs ==
    ASSUME NEW i
    PROVE  /\ Cells(i) \subseteq Buffer \X Item
           /\ \A b \in Buffer, j \in Item : <<b, j>> \in Cells(i) <=> Stands(i, b, j)
           /\ Packed(i) \subseteq Worker \X Item
           /\ \A w \in Worker, j \in Item : <<w, j>> \in Packed(i) <=> Packs(i, w, j)
BY DEF Cells, Packed, Stands, Packs

LEMMA PairsEqual ==
    ASSUME NEW S, NEW T, NEW A, NEW B, A \subseteq S \X T, B \subseteq S \X T,
           \A x \in S, y \in T : <<x, y>> \in A <=> <<x, y>> \in B
    PROVE  A = B
OBVIOUS

LEMMA PairsSingle ==
    ASSUME NEW S, NEW T, NEW A, A \subseteq S \X T, NEW u \in S, NEW v \in T,
           \A x \in S, y \in T : <<x, y>> \in A <=> x = u /\ y = v
    PROVE  A = {<<u, v>>}
<1>1. \A p \in A : p = <<u, v>>
  OBVIOUS
<1>2. <<u, v>> \in A
  OBVIOUS
<1> QED
  BY <1>1, <1>2

\* The four sorts of places, and how an item may change from one to another.
LEMMA AtOnly ==
    ASSUME NEW C, NEW P, NEW d, NEW f, At(C, P, d, f)
    PROVE  /\ \A c \in C : C = {c} /\ P = {} /\ d = 0 /\ f = 0
           /\ \A p \in P : C = {} /\ P = {p} /\ d = 0 /\ f = 0
BY DEF At, Single

LEMMA CellIndices ==
    ASSUME Types, DataTypes, Lengths, NEW b \in Buffer, NEW j \in DOMAIN content[b]
    PROVE  j \in Item /\ content[b][j] \in Item
<1>1. content[b] \in Seq(Item) /\ Len(content[b]) <= emitted /\ emitted \in 0..MaxItems
  BY DEF DataTypes, Lengths
<1> QED
  BY <1>1 DEF Item

LEMMA PacketIndices ==
    ASSUME DataTypes, Lengths, NEW w \in Worker, NEW j \in DOMAIN packet[w]
    PROVE  j \in Item /\ packet[w][j] \in Item
<1>1. packet[w] \in Seq(Item) /\ Len(packet[w]) <= MaxItems
  BY DEF DataTypes, Lengths
<1> QED
  BY <1>1 DEF Item

\* A packet does not repeat an item, and has it for itself.
LEMMA PacketAlone ==
    ASSUME DataTypes, Lengths, Placed, NEW w \in Worker, NEW j \in DOMAIN packet[w],
           NEW i \in Item, packet[w][j] = i
    PROVE  /\ i <= emitted /\ Cells(i) = {} /\ Packed(i) = {<<w, j>>}
           /\ delivered[i] = 0 /\ failed[i] = 0
           /\ \A k \in DOMAIN packet[w] : packet[w][k] = i => k = j
<1>1. \A k \in DOMAIN packet[w] : packet[w][k] = i => <<w, k>> \in Packed(i)
  BY PacketIndices, CellsPairs DEF Packs
<1>2. i <= emitted /\ Somewhere(i)
  BY <1>1 DEF Placed, Nowhere
<1>3. \A p \in Packed(i) : /\ Cells(i) = {} /\ Packed(i) = {p}
                           /\ delivered[i] = 0 /\ failed[i] = 0
  BY <1>2, AtOnly DEF Somewhere
<1>4. \A k \in DOMAIN packet[w] : packet[w][k] = i => k = j
  <2>1. \A k \in DOMAIN packet[w] : packet[w][k] = i => <<w, k>> = <<w, j>>
    BY <1>1, <1>3
  <2> QED
    BY <2>1
<1> QED
  BY <1>1, <1>2, <1>3, <1>4

\* An item in an unread cell has it for itself.
LEMMA CellAlone ==
    ASSUME Types, DataTypes, Lengths, Placed, NEW b \in Buffer, NEW j \in DOMAIN content[b],
           NEW i \in Item, Stands(i, b, j)
    PROVE  /\ i <= emitted /\ Cells(i) = {<<b, j>>} /\ Packed(i) = {}
           /\ delivered[i] = 0 /\ failed[i] = 0
<1>1. <<b, j>> \in Cells(i)
  BY CellIndices, CellsPairs
<1>2. i <= emitted /\ Somewhere(i)
  BY <1>1 DEF Placed, Nowhere
<1> QED
  BY <1>1, <1>2, AtOnly DEF Somewhere

LEMMA ShortSequence ==
    ASSUME NEW s \in Seq(Item), \A j, k \in DOMAIN s : s[j] = s[k] => j = k
    PROVE  Len(s) <= MaxItems
<1> SUFFICES ASSUME Len(s) > MaxItems PROVE FALSE
  BY DEF Item
<1>1. /\ DOMAIN s = 1..Len(s) /\ Len(s) \in Nat /\ s \in [1..Len(s) -> Item]
  OBVIOUS
<1>2. /\ IsFiniteSet(1..Len(s)) /\ Cardinality(1..Len(s)) = Len(s)
      /\ IsFiniteSet(Item) /\ Cardinality(Item) = MaxItems
  <2>1. \A n \in Nat : IsFiniteSet(1..n) /\ Cardinality(1..n) = n
    <3> TAKE n \in Nat
    <3>1. IsFiniteSet(1..n) /\ Cardinality(1..n) = IF 1 > n THEN 0 ELSE n - 1 + 1
      <4>1. 1 \in Int /\ n \in Int
        OBVIOUS
      <4> QED
        BY <4>1, FS_Interval, Zenon
    <3>2. (IF 1 > n THEN 0 ELSE n - 1 + 1) = n
      OBVIOUS
    <3> QED
      BY <3>1, <3>2
  <2> QED
    BY <1>1, <2>1 DEF Item
<1>3. \E x, y \in 1..Len(s) : x # y /\ s[x] = s[y]
  BY <1>1, <1>2, FS_PigeonHole
<1> QED
  BY <1>1, <1>3

\* One more written, or given up.
Sent(i) ==
    \/ delivered'[i] = delivered[i] + 1 /\ failed'[i] = failed[i]
    \/ failed'[i] = failed[i] + 1 /\ delivered'[i] = delivered[i]
Unsent(i) == delivered'[i] = delivered[i] /\ failed'[i] = failed[i]

\* Sequence s has item i; has it once at most.
Includes(s, i) == \E j \in DOMAIN s : s[j] = i
Unrepeated(s, i) == \A j, k \in DOMAIN s : s[j] = i /\ s[k] = i => j = k

LEMMA TallyAt ==
    ASSUME NEW s \in Seq(Item), NEW i \in Item, Unrepeated(s, i)
    PROVE  \A count \in [Item -> Nat] :
               Tally(count, s)[i] = IF Includes(s, i) THEN count[i] + 1 ELSE count[i]
<1> TAKE count \in [Item -> Nat]
<1> DEFINE J == {j \in DOMAIN s : s[j] = i}
<1>1. Tally(count, s)[i] = count[i] + Cardinality(J)
  BY DEF Tally
<1>2. CASE Includes(s, i)
  <2>1. PICK j \in DOMAIN s : s[j] = i
    BY <1>2 DEF Includes
  <2>2. J = {j}
    BY <2>1 DEF Unrepeated
  <2>3. Cardinality(J) = 1
    BY <2>2, FS_Singleton
  <2> QED
    BY <1>1, <1>2, <2>3
<1>3. CASE ~Includes(s, i)
  <2>1. J = {}
    BY <1>3 DEF Includes
  <2>2. Cardinality(J) = 0
    BY <2>1, FS_EmptySet
  <2>3. count[i] + 0 = count[i]
    OBVIOUS
  <2> QED
    BY <1>1, <1>3, <2>2, <2>3
<1> QED
  BY <1>2, <1>3

LEMMA PacketSent ==
    ASSUME DataTypes, NEW s \in Seq(Item), SendPacket(s), NEW i \in Item,
           Unrepeated(s, i)
    PROVE  IF Includes(s, i) THEN Sent(i) ELSE Unsent(i)
<1>1. delivered \in [Item -> Nat] /\ failed \in [Item -> Nat]
  BY DEF DataTypes
<1>2. /\ Tally(delivered, s)[i] = IF Includes(s, i) THEN delivered[i] + 1 ELSE delivered[i]
      /\ Tally(failed, s)[i] = IF Includes(s, i) THEN failed[i] + 1 ELSE failed[i]
  BY <1>1, TallyAt
<1> QED
  BY <1>2 DEF SendPacket, Sent, Unsent

LEMMA OneSent ==
    ASSUME DataTypes, NEW h \in Item, SendPacket(<<h>>), NEW i \in Item
    PROVE  IF i = h THEN Sent(i) ELSE Unsent(i)
<1>1. <<h>> \in Seq(Item)
  OBVIOUS
<1>2. DOMAIN <<h>> = {1} /\ <<h>>[1] = h
  OBVIOUS
<1>3. Unrepeated(<<h>>, i) /\ (Includes(<<h>>, i) <=> i = h)
  BY <1>2 DEF Unrepeated, Includes
<1>4. IF Includes(<<h>>, i) THEN Sent(i) ELSE Unsent(i)
  BY <1>1, <1>3, PacketSent
<1> QED
  BY <1>3, <1>4
-----------------------------------------------------------------------------
(* What each step moves                                                    *)

LEMMA SameCells ==
    ASSUME NEW i, \A b \in Buffer, j \in Item : Stands(i, b, j)' <=> Stands(i, b, j)
    PROVE  Cells(i)' = Cells(i)
<1>1. Cells(i)' \subseteq Buffer \X Item
  BY DEF Cells
<1>2. \A b \in Buffer, j \in Item : <<b, j>> \in Cells(i)' <=> Stands(i, b, j)'
  BY DEF Cells, Stands
<1> QED
  BY <1>1, <1>2, CellsPairs, PairsEqual

\* Nothing moves.
LEMMA StaysPlaced ==
    ASSUME Placed, Lengths, UNCHANGED <<emitted, packet, delivered, failed>>,
           \A b \in Buffer : Len(content'[b]) <= emitted,
           \A i \in Item, b \in Buffer, j \in Item : Stands(i, b, j)' <=> Stands(i, b, j)
    PROVE  Placed' /\ Lengths'
<1>1. Lengths'
  BY DEF Lengths
<1>2. ASSUME NEW i \in Item PROVE Cells(i)' = Cells(i) /\ Packed(i)' = Packed(i)
  <2>1. Packed(i)' = Packed(i)
    BY DEF Packed
  <2>2. Cells(i)' = Cells(i)
    BY SameCells
  <2> QED
    BY <2>1, <2>2
<1> QED
  BY <1>1, <1>2 DEF Placed, Somewhere, Nowhere, Item

\* A worker that gets a batch which no worker had begins to read it.
LEMMA GotPlaced ==
    ASSUME Types, DataTypes, Placed, Lengths, NEW w \in Worker, NEW tok \in Token,
           items[w] = NoBuffer, \A v \in Worker : items[v] = tok => tok = NoBuffer,
           items' = [items EXCEPT ![w] = tok], pos' = [pos EXCEPT ![w] = 1],
           UNCHANGED <<emitted, content, packet, delivered, failed>>
    PROVE  Placed' /\ Lengths'
<1>1. \A v \in Worker : /\ items'[v] = IF v = w THEN tok ELSE items[v]
                        /\ pos'[v] = IF v = w THEN 1 ELSE pos[v]
  BY DEF Types, DataTypes
<1>2. ASSUME NEW b \in Buffer, NEW j \in Item
      PROVE (\A v \in Worker : items'[v] = b => j >= pos'[v])
                <=> (\A v \in Worker : items[v] = b => j >= pos[v])
  <2>1. j >= 1 /\ b # NoBuffer
    BY DEF Item
  <2> QED
    BY <1>1, <2>1
<1>3. ASSUME NEW i \in Item, NEW b \in Buffer, NEW j \in Item
      PROVE  Stands(i, b, j)' <=> Stands(i, b, j)
  BY <1>2 DEF Stands
<1>4. \A b \in Buffer : Len(content'[b]) <= emitted
  BY DEF Lengths
<1> QED
  BY <1>3, <1>4, StaysPlaced

LEMMA SamePlaced ==
    ASSUME Placed, Lengths, UNCHANGED <<emitted, content, items, pos, packet, delivered, failed>>
    PROVE  Placed' /\ Lengths'
<1>1. \A b \in Buffer : Len(content'[b]) <= emitted
  BY DEF Lengths
<1>2. \A i \in Item, b \in Buffer, j \in Item : Stands(i, b, j)' <=> Stands(i, b, j)
  BY DEF Stands
<1> QED
  BY <1>1, <1>2, StaysPlaced

LEMMA SendPlaced ==
    ASSUME Types, Exclusive, DataTypes, Placed, Lengths, NEW tok \in Token,
           \A v \in Worker : items[v] = tok => tok = NoBuffer,
           (\E w \in Worker : Handed(w, tok)) \/ Buffered(tok),
           UNCHANGED <<emitted, content, delivered, failed>>
    PROVE  Placed' /\ Lengths'
<1>1. ASSUME NEW w \in Worker, Handed(w, tok) PROVE Placed' /\ Lengths'
  BY <1>1, GotPlaced DEF Handed
<1>2. CASE Buffered(tok)
  BY <1>2, SamePlaced DEF Buffered
<1> QED
  BY <1>1, <1>2

LEMMA EmitPlaced ==
    ASSUME Types, Exclusive, DataTypes, Placed, Lengths, emitted < MaxItems,
           emitted' = emitted + 1,
           content' = [content EXCEPT ![batchBuf] = Append(@, emitted')],
           UNCHANGED <<items, pos, packet, delivered, failed>>
    PROVE  Placed' /\ Lengths'
<1>0. PICK n \in Item : n = emitted + 1
  BY DEF DataTypes, Item
<1>1. PICK l \in Nat : l = Len(content[batchBuf])
  BY DEF Types, DataTypes
<1>2. /\ batchBuf \in Buffer /\ content[batchBuf] \in Seq(Item)
      /\ DOMAIN content[batchBuf] = 1..l /\ l + 1 \in Item /\ l <= emitted
  BY <1>1 DEF Types, DataTypes, Lengths, Item
<1>3. /\ DOMAIN content'[batchBuf] = 1..(l + 1) /\ Len(content'[batchBuf]) = l + 1
      /\ \A j \in 1..l : content'[batchBuf][j] = content[batchBuf][j]
      /\ content'[batchBuf][l + 1] = n
      /\ \A b \in Buffer : b # batchBuf => content'[b] = content[b]
  <2>1. content'[batchBuf] = Append(content[batchBuf], n)
    BY <1>0, <1>2 DEF DataTypes
  <2>2. \A b \in Buffer : b # batchBuf => content'[b] = content[b]
    BY DEF DataTypes
  <2> QED
    BY <1>0, <1>1, <1>2, <2>1, <2>2
<1>4. \A v \in Worker : items[v] # batchBuf
  BY DEF Exclusive
<1>5. Lengths'
  <2>1. \A b \in Buffer : Len(content[b]) \in Nat
    BY DEF DataTypes
  <2>2. \A b \in Buffer : Len(content'[b]) <= emitted'
    BY <1>2, <1>3, <2>1 DEF Lengths, DataTypes
  <2> QED
    BY <2>2 DEF Lengths
<1>6. ASSUME NEW i \in Item, NEW b \in Buffer, NEW j \in Item
      PROVE  Stands(i, b, j)' <=> Stands(i, b, j) \/ (i = n /\ b = batchBuf /\ j = l + 1)
  <2>1. CASE b = batchBuf
    <3>1. j \in 1..(l + 1) <=> j \in 1..l \/ j = l + 1
      BY DEF Item
    <3>2. l + 1 \notin 1..l
      OBVIOUS
    <3> QED
      BY <1>2, <1>3, <1>4, <2>1, <3>1, <3>2 DEF Stands
  <2>2. CASE b # batchBuf
    BY <1>3, <2>2 DEF Stands
  <2> QED
    BY <2>1, <2>2
<1>7. ASSUME NEW i \in Item
      PROVE  /\ Cells(i)' \subseteq Buffer \X Item
             /\ \A b \in Buffer, j \in Item : <<b, j>> \in Cells(i)' <=> Stands(i, b, j)'
             /\ Packed(i)' = Packed(i)
  BY DEF Cells, Stands, Packed
<1>8. ASSUME NEW i \in Item, i # n PROVE Cells(i)' = Cells(i)
  <2>1. \A b \in Buffer, j \in Item : Stands(i, b, j)' <=> Stands(i, b, j)
    BY <1>6, <1>8
  <2> QED
    BY <2>1, SameCells
<1>9. Nowhere(n)
  BY <1>0 DEF Placed, DataTypes
<1>10. Somewhere(n)'
  <2>1. \A b \in Buffer, j \in Item : ~Stands(n, b, j)
    BY <1>9, CellsPairs DEF Nowhere
  <2>2. Cells(n)' = {<<batchBuf, l + 1>>}
    BY <1>2, <1>6, <1>7, <2>1, PairsSingle
  <2> QED
    BY <1>7, <1>9, <2>2 DEF Somewhere, At, Single, Nowhere
<1>11. ASSUME NEW i \in Item PROVE IF i <= emitted' THEN Somewhere(i)' ELSE Nowhere(i)'
  <2>1. CASE i = n
    BY <1>0, <1>10, <2>1
  <2>2. CASE i # n
    <3>1. i <= emitted' <=> i <= emitted
      BY <1>0, <2>2 DEF DataTypes, Item
    <3> QED
      BY <1>7, <1>8, <2>2, <3>1 DEF Placed, Somewhere, Nowhere
  <2> QED
    BY <2>1, <2>2
<1> QED
  BY <1>5, <1>11 DEF Placed, Item

\* The batch of a caller that finds the channel full is given up whole.
LEMMA DropPlaced ==
    ASSUME Types, Exclusive, DataTypes, Placed, Lengths, NEW h \in Buffer,
           \A v \in Worker : items[v] # h,
           failed' = Tally(failed, content[h]),
           content' = [content EXCEPT ![h] = <<>>],
           UNCHANGED <<emitted, items, pos, packet, delivered>>
    PROVE  Placed' /\ Lengths'
<1>1. /\ content[h] \in Seq(Item) /\ failed \in [Item -> Nat]
      /\ content'[h] = <<>> /\ DOMAIN <<>> = {} /\ Len(<<>>) = 0
      /\ \A b \in Buffer : b # h => content'[b] = content[b]
  BY DEF DataTypes
<1>2. Lengths'
  <2>1. 0 <= emitted
    BY DEF DataTypes
  <2> QED
    BY <1>1, <2>1 DEF Lengths
<1>3. ASSUME NEW i \in Item
      PROVE  /\ Cells(i)' \subseteq Buffer \X Item
             /\ \A b \in Buffer, j \in Item : <<b, j>> \in Cells(i)' <=> Stands(i, b, j)'
             /\ Packed(i)' = Packed(i)
  BY DEF Cells, Stands, Packed
<1>4. ASSUME NEW i \in Item, NEW j \in DOMAIN content[h], content[h][j] = i
      PROVE  /\ i <= emitted /\ Cells(i) = {<<h, j>>} /\ Packed(i) = {}
             /\ delivered[i] = 0 /\ failed[i] = 0
  <2>1. Stands(i, h, j)
    BY <1>4 DEF Stands
  <2> QED
    BY <2>1, CellAlone
<1>5. ASSUME NEW i \in Item PROVE Unrepeated(content[h], i)
  <2> SUFFICES ASSUME NEW j \in DOMAIN content[h], NEW k \in DOMAIN content[h],
                      content[h][j] = i, content[h][k] = i
               PROVE  j = k
    BY DEF Unrepeated
  <2>1. Cells(i) = {<<h, j>>} /\ Cells(i) = {<<h, k>>}
    BY <1>4
  <2>2. <<h, j>> = <<h, k>>
    BY <2>1
  <2> QED
    BY <2>2
<1>6. ASSUME NEW i \in Item
      PROVE  failed'[i] = IF Includes(content[h], i) THEN failed[i] + 1 ELSE failed[i]
  BY <1>1, <1>5, TallyAt
<1>7. ASSUME NEW i \in Item, Includes(content[h], i) PROVE i <= emitted /\ Somewhere(i)'
  <2>1. PICK j \in DOMAIN content[h] : content[h][j] = i
    BY <1>7 DEF Includes
  <2>2. /\ i <= emitted /\ Cells(i) = {<<h, j>>} /\ Packed(i) = {}
        /\ delivered[i] = 0 /\ failed[i] = 0
    BY <1>4, <2>1
  <2>3. \A b \in Buffer, k \in Item : ~Stands(i, b, k)'
    <3>1. \A b \in Buffer, k \in Item : Stands(i, b, k) => <<b, k>> = <<h, j>>
      BY <2>2, CellsPairs
    <3> QED
      BY <1>1, <3>1 DEF Stands
  <2>4. Cells(i)' = {}
    BY <1>3, <2>3
  <2>5. failed'[i] = 1
    BY <1>6, <1>7, <2>2
  <2> QED
    BY <1>3, <2>2, <2>4, <2>5 DEF Somewhere, At
<1>8. ASSUME NEW i \in Item, ~Includes(content[h], i) PROVE Cells(i)' = Cells(i)
  <2>1. \A b \in Buffer, j \in Item : Stands(i, b, j)' <=> Stands(i, b, j)
    BY <1>1, <1>8 DEF Stands, Includes
  <2> QED
    BY <2>1, SameCells
<1>9. ASSUME NEW i \in Item PROVE IF i <= emitted THEN Somewhere(i)' ELSE Nowhere(i)'
  <2>1. CASE Includes(content[h], i)
    BY <1>7, <2>1
  <2>2. CASE ~Includes(content[h], i)
    <3>1. Cells(i)' = Cells(i) /\ Packed(i)' = Packed(i) /\ failed'[i] = failed[i]
      BY <1>3, <1>6, <1>8, <2>2
    <3> QED
      BY <3>1 DEF Placed, Somewhere, Nowhere
  <2> QED
    BY <2>1, <2>2
<1> QED
  BY <1>2, <1>9 DEF Placed, Item

\* How the packets change when that of w does.
LEMMA PacketChanges ==
    ASSUME DataTypes, NEW w \in Worker, NEW s, packet' = [packet EXCEPT ![w] = s], NEW i
    PROVE  /\ \A v \in Worker : \A j : Packs(i, v, j)' <=> IF v = w THEN j \in DOMAIN s /\ s[j] = i
                                                      ELSE Packs(i, v, j)
           /\ Packed(i)' \subseteq Worker \X Item
           /\ \A v \in Worker, j \in Item : <<v, j>> \in Packed(i)' <=> Packs(i, v, j)'
<1>1. \A v \in Worker : packet'[v] = IF v = w THEN s ELSE packet[v]
  BY DEF DataTypes
<1> QED
  BY <1>1 DEF Packs, Packed

\* The packet of w is sent, and what is left of it is s.
LEMMA PacketMoves ==
    ASSUME DataTypes, Placed, Lengths, NEW w \in Worker, SendPacket(packet[w]),
           NEW s, packet' = [packet EXCEPT ![w] = s],
           NEW i \in Item, ~Includes(s, i), UNCHANGED Cells(i)
    PROVE  IF i <= emitted THEN Somewhere(i)' ELSE Nowhere(i)'
<1>1. packet[w] \in Seq(Item) /\ Unrepeated(packet[w], i)
  BY PacketAlone DEF DataTypes, Unrepeated
<1>2. IF Includes(packet[w], i) THEN Sent(i) ELSE Unsent(i)
  BY <1>1, PacketSent
<1>3. \A v \in Worker, j \in Item : <<v, j>> \in Packed(i)' <=> v # w /\ <<v, j>> \in Packed(i)
  <2>1. /\ \A v \in Worker : \A j : Packs(i, v, j)' <=> IF v = w THEN j \in DOMAIN s /\ s[j] = i
                                                   ELSE Packs(i, v, j)
        /\ \A v \in Worker, j \in Item : <<v, j>> \in Packed(i)' <=> Packs(i, v, j)'
    BY PacketChanges
  <2> QED
    BY <2>1, CellsPairs DEF Includes
<1>4. Packed(i) \subseteq Worker \X Item /\ Packed(i)' \subseteq Worker \X Item
  BY CellsPairs, PacketChanges
<1>5. CASE Includes(packet[w], i)
  <2>1. PICK j \in DOMAIN packet[w] : packet[w][j] = i
    BY <1>5 DEF Includes
  <2>2. /\ i <= emitted /\ Cells(i) = {} /\ Packed(i) = {<<w, j>>}
        /\ delivered[i] = 0 /\ failed[i] = 0
    BY <2>1, PacketAlone
  <2>3. Packed(i)' = {}
    BY <1>3, <1>4, <2>2
  <2>4. Sent(i)
    BY <1>2, <1>5
  <2> QED
    BY <2>2, <2>3, <2>4 DEF Somewhere, At, Sent
<1>6. CASE ~Includes(packet[w], i)
  <2>1. Unsent(i)
    BY <1>2, <1>6
  <2>2. \A j \in Item : <<w, j>> \notin Packed(i)
    BY <1>6, CellsPairs DEF Packs, Includes
  <2>3. \A v \in Worker, j \in Item : <<v, j>> \in Packed(i)' <=> <<v, j>> \in Packed(i)
    BY <1>3, <2>2
  <2>4. Packed(i)' = Packed(i)
    BY <1>4, <2>3, PairsEqual
  <2> QED
    BY <2>1, <2>4 DEF Unsent, Placed, Somewhere, Nowhere
<1> QED
  BY <1>5, <1>6

LEMMA EmptyPacketPlaced ==
    ASSUME Types, DataTypes, Placed, Lengths, NEW w \in Worker,
           packet' = [packet EXCEPT ![w] = <<>>],
           IF packet[w] # <<>> THEN SendPacket(packet[w]) ELSE UNCHANGED <<delivered, failed>>,
           UNCHANGED <<emitted, content, items, pos>>
    PROVE  Placed' /\ Lengths'
<1>0. DOMAIN <<>> = {} /\ Len(<<>>) = 0 /\ <<>> \in Seq(Item)
  OBVIOUS
<1>1. CASE packet[w] # <<>>
  <2>1. \A v \in Worker : packet'[v] = IF v = w THEN <<>> ELSE packet[v]
    BY DEF DataTypes
  <2>2. Lengths'
    BY <1>0, <2>1 DEF Lengths
  <2>3. ASSUME NEW i \in Item PROVE IF i <= emitted THEN Somewhere(i)' ELSE Nowhere(i)'
    <3>1. \A b \in Buffer, j \in Item : Stands(i, b, j)' <=> Stands(i, b, j)
      BY DEF Stands
    <3>2. UNCHANGED Cells(i)
      BY <3>1, SameCells
    <3>3. ~Includes(<<>>, i)
      BY <1>0 DEF Includes
    <3> QED
      BY <1>1, <3>2, <3>3, PacketMoves
  <2> QED
    BY <2>2, <2>3 DEF Placed, Item
<1>2. CASE packet[w] = <<>>
  <2>1. packet' = packet
    BY <1>2 DEF DataTypes
  <2> QED
    BY <1>2, <2>1, SamePlaced
<1> QED
  BY <1>1, <1>2

LEMMA PutPlaced ==
    ASSUME Types, Exclusive, DataTypes, Placed, Lengths, NEW w \in Worker, items[w] \in Buffer,
           pos[w] > Len(content[items[w]]),
           content' = [content EXCEPT ![items[w]] = <<>>],
           items' = [items EXCEPT ![w] = NoBuffer],
           UNCHANGED <<emitted, pos, packet, delivered, failed>>
    PROVE  Placed' /\ Lengths'
<1>1. PICK h \in Buffer : h = items[w]
  OBVIOUS
<1>2. /\ content[h] \in Seq(Item) /\ content'[h] = <<>> /\ DOMAIN <<>> = {} /\ Len(<<>>) = 0
      /\ \A b \in Buffer : b # h => content'[b] = content[b]
      /\ \A v \in Worker : items'[v] = IF v = w THEN NoBuffer ELSE items[v]
      /\ pos[w] \in Nat
  BY <1>1 DEF DataTypes, Types
<1>3. \A i \in Item, j \in Item : ~Stands(i, h, j)
  <2>1. DOMAIN content[h] = 1..Len(content[h]) /\ Len(content[h]) \in Nat
    BY <1>2
  <2>2. \A j \in DOMAIN content[h] : ~(j >= pos[w])
    BY <1>1, <1>2, <2>1
  <2> QED
    BY <1>1, <2>2 DEF Stands
<1>4. ASSUME NEW i \in Item, NEW b \in Buffer, NEW j \in Item
      PROVE  Stands(i, b, j)' <=> Stands(i, b, j)
  <2>1. CASE b = h
    BY <1>2, <1>3, <2>1 DEF Stands
  <2>2. CASE b # h
    <3>1. \A v \in Worker : items'[v] = b <=> items[v] = b
      BY <1>1, <1>2, <2>2
    <3> QED
      BY <1>2, <2>2, <3>1 DEF Stands
  <2> QED
    BY <2>1, <2>2
<1>5. \A b \in Buffer : Len(content'[b]) <= emitted
  BY <1>2 DEF Lengths, DataTypes
<1> QED
  BY <1>4, <1>5, StaysPlaced

\* The item that is formatted leaves its cell.
LEMMA FormatCells ==
    ASSUME Types, Exclusive, DataTypes, Placed, Lengths, NEW w \in Worker, NEW h \in Item,
           Formats(w, h)
    PROVE  /\ h <= emitted /\ Cells(h)' = {} /\ Packed(h) = {}
           /\ delivered[h] = 0 /\ failed[h] = 0
           /\ \A i \in Item : i # h => UNCHANGED Cells(i)
<1>0. PICK b \in Buffer : items[w] = b
  BY DEF Formats
<1>1. PICK p \in DOMAIN content[b] : items[w] = b /\ p = pos[w] /\ content[b][p] = h
  BY <1>0 DEF Formats
<1>2. /\ p \in Nat \ {0} /\ UNCHANGED <<content, items>>
      /\ \A v \in Worker : pos'[v] = IF v = w THEN p + 1 ELSE pos[v]
  BY <1>1 DEF Formats, DataTypes
<1>3. \A v \in Worker : v # w => items[v] # b
  BY <1>1 DEF Exclusive, Types
<1>4. ASSUME NEW i \in Item, NEW c \in Buffer, NEW j \in Item
      PROVE  Stands(i, c, j)' <=> Stands(i, c, j) /\ ~(c = b /\ j = p)
  <2>1. CASE c = b
    <3>1. /\ (\A v \in Worker : items[v] = c => j >= pos[v]) <=> j >= p
          /\ (\A v \in Worker : items'[v] = c => j >= pos'[v]) <=> j >= p + 1
      BY <1>1, <1>2, <1>3, <2>1
    <3>2. j >= p + 1 <=> j >= p /\ j # p
      BY <1>2 DEF Item
    <3> QED
      BY <1>2, <2>1, <3>1, <3>2 DEF Stands
  <2>2. CASE c # b
    <3>1. \A v \in Worker : items[v] = c => pos'[v] = pos[v]
      BY <1>1, <1>2, <2>2
    <3> QED
      BY <1>2, <2>2, <3>1 DEF Stands
  <2> QED
    BY <2>1, <2>2
<1>5. Stands(h, b, p)
  <2>1. \A v \in Worker : items[v] = b => p >= pos[v]
    BY <1>1, <1>2, <1>3
  <2> QED
    BY <1>1, <2>1 DEF Stands
<1>6. /\ h <= emitted /\ Cells(h) = {<<b, p>>} /\ Packed(h) = {}
      /\ delivered[h] = 0 /\ failed[h] = 0
  BY <1>5, CellAlone
<1>7. Cells(h)' = {}
  <2>1. /\ Cells(h)' \subseteq Buffer \X Item
        /\ \A c \in Buffer, j \in Item : <<c, j>> \in Cells(h)' <=> Stands(h, c, j)'
    BY DEF Cells, Stands
  <2>2. \A c \in Buffer, j \in Item : Stands(h, c, j) => c = b /\ j = p
    <3>1. \A c \in Buffer, j \in Item : Stands(h, c, j) => <<c, j>> = <<b, p>>
      BY <1>6, CellsPairs
    <3> QED
      BY <3>1
  <2> QED
    BY <1>4, <2>1, <2>2
<1>8. ASSUME NEW i \in Item, i # h PROVE UNCHANGED Cells(i)
  <2>1. ~Stands(i, b, p)
    BY <1>1, <1>8 DEF Stands
  <2>2. \A c \in Buffer, j \in Item : Stands(i, c, j)' <=> Stands(i, c, j)
    BY <1>4, <2>1
  <2> QED
    BY <2>2, SameCells
<1> QED
  BY <1>6, <1>7, <1>8

LEMMA FormatPlaced ==
    ASSUME Types, Exclusive, DataTypes, Placed, Lengths, NEW w \in Worker, NEW h \in Item,
           Formats(w, h), UNCHANGED emitted
    PROVE  Placed' /\ Lengths'
<1>c. /\ h <= emitted /\ Cells(h)' = {} /\ Packed(h) = {}
      /\ delivered[h] = 0 /\ failed[h] = 0
      /\ \A i \in Item : i # h => UNCHANGED Cells(i)
  BY FormatCells
<1>l. \A b \in Buffer : Len(content'[b]) <= emitted'
  BY DEF Formats, Lengths
<1>q. ASSUME Somewhere(h)',
             \A i \in Item : i # h => IF i <= emitted THEN Somewhere(i)' ELSE Nowhere(i)'
      PROVE  Placed'
  BY <1>c, <1>q DEF Placed, Item
<1>n. ASSUME NEW j \in DOMAIN packet[w], packet[w][j] = h PROVE FALSE
  <2>1. Packed(h) = {<<w, j>>}
    BY <1>n, PacketAlone
  <2> QED
    BY <1>c, <2>1
<1>1. CASE UNCHANGED packet /\ (SendPacket(<<h>>) \/ /\ failed' = Tally(failed, <<h>>)
                                                     /\ UNCHANGED delivered)
  <2>1. Lengths'
    BY <1>1, <1>l DEF Lengths
  <2>2. ASSUME NEW i \in Item PROVE Packed(i)' = Packed(i)
    BY <1>1 DEF Packed
  <2>3. ASSUME NEW i \in Item PROVE IF i = h THEN Sent(i) ELSE Unsent(i)
    <3>1. SendPacket(<<h>>)
      BY <1>1 DEF SendPacket
    <3> QED
      BY <3>1, OneSent
  <2>4. Somewhere(h)'
    <3>1. Sent(h)
      BY <2>3
    <3> QED
      BY <1>c, <2>2, <3>1 DEF Somewhere, At, Sent
  <2>5. ASSUME NEW i \in Item, i # h PROVE IF i <= emitted THEN Somewhere(i)' ELSE Nowhere(i)'
    <3>1. Unsent(i) /\ Cells(i)' = Cells(i) /\ Packed(i)' = Packed(i)
      BY <1>c, <2>2, <2>3, <2>5
    <3> QED
      BY <3>1 DEF Unsent, Placed, Somewhere, Nowhere
  <2> QED
    BY <1>q, <2>1, <2>4, <2>5
<1>2. CASE packet' = [packet EXCEPT ![w] = Append(@, h)] /\ UNCHANGED <<delivered, failed>>
  <2>1. PICK l \in Nat : l = Len(packet[w])
    BY DEF DataTypes
  <2>2. PICK s \in Seq(Item) : s = Append(packet[w], h)
    <3>1. packet[w] \in Seq(Item)
      BY DEF DataTypes
    <3>2. Append(packet[w], h) \in Seq(Item)
      BY <3>1
    <3> QED
      BY <3>2
  <2>3. /\ packet[w] \in Seq(Item) /\ DOMAIN packet[w] = 1..l /\ Len(s) = l + 1
        /\ DOMAIN s = 1..(l + 1) /\ \A j \in 1..l : s[j] = packet[w][j]
        /\ s[l + 1] = h
    BY <2>1, <2>2 DEF DataTypes
  <2>4. \A j \in 1..l : packet[w][j] # h
    BY <1>n, <2>3
  <2>5. \A j, k \in DOMAIN s : s[j] = s[k] => j = k
    <3>1. ASSUME NEW j \in 1..l, NEW k \in 1..l, s[j] = s[k] PROVE j = k
      <4>1. packet[w][j] \in Item /\ packet[w][k] = packet[w][j]
        BY <2>3, <3>1, PacketIndices
      <4> QED
        BY <2>3, <4>1, PacketAlone
    <3>2. \A j \in DOMAIN s : j \in 1..l \/ j = l + 1
      BY <2>3
    <3> QED
      BY <2>3, <2>4, <3>1, <3>2
  <2>6. l + 1 <= MaxItems
    BY <2>3, <2>5, ShortSequence
  <2>7. l + 1 \in Item
    BY <2>6 DEF Item
  <2>8. packet' = [packet EXCEPT ![w] = s]
    BY <1>2, <2>2
  <2>9. Lengths'
    BY <1>l, <2>3, <2>6, <2>8 DEF Lengths, DataTypes
  <2>10. ASSUME NEW i \in Item
         PROVE  /\ Packed(i) \subseteq Worker \X Item /\ Packed(i)' \subseteq Worker \X Item
                /\ \A v \in Worker, j \in Item :
                       <<v, j>> \in Packed(i)' <=>
                           <<v, j>> \in Packed(i) \/ (i = h /\ v = w /\ j = l + 1)
    <3>1. /\ \A v \in Worker : \A j : Packs(i, v, j)' <=>
                 IF v = w THEN j \in DOMAIN s /\ s[j] = i ELSE Packs(i, v, j)
          /\ Packed(i)' \subseteq Worker \X Item
          /\ \A v \in Worker, j \in Item : <<v, j>> \in Packed(i)' <=> Packs(i, v, j)'
      BY <2>8, PacketChanges
    <3>2. \A j \in Item : j \in DOMAIN s /\ s[j] = i <=>
                              Packs(i, w, j) \/ (i = h /\ j = l + 1)
      <4>1. \A j \in Item : j \in DOMAIN s <=> j \in 1..l \/ j = l + 1
        BY <2>3 DEF Item
      <4> QED
        BY <2>3, <4>1 DEF Packs
    <3> QED
      BY <3>1, <3>2, CellsPairs
  <2>11. Somewhere(h)'
    <3>1. Packed(h)' = {<<w, l + 1>>}
      BY <1>c, <2>7, <2>10, PairsSingle
    <3> QED
      BY <1>c, <1>2, <3>1 DEF Somewhere, At, Single
  <2>12. ASSUME NEW i \in Item, i # h PROVE IF i <= emitted THEN Somewhere(i)' ELSE Nowhere(i)'
    <3>1. \A v \in Worker, j \in Item : <<v, j>> \in Packed(i)' <=> <<v, j>> \in Packed(i)
      BY <2>10, <2>12
    <3>2. Packed(i)' = Packed(i)
      <4>1. Packed(i) \subseteq Worker \X Item /\ Packed(i)' \subseteq Worker \X Item
        BY <2>10
      <4> QED
        BY <3>1, <4>1, PairsEqual
    <3> QED
      BY <1>c, <1>2, <2>12, <3>2 DEF Placed, Somewhere, Nowhere
  <2> QED
    BY <1>q, <2>9, <2>11, <2>12
<1>3. CASE SendPacket(packet[w]) /\ packet' = [packet EXCEPT ![w] = <<h>>]
  <2>1. DOMAIN <<h>> = {1} /\ <<h>>[1] = h /\ Len(<<h>>) = 1 /\ 1 \in Item
    BY DEF Item
  <2>2. Lengths'
    <3>1. \A v \in Worker : packet'[v] = IF v = w THEN <<h>> ELSE packet[v]
      BY <1>3 DEF DataTypes
    <3>2. 1 <= MaxItems
      BY DEF Item
    <3> QED
      BY <1>l, <2>1, <3>1, <3>2 DEF Lengths
  <2>3. Somewhere(h)'
    <3>1. /\ \A v \in Worker : \A j : Packs(h, v, j)' <=>
                 IF v = w THEN j \in DOMAIN <<h>> /\ <<h>>[j] = h ELSE Packs(h, v, j)
          /\ Packed(h)' \subseteq Worker \X Item
          /\ \A v \in Worker, j \in Item : <<v, j>> \in Packed(h)' <=> Packs(h, v, j)'
      BY <1>3, PacketChanges
    <3>2. \A v \in Worker, j \in Item : ~Packs(h, v, j)
      BY <1>c, CellsPairs
    <3>3. \A v \in Worker, j \in Item : <<v, j>> \in Packed(h)' <=> v = w /\ j = 1
      BY <2>1, <3>1, <3>2
    <3>4. Packed(h)' = {<<w, 1>>}
      BY <2>1, <3>1, <3>3, PairsSingle
    <3>5. Unsent(h)
      <4>1. ~Includes(packet[w], h)
        BY <1>n DEF Includes
      <4>2. packet[w] \in Seq(Item) /\ Unrepeated(packet[w], h)
        BY <4>1 DEF DataTypes, Includes, Unrepeated
      <4> QED
        BY <1>3, <4>1, <4>2, PacketSent
    <3> QED
      BY <1>c, <3>4, <3>5 DEF Somewhere, At, Single, Unsent
  <2>4. ASSUME NEW i \in Item, i # h PROVE IF i <= emitted THEN Somewhere(i)' ELSE Nowhere(i)'
    <3>1. ~Includes(<<h>>, i)
      BY <2>1, <2>4 DEF Includes
    <3> QED
      BY <1>c, <1>3, <2>4, <3>1, PacketMoves
  <2> QED
    BY <1>q, <2>2, <2>3, <2>4
<1> QED
  BY <1>1, <1>2, <1>3 DEF Formats

LEMMA StepPlaced == IndInv /\ Control /\ Placed /\ Lengths /\ [Next]_vars => Placed' /\ Lengths'
<1> SUFFICES ASSUME IndInv, Control, Placed, Lengths, [Next]_vars PROVE Placed' /\ Lengths'
  OBVIOUS
<1>t. Types /\ Exclusive /\ Closing /\ DataTypes /\ Queued /\ Ending /\ Stored
  BY DEF IndInv, Control
<1>e. ASSUME NEW e \in Emitter, EmitMetric(e) \/ OfferBatch(e) \/ OfferPanics(e)
      PROVE  Placed' /\ Lengths'
  <2>1. CASE EmitMetric(e)
    BY <1>t, <2>1, EmitPlaced DEF EmitMetric, workerVars, endVars
  <2>2. CASE OfferBatch(e)
    <3>1. /\ held[e] \in Buffer /\ ~DataClosed
          /\ UNCHANGED <<emitted, phase, delivered>>
      BY <1>t, <2>2 DEF OfferBatch, Types
    <3>2. \A v \in Worker : items[v] # held[e]
      BY <1>t, <3>1 DEF Exclusive
    <3>3. CASE CanSend
      <4>1. Send(held[e]) /\ UNCHANGED <<content, failed>>
        BY <2>2, <3>3 DEF OfferBatch
      <4>2. (\E w \in Worker : Handed(w, held[e])) \/ Buffered(held[e])
        BY <1>t, <3>1, <3>3, <4>1, SendQueues
      <4> QED
        BY <1>t, <3>1, <3>2, <4>1, <4>2, SendPlaced
    <3>4. CASE ~CanSend
      <4>1. /\ failed' = Tally(failed, content[held[e]])
            /\ content' = [content EXCEPT ![held[e]] = <<>>]
            /\ UNCHANGED <<items, pos, packet>>
        BY <2>2, <3>4 DEF OfferBatch, workerVars
      <4> QED
        BY <1>t, <3>1, <3>2, <4>1, DropPlaced
    <3> QED
      BY <3>3, <3>4
  <2>3. CASE OfferPanics(e)
    BY <2>3, SamePlaced DEF OfferPanics, batchVars, workerVars, endVars
  <2> QED
    BY <1>e, <2>1, <2>2, <2>3
<1>f. CASE FlusherStep
  <2>1. CASE Tick \/ FlusherStop
    BY <2>1, SamePlaced DEF Tick, FlusherStop, TakeBatch, workerVars, endVars
  <2>2. ASSUME NEW tok \in {flushBatch, NoBuffer}, Send(tok), CanSend,
               flusher \in {"batch", "nil"}, UNCHANGED <<batchVars, phase, endVars>>
        PROVE  Placed' /\ Lengths'
    <3>1. tok \in Token /\ ~DataClosed /\ UNCHANGED <<emitted, content, delivered, failed>>
      BY <1>t, <2>2 DEF Types, Closing, batchVars, endVars
    <3>2. \A v \in Worker : items[v] = tok => tok = NoBuffer
      BY <1>t, <2>2 DEF Exclusive
    <3>3. (\E w \in Worker : Handed(w, tok)) \/ Buffered(tok)
      BY <1>t, <2>2, <3>1, SendQueues
    <3> QED
      BY <1>t, <3>1, <3>2, <3>3, SendPlaced
  <2>3. CASE SendBatch
    BY <2>2, <2>3 DEF SendBatch
  <2>4. CASE SendNil
    BY <2>2, <2>4 DEF SendNil
  <2> QED
    BY <1>f, <2>1, <2>3, <2>4 DEF FlusherStep
<1>w. ASSUME NEW w \in Worker, WorkerStep(w) PROVE Placed' /\ Lengths'
  <2>1. CASE Receive(w)
    <3>1. /\ worker[w] = "ready" /\ dataBuf # <<>>
          /\ items' = [items EXCEPT ![w] = dataBuf[1]] /\ pos' = [pos EXCEPT ![w] = 1]
          /\ UNCHANGED <<emitted, content, packet, delivered, failed>>
      BY <2>1 DEF Receive, Got, batchVars, endVars
    <3>2. 1 \in DOMAIN dataBuf /\ dataBuf[1] \in Token
      BY <1>t, <3>1 DEF Types
    <3>3. \A v \in Worker : items[v] = dataBuf[1] => dataBuf[1] = NoBuffer
      BY <1>t, <3>2 DEF Exclusive
    <3>4. items[w] = NoBuffer
      BY <1>t, <3>1 DEF Queued
    <3> QED
      BY <1>t, <3>1, <3>2, <3>3, <3>4, GotPlaced
  <2>2. CASE Wait(w)
    BY <2>2, SamePlaced DEF Wait, batchVars, endVars
  <2>3. CASE FormatItem(w)
    <3>1. PICK h \in Item : Formats(w, h)
      BY <1>t, <2>3, FormatItems
    <3>2. UNCHANGED emitted
      BY <2>3 DEF FormatItem, batchVars
    <3> QED
      BY <1>t, <3>1, <3>2, FormatPlaced
  <2>4. CASE PutMetricItems(w)
    BY <1>t, <2>4, PutPlaced DEF PutMetricItems, Types, endVars
  <2>5. CASE FlushPacket(w) \/ LastPacket(w)
    BY <1>t, <2>5, EmptyPacketPlaced DEF FlushPacket, LastPacket, EmptyPacket, batchVars, endVars
  <2> QED
    BY <1>w, <2>1, <2>2, <2>3, <2>4, <2>5 DEF WorkerStep
<1>p. CASE Start \/ StopFlusher \/ CloseData \/ CloseReturn
  BY <1>p, SamePlaced DEF Start, StopFlusher, CloseData, CloseReturn, batchVars, workerVars, endVars
<1>1. CASE UNCHANGED vars
  BY <1>1, SamePlaced DEF vars, batchVars, workerVars, endVars
<1> QED
  BY <1>e, <1>f, <1>w, <1>p, <1>1 DEF Next

LEMMA PlacesInvariance == Spec => [](IndInv /\ Control /\ Placed /\ Lengths)
<1> DEFINE Inv == IndInv /\ Control /\ Placed /\ Lengths
<1>1. Init => Inv
  BY InitInv, InitControl, InitPlaced
<1>2. Inv /\ [Next]_vars => Inv'
  BY Inductive, StepControl, StepPlaced
<1> QED
  BY <1>1, <1>2, PTL DEF Spec

LEMMA InvInOnePlace == IndInv /\ Control /\ Placed => InOnePlace
<1> SUFFICES ASSUME IndInv, Control, Placed PROVE InOnePlace
  OBVIOUS
<1>t. Types /\ Closing /\ DataTypes
  BY DEF IndInv, Control
<1>1. TypeOK
  BY <1>t DEF Types, Closing, DataTypes, TypeOK
<1>2. ASSUME NEW i \in 1..emitted
      PROVE  Cardinality(Cells(i)) + Cardinality(Packed(i)) + delivered[i] + failed[i] = 1
  <2>1. i \in Item /\ i <= emitted
    BY <1>t DEF DataTypes, Item
  <2> QED
    BY <1>t, <2>1, SomewhereOnce DEF Placed
<1> QED
  BY <1>1, <1>2 DEF InOnePlace

\* Swapping the batch under the lock, the recycling of slices through the pool
\* and the packing of packets in sendLoop neither lose an item nor repeat it.
THEOREM InOnePlaceCorrect == Spec => []InOnePlace
BY PlacesInvariance, InvInOnePlace, PTL

LEMMA InvCleanClose == IndInv /\ Control /\ Placed /\ Lengths => CleanClose
<1> SUFFICES ASSUME IndInv, Control, Placed, Lengths, ~overlap, phase = "closed",
                    NEW i \in 1..emitted
             PROVE  delivered[i] + failed[i] = 1
  BY DEF CleanClose
<1>t. Types /\ Closing /\ DataTypes /\ Queued /\ Ending /\ Stored
  BY DEF IndInv, Control
<1>1. i \in Item /\ i <= emitted
  BY <1>t DEF DataTypes, Item
<1>2. \A w \in Worker : worker[w] = "done" /\ packet[w] = <<>> /\ items[w] = NoBuffer
  BY <1>t DEF Queued
<1>3. dataBuf = <<>>
  BY <1>2, <1>t DEF Queued
<1>4. flusher = "done" /\ final /\ flushBatch = NoBuffer /\ content[batchBuf] = <<>>
  BY <1>t DEF Closing, DataClosed, Ending
<1>5. \A e \in Emitter : held[e] = NoBuffer
  BY <1>t DEF Closing
<1>6. DOMAIN <<>> = {}
  OBVIOUS
<1>7. \A b \in Buffer : content[b] = <<>>
  <2> SUFFICES ASSUME NEW b \in Buffer, content[b] # <<>> PROVE FALSE
    OBVIOUS
  <2>1. Owned(b) /\ b # NoBuffer
    BY <1>t DEF Stored
  <2> QED
    BY <1>2, <1>3, <1>4, <1>5, <1>6, <2>1 DEF Owned
<1>8. Cells(i) = {} /\ Packed(i) = {}
  BY <1>2, <1>6, <1>7 DEF Cells, Packed
<1>9. Somewhere(i)
  BY <1>1 DEF Placed
<1>10. ~Single({})
  BY DEF Single
<1> QED
  BY <1>8, <1>9, <1>10 DEF Somewhere, At

\* Close returns when the last batch has been flushed, the channel drained and
\* every packet emptied: flusherWg, then close(dataBuf), then senderWg.
THEOREM CleanCloseCorrect == Spec => []CleanClose
BY PlacesInvariance, InvCleanClose, PTL
-----------------------------------------------------------------------------
(* Sums.  NatInduction, which takes an operator, cannot be used; here the   *)
(* induction is over the membership of a set.                              *)

\* Induction over the natural numbers, for a set.
LEMMA Induct ==
    ASSUME NEW T, 0 \in T, \A n \in Nat : n \in T => n + 1 \in T
    PROVE  Nat \subseteq T
<1> DEFINE R == {ss \in Nat \X Nat : ss[1] < ss[2]}
           M == Nat \ T
<1> SUFFICES ASSUME M # {} PROVE FALSE
  OBVIOUS
<1>1. IsWellFoundedOn(R, Nat)
  BY NatLessThanWellFounded DEF OpToRel
<1>2. M \subseteq Nat
  OBVIOUS
<1>3. PICK n \in M : \A m \in M : ~(<<m, n>> \in R)
  <2> HIDE DEF R, M
  <2> QED
    BY <1>1, <1>2, WFMin
<1>4. n \in Nat /\ n \notin T /\ n # 0
  OBVIOUS
<1>5. n - 1 \in Nat /\ n - 1 < n /\ (n - 1) + 1 = n
  BY <1>4
<1>6. n - 1 \notin M
  <2>1. n - 1 \in M => <<n - 1, n>> \in R
    BY <1>4, <1>5
  <2> QED
    BY <1>3, <2>1
<1> QED
  BY <1>4, <1>5, <1>6

\* The element of s that SumFunction adds first.
pick(s) == CHOOSE x \in s : TRUE

\* g adds up f over the subsets of S, one element after the other.
Adds(g, f, S) ==
    g = [s \in SUBSET S |-> IF s = {} THEN 0 ELSE f[pick(s)] + g[s \ {pick(s)}]]

LEMMA Picked ==
    ASSUME NEW S, IsFiniteSet(S), NEW s \in SUBSET S, s # {}, NEW n \in Nat,
           Cardinality(s) <= n + 1
    PROVE  \A x \in s : /\ s \ {x} \in SUBSET S /\ Cardinality(s \ {x}) \in Nat
                        /\ Cardinality(s \ {x}) <= n
<1>1. IsFiniteSet(s) /\ Cardinality(s) \in Nat
  BY FS_Subset, FS_CardinalityType
<1>2. ASSUME NEW x \in s PROVE Cardinality(s \ {x}) = Cardinality(s) - 1 /\ IsFiniteSet(s \ {x})
  BY <1>1, FS_RemoveElement
<1>3. ASSUME NEW x \in s PROVE Cardinality(s \ {x}) \in Nat
  BY <1>2, FS_CardinalityType
<1> QED
  BY <1>1, <1>2, <1>3

LEMMA AddsExists ==
    ASSUME NEW f, NEW S, IsFiniteSet(S)
    PROVE  \E g : Adds(g, f, S)
<1> DEFINE Rule(g, s) == g[s] = IF s = {} THEN 0 ELSE f[pick(s)] + g[s \ {pick(s)}]
           More(g) == [s \in SUBSET S |-> IF s = {} THEN 0 ELSE f[pick(s)] + g[s \ {pick(s)}]]
           Upto(g, n) == \A s \in SUBSET S : Cardinality(s) <= n => Rule(g, s)
           T == {n \in Nat : \E g : Upto(g, n)}
<1>1. \A s : s # {} => pick(s) \in s
  BY DEF pick
<1>2. \A s \in SUBSET S : IsFiniteSet(s) /\ Cardinality(s) \in Nat
  BY FS_Subset, FS_CardinalityType
<1>3. 0 \in T
  <2> DEFINE z == [s \in SUBSET S |-> 0]
  <2>1. \A s \in SUBSET S : Cardinality(s) <= 0 => s = {}
    BY <1>2, FS_EmptySet
  <2>2. Upto(z, 0)
    BY <2>1
  <2> QED
    BY <2>2
<1>4. ASSUME NEW n \in Nat, n \in T PROVE n + 1 \in T
  <2>1. PICK g : Upto(g, n)
    BY <1>4
  <2>2. ASSUME NEW s \in SUBSET S, Cardinality(s) <= n PROVE More(g)[s] = g[s]
    BY <2>1, <2>2
  <2>3. ASSUME NEW s \in SUBSET S, Cardinality(s) <= n + 1 PROVE Rule(More(g), s)
    <3>1. CASE s = {}
      BY <3>1
    <3>2. CASE s # {}
      <4>1. /\ s \ {pick(s)} \in SUBSET S /\ Cardinality(s \ {pick(s)}) <= n
        BY <1>1, <2>3, <3>2, Picked
      <4>2. More(g)[s \ {pick(s)}] = g[s \ {pick(s)}]
        BY <2>2, <4>1
      <4>3. More(g)[s] = f[pick(s)] + g[s \ {pick(s)}]
        BY <3>2
      <4> QED
        BY <3>2, <4>2, <4>3
    <3> QED
      BY <3>1, <3>2
  <2>4. Upto(More(g), n + 1)
    BY <2>3
  <2>5. \E h : Upto(h, n + 1)
    <3> HIDE DEF Upto, More
    <3> QED
      BY <2>4
  <2>6. n + 1 \in Nat
    OBVIOUS
  <2> HIDE DEF Upto
  <2> QED
    BY <2>5, <2>6
<1>5. Cardinality(S) \in T
  <2>1. Nat \subseteq T
    <3> HIDE DEF T
    <3> QED
      BY <1>3, <1>4, Induct
  <2> QED
    BY <1>2, <2>1
<1>6. PICK g : Upto(g, Cardinality(S))
  BY <1>5
<1>7. \A s \in SUBSET S : Rule(g, s)
  <2>1. \A s \in SUBSET S : Cardinality(s) <= Cardinality(S)
    BY FS_Subset
  <2> QED
    BY <1>6, <2>1
<1>8. \A s \in SUBSET S : More(g)[s] = g[s]
  BY <1>7
<1>9. \A s \in SUBSET S : s # {} => s \ {pick(s)} \in SUBSET S
  OBVIOUS
<1>10. Adds(More(g), f, S)
  BY <1>8, <1>9 DEF Adds
<1> QED
  BY <1>10

LEMMA SumAdds ==
    ASSUME NEW f, IsFiniteSet(DOMAIN f)
    PROVE  \E g : Adds(g, f, DOMAIN f) /\ SumFunction(f) = g[DOMAIN f]
<1> DEFINE g == CHOOSE g : Adds(g, f, DOMAIN f)
<1>1. Adds(g, f, DOMAIN f)
  BY AddsExists
<1>2. SumFunction(f) = g[DOMAIN f]
  BY DEF SumFunction, SumFunctionOnSet, FoldFunctionOnSet, MapThenFoldSet, pick, Adds
<1> QED
  BY <1>1, <1>2

\* The order in which the elements are added does not matter.
\* In the sum of s any element can be the last one added.
AddsOne(g, f, s) == g[s] \in Nat /\ \A x \in s : g[s] = f[x] + g[s \ {x}]

LEMMA AddsAny ==
    ASSUME NEW f, NEW S, IsFiniteSet(S), \A x \in S : f[x] \in Nat, NEW g, Adds(g, f, S)
    PROVE  \A s \in SUBSET S : AddsOne(g, f, s)
<1> USE DEF AddsOne
<1> DEFINE AnyFirst(s) == g[s] \in Nat /\ \A x \in s : g[s] = f[x] + g[s \ {x}]
           T == {n \in Nat : \A s \in SUBSET S : Cardinality(s) <= n => AnyFirst(s)}
<1>1. \A s : s # {} => pick(s) \in s
  BY DEF pick
<1>2. \A s \in SUBSET S : IsFiniteSet(s) /\ Cardinality(s) \in Nat
  BY FS_Subset, FS_CardinalityType
<1>3. /\ g[{}] = 0
      /\ \A s \in SUBSET S : s # {} => g[s] = f[pick(s)] + g[s \ {pick(s)}]
  BY DEF Adds
<1>4. 0 \in T
  <2>1. \A s \in SUBSET S : Cardinality(s) <= 0 => s = {}
    BY <1>2, FS_EmptySet
  <2>2. AnyFirst({})
    BY <1>3
  <2>3. 0 \in Nat /\ \A s \in SUBSET S : Cardinality(s) <= 0 => AnyFirst(s)
    <3> HIDE DEF AnyFirst
    <3> QED
      BY <2>1, <2>2
  <2> QED
    BY <2>3
<1>5. ASSUME NEW n \in Nat, n \in T PROVE n + 1 \in T
  <2> SUFFICES ASSUME NEW s \in SUBSET S, Cardinality(s) <= n + 1 PROVE AnyFirst(s)
    OBVIOUS
  <2>1. CASE s = {}
    BY <1>3, <2>1
  <2>2. CASE s # {}
    <3>1. PICK p \in s : p = pick(s)
      BY <1>1, <2>2
    <3>2. \A x \in s : s \ {x} \in SUBSET S /\ Cardinality(s \ {x}) <= n
      BY <2>2, Picked
    <3>3. g[s] = f[p] + g[s \ {p}]
      BY <1>3, <2>2, <3>1
    <3>4. AnyFirst(s \ {p})
      BY <1>5, <3>2
    <3>5. g[s] \in Nat
      <4>1. f[p] \in Nat
        OBVIOUS
      <4> QED
        BY <3>3, <3>4, <4>1
    <3>6. ASSUME NEW x \in s PROVE g[s] = f[x] + g[s \ {x}]
      <4>1. CASE x = p
        BY <3>3, <4>1
      <4>2. CASE x # p
        <5>1. AnyFirst(s \ {x})
          BY <1>5, <3>2
        <5>2. PICK t : t = (s \ {p}) \ {x}
          OBVIOUS
        <5>3. t = (s \ {x}) \ {p} /\ x \in s \ {p} /\ p \in s \ {x}
          BY <4>2, <5>2
        <5>4. g[s \ {p}] = f[x] + g[t]
          BY <3>4, <5>2, <5>3
        <5>5. g[s \ {x}] = f[p] + g[t]
          BY <5>1, <5>3
        <5>6. g[t] \in Nat
          <6>1. t \in SUBSET (s \ {p}) /\ t \in SUBSET S
            BY <5>2
          <6>2. /\ Cardinality(t) <= Cardinality(s \ {p})
                /\ Cardinality(t) \in Nat /\ Cardinality(s \ {p}) \in Nat
            BY <1>2, <3>2, <6>1, FS_Subset
          <6>3. Cardinality(t) <= n
            BY <3>2, <6>2
          <6>4. AnyFirst(t)
            BY <1>5, <6>1, <6>3
          <6> QED
            BY <6>4
        <5>7. f[p] \in Nat /\ f[x] \in Nat
          OBVIOUS
        <5> QED
          BY <3>3, <5>4, <5>5, <5>6, <5>7
      <4> QED
        BY <4>1, <4>2
    <3> QED
      BY <3>5, <3>6
  <2> QED
    BY <2>1, <2>2
<1>6. Nat \subseteq T
  <2> HIDE DEF T
  <2> QED
    BY <1>4, <1>5, Induct
<1>7. \A n \in Nat : \A s \in SUBSET S : Cardinality(s) <= n => AnyFirst(s)
  <2> HIDE DEF AnyFirst
  <2> QED
    BY <1>6
<1>8. \A s \in SUBSET S : AnyFirst(s)
  <2> HIDE DEF AnyFirst
  <2> QED
    BY <1>2, <1>7
<1> QED
  BY <1>8

\* What f is outside of S does not matter.
LEMMA AddsAgree ==
    ASSUME NEW S, NEW U, S \subseteq U, IsFiniteSet(S), NEW f, NEW e, \A x \in S : f[x] = e[x],
           NEW g, Adds(g, f, S), NEW h, Adds(h, e, U)
    PROVE  \A s \in SUBSET S : g[s] = h[s]
<1> DEFINE T == {n \in Nat : \A s \in SUBSET S : Cardinality(s) <= n => g[s] = h[s]}
<1>1. \A s : s # {} => pick(s) \in s
  BY DEF pick
<1>2. \A s \in SUBSET S : IsFiniteSet(s) /\ Cardinality(s) \in Nat
  BY FS_Subset, FS_CardinalityType
<1>3. /\ g[{}] = 0 /\ h[{}] = 0
      /\ \A s \in SUBSET S : s # {} => /\ g[s] = f[pick(s)] + g[s \ {pick(s)}]
                                       /\ h[s] = e[pick(s)] + h[s \ {pick(s)}]
  BY DEF Adds
<1>4. 0 \in T
  <2>1. \A s \in SUBSET S : Cardinality(s) <= 0 => s = {}
    BY <1>2, FS_EmptySet
  <2> QED
    BY <1>3, <2>1
<1>5. ASSUME NEW n \in Nat, n \in T PROVE n + 1 \in T
  <2> SUFFICES ASSUME NEW s \in SUBSET S, Cardinality(s) <= n + 1 PROVE g[s] = h[s]
    OBVIOUS
  <2>1. CASE s = {}
    BY <1>3, <2>1
  <2>2. CASE s # {}
    <3>1. PICK p \in s : p = pick(s)
      BY <1>1, <2>2
    <3>2. s \ {p} \in SUBSET S /\ Cardinality(s \ {p}) <= n
      BY <2>2, Picked
    <3>3. g[s \ {p}] = h[s \ {p}]
      BY <1>5, <3>2
    <3>4. g[s] = f[p] + g[s \ {p}] /\ h[s] = e[p] + h[s \ {p}] /\ f[p] = e[p]
      BY <1>3, <2>2, <3>1
    <3> QED
      BY <3>3, <3>4
  <2> QED
    BY <2>1, <2>2
<1>6. Nat \subseteq T
  <2> HIDE DEF T
  <2> QED
    BY <1>4, <1>5, Induct
<1> QED
  BY <1>2, <1>6

\* The sum of a function and of one with x more in its domain.
SumsOneMore(f, e, x) == SumFunction(f) \in Nat /\ SumFunction(e) = SumFunction(f) + e[x]

LEMMA SumMore ==
    ASSUME NEW U, IsFiniteSet(U), NEW x \in U, NEW f, DOMAIN f = U \ {x}, NEW e, DOMAIN e = U,
           \A y \in U \ {x} : f[y] = e[y], \A y \in U : e[y] \in Nat
    PROVE  SumsOneMore(f, e, x)
<1> DEFINE S == U \ {x}
<1>1. IsFiniteSet(S) /\ S \subseteq U /\ \A y \in S : f[y] = e[y]
  <2>1. S \in SUBSET U
    OBVIOUS
  <2> QED
    BY <2>1, FS_Subset
<1>2. DOMAIN f = S
  OBVIOUS
<1> HIDE DEF S
<1>3. PICK g : Adds(g, f, S) /\ SumFunction(f) = g[S]
  BY <1>1, <1>2, SumAdds
<1>4. PICK h : Adds(h, e, U) /\ SumFunction(e) = h[U]
  BY SumAdds
<1>5. \A s \in SUBSET S : g[s] = h[s]
  BY <1>1, <1>3, <1>4, AddsAgree
<1>6. \A s \in SUBSET U : AddsOne(h, e, s)
  BY <1>4, AddsAny
<1>7. g[S] = h[S] /\ h[S] \in Nat
  BY <1>1, <1>5, <1>6 DEF AddsOne
<1>8. h[U] = e[x] + h[S]
  BY <1>6 DEF S, AddsOne
<1>9. e[x] \in Nat
  OBVIOUS
<1> QED
  BY <1>3, <1>4, <1>7, <1>8, <1>9 DEF SumsOneMore

LEMMA SumEmpty ==
    ASSUME NEW f, DOMAIN f = {}
    PROVE  SumFunction(f) = 0
<1>1. IsFiniteSet({})
  BY FS_EmptySet
<1>2. PICK g : Adds(g, f, {}) /\ SumFunction(f) = g[{}]
  BY <1>1, SumAdds
<1> QED
  BY <1>2 DEF Adds
-----------------------------------------------------------------------------
(* The size of a packet                                                    *)

LEMMA BytesSums ==
    /\ Bytes(<<>>) = 0
    /\ \A s \in Seq(Item), i \in Item : size \in [Item -> Sizes] =>
           Bytes(s) \in Nat /\ Bytes(Append(s, i)) = Bytes(s) + size[i]
<1>1. Bytes(<<>>) = 0
  <2> DEFINE f == [j \in DOMAIN <<>> |-> size[<<>>[j]]]
  <2>1. DOMAIN f = {}
    OBVIOUS
  <2> HIDE DEF f
  <2>2. SumFunction(f) = 0
    BY <2>1, SumEmpty
  <2> QED
    BY <2>2 DEF Bytes, f
<1>2. ASSUME NEW s \in Seq(Item), NEW i \in Item, size \in [Item -> Sizes]
      PROVE  Bytes(s) \in Nat /\ Bytes(Append(s, i)) = Bytes(s) + size[i]
  <2> DEFINE k == Len(s) + 1
             U == 1..k
             f == [j \in DOMAIN s |-> size[s[j]]]
             e == [j \in DOMAIN Append(s, i) |-> size[Append(s, i)[j]]]
  <2>1. k \in Nat /\ DOMAIN s = U \ {k} /\ DOMAIN Append(s, i) = U /\ k \in U
    <3>1. Len(s) \in Nat /\ DOMAIN s = 1..Len(s) /\ DOMAIN Append(s, i) = 1..(Len(s) + 1)
      OBVIOUS
    <3>2. 1..Len(s) = U \ {k} /\ k \in U
      BY <3>1
    <3> QED
      BY <3>1, <3>2
  <2>2. DOMAIN f = U \ {k} /\ DOMAIN e = U
    BY <2>1
  <2>3. \A j \in U \ {k} : f[j] = e[j]
    BY <2>1
  <2>4. \A j \in U : e[j] \in Nat
    <3>1. \A j \in U : Append(s, i)[j] \in Item
      BY <2>1
    <3> QED
      BY <1>2, <2>1, <3>1
  <2>5. e[k] = size[i]
    BY <2>1
  <2>6. IsFiniteSet(U)
    <3>1. 1 \in Int /\ k \in Int
      BY <2>1
    <3> QED
      BY <3>1, FS_Interval
  <2>7. Bytes(s) = SumFunction(f) /\ Bytes(Append(s, i)) = SumFunction(e)
    BY DEF Bytes
  <2>8. SumsOneMore(f, e, k)
    <3> HIDE DEF U, f, e, k
    <3> QED
      BY <2>1, <2>2, <2>3, <2>4, <2>6, SumMore
  <2> QED
    BY <2>5, <2>7, <2>8 DEF SumsOneMore
<1> QED
  BY <1>1, <1>2

\* How a step changes the packets.
Packets(w) ==
    \/ packet' = [packet EXCEPT ![w] = <<>>]
    \/ \E i \in Item :
           \/ Fits(w, i) /\ packet' = [packet EXCEPT ![w] = Append(@, i)]
           \/ size[i] <= MaxPacketSize /\ packet' = [packet EXCEPT ![w] = <<i>>]

LEMMA StepPackets ==
    ASSUME IndInv, Control, [Next]_vars
    PROVE  UNCHANGED size /\ (UNCHANGED packet \/ \E w \in Worker : Packets(w))
<1>s. \A tok : Send(tok) => UNCHANGED packet
  BY DEF Send, Got, workerVars
<1>e. ASSUME NEW e \in Emitter, EmitMetric(e) \/ OfferBatch(e) \/ OfferPanics(e)
      PROVE  UNCHANGED <<size, packet>>
  BY <1>s, <1>e DEF EmitMetric, OfferBatch, OfferPanics, batchVars, workerVars
<1>f. CASE FlusherStep
  <2>1. CASE Tick \/ FlusherStop
    BY <2>1 DEF Tick, FlusherStop, TakeBatch, workerVars
  <2>2. CASE SendBatch \/ SendNil
    BY <1>s, <2>2 DEF SendBatch, SendNil, batchVars
  <2> QED
    BY <1>f, <2>1, <2>2 DEF FlusherStep
<1>w. ASSUME NEW w \in Worker, WorkerStep(w)
      PROVE  UNCHANGED size /\ (UNCHANGED packet \/ Packets(w))
  <2>1. CASE Receive(w) \/ Wait(w) \/ PutMetricItems(w)
    BY <2>1 DEF Receive, Got, Wait, PutMetricItems, batchVars
  <2>2. CASE FormatItem(w)
    <3> DEFINE i == content[items[w]][pos[w]]
    <3>1. i \in Item
      BY <2>2, FormatItems DEF IndInv, Control, Formats
    <3>2. \/ UNCHANGED packet
          \/ Fits(w, i) /\ packet' = [packet EXCEPT ![w] = Append(@, i)]
          \/ size[i] <= MaxPacketSize /\ packet' = [packet EXCEPT ![w] = <<i>>]
      BY <2>2 DEF FormatItem, Restart
    <3>3. UNCHANGED size
      BY <2>2 DEF FormatItem, batchVars
    <3> HIDE DEF i
    <3> QED
      BY <3>1, <3>2, <3>3 DEF Packets
  <2>3. CASE FlushPacket(w) \/ LastPacket(w)
    BY <2>3 DEF FlushPacket, LastPacket, EmptyPacket, Packets, batchVars
  <2> QED
    BY <1>w, <2>1, <2>2, <2>3 DEF WorkerStep
<1>p. CASE Start \/ StopFlusher \/ CloseData \/ CloseReturn
  BY <1>p DEF Start, StopFlusher, CloseData, CloseReturn, batchVars, workerVars
<1>1. CASE UNCHANGED vars
  BY <1>1 DEF vars, batchVars, workerVars
<1> QED
  BY <1>e, <1>f, <1>w, <1>p, <1>1 DEF Next

LEMMA StepBound ==
    ASSUME IndInv, Control, PacketBound, [Next]_vars
    PROVE  PacketBound'
<1>1. size \in [Item -> Sizes] /\ packet \in [Worker -> Seq(Item)]
  BY DEF Control, DataTypes
<1>2. UNCHANGED size /\ (UNCHANGED packet \/ \E w \in Worker : Packets(w))
  BY StepPackets
<1>3. \A v \in Worker : Bytes(packet[v])' = Bytes(packet'[v])
  BY <1>2 DEF Bytes
<1>4. CASE UNCHANGED packet
  BY <1>3, <1>4 DEF PacketBound
<1>5. ASSUME NEW w \in Worker, Packets(w) PROVE PacketBound'
  <2>1. \A v \in Worker \ {w} : packet'[v] = packet[v]
    BY <1>1, <1>5 DEF Packets
  <2>2. Bytes(packet'[w]) <= MaxPacketSize
    <3>1. CASE packet'[w] = <<>>
      BY <3>1, BytesSums
    <3>2. ASSUME NEW i \in Item, Fits(w, i), packet'[w] = Append(packet[w], i)
          PROVE  Bytes(packet'[w]) <= MaxPacketSize
      <4>1. Bytes(Append(packet[w], i)) = Bytes(packet[w]) + size[i]
        BY <1>1, BytesSums
      <4> QED
        BY <3>2, <4>1 DEF Fits
    <3>3. ASSUME NEW i \in Item, size[i] <= MaxPacketSize, packet'[w] = <<i>>
          PROVE  Bytes(packet'[w]) <= MaxPacketSize
      <4>1. <<>> \in Seq(Item) /\ Append(<<>>, i) = <<i>>
        OBVIOUS
      <4>2. Bytes(<<i>>) = 0 + size[i] /\ size[i] \in Nat
        <5>1. Bytes(Append(<<>>, i)) = Bytes(<<>>) + size[i] /\ Bytes(<<>>) = 0
          BY <1>1, <4>1, BytesSums
        <5>2. size[i] \in Nat
          BY <1>1
        <5> QED
          BY <4>1, <5>1, <5>2
      <4> QED
        BY <3>3, <4>2
    <3> QED
      BY <1>1, <1>5, <3>1, <3>2, <3>3 DEF Packets
  <2>3. \A v \in Worker : Bytes(packet'[v]) <= MaxPacketSize
    BY <2>1, <2>2 DEF PacketBound
  <2> QED
    BY <1>3, <2>3 DEF PacketBound
<1> QED
  BY <1>2, <1>4, <1>5

\* The packet a worker fills never outgrows maxPacketSize: an item is appended
\* when the sum allows it, and starts a packet only when it fits into one.
THEOREM PacketBoundCorrect == Spec => []PacketBound
<1> DEFINE Inv == IndInv /\ Control /\ PacketBound
<1>1. Init => Inv
  <2>1. Init => PacketBound
    BY BytesSums DEF Init, PacketBound
  <2> QED
    BY <2>1, InitInv, InitControl
<1>2. Inv /\ [Next]_vars => Inv'
  BY Inductive, StepControl, StepBound
<1>3. Inv => PacketBound
  OBVIOUS
<1> QED
  BY <1>1, <1>2, <1>3, PTL DEF Spec
=============================================================================
