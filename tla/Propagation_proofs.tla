-------------------------- MODULE Propagation_proofs --------------------------
(***************************************************************************)
(* A trace stays connected, its processes share one decision and baggage   *)
(* arrives whole, for any chain of processes and carriers, any sets of     *)
(* baggage keys and weights, and whatever the first process is called      *)
(* with.                                                                   *)
(*                                                                         *)
(* The inductive invariant has the three properties call by call           *)
(* (Processes) and, for the call to come, what a carrier in flight and an  *)
(* Inject half done say of the trace and of the active span they were made *)
(* from (InFlight).                                                        *)
(***************************************************************************)
EXTENDS Propagation, FiniteSetTheorems, TLAPS

IsSeq(s) == \E S : s \in Seq(S)

IsFcn(f) == f = [x \in DOMAIN f |-> f[x]]

\* A process that has the context of a trace knows whether to collect it.
Decided(tc) ==
    /\ tc.strategy \in {"NotSampled", "Sampled"}
    /\ tc.flags \in 0..3
    /\ tc.traceID[1] # ""

\* Carrier c says what the last process has made of the trace, and what its
\* active span sp is.
Says(c, tc, sp) ==
    /\ c.kind = "http" =>
           /\ {"x-trace-id", "x-span-id", "x-sample-hit", "x-sample-weight",
               "x-sample-flags"} \subseteq DOMAIN c.headers
           /\ c.headers["x-trace-id"] = tc.traceID /\ c.headers["x-span-id"] = sp.id
           /\ c.headers["x-sample-hit"] = Hit(tc)
           /\ c.headers["x-sample-weight"] = tc.weight
           /\ c.headers["x-sample-flags"] = tc.flags
           /\ DOMAIN c.baggage \subseteq DOMAIN sp.baggage
           /\ {Lower[k] : k \in DOMAIN c.baggage} = {Lower[k] : k \in DOMAIN sp.baggage}
           /\ \A k \in DOMAIN c.baggage : c.baggage[k] = sp.baggage[k]
    /\ c.kind = "binary" =>
           /\ c.traceID = tc.traceID /\ c.spanID = sp.id
           /\ c.hit = Hit(tc)
           /\ c.weight = Int32(tc.weight)
           /\ c.flags = tc.flags
           /\ c.items = sp.baggage

\* A binary carrier announces as many items as it has.
Counted(c) == c.kind = "binary" => c.cnt = Cardinality(DOMAIN c.items)

\* The clauses of the properties, for the call from process p to the next one:
\* tc and made are the trace of the caller and what becomes of it in the callee,
\* c is the carrier, from the calling span and to the first one of the callee.
ConnectedBy(c, tc, made, from, to) ==
    LET rum    == c.kind = "http" /\ Has(c, "x-rum-traceparent")
        parent == c.headers["x-rum-traceparent"]
    IN  /\ to.parent = from.id \/ (rum /\ to.parent = parent.spanID)
        /\ made.traceID = tc.traceID \/ (rum /\ parent.traceID # tc.traceID)

SameBy(tc, made, whole) ==
    /\ made.strategy = tc.strategy
    /\ whole => Collects(made) = Collects(tc)
    /\ tc.weight \in MinInt32..(-MinInt32 - 1) => made.weight = tc.weight

KeptBy(c, had, has) ==
    LET rum == IF c.kind = "http" /\ Has(c, "x-rum-tracestate") THEN {AppID, Origin} ELSE {}
    IN  IF c.kind = "binary" THEN has = had
        ELSE /\ DOMAIN has = {Lower[k] : k \in DOMAIN had} \cup rum
             /\ \A k \in DOMAIN has \ rum :
                    \E j \in DOMAIN had : Lower[j] = k /\ has[k] = had[j]

Call(p) ==
    /\ ConnectedBy(in[p + 1], trace[p], trace[p + 1], calls[p + 1].from, calls[p + 1].to)
    /\ SameBy(trace[p], trace[p + 1], p + 1 \notin overlapped)
    /\ p + 1 \notin overlapped =>
           KeptBy(in[p + 1], calls[p + 1].from.baggage, calls[p + 1].to.baggage)

Lists ==
    /\ IsSeq(trace) /\ IsSeq(in) /\ IsSeq(calls)
    /\ Len(in) = Here /\ Len(calls) = Here

Processes ==
    /\ \A i \in 1..Here : Decided(trace[i]) /\ WellFormed(in[i])
    /\ \A p \in 1..(Here - 1) : Call(p)

Active ==
    /\ DOMAIN span = {"id", "parent", "baggage"}
    /\ Here > 0 => span.id[1] = "span"
    /\ IsFcn(span.baggage) /\ DOMAIN span.baggage \subseteq Key
    /\ child \in BOOLEAN /\ sets \in 0..MaxSets /\ overlapped \subseteq 1..(Here + 1)

InFlight ==
    /\ carrier = NoCarrier \/ WellFormed(carrier)
    /\ carrier # NoCarrier /\ Here > 0 =>
           /\ Says(carrier, trace[Here], span)
           /\ Here + 1 \notin overlapped => Counted(carrier)
    /\ counting \in -1..Cardinality(Key)
    /\ counting # -1 =>
           /\ Here > 0 /\ carrier = NoCarrier
           /\ Here + 1 \notin overlapped => counting = Cardinality(DOMAIN span.baggage)

IndInv == Lists /\ Processes /\ Active /\ InFlight

LEMMA InitInv == Init => IndInv
<1> SUFFICES ASSUME Init PROVE IndInv
  OBVIOUS
<1>1. /\ trace = <<>> /\ span = NoSpan /\ in = <<>> /\ calls = <<>>
      /\ counting = -1 /\ carrier \in Entry
      /\ child = FALSE /\ sets = 0 /\ overlapped = {}
  BY DEF Init
<1>2. <<>> \in Seq({}) /\ Len(<<>>) = 0
  OBVIOUS
<1>3. Here = 0
  BY <1>1, <1>2 DEF Here
<1>4. Lists
  BY <1>1, <1>2, <1>3 DEF Lists, IsSeq
<1>5. Processes
  BY <1>3 DEF Processes
<1>6. Active
  <2>1. span.baggage = <<>>
    BY <1>1 DEF NoSpan
  <2>2. DOMAIN <<>> = {} /\ IsFcn(<<>>)
    BY DEF IsFcn
  <2>3. IsFcn(span.baggage) /\ DOMAIN span.baggage \subseteq Key
    BY <2>1, <2>2
  <2>4. child \in BOOLEAN
    BY <1>1
  <2>5. sets \in 0..MaxSets /\ overlapped \subseteq 1..(Here + 1)
    BY <1>1, PropagationAssumption
  <2>6. ~(Here > 0)
    BY <1>3
  <2>7. DOMAIN span = {"id", "parent", "baggage"}
    <3>1. DOMAIN NoSpan = {"id", "parent", "baggage"}
      BY DEF NoSpan
    <3> QED
      BY <1>1, <3>1
  <2> QED
    BY <2>3, <2>4, <2>5, <2>6, <2>7 DEF Active
<1>7. InFlight
  <2>1. Cardinality(Key) \in Nat
    BY PropagationAssumption, FS_CardinalityType
  <2> QED
    BY EntryAssumption, <1>1, <1>3, <2>1 DEF InFlight
<1> QED
  BY <1>4, <1>5, <1>6, <1>7 DEF IndInv

LEMMA Appends ==
    ASSUME NEW s, IsSeq(s), NEW x
    PROVE  /\ IsSeq(Append(s, x)) /\ Len(s) \in Nat /\ Len(Append(s, x)) = Len(s) + 1
           /\ \A i \in 1..Len(s) : Append(s, x)[i] = s[i]
           /\ Append(s, x)[Len(s) + 1] = x
<1>1. PICK S : s \in Seq(S)
  BY DEF IsSeq
<1>2. s \in Seq(S \cup {x})
  BY <1>1
<1>3. Append(s, x) \in Seq(S \cup {x})
  BY <1>2
<1> QED
  BY <1>1, <1>3 DEF IsSeq
-----------------------------------------------------------------------------
(* Extract                                                                 *)

LEMMA InInt32 ==
    ASSUME NEW n \in MinInt32..(-MinInt32 - 1)
    PROVE  Int32(n) = n
<1> DEFINE m == -2 * MinInt32
           d == n - MinInt32
<1>1. m \in Nat /\ m > 0 /\ d \in 0..(m - 1)
  BY PropagationAssumption
<1> HIDE DEF m, d
<1>2. d % m = d
  BY <1>1
<1> QED
  BY PropagationAssumption, <1>2 DEF Int32, m, d

LEMMA ContextTypes ==
    ASSUME NEW c, WellFormed(c), NEW sc \in Contexts(c)
    PROVE  /\ sc.strategy \in {"NotSampled", "Sampled", "Unknown"}
           /\ sc.flags \in 0..3 \cup {Unknown}
           /\ DOMAIN sc.baggage \subseteq Key /\ IsFcn(sc.baggage)
<1>1. CASE c.kind = "http"
  <2>1. PICK b \in HTTPBaggage(c) :
            /\ sc.baggage = b
            /\ sc.strategy \in {"NotSampled", "Sampled", "Unknown"}
            /\ sc.flags \in 0..3 \cup {Unknown}
    BY <1>1 DEF Contexts, HTTPContexts, HitStrategy, SampleFlagsFromInt32
  <2>2. DOMAIN c.baggage \subseteq Key
    BY <1>1 DEF WellFormed
  <2>3. \A k \in DOMAIN c.baggage : StoredKey(k) \in Key
    BY PropagationAssumption, <2>2 DEF StoredKey
  <2>4. DOMAIN b \subseteq Key
    <3> DEFINE sent == {<<StoredKey(k), c.baggage[k]>> : k \in DOMAIN c.baggage}
               rum  == IF Has(c, "x-rum-tracestate")
                       THEN {<<AppID, c.headers["x-rum-tracestate"].app_id>>,
                             <<Origin, c.headers["x-rum-tracestate"].origin>>}
                       ELSE {}
    <3>1. DOMAIN b = {e[1] : e \in sent \cup rum}
      BY <2>1 DEF HTTPBaggage
    <3>2. \A e \in sent \cup rum : e[1] \in Key
      BY PropagationAssumption, <2>3
    <3> QED
      BY <3>1, <3>2
  <2>5. IsFcn(b)
    BY <2>1 DEF HTTPBaggage, IsFcn
  <2> QED
    BY <2>1, <2>4, <2>5
<1>2. CASE c.kind = "binary"
  <2>1. sc \in BinaryContexts(c) /\ DOMAIN c.items \subseteq Key
    BY <1>2 DEF Contexts, WellFormed
  <2>2. PICK read \in SUBSET DOMAIN c.items :
            /\ sc.baggage = Restrict(c.items, read)
            /\ sc.strategy \in {"NotSampled", "Sampled"}
            /\ sc.flags \in 0..3 \cup {Unknown}
    BY <2>1 DEF BinaryContexts, kSubset, SampleFlagsFromInt32
  <2>3. DOMAIN sc.baggage = read /\ IsFcn(sc.baggage)
    BY <2>2 DEF Restrict, IsFcn
  <2> QED
    BY <2>1, <2>2, <2>3
<1> QED
  BY <1>1, <1>2 DEF WellFormed

\* What a called process takes out of headers.
LEMMA HeadersSay ==
    ASSUME NEW c, WellFormed(c), c.kind = "http", NEW tc, Decided(tc),
           NEW sp, sp.id[1] = "span", Says(c, tc, sp), NEW sc \in Contexts(c)
    PROVE  /\ ~NoContext(c, sc)
           /\ sc.strategy = tc.strategy /\ sc.flags = tc.flags /\ sc.weight = tc.weight
           /\ sc.traceID = tc.traceID
                  \/ (Has(c, "x-rum-traceparent")
                         /\ sc.traceID = c.headers["x-rum-traceparent"].traceID)
           /\ sc.spanID = sp.id
                  \/ (Has(c, "x-rum-traceparent")
                         /\ sc.spanID = c.headers["x-rum-traceparent"].spanID)
<1>1. Has(c, "x-trace-id") /\ Has(c, "x-span-id") /\ Has(c, "x-sample-hit")
          /\ Has(c, "x-sample-weight") /\ Has(c, "x-sample-flags")
  BY DEF Says, Has
<1>2. sc \in HTTPContexts(c)
  BY DEF Contexts
<1>3. /\ sc.traceID \in IDs(c, "x-trace-id", "traceID")
      /\ sc.spanID \in IDs(c, "x-span-id", "spanID")
      /\ sc.strategy = HitStrategy(c.headers["x-sample-hit"])
      /\ sc.weight = c.headers["x-sample-weight"]
      /\ sc.flags = SampleFlagsFromInt32(c.headers["x-sample-flags"])
  BY <1>1, <1>2 DEF HTTPContexts
<1>4. sc.strategy = tc.strategy
  <2>1. HitStrategy(1) = "Sampled" /\ HitStrategy(0) = "NotSampled"
    BY DEF HitStrategy
  <2>2. c.headers["x-sample-hit"] = Hit(tc)
    BY DEF Says
  <2> QED
    BY <1>3, <2>1, <2>2 DEF Hit, Decided
<1>5. sc.flags = tc.flags /\ sc.weight = tc.weight
  BY <1>3 DEF Says, Decided, SampleFlagsFromInt32
<1>6. sc.traceID = tc.traceID
          \/ (Has(c, "x-rum-traceparent")
                 /\ sc.traceID = c.headers["x-rum-traceparent"].traceID)
  BY <1>1, <1>3 DEF IDs, Says
<1>7. sc.spanID = sp.id
          \/ (Has(c, "x-rum-traceparent")
                 /\ sc.spanID = c.headers["x-rum-traceparent"].spanID)
  BY <1>1, <1>3 DEF IDs, Says
<1>8. ~NoContext(c, sc)
  BY <1>6, <1>7 DEF NoContext, Decided, WellFormed, Has
<1> QED
  BY <1>4, <1>5, <1>6, <1>7, <1>8

\* The baggage it takes out of headers.
LEMMA HeadersBring ==
    ASSUME NEW c, WellFormed(c), c.kind = "http", NEW tc,
           NEW sp, Says(c, tc, sp), NEW sc \in Contexts(c)
    PROVE  KeptBy(c, sp.baggage, sc.baggage)
<1> DEFINE sent == {<<StoredKey(k), c.baggage[k]>> : k \in DOMAIN c.baggage}
           rum  == IF Has(c, "x-rum-tracestate")
                   THEN {<<AppID, c.headers["x-rum-tracestate"].app_id>>,
                         <<Origin, c.headers["x-rum-tracestate"].origin>>}
                   ELSE {}
           names == IF Has(c, "x-rum-tracestate") THEN {AppID, Origin} ELSE {}
<1>1. PICK b \in HTTPBaggage(c) : sc.baggage = b
  BY DEF Contexts, HTTPContexts
<1>2. /\ DOMAIN b = {e[1] : e \in sent \cup rum}
      /\ \A k \in DOMAIN b : <<k, b[k]>> \in sent \cup rum
  BY <1>1 DEF HTTPBaggage
<1>3. {e[1] : e \in sent} = {Lower[k] : k \in DOMAIN sp.baggage}
  <2>1. {e[1] : e \in sent} = {Lower[k] : k \in DOMAIN c.baggage}
    <3>1. ASSUME NEW e \in sent PROVE e[1] \in {Lower[k] : k \in DOMAIN c.baggage}
      BY DEF StoredKey
    <3>2. ASSUME NEW k \in DOMAIN c.baggage PROVE Lower[k] \in {e[1] : e \in sent}
      <4>1. <<StoredKey(k), c.baggage[k]>> \in sent
        OBVIOUS
      <4>2. <<StoredKey(k), c.baggage[k]>>[1] = Lower[k]
        BY DEF StoredKey
      <4> QED
        BY <4>1, <4>2
    <3> QED
      BY <3>1, <3>2
  <2> QED
    BY <2>1 DEF Says
<1>4. {e[1] : e \in rum} = names
  <2>1. \A x, y, v, w : {e[1] : e \in {<<x, v>>, <<y, w>>}} = {x, y}
    OBVIOUS
  <2>2. \A S : S = {} => {e[1] : e \in S} = {}
    OBVIOUS
  <2>3. CASE Has(c, "x-rum-tracestate")
    BY <2>1, <2>3
  <2>4. CASE ~Has(c, "x-rum-tracestate")
    BY <2>2, <2>4
  <2> QED
    BY <2>3, <2>4
<1>5. DOMAIN b = {Lower[k] : k \in DOMAIN sp.baggage} \cup names
  <2>1. {e[1] : e \in sent \cup rum} = {e[1] : e \in sent} \cup {e[1] : e \in rum}
    <3> HIDE DEF sent, rum
    <3> QED
      OBVIOUS
  <2> QED
    BY <1>2, <1>3, <1>4, <2>1
<1>6. ASSUME NEW k \in DOMAIN b \ names
      PROVE  \E j \in DOMAIN sp.baggage : Lower[j] = k /\ b[k] = sp.baggage[j]
  <2>1. <<k, b[k]>> \notin rum
    OBVIOUS
  <2>2. <<k, b[k]>> \in sent
    BY <1>2, <2>1
  <2>3. PICK j \in DOMAIN c.baggage : <<k, b[k]>> = <<StoredKey(j), c.baggage[j]>>
    BY <2>2
  <2> QED
    BY <2>3 DEF StoredKey, Says
<1>7. DOMAIN sc.baggage = {Lower[k] : k \in DOMAIN sp.baggage} \cup names
  BY <1>1, <1>5
<1>8. \A k \in DOMAIN sc.baggage \ names :
          \E j \in DOMAIN sp.baggage : Lower[j] = k /\ sc.baggage[k] = sp.baggage[j]
  BY <1>1, <1>6
<1> QED
  BY <1>7, <1>8 DEF KeptBy

\* What it takes out of a binary carrier.
LEMMA BinarySays ==
    ASSUME NEW c, WellFormed(c), c.kind = "binary", NEW tc, Decided(tc),
           NEW sp, sp.id[1] = "span", IsFcn(sp.baggage), Says(c, tc, sp),
           NEW sc \in Contexts(c)
    PROVE  /\ ~NoContext(c, sc)
           /\ sc.strategy = tc.strategy
           /\ tc.weight \in MinInt32..(-MinInt32 - 1) => sc.weight = tc.weight
           /\ sc.traceID = tc.traceID /\ sc.spanID = sp.id
           /\ Counted(c) => sc.flags = tc.flags /\ sc.baggage = sp.baggage
<1>1. sc \in BinaryContexts(c) /\ DOMAIN c.items \subseteq Key
  BY DEF Contexts, WellFormed
<1>2. PICK read \in SUBSET DOMAIN c.items :
          /\ Cardinality(read) = c.cnt
          /\ sc.traceID = c.traceID /\ sc.spanID = c.spanID
          /\ sc.baggage = Restrict(c.items, read)
          /\ sc.strategy = IF c.hit = 1 THEN "Sampled" ELSE "NotSampled"
          /\ sc.weight = c.weight
          /\ read = DOMAIN c.items => sc.flags = SampleFlagsFromInt32(c.flags)
  BY <1>1 DEF BinaryContexts, kSubset
<1>3. ASSUME Counted(c) PROVE sc.flags = tc.flags /\ sc.baggage = sp.baggage
  <2>1. IsFiniteSet(DOMAIN c.items)
    BY PropagationAssumption, <1>1, FS_Subset
  <2>2. Cardinality(read) = Cardinality(DOMAIN c.items)
    BY <1>2, <1>3 DEF Counted
  <2>3. read = DOMAIN c.items
    BY <1>2, <2>1, <2>2, FS_Subset
  <2>4. sc.baggage = [x \in DOMAIN c.items |-> c.items[x]]
    BY <1>2, <2>3 DEF Restrict
  <2>5. c.items = sp.baggage
    BY DEF Says
  <2>6. sc.baggage = sp.baggage
    BY <2>4, <2>5 DEF IsFcn
  <2>7. sc.flags = tc.flags
    BY <1>2, <2>3 DEF Says, Decided, SampleFlagsFromInt32
  <2> QED
    BY <2>6, <2>7
<1>4. sc.strategy = tc.strategy
  <2>1. c.hit = Hit(tc)
    BY DEF Says
  <2>2. CASE tc.strategy = "Sampled"
    BY <1>2, <2>1, <2>2 DEF Hit
  <2>3. CASE tc.strategy = "NotSampled"
    BY <1>2, <2>1, <2>3 DEF Hit
  <2> QED
    BY <2>2, <2>3 DEF Decided
<1>5. tc.weight \in MinInt32..(-MinInt32 - 1) => sc.weight = tc.weight
  BY <1>2, InInt32 DEF Says
<1>6. sc.traceID = tc.traceID /\ sc.spanID = sp.id
  BY <1>2 DEF Says
<1>7. ~NoContext(c, sc)
  BY DEF NoContext
<1> QED
  BY <1>3, <1>4, <1>5, <1>6, <1>7
-----------------------------------------------------------------------------
(* startSpan                                                               *)

\* A trace that is decided is left as it is, and any other one gets a decision.
Fields == {"traceID", "strategy", "weight", "clientSampled", "flags"}

LEMMA FlagsFit == \A a \in {0, 2}, b \in {0, 1} : a + b \in 0..3
OBVIOUS

LEMMA FlagsKnown == \A f \in 0..3 : f # Unknown
BY DEF Unknown

LEMMA Decides ==
    ASSUME NEW tc, DOMAIN tc = Fields, tc.traceID[1] # "",
           tc.strategy \in {"NotSampled", "Sampled", "Unknown"},
           tc.flags \in 0..3 \cup {Unknown},
           NEW t \in Sampled(tc)
    PROVE  /\ Decided(Flagged(t))
           /\ tc.strategy # "Unknown" =>
                  Flagged(t).strategy = tc.strategy /\ Flagged(t).weight = tc.weight
           /\ tc.strategy # "Unknown" /\ tc.flags # Unknown => Flagged(t).flags = tc.flags
           /\ Flagged(t).traceID = tc.traceID
<1>1. /\ t.traceID = tc.traceID /\ t.flags = tc.flags
      /\ t.strategy \in {"NotSampled", "Sampled"}
      /\ tc.strategy # "Unknown" => t = tc
      /\ DOMAIN t = Fields
  <2>1. CASE tc.strategy # "Unknown"
    <3>1. t = tc
      BY <2>1 DEF Sampled
    <3> QED
      BY <2>1, <3>1
  <2>2. CASE tc.strategy = "Unknown"
    <3>1. \/ t = [tc EXCEPT !.strategy = "NotSampled"]
          \/ \E x \in Weight : t = [tc EXCEPT !.strategy = "Sampled", !.weight = x]
      BY <2>2 DEF Sampled
    <3>2. CASE t = [tc EXCEPT !.strategy = "NotSampled"]
      BY <2>2, <3>2 DEF Fields
    <3>3. ASSUME NEW x \in Weight, t = [tc EXCEPT !.strategy = "Sampled", !.weight = x]
          PROVE  /\ t.traceID = tc.traceID /\ t.flags = tc.flags /\ t.strategy = "Sampled"
                 /\ DOMAIN t = Fields
      BY <3>3 DEF Fields
    <3> QED
      BY <2>2, <3>1, <3>2, <3>3
  <2> QED
    BY <2>1, <2>2
<1>2. CASE tc.flags # Unknown
  <2>1. Flagged(t) = t
    BY <1>1, <1>2 DEF Flagged
  <2>2. tc.flags \in 0..3
    BY <1>2
  <2> QED
    BY <1>1, <2>1, <2>2 DEF Decided
<1>3. CASE tc.flags = Unknown
  <2> DEFINE a == IF t.strategy = "Sampled" THEN 2 ELSE 0
             b == IF t.clientSampled THEN 1 ELSE 0
  <2>1. Flagged(t) = [t EXCEPT !.flags = a + b]
    BY <1>1, <1>3 DEF Flagged
  <2>2. a \in {0, 2} /\ b \in {0, 1}
    OBVIOUS
  <2> HIDE DEF a, b
  <2>3. /\ Flagged(t).strategy = t.strategy /\ Flagged(t).weight = t.weight
        /\ Flagged(t).traceID = t.traceID /\ Flagged(t).flags = a + b
    BY <1>1, <2>1 DEF Fields
  <2>4. Flagged(t).flags \in 0..3
    BY <2>2, <2>3, FlagsFit
  <2> QED
    BY <1>1, <1>3, <2>3, <2>4 DEF Decided
<1> QED
  BY <1>2, <1>3

\* The trace of a process that takes context sc out of its carrier.
TakenFrom(c, sc) == IF NoContext(c, sc) THEN NewTrace(Here + 1)
                    ELSE [f \in DOMAIN NewTrace(0) |-> sc[f]]

LEMMA Takes ==
    ASSUME NEW c, WellFormed(c), NEW sc \in Contexts(c), NEW t \in Sampled(TakenFrom(c, sc))
    PROVE  /\ Decided(Flagged(t))
           /\ ~NoContext(c, sc) =>
                  /\ Flagged(t).traceID = sc.traceID
                  /\ sc.strategy # "Unknown" =>
                         Flagged(t).strategy = sc.strategy /\ Flagged(t).weight = sc.weight
                  /\ sc.strategy # "Unknown" /\ sc.flags # Unknown => Flagged(t).flags = sc.flags
<1> DEFINE tc == TakenFrom(c, sc)
<1>1. CASE NoContext(c, sc)
  <2>1. tc = [traceID |-> <<"trace", Here + 1>>, strategy |-> "Unknown",
              weight |-> 0, clientSampled |-> FALSE, flags |-> Unknown]
    BY <1>1 DEF TakenFrom, NewTrace
  <2>2. DOMAIN tc = Fields /\ tc.traceID[1] = "trace" /\ tc.strategy = "Unknown"
            /\ tc.flags = Unknown
    BY <2>1 DEF Fields
  <2> HIDE DEF tc
  <2>3. t \in Sampled(tc)
    BY DEF tc
  <2> QED
    BY <1>1, <2>2, <2>3, Decides
<1>2. CASE ~NoContext(c, sc)
  <2>1. tc = [f \in Fields |-> sc[f]]
    BY <1>2 DEF TakenFrom, NewTrace, Fields
  <2>2. /\ DOMAIN tc = Fields /\ tc.traceID = sc.traceID /\ tc.strategy = sc.strategy
        /\ tc.flags = sc.flags /\ tc.weight = sc.weight
    BY <2>1 DEF Fields
  <2>3. tc.traceID[1] # ""
    <3>1. CASE c.kind = "http"
      BY <1>2, <2>2, <3>1 DEF NoContext
    <3>2. CASE c.kind = "binary"
      <4>1. sc.traceID = c.traceID
        BY <3>2 DEF Contexts, BinaryContexts
      <4> QED
        BY <2>2, <3>2, <4>1 DEF WellFormed
    <3> QED
      BY <3>1, <3>2 DEF WellFormed
  <2>4. tc.strategy \in {"NotSampled", "Sampled", "Unknown"} /\ tc.flags \in 0..3 \cup {Unknown}
    BY <2>2, ContextTypes
  <2> HIDE DEF tc
  <2>5. t \in Sampled(tc)
    BY DEF tc
  <2> QED
    BY <2>2, <2>3, <2>4, <2>5, Decides
<1> QED
  BY <1>1, <1>2

LEMMA ReceiveKeeps ==
    ASSUME IndInv, Receive
    PROVE  IndInv'
<1>0. PICK sc \in Contexts(carrier) : \E t \in Sampled(TakenFrom(carrier, sc)) :
          /\ trace' = Append(trace, Flagged(t))
          /\ span' = [id |-> <<"span", 2 * Here>>,
                      parent |-> IF NoContext(carrier, sc) THEN <<"", 0>> ELSE sc.spanID,
                      baggage |-> IF NoContext(carrier, sc) THEN <<>> ELSE sc.baggage]
  BY DEF Receive, TakenFrom
<1>1. PICK t \in Sampled(TakenFrom(carrier, sc)) :
          /\ trace' = Append(trace, Flagged(t))
          /\ span' = [id |-> <<"span", 2 * Here>>,
                      parent |-> IF NoContext(carrier, sc) THEN <<"", 0>> ELSE sc.spanID,
                      baggage |-> IF NoContext(carrier, sc) THEN <<>> ELSE sc.baggage]
  BY <1>0
<1>2. /\ carrier # NoCarrier /\ in' = Append(in, carrier)
      /\ calls' = Append(calls, [from |-> span, to |-> span'])
      /\ carrier' = NoCarrier /\ child' = FALSE
      /\ UNCHANGED <<counting, sets, overlapped>>
  BY DEF Receive
<1>3. WellFormed(carrier)
  BY <1>2 DEF IndInv, InFlight
<1>4. /\ Here \in Nat /\ Here' = Here + 1 /\ Lists'
      /\ \A i \in 1..Here : trace'[i] = trace[i] /\ in'[i] = in[i] /\ calls'[i] = calls[i]
      /\ trace'[Here + 1] = Flagged(t) /\ in'[Here + 1] = carrier
      /\ calls'[Here + 1] = [from |-> span, to |-> span']
  <2>1. IsSeq(trace) /\ IsSeq(in) /\ IsSeq(calls) /\ Len(in) = Here /\ Len(calls) = Here
    BY DEF IndInv, Lists
  <2>2. /\ Here \in Nat /\ Here' = Here + 1 /\ IsSeq(trace')
        /\ \A i \in 1..Here : trace'[i] = trace[i]
        /\ trace'[Here + 1] = Flagged(t)
    BY <1>1, <2>1, Appends DEF Here
  <2>3. /\ IsSeq(in') /\ Len(in') = Here + 1 /\ in'[Here + 1] = carrier
        /\ \A i \in 1..Here : in'[i] = in[i]
    BY <1>2, <2>1, Appends
  <2>4. /\ IsSeq(calls') /\ Len(calls') = Here + 1
        /\ calls'[Here + 1] = [from |-> span, to |-> span']
        /\ \A i \in 1..Here : calls'[i] = calls[i]
    BY <1>2, <2>1, Appends
  <2> QED
    BY <2>2, <2>3, <2>4 DEF Lists
<1>5. Processes'
  <2>1. Decided(Flagged(t))
    BY <1>3, Takes
  <2>2. ASSUME NEW i \in 1..(Here + 1) PROVE Decided(trace'[i]) /\ WellFormed(in'[i])
    BY <1>3, <1>4, <2>1 DEF IndInv, Processes
  <2>3. ASSUME NEW p \in 1..(Here - 1) PROVE Call(p)'
    <3>1. p \in 1..Here /\ p + 1 \in 1..Here
      BY <1>4
    <3>2. trace'[p] = trace[p] /\ trace'[p + 1] = trace[p + 1]
              /\ in'[p + 1] = in[p + 1] /\ calls'[p + 1] = calls[p + 1]
      BY <1>4, <3>1
    <3>3. Call(p)
      BY DEF IndInv, Processes
    <3> QED
      BY <1>2, <3>2, <3>3 DEF Call
  <2>4. ASSUME NEW p \in 1..Here, p = Here PROVE Call(p)'
    <3> DEFINE tc == trace[Here]
    <3>1. Here \in 1..Here /\ Here > 0
      BY <1>4, <2>4
    <3>2. Decided(tc) /\ Says(carrier, tc, span) /\ span.id[1] = "span" /\ IsFcn(span.baggage)
      BY <1>2, <3>1 DEF IndInv, Processes, Active, InFlight
    <3>3. Here + 1 \notin overlapped => Counted(carrier)
      BY <1>2, <3>1 DEF IndInv, InFlight
    <3>4. /\ in'[Here + 1] = carrier /\ trace'[Here] = tc /\ trace'[Here + 1] = Flagged(t)
          /\ calls'[Here + 1].from = span /\ calls'[Here + 1].to = span'
      BY <1>4, <3>1
    <3> HIDE DEF tc
    <3>5. /\ ~NoContext(carrier, sc) /\ sc.strategy = tc.strategy
          /\ Here + 1 \notin overlapped => sc.flags = tc.flags
          /\ tc.weight \in MinInt32..(-MinInt32 - 1) => sc.weight = tc.weight
      <4>1. CASE carrier.kind = "http"
        BY <1>3, <3>2, <4>1, HeadersSay
      <4>2. CASE carrier.kind = "binary"
        BY <1>3, <3>2, <3>3, <4>2, BinarySays
      <4> QED
        BY <1>3, <4>1, <4>2 DEF WellFormed
    <3>6. SameBy(tc, Flagged(t), Here + 1 \notin overlapped)
      <4>1. Flagged(t).strategy = tc.strategy /\ Flagged(t).weight = sc.weight
        BY <1>3, <3>2, <3>5, Takes DEF Decided
      <4>2. Here + 1 \notin overlapped => Flagged(t).flags = tc.flags
        <5>1. tc.strategy # "Unknown" /\ tc.flags # Unknown
          BY <3>2, FlagsKnown DEF Decided, Unknown
        <5> QED
          BY <1>3, <3>5, <5>1, Takes
      <4> QED
        BY <3>5, <4>1, <4>2 DEF SameBy, Collects
    <3>7. ConnectedBy(carrier, tc, Flagged(t), span, span')
      <4>1. span'.parent = sc.spanID /\ Flagged(t).traceID = sc.traceID
        BY <1>1, <1>3, <3>5, Takes
      <4>2. CASE carrier.kind = "http"
        BY <1>3, <3>2, <4>1, <4>2, HeadersSay DEF ConnectedBy
      <4>3. CASE carrier.kind = "binary"
        BY <1>3, <3>2, <4>1, <4>3, BinarySays DEF ConnectedBy
      <4> QED
        BY <1>3, <4>2, <4>3 DEF WellFormed
    <3>8. Here + 1 \notin overlapped => KeptBy(carrier, span.baggage, span'.baggage)
      <4>1. span'.baggage = sc.baggage
        BY <1>1, <3>5
      <4>2. CASE carrier.kind = "http"
        BY <1>3, <3>2, <4>1, <4>2, HeadersBring
      <4>3. CASE carrier.kind = "binary"
        BY <1>3, <3>2, <3>3, <4>1, <4>3, BinarySays DEF KeptBy
      <4> QED
        BY <1>3, <4>2, <4>3 DEF WellFormed
    <3> QED
      BY <1>2, <2>4, <3>4, <3>6, <3>7, <3>8 DEF Call
  <2>5. ASSUME NEW p \in 1..Here PROVE Call(p)'
    <3>1. CASE p = Here
      BY <2>4, <3>1
    <3>2. CASE p # Here
      BY <1>4, <2>3, <3>2
    <3> QED
      BY <3>1, <3>2
  <2>6. 1..Here' = 1..(Here + 1) /\ 1..(Here' - 1) = 1..Here
    BY <1>4
  <2> QED
    BY <2>2, <2>5, <2>6 DEF Processes
<1>6. Active'
  <2>1. span'.id[1] = "span" /\ DOMAIN span' = {"id", "parent", "baggage"}
    BY <1>1
  <2>2. IsFcn(span'.baggage) /\ DOMAIN span'.baggage \subseteq Key
    <3>1. CASE NoContext(carrier, sc)
      <4>1. span'.baggage = <<>>
        BY <1>1, <3>1
      <4>2. DOMAIN <<>> = {} /\ IsFcn(<<>>)
        BY DEF IsFcn
      <4> QED
        BY <4>1, <4>2
    <3>2. CASE ~NoContext(carrier, sc)
      <4>1. span'.baggage = sc.baggage
        BY <1>1, <3>2
      <4> QED
        BY <1>3, <4>1, ContextTypes
    <3> QED
      BY <3>1, <3>2
  <2>3. child' \in BOOLEAN
    BY <1>2
  <2>4. sets' \in 0..MaxSets /\ overlapped' \subseteq 1..(Here' + 1)
    BY <1>2, <1>4 DEF IndInv, Active
  <2> QED
    BY <2>1, <2>2, <2>3, <2>4 DEF Active
<1>7. InFlight'
  <2>1. counting = -1
    BY <1>2 DEF IndInv, InFlight
  <2>2. -1 \in -1..Cardinality(Key)
    BY PropagationAssumption, FS_CardinalityType
  <2> QED
    BY <1>2, <2>1, <2>2 DEF InFlight, NoCarrier
<1> QED
  BY <1>4, <1>5, <1>6, <1>7 DEF IndInv

\* What is said of the processes so far does not depend on the active span.
LEMMA Past ==
    ASSUME IndInv, UNCHANGED <<trace, in, calls>>,
           \A i \in 1..Here : i \in overlapped' <=> i \in overlapped
    PROVE  Lists' /\ Processes' /\ Here' = Here /\ Here \in Nat
<1>1. Here' = Here /\ Here \in Nat
  BY Appends DEF Here, IndInv, Lists
<1>2. Lists'
  BY <1>1 DEF IndInv, Lists
<1>3. ASSUME NEW p \in 1..(Here - 1) PROVE Call(p)'
  <2>1. p + 1 \in 1..Here
    BY <1>1
  <2>2. Call(p)
    BY DEF IndInv, Processes
  <2> QED
    BY <2>1, <2>2 DEF Call
<1>4. \A i \in 1..Here : Decided(trace'[i]) /\ WellFormed(in'[i])
  BY DEF IndInv, Processes
<1> QED
  BY <1>1, <1>2, <1>3, <1>4 DEF Processes

LEMMA StartChildKeeps ==
    ASSUME IndInv, StartChild
    PROVE  IndInv'
<1>1. /\ Here > 0 /\ carrier = NoCarrier /\ counting = -1 /\ child' = TRUE
      /\ span' = [span EXCEPT !.id = <<"span", 2 * Here - 1>>, !.parent = span.id]
      /\ UNCHANGED <<trace, in, counting, carrier, sets, calls, overlapped>>
  BY DEF StartChild
<1>2. Lists' /\ Processes' /\ Here' = Here /\ Here \in Nat
  BY <1>1, Past
<1>3. Active'
  <2>1. /\ span'.id[1] = "span" /\ DOMAIN span' = {"id", "parent", "baggage"}
        /\ span'.baggage = span.baggage
    BY <1>1 DEF IndInv, Active
  <2>2. child' \in BOOLEAN
    BY <1>1
  <2> QED
    BY <1>1, <1>2, <2>1, <2>2 DEF IndInv, Active
<1>4. InFlight'
  BY <1>1 DEF IndInv, InFlight
<1> QED
  BY <1>2, <1>3, <1>4 DEF IndInv

LEMMA SetBaggageItemKeeps ==
    ASSUME IndInv, NEW k \in Key, NEW v, SetBaggageItem(k, v)
    PROVE  IndInv'
<1>1. /\ Here > 0 /\ sets < MaxSets /\ carrier = NoCarrier /\ sets' = sets + 1
      /\ span' = [span EXCEPT !.baggage =
                      [x \in DOMAIN @ \cup {k} |-> IF x = k THEN v ELSE @[x]]]
      /\ overlapped' = overlapped \cup (IF counting = -1 THEN {} ELSE {Here + 1})
      /\ UNCHANGED <<trace, in, counting, carrier, child, calls>>
  BY DEF SetBaggageItem
<1>2. Here \in Nat
  BY Appends DEF Here, IndInv, Lists
<1>3. Lists' /\ Processes' /\ Here' = Here
  <2>1. \A i \in 1..Here : i \in overlapped' <=> i \in overlapped
    BY <1>1, <1>2
  <2> QED
    BY <1>1, <2>1, Past
<1>4. Active'
  <2>1. /\ span'.id = span.id /\ DOMAIN span' = {"id", "parent", "baggage"}
        /\ span'.baggage = [x \in DOMAIN span.baggage \cup {k} |->
                                IF x = k THEN v ELSE span.baggage[x]]
    BY <1>1 DEF IndInv, Active
  <2>2. IsFcn(span'.baggage) /\ DOMAIN span'.baggage \subseteq Key
    BY <2>1 DEF IndInv, Active, IsFcn
  <2>3. sets' \in 0..MaxSets
    BY <1>1, PropagationAssumption DEF IndInv, Active
  <2>4. overlapped' \subseteq 1..(Here + 1)
    BY <1>1, <1>2 DEF IndInv, Active
  <2> QED
    BY <1>1, <1>3, <2>1, <2>2, <2>3, <2>4 DEF IndInv, Active
<1>5. InFlight'
  <2>1. counting = -1 \/ Here + 1 \in overlapped'
    BY <1>1
  <2> QED
    BY <1>1, <1>3, <2>1 DEF IndInv, InFlight
<1> QED
  BY <1>3, <1>4, <1>5 DEF IndInv
-----------------------------------------------------------------------------
(* Inject                                                                  *)

\* What holds of a process that may make a call.
LEMMA Caller ==
    ASSUME IndInv, Here > 0, UNCHANGED <<trace, in, span, calls, child, sets, overlapped>>
    PROVE  /\ Decided(trace[Here]) /\ WellFormed(in[Here]) /\ span.id[1] = "span"
           /\ Lists' /\ Processes' /\ Active' /\ Here' = Here
<1>1. Lists' /\ Processes' /\ Here' = Here /\ Here \in Nat
  BY Past
<1>2. Here \in 1..Here
  BY <1>1
<1>3. Active'
  BY <1>1 DEF IndInv, Active
<1> QED
  BY <1>1, <1>2, <1>3 DEF IndInv, Processes, Active

LEMMA InjectHTTPKeeps ==
    ASSUME IndInv, InjectHTTP
    PROVE  IndInv'
<1> DEFINE tc   == trace[Here]
           ids  == {"x-trace-id", "x-span-id", "x-sample-hit", "x-sample-weight",
                    "x-sample-flags"}
           mine == [h \in ids |-> CASE h = "x-trace-id" -> tc.traceID
                                    [] h = "x-span-id" -> SpanID(span)
                                    [] h = "x-sample-hit" -> Hit(tc)
                                    [] h = "x-sample-weight" -> tc.weight
                                    [] h = "x-sample-flags" -> FlagsText(tc.flags)]
           kept(forwards) == IF forwards /\ in[Here].kind = "http"
                             THEN RumHeaders \cap DOMAIN in[Here].headers ELSE {}
<1>1. PICK forwards \in BOOLEAN, last \in SUBSET DOMAIN span.baggage :
          /\ {Lower[k] : k \in last} = {Lower[k] : k \in DOMAIN span.baggage}
          /\ carrier' = [kind |-> "http",
                 headers |-> [h \in DOMAIN mine \cup kept(forwards) |->
                                  IF h \in kept(forwards) THEN in[Here].headers[h] ELSE mine[h]],
                 baggage |-> Restrict(span.baggage, last)]
  BY DEF InjectHTTP
<1>2. /\ CanCall /\ UNCHANGED <<trace, span, in, counting, child, sets, calls, overlapped>>
  BY DEF InjectHTTP
<1>3. /\ Here > 0 /\ Decided(tc) /\ WellFormed(in[Here]) /\ span.id[1] = "span"
      /\ Lists' /\ Processes' /\ Active' /\ Here' = Here /\ counting = -1
  BY <1>2, Caller DEF CanCall
<1> DEFINE hs == [h \in DOMAIN mine \cup kept(forwards) |->
                      IF h \in kept(forwards) THEN in[Here].headers[h] ELSE mine[h]]
<1>4. /\ carrier'.kind = "http" /\ carrier'.headers = hs
      /\ carrier'.baggage = [x \in last |-> span.baggage[x]]
  BY <1>1 DEF Restrict
<1>5. kept(forwards) \subseteq RumHeaders
  OBVIOUS
<1>6. /\ mine["x-trace-id"] = tc.traceID /\ mine["x-span-id"] = span.id
      /\ mine["x-sample-hit"] = Hit(tc) /\ mine["x-sample-weight"] = tc.weight
      /\ mine["x-sample-flags"] = tc.flags
      /\ DOMAIN mine = ids
  BY <1>3 DEF SpanID, FlagsText, Decided
<1>7. "x-rum-traceparent" \in DOMAIN hs =>
          /\ in[Here].kind = "http" /\ "x-rum-traceparent" \in DOMAIN in[Here].headers
          /\ hs["x-rum-traceparent"] = in[Here].headers["x-rum-traceparent"]
  BY <1>6
<1> HIDE DEF mine, kept
<1>8. /\ ids \subseteq DOMAIN hs
      /\ hs["x-trace-id"] = tc.traceID /\ hs["x-span-id"] = span.id
      /\ hs["x-sample-hit"] = Hit(tc) /\ hs["x-sample-weight"] = tc.weight
      /\ hs["x-sample-flags"] = tc.flags
  BY <1>5, <1>6 DEF RumHeaders
<1> HIDE DEF hs
<1>9. WellFormed(carrier')
  BY <1>3, <1>4, <1>7 DEF WellFormed, IndInv, Active
<1>10. Says(carrier', tc, span)
  <2>1. DOMAIN carrier'.baggage = last
    BY <1>4
  <2> QED
    BY <1>1, <1>4, <1>8, <2>1 DEF Says
<1>11. Counted(carrier')
  BY <1>4 DEF Counted
<1>12. InFlight'
  <2>1. trace'[Here'] = tc /\ span' = span
    BY <1>2, <1>3
  <2>2. Says(carrier', trace'[Here'], span')
    BY <1>10, <2>1
  <2> QED
    BY <1>2, <1>3, <1>9, <1>11, <2>2 DEF InFlight, IndInv
<1> QED
  BY <1>3, <1>12 DEF IndInv

LEMMA InjectBinaryCountKeeps ==
    ASSUME IndInv, InjectBinaryCount
    PROVE  IndInv'
<1>1. /\ CanCall /\ counting' = Cardinality(DOMAIN span.baggage)
      /\ UNCHANGED <<trace, span, in, carrier, child, sets, calls, overlapped>>
  BY DEF InjectBinaryCount
<1>2. /\ Here > 0 /\ carrier = NoCarrier
      /\ Lists' /\ Processes' /\ Active' /\ Here' = Here
  BY <1>1, Caller DEF CanCall
<1>3. counting' \in 0..Cardinality(Key)
  <2>1. DOMAIN span.baggage \subseteq Key
    BY DEF IndInv, Active
  <2> QED
    BY <1>1, <2>1, PropagationAssumption, FS_Subset, FS_CardinalityType
<1>4. InFlight'
  BY <1>1, <1>2, <1>3 DEF InFlight, IndInv
<1> QED
  BY <1>2, <1>4 DEF IndInv

LEMMA InjectBinaryItemsKeeps ==
    ASSUME IndInv, InjectBinaryItems
    PROVE  IndInv'
<1>1. /\ counting # -1 /\ counting' = -1
      /\ carrier' = [kind |-> "binary", traceID |-> trace[Here].traceID,
                     spanID |-> SpanID(span), hit |-> Hit(trace[Here]),
                     weight |-> Int32(trace[Here].weight), cnt |-> counting,
                     items |-> span.baggage, flags |-> trace[Here].flags]
      /\ UNCHANGED <<trace, span, in, child, sets, calls, overlapped>>
  BY DEF InjectBinaryItems
<1>2. /\ Here > 0
      /\ Here + 1 \notin overlapped => counting = Cardinality(DOMAIN span.baggage)
  BY <1>1 DEF IndInv, InFlight
<1>3. Lists' /\ Processes' /\ Active' /\ Here' = Here
  BY <1>1, <1>2, Caller
<1>4. /\ WellFormed(carrier')
      /\ Says(carrier', trace[Here], span)
      /\ Here + 1 \notin overlapped => Counted(carrier')
  <2>1. Decided(trace[Here]) /\ span.id[1] = "span" /\ DOMAIN span.baggage \subseteq Key
    BY <1>1, <1>2, Caller DEF IndInv, Active
  <2> QED
    BY <1>1, <1>2, <2>1 DEF WellFormed, Says, Counted, SpanID, Decided
<1>5. InFlight'
  <2>1. trace'[Here'] = trace[Here]
    BY <1>1, <1>3
  <2>2. -1 \in -1..Cardinality(Key)
    BY PropagationAssumption, FS_CardinalityType
  <2> QED
    BY <1>1, <1>3, <1>4, <2>1, <2>2 DEF InFlight
<1> QED
  BY <1>3, <1>5 DEF IndInv
-----------------------------------------------------------------------------
LEMMA StutterKeeps ==
    ASSUME IndInv, UNCHANGED vars
    PROVE  IndInv'
<1>1. Lists' /\ Processes' /\ Here' = Here
  BY Past DEF vars
<1>2. Active'
  BY <1>1 DEF vars, IndInv, Active
<1>3. InFlight'
  BY <1>1 DEF vars, IndInv, InFlight
<1> QED
  BY <1>1, <1>2, <1>3 DEF IndInv

\* The inductive invariant.
THEOREM Inductive == Spec => []IndInv
<1>1. Init => IndInv
  BY InitInv
<1>2. IndInv /\ [Next]_vars => IndInv'
  BY ReceiveKeeps, StartChildKeeps, SetBaggageItemKeeps, InjectHTTPKeeps,
     InjectBinaryCountKeeps, InjectBinaryItemsKeeps, StutterKeeps DEF Next
<1> QED
  BY <1>1, <1>2, PTL DEF Spec

\* A call of process i is the one from its predecessor.
LEMMA CallTo ==
    ASSUME IndInv, NEW i \in Called
    PROVE  Call(i - 1) /\ (i - 1) + 1 = i /\ i \in 1..Here
<1>1. Here \in Nat
  BY Appends DEF Here, IndInv, Lists
<1>2. i - 1 \in 1..(Here - 1) /\ (i - 1) + 1 = i
  BY <1>1 DEF Called
<1> QED
  BY <1>1, <1>2 DEF IndInv, Processes

LEMMA InvConnected == IndInv => Connected
<1> SUFFICES ASSUME IndInv PROVE Connected
  OBVIOUS
<1>1. TypeOK
  <2>1. carrier.kind \in {"none", "http", "binary"}
    <3>1. NoCarrier.kind = "none"
      BY DEF NoCarrier
    <3>2. carrier = NoCarrier \/ WellFormed(carrier)
      BY DEF IndInv, InFlight
    <3>3. CASE WellFormed(carrier)
      BY <3>3 DEF WellFormed
    <3> QED
      BY <3>1, <3>2, <3>3
  <2> QED
    BY <2>1 DEF TypeOK, IndInv, Lists, Processes, Decided, Active, InFlight
<1>2. ASSUME NEW i \in Called
      PROVE  ConnectedBy(in[i], trace[i - 1], trace[i], calls[i].from, calls[i].to)
  BY CallTo DEF Call
<1> QED
  BY <1>1, <1>2 DEF Connected, ConnectedBy, PassedOn

LEMMA InvSame == IndInv => SameDecision
<1> SUFFICES ASSUME IndInv, NEW i \in Called
             PROVE  SameBy(trace[i - 1], trace[i], i \notin overlapped)
  BY DEF SameDecision, SameBy
<1> QED
  BY CallTo DEF Call

LEMMA InvKept == IndInv => BaggageKept
<1> SUFFICES ASSUME IndInv, NEW i \in Called \ overlapped
             PROVE  KeptBy(in[i], calls[i].from.baggage, calls[i].to.baggage)
  BY DEF BaggageKept, KeptBy, PassedOn
<1> QED
  BY CallTo DEF Call

\* Through either carrier, and whatever headers a proxy passes on, a process has
\* the trace ID of its caller and the calling span as parent.
THEOREM ConnectedCorrect == Spec => []Connected
BY Inductive, InvConnected, PTL

\* Whether a trace is sent, and with what weight, is the same in the process
\* that calls and in the one that is called.
THEOREM SameDecisionCorrect == Spec => []SameDecision
BY Inductive, InvSame, PTL

\* The baggage of the calling span arrives, whole and with its values.
THEOREM BaggageKeptCorrect == Spec => []BaggageKept
BY Inductive, InvKept, PTL
=============================================================================
