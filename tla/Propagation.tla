----------------------------- MODULE Propagation -----------------------------
(***************************************************************************)
(* A trace on its way through a chain of processes (trace/aitracer:        *)
(* propagation.go, startSpan and collect in tracer.go). Each process takes *)
(* a span context out of the carrier it is called with, starts spans in    *)
(* it, and injects the context of its active span into the carrier of its  *)
(* next call, while another goroutine may set baggage on that span.        *)
(*                                                                         *)
(* A header map is a function from the names of the headers it has, ""     *)
(* standing for an ID that is missing; a binary carrier is a record of the *)
(* fields in the order in which they are written. Baggage is a map.        *)
(***************************************************************************)
EXTENDS Integers, Sequences, FiniteSets, FiniteSetsExt, Functions

CONSTANTS
    Entry,      \* what the first process may be called with
    Key, Value, \* of baggage
    Lower,      \* [Key -> Key]: strings.ToLower
    KeyLen,     \* [Key -> Nat]: len
    AppID, Origin, \* defaultAppIDBaggageKey, defaultOriginBaggageKey
    Weight,     \* the weights a sampler may give
    MinInt32,   \* -2^31
    MaxProcess, MaxSets \* bounds: processes, calls of SetBaggageItem

ASSUME PropagationAssumption ==
    /\ Lower \in [Key -> Key] /\ \A k \in Key : Lower[Lower[k]] = Lower[k]
    /\ KeyLen \in [Key -> Nat]
    /\ IsFiniteSet(Key) /\ AppID \in Key /\ Origin \in Key
    /\ Weight \subseteq Nat \ {0} /\ MinInt32 \in Int /\ MinInt32 < 0
    /\ MaxProcess \in Nat \ {0} /\ MaxSets \in Nat

\* A traceparent that ParseTraceParent accepts has both IDs, and so has what a
\* peer writes into a binary carrier, where they are those of its span.
WellFormed(c) ==
    \/ c.kind = "http" /\ DOMAIN c.baggage \subseteq Key
       /\ ("x-rum-traceparent" \in DOMAIN c.headers =>
               /\ c.headers["x-rum-traceparent"].traceID[1] # ""
               /\ c.headers["x-rum-traceparent"].spanID[1] # "")
    \/ c.kind = "binary" /\ DOMAIN c.items \subseteq Key
       /\ c.traceID[1] # "" /\ c.spanID[1] # ""

ASSUME EntryAssumption == \A c \in Entry : WellFormed(c)

Unknown == -1  \* SampleFlagsUnknown

VARIABLES
    trace,     \* the traceContext of each process
    span,      \* the spanContext of the active span: [id, parent, baggage]
    in,        \* the carrier of each process
    counting,  \* cnt, in an Inject that has counted the baggage; or -1
    carrier,   \* the carrier of the call in flight, or the empty one
    child,     \* whether the active span is a second one
    sets,      \* calls of SetBaggageItem
    calls,     \* history: the span each process was called from, and its first one
    overlapped \* history: the processes called while baggage was set

vars == <<trace, span, in, counting, carrier, child, sets, calls, overlapped>>

NoCarrier == [kind |-> "none"]
NoSpan    == [id |-> <<"", 0>>, parent |-> <<"", 0>>, baggage |-> <<>>]
Here      == Len(trace)

TypeOK ==
    /\ \A i \in 1..Here :
           /\ trace[i].strategy \in {"NotSampled", "Sampled"}
           /\ trace[i].flags \in 0..3
    /\ DOMAIN span.baggage \subseteq Key
    /\ Len(in) = Here /\ Len(calls) = Here
    /\ counting \in -1..Cardinality(Key)
    /\ carrier.kind \in {"none", "http", "binary"}
    /\ child \in BOOLEAN /\ sets \in 0..MaxSets /\ overlapped \subseteq 1..(Here + 1)

Init ==
    /\ trace = <<>> /\ span = NoSpan /\ in = <<>> /\ calls = <<>>
    /\ counting = -1
    /\ carrier \in Entry
    /\ child = FALSE /\ sets = 0 /\ overlapped = {}
-----------------------------------------------------------------------------
(* Extract                                                                 *)

Has(c, h) == h \in DOMAIN c.headers

\* HTTPHeadersExtractor sees the headers in any order, so that either the
\* headers of a caller or those of a browser win, for each ID on its own.
\* Parsing a traceparent fails as a whole: then it is not there.
IDs(c, h, field) ==
    LET ids == {c.headers[h] : x \in {x \in {h} : Has(c, x)}}
                   \cup {c.headers["x-rum-traceparent"][field] :
                             x \in {x \in {"x-rum-traceparent"} : Has(c, x)}}
    IN  IF ids = {} THEN {<<"", 0>>} ELSE ids

\* Atoi gives 0 for what it cannot parse; other numbers leave the strategy.
HitStrategy(hit) ==
    CASE hit = 0 -> "NotSampled" [] hit = 1 -> "Sampled" [] OTHER -> "Unknown"

SampleFlagsFromInt32(n) == IF n \in 0..3 THEN n ELSE Unknown

\* A baggage header has a lower-case key. (Fault: the key as it was sent.)
StoredKey_AsSent(k) == k
StoredKey(k) == Lower[k]

\* Of several values for a key, from headers or a tracestate, any may win.
HTTPBaggage(c) ==
    LET sent == {<<StoredKey(k), c.baggage[k]>> : k \in DOMAIN c.baggage}
        rum  == IF Has(c, "x-rum-tracestate")
                THEN {<<AppID, c.headers["x-rum-tracestate"].app_id>>,
                      <<Origin, c.headers["x-rum-tracestate"].origin>>}
                ELSE {}
        keys == {e[1] : e \in sent \cup rum}
    IN  {b \in [keys -> {e[2] : e \in sent \cup rum}] :
             \A k \in keys : <<k, b[k]>> \in sent \cup rum}

HTTPContexts(c) ==
    {[traceID |-> t, spanID |-> s, baggage |-> b,
      strategy |-> IF Has(c, "x-sample-hit") THEN HitStrategy(c.headers["x-sample-hit"])
                   ELSE "Unknown",
      weight |-> IF Has(c, "x-sample-weight") THEN c.headers["x-sample-weight"] ELSE 0,
      clientSampled |-> Has(c, "x-rum-traceparent")
                            /\ c.headers["x-rum-traceparent"].flags = 1,
      flags |-> IF Has(c, "x-sample-flags")
                THEN SampleFlagsFromInt32(c.headers["x-sample-flags"]) ELSE Unknown] :
         t \in IDs(c, "x-trace-id", "traceID"), s \in IDs(c, "x-span-id", "spanID"),
         b \in HTTPBaggage(c)}

\* BinaryCarrierExtractor reads cnt items, then four bytes for the flags: with
\* more items than cnt they are the length of the next key, and with nothing
\* left, as from a caller that does not know them, the flags are unknown.
BinaryContexts(c) ==
    UNION {{[traceID |-> c.traceID, spanID |-> c.spanID, baggage |-> Restrict(c.items, read),
             strategy |-> IF c.hit = 1 THEN "Sampled" ELSE "NotSampled", weight |-> c.weight,
             clientSampled |-> FALSE, flags |-> SampleFlagsFromInt32(next)] :
                next \in IF read = DOMAIN c.items THEN {c.flags}
                         ELSE {KeyLen[k] : k \in DOMAIN c.items \ read}} :
           read \in kSubset(c.cnt, DOMAIN c.items)}

Contexts(c) == IF c.kind = "http" THEN HTTPContexts(c) ELSE BinaryContexts(c)

\* HTTPHeadersExtractor returns nil without both IDs; BinaryCarrierExtractor
\* takes the IDs as they are.
NoContext(c, sc) == c.kind = "http" /\ (sc.traceID[1] = "" \/ sc.spanID[1] = "")
-----------------------------------------------------------------------------
(* startSpan                                                               *)

NewTrace(p) == [traceID |-> <<"trace", p>>, strategy |-> "Unknown", weight |-> 0,
                clientSampled |-> FALSE, flags |-> Unknown]

\* What traceSampler.Sample may make of a trace that is not decided.
Sampled(tc) ==
    IF tc.strategy # "Unknown" THEN {tc}
    ELSE {[tc EXCEPT !.strategy = "Sampled", !.weight = w] : w \in Weight}
             \cup {[tc EXCEPT !.strategy = "NotSampled"]}

Flagged(tc) ==
    IF tc.flags # Unknown THEN tc
    ELSE [tc EXCEPT !.flags = (IF tc.strategy = "Sampled" THEN 2 ELSE 0)
                                  + (IF tc.clientSampled THEN 1 ELSE 0)]

\* A process takes the carrier and starts its first span.
Receive ==
    /\ carrier # NoCarrier /\ Here < MaxProcess
    /\ \E sc \in Contexts(carrier) :
           LET new == NoContext(carrier, sc)
               tc  == IF new THEN NewTrace(Here + 1)
                      ELSE [f \in DOMAIN NewTrace(0) |-> sc[f]]
           IN  /\ \E t \in Sampled(tc) : trace' = Append(trace, Flagged(t))
               /\ span' = [id |-> <<"span", 2 * Here>>,
                           parent |-> IF new THEN <<"", 0>> ELSE sc.spanID,
                           baggage |-> IF new THEN <<>> ELSE sc.baggage]
    /\ in' = Append(in, carrier)
    /\ calls' = Append(calls, [from |-> span, to |-> span'])
    /\ carrier' = NoCarrier /\ child' = FALSE
    /\ UNCHANGED <<counting, sets, overlapped>>

\* startSpan with a context of this process: the child has the traceContext of
\* its parent and a copy of its baggage.
StartChild ==
    /\ Here > 0 /\ ~child /\ carrier = NoCarrier /\ counting = -1
    /\ child' = TRUE
    /\ span' = [span EXCEPT !.id = <<"span", 2 * Here - 1>>, !.parent = span.id]
    /\ UNCHANGED <<trace, in, counting, carrier, sets, calls, overlapped>>

\* Another goroutine may be in Inject.
SetBaggageItem(k, v) ==
    /\ Here > 0 /\ sets < MaxSets /\ carrier = NoCarrier
    /\ sets' = sets + 1
    /\ span' = [span EXCEPT !.baggage =
                    [x \in DOMAIN @ \cup {k} |-> IF x = k THEN v ELSE @[x]]]
    /\ overlapped' = overlapped \cup (IF counting = -1 THEN {} ELSE {Here + 1})
    /\ UNCHANGED <<trace, in, counting, carrier, child, calls>>
-----------------------------------------------------------------------------
(* Inject                                                                  *)

CanCall == Here \in 1..(MaxProcess - 1) /\ carrier = NoCarrier /\ counting = -1

\* (Fault: the span the active one is a child of.)
SpanID_Parent(s) == s.parent
SpanID(s) == s.id

\* SampleFlags.ToString and Atoi at the other end. (Fault: a case is missing.)
FlagsText_NoClient(f) == IF f \in {0, 2, 3} THEN f ELSE Unknown
FlagsText(f) == IF f \in 0..3 THEN f ELSE Unknown

Hit(tc) == IF tc.strategy = "Sampled" THEN 1 ELSE 0

RumHeaders == {"x-rum-traceparent", "x-rum-tracestate"}

\* The headers of a call may be those of the request being served, as in a
\* proxy, or new ones; Set replaces what Inject writes. The header of a key is
\* canonical, so that the key goes out in one case only.
InjectHTTP ==
    /\ CanCall
    /\ \E forwards \in BOOLEAN : LET
           tc   == trace[Here]
           kept == IF forwards /\ in[Here].kind = "http"
                   THEN RumHeaders \cap DOMAIN in[Here].headers ELSE {}
           mine == [h \in {"x-trace-id", "x-span-id", "x-sample-hit", "x-sample-weight",
                           "x-sample-flags"} |->
                       CASE h = "x-trace-id" -> tc.traceID
                         [] h = "x-span-id" -> SpanID(span)
                         [] h = "x-sample-hit" -> Hit(tc)
                         [] h = "x-sample-weight" -> tc.weight
                         [] h = "x-sample-flags" -> FlagsText(tc.flags)]
       IN \E last \in SUBSET DOMAIN span.baggage :
              /\ {Lower[k] : k \in last} = {Lower[k] : k \in DOMAIN span.baggage}
              /\ \A j, k \in last : Lower[j] = Lower[k] => j = k
              /\ carrier' = [kind |-> "http",
                     headers |-> [h \in DOMAIN mine \cup kept |->
                                      IF h \in kept THEN in[Here].headers[h] ELSE mine[h]],
                     baggage |-> Restrict(span.baggage, last)]
    /\ UNCHANGED <<trace, span, in, counting, child, sets, calls, overlapped>>

\* BinaryCarrierInjector holds the lock of the baggage twice, to count the
\* items and to write them.
InjectBinaryCount ==
    /\ CanCall
    /\ counting' = Cardinality(DOMAIN span.baggage)
    /\ UNCHANGED <<trace, span, in, carrier, child, sets, calls, overlapped>>

Int32(n) == ((n - MinInt32) % (-2 * MinInt32)) + MinInt32

InjectBinaryItems ==
    /\ counting # -1
    /\ carrier' = [kind |-> "binary", traceID |-> trace[Here].traceID,
                   spanID |-> SpanID(span), hit |-> Hit(trace[Here]),
                   weight |-> Int32(trace[Here].weight), cnt |-> counting,
                   items |-> span.baggage, flags |-> trace[Here].flags]
    /\ counting' = -1
    /\ UNCHANGED <<trace, span, in, child, sets, calls, overlapped>>

Next ==
    \/ Receive \/ StartChild
    \/ \E k \in Key, v \in Value : SetBaggageItem(k, v)
    \/ InjectHTTP \/ InjectBinaryCount \/ InjectBinaryItems

Spec == Init /\ [][Next]_vars
-----------------------------------------------------------------------------
(* Properties, of the processes that were called by another one            *)

Called == 2..Here

\* Whether the call to process i passed on the headers of a browser.
PassedOn(i, h) == in[i].kind = "http" /\ Has(in[i], h)

\* The processes of a trace stay connected: each has the trace ID of the one
\* that called it and the calling span as parent, through either carrier and
\* whatever happens to the baggage meanwhile. Only a traceparent that a proxy
\* passes on competes with them, in the random order of a header map; it leaves
\* the trace ID alone when the trace began with it.
Connected == TypeOK /\ \A i \in Called : LET
        rum    == PassedOn(i, "x-rum-traceparent")
        parent == in[i].headers["x-rum-traceparent"]
    IN  /\ \/ calls[i].to.parent = calls[i].from.id
           \/ rum /\ calls[i].to.parent = parent.spanID
        /\ \/ trace[i].traceID = trace[i - 1].traceID
           \/ rum /\ parent.traceID # trace[i - 1].traceID

\* collect
Collects(tc) == tc.strategy = "Sampled" \/ tc.flags > 0

\* One decision for a whole trace: whether a process sends its part of the
\* trace, and with what weight, is the same in the process that calls it and in
\* the one that is called, whoever decided. It takes an int32 for the weight,
\* and that the baggage does not change in the middle of a binary Inject.
SameDecision == \A i \in Called :
    /\ trace[i].strategy = trace[i - 1].strategy
    /\ i \notin overlapped => Collects(trace[i]) = Collects(trace[i - 1])
    /\ trace[i - 1].weight \in MinInt32..(-MinInt32 - 1)
           => trace[i].weight = trace[i - 1].weight

\* A process receives the baggage of the span that called it, exactly by a
\* binary carrier, and up to the case of the keys by headers, where a tracestate
\* that was passed on may bring back what it brought before.
BaggageKept == \A i \in Called \ overlapped : LET
        had == calls[i].from.baggage
        has == calls[i].to.baggage
        rum == IF PassedOn(i, "x-rum-tracestate") THEN {AppID, Origin} ELSE {}
    IN  IF in[i].kind = "binary" THEN has = had
        ELSE /\ DOMAIN has = {Lower[k] : k \in DOMAIN had} \cup rum
             /\ \A k \in DOMAIN has \ rum :
                    \E j \in DOMAIN had : Lower[j] = k /\ has[k] = had[j]
=============================================================================
