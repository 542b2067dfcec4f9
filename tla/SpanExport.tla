----------------------------- MODULE SpanExport -----------------------------
(***************************************************************************)
(* What trace collection promises, without goroutines, locks and counters: *)
(* a span belongs to one trace from its start; each time the last open     *)
(* span of a trace ends, one collection of the trace falls due; while a    *)
(* collection is due, spans of that trace may be put into a trace that is  *)
(* sent, each span once; and such a trace is queued or dropped as a whole. *)
(*                                                                         *)
(* A collection that is due may find spans that were started since: the    *)
(* code lets them join it (CompleteUnlessLate in TraceContext), so         *)
(* Hold does not ask that the span itself has ended.                       *)
(***************************************************************************)
EXTENDS Naturals

CONSTANTS Trace, Span, NoTrace

VARIABLES
    ctx,    \* [Span -> Trace \cup {NoTrace}]
    ended,  \* the spans whose end has been counted
    due,    \* [Trace -> Nat], collections due and not over
    place   \* [Span -> Places]

vars == <<ctx, ended, due, place>>

Places == {"process", "held", "queued", "taken", "dropped"}

Siblings(s) == {x \in Span : ctx[x] = ctx[s]}

Init ==
    /\ ctx = [s \in Span |-> NoTrace]
    /\ ended = {}
    /\ due = [t \in Trace |-> 0]
    /\ place = [s \in Span |-> "process"]

Start(s) ==
    /\ ctx[s] = NoTrace
    /\ \E t \in Trace : ctx' = [ctx EXCEPT ![s] = t]
    /\ UNCHANGED <<ended, due, place>>

\* The end that leaves no span of the trace open makes a collection due.
End(s) ==
    /\ ctx[s] # NoTrace
    /\ s \notin ended
    /\ ended' = ended \cup {s}
    /\ due' = IF Siblings(s) \subseteq ended'
              THEN [due EXCEPT ![ctx[s]] = @ + 1] ELSE due
    /\ UNCHANGED <<ctx, place>>

Hold(s) ==
    /\ ctx[s] # NoTrace
    /\ due[ctx[s]] > 0
    /\ place[s] = "process"
    /\ place' = [place EXCEPT ![s] = "held"]
    /\ UNCHANGED <<ctx, ended, due>>

\* A collection is over, or the trace is not to be collected.
Over(t) ==
    /\ due[t] > 0
    /\ due' = [due EXCEPT ![t] = @ - 1]
    /\ UNCHANGED <<ctx, ended, place>>

\* The spans of a trace change their place together.
Move(S, from, to) ==
    /\ \A s \in S : place[s] = from
    /\ place' = [s \in Span |-> IF s \in S THEN to ELSE place[s]]
    /\ UNCHANGED <<ctx, ended, due>>

Next ==
    \/ \E s \in Span : Start(s) \/ End(s) \/ Hold(s)
    \/ \E t \in Trace : Over(t)
    \/ \E S \in SUBSET Span : \/ Move(S, "held", "queued")
                              \/ Move(S, "held", "dropped")
                              \/ Move(S, "queued", "taken")

Spec == Init /\ [][Next]_vars
=============================================================================
