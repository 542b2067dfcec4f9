--------------------------- MODULE MCTraceContext ---------------------------
(***************************************************************************)
(* TraceContext on small instances.                                        *)
(***************************************************************************)
EXTENDS TraceContext, TLC

Symmetric == Permutations(Trace) \cup Permutations(Span) \cup Permutations(Goroutine)
=============================================================================
