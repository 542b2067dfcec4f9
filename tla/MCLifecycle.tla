---------------------------- MODULE MCLifecycle -----------------------------
(***************************************************************************)
(* Lifecycle on small instances.                                           *)
(***************************************************************************)
EXTENDS Lifecycle, TLC

Symmetric == Permutations(Tracer) \cup Permutations(Profiler)
=============================================================================
