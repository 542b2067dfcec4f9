------------------------------ MODULE MCProfiler ------------------------------
(***************************************************************************)
(* Profiler with a continuous, a timed and a conditional profile that      *)
(* compete for a channel with room for one task. The settings have all of  *)
(* them, or none, as after an answer other than 200.                       *)
(***************************************************************************)
EXTENDS Profiler

MCProfile == {"c", "t", "k", "elsewhere"}
MCRecordType == [c |-> "continuous", t |-> "task", k |-> "conditional",
                 elsewhere |-> "conditional"]
MCStartTime == [p \in MCProfile |-> IF p = "t" THEN 1 ELSE 0]
MCReply == {{}, MCProfile}
MCHere == MCProfile \ {"elsewhere"}

\* One conditional profile and a channel with room for all its tasks, so that
\* each pass of the limit is a task that is queued for runLoop.
LimitProfile == {"k"}
LimitRecordType == [k |-> "conditional"]
LimitStartTime == [k |-> 0]
LimitReply == {{}, LimitProfile}
=============================================================================
