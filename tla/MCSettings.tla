----------------------------- MODULE MCSettings -----------------------------
(***************************************************************************)
(* Settings on a small instance: a second of four ticks, durations of at   *)
(* most six, a process that starts at tick 7; rate limits of 2, 1/2 and 5  *)
(* per second, a ratio of one half, and a strategy this version does not   *)
(* know.                                                                   *)
(***************************************************************************)
EXTENDS Settings

Sends(s, n, d, slow) == [config |-> [strategy |-> s, value |-> <<n, d>>], slow |-> slow]

MCAgentSettings == {Sends("rate", 2, 1, 1), Sends("rate", 1, 2, 0), Sends("rate", 5, 1, 0),
                    Sends("rate", 0, 1, 0), Sends("ratio", 1, 2, 1),
                    Sends("unknown", 1, 1, 0), Sends("unknown", 1, 1, 1)}
=============================================================================
