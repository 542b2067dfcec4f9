--------------------------- MODULE MCBatchSender ----------------------------
(***************************************************************************)
(* BatchSender on a small instance, with streams and with datagrams. With  *)
(* BufferMaxSize = 4 and PrefixLen = 2 the sizes 2, 5 and 7 are, to a      *)
(* stream: two to a batch; larger than BufferMaxSize but not than the      *)
(* capacity; larger than the capacity. To datagrams the last two are both  *)
(* too large for a batch.                                                  *)
(***************************************************************************)
EXTENDS BatchSender
=============================================================================
