-------------------------- MODULE MCMetricsClient ---------------------------
(***************************************************************************)
(* MetricsClient on a small instance.  With MaxPacketSize = 4 the sizes 0, *)
(* 2, 3 and 5 are: cannot be formatted; two to a packet; one to a packet;  *)
(* larger than any packet.  Three items are emitted: two that share a      *)
(* packet and one that does not fit, or one, an oversized one that goes    *)
(* out ahead of it and one that fails.  All slices are alike at the start, *)
(* so any one of them may be the first batch.                              *)
(***************************************************************************)
EXTENDS MetricsClient

MCSizes == {<<2, 2, 3>>, <<3, 5, 0>>}

MCInit ==
    /\ Init
    /\ size \in MCSizes
    /\ batchBuf = (CHOOSE b \in Buffer : TRUE)

MCSpec == MCInit /\ [][Next]_vars /\ ClientFairness
=============================================================================
