-------------------------------- MODULE MCWire --------------------------------
(***************************************************************************)
(* Wire for all twenty messages. The base value of a message has every     *)
(* field filled, messages within messages to a depth of three; the others  *)
(* change one of its fields.                                               *)
(***************************************************************************)
EXTENDS Wire, SettingsProto, TraceProto, ProfileProto

MCSizes == SettingsSizes @@ TraceSizes @@ ProfileSizes
MCMarshals == SettingsMarshals @@ TraceMarshals @@ ProfileMarshals
MCUnmarshals == SettingsUnmarshals @@ TraceUnmarshals @@ ProfileUnmarshals

RECURSIVE Filled(_, _), Value(_, _, _, _)
Value(kind, n, req, depth) ==
    CASE kind.k = "varint" -> n
      [] kind.k = "bool"   -> TRUE
      [] kind.k = "fixed"  -> [i \in 1..8 |-> (n + i) % 256]
      [] kind.k = "bytes"  -> <<n % 256>>
      [] kind.k = "msg"    -> Filled(kind.of, depth - 1)
      [] kind.k = "entry"  -> <<<<n % 256>>, Value(kind.of, n + 1, FALSE, depth)>>
      [] OTHER -> IF kind.of.k = "msg" /\ ~req /\ depth <= 0 THEN <<>>
                  ELSE <<Value(kind.of, n, FALSE, depth)>>
Filled(nm, depth) ==
    [n \in {r.num : r \in ToSet(MCUnmarshals[nm])} |->
        LET r == CHOOSE x \in ToSet(MCUnmarshals[nm]) : x.num = n
        IN Value(r.kind, n, r.req, depth)]

Long == [i \in 1..130 |-> i]
Others(kind, v) ==
    CASE kind.k = "varint" -> {0, 1, 127, 128, 20000, -1}
      [] kind.k = "bool"   -> {FALSE}
      [] kind.k = "fixed"  -> {[i \in 1..8 |-> 0]}
      [] kind.k = "bytes"  -> {<<>>, Long}
      [] kind.k = "opt"    -> {<<>>}
      [] kind.k = "rep"    -> {<<>>, v \o v}
      [] kind.k = "map"    -> {<<>>, v \o <<<<Long, v[1][2]>>>>}

MCBase == [nm \in DOMAIN MCUnmarshals |-> Filled(nm, 2)]
MCMessages == [nm \in DOMAIN MCUnmarshals |->
    {MCBase[nm]}
        \cup UNION {{[MCBase[nm] EXCEPT ![r.num] = v] : v \in Others(r.kind, MCBase[nm][r.num])} :
                    r \in ToSet(MCUnmarshals[nm])}]

\* Field 99: a number, eight bytes, a string, a group with a group in it, four bytes.
MCNewFields == {<<152, 6, 200, 1>>, <<153, 6, 1, 2, 3, 4, 5, 6, 7, 8>>, <<154, 6, 2, 8, 9>>,
                <<155, 6, 8, 1, 19, 8, 1, 20, 16, 2, 156, 6>>, <<157, 6, 1, 2, 3, 4>>}
MCFramed == {"Trace", "Log"}
MCTags == <<<<<<105>>, <<49, 50>>>>, <<<<106>>, <<>>>>>>
=============================================================================
