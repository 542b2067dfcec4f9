---------------------------- MODULE MCPropagation ----------------------------
(***************************************************************************)
(* Three processes. The first one is called by nobody, by a browser, by a  *)
(* browser by way of a process of another trace, by a process that leaves  *)
(* the decision to it or that knows other flags and hits, or by one of an  *)
(* old version, which sends no flags. Weights are below 4 or above.        *)
(***************************************************************************)
EXTENDS Propagation, TLC

MCKey == {"apmplus.app_id", "apmplus.origin", "k", "K"}
MCLower == [x \in MCKey |-> IF x = "K" THEN "k" ELSE x]
MCKeyLen == [x \in MCKey |-> IF x \in {"k", "K"} THEN 1 ELSE 14]
MCMinInt32 == -4

HTTP(h) == [kind |-> "http", headers |-> h, baggage |-> <<>>]
Rum(flags) == [x \in {"x-rum-traceparent"} |->
                   [traceID |-> <<"rum", 0>>, spanID |-> <<"rum", 0>>, flags |-> flags]]
State == [x \in {"x-rum-tracestate"} |-> [app_id |-> "1", origin |-> ""]]
Ids == [x \in {"x-trace-id", "x-span-id"} |-> <<"peer", 0>>]
Old(hit) == [kind |-> "binary", traceID |-> <<"peer", 0>>, spanID |-> <<"peer", 0>>,
             hit |-> hit, weight |-> hit, cnt |-> 1, items |-> [x \in {"K"} |-> "1"],
             flags |-> -1]

MCEntry ==
    {HTTP(<<>>), HTTP(Rum(1) @@ State), HTTP(Rum(0)), HTTP(Rum(1) @@ Ids)}
        \cup {HTTP(Ids @@ ("x-sample-hit" :> h) @@ ("x-sample-flags" :> f)) :
                  h \in {1, 2}, f \in {0, 1}}
        \cup {Old(0), Old(1)}
=============================================================================
