----------------------------- MODULE MCDispatch -----------------------------
(***************************************************************************)
(* Instances of Dispatch for TLC.                                          *)
(***************************************************************************)
EXTENDS Dispatch

\* c1 comes back to its generator after a second random number, while c2 makes one
\* call.
CONSTANTS c1, c2
MCClients == {c1, c2}
MCMaxCalls == [c \in MCClients |-> IF c = c1 THEN 3 ELSE 1]

\* testcases/order.proto has the service Order in no package; a second one is in
\* the package shop.
MCServices == {<<"Order">>, <<"shop", "Order">>}

MCMessages ==
  {[method_name |-> <<"Order", "makeOrder">>, parses |-> TRUE],
   [method_name |-> <<"Order", "makeOrder">>, parses |-> FALSE],
   [method_name |-> <<"Order", "cancel">>, parses |-> TRUE],
   [method_name |-> <<"Order">>, parses |-> TRUE],
   [method_name |-> <<"shop", "Order", "makeOrder">>, parses |-> TRUE]}

MCRandoms == {<<0, 1>>, <<1, 1>>}

MCSetIds == {<<1, 0>>}
=============================================================================
