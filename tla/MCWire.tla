------------------------------- MODULE MCWire -------------------------------
(* An instance of Wire for TLC.                                             *)
EXTENDS Wire, TLC

(* Numbers at the boundaries of one, two and four bytes, and 9438 and       *)
(* 872077045 of the captured messages the source quotes.                    *)
Order(i, v, side, stop, take) ==
  [kind |-> "order", instrument |-> i, volume |-> v, side |-> side, stop |-> stop, take |-> take]
SomeAsks ==
  {Order(i, v, s, None, None) : i \in {127, 9438}, v \in {1, 128, 16384}, s \in {1, 2}}
  \cup {Order(9438, 19, 1, stop, take) : stop, take \in {None, <<10850, 4>>}}
  \cup {[kind |-> "cancel", numbers |-> ns] : ns \in {<<872077045>>, <<127, 128>>, <<128, 16384>>}}
  \cup {[kind |-> "token", tgt |-> <<116, 103>>, account |-> a, server |-> <<120>>] : a \in {128, 51984891}}

SomeNumbers == {5, 128, 872077045}
SomeUuids == {<<97, 98>>, <<99, 100>>}
SomeJwts == {<<106, 97, 46, 98, 46, 99, 100>>}

(* The bytes that build_delete_orders_request documents. *)
ASSUME DeleteOrders(<<872077045>>) = <<10, 5, 245, 173, 235, 159, 3>>
=============================================================================
