------------------------------- MODULE MCSaga -------------------------------
(* Small instances of Saga: the values of its constants. *)
EXTENDS Saga

CONSTANTS o1, o2, p1, p2

Asks(products, failures) ==
  [products |-> products, failures |-> failures, parses |-> TRUE]

Unparsed == [products |-> <<p1>>, failures |-> {}, parses |-> FALSE]

\* One order, one body for each way through the saga: no failure, a failure at
\* each step, no products, a product listed twice, a body that does not parse.
OneOrder ==
  [{o1} -> {Asks(<<p1, p2>>, {}), Asks(<<>>, {}), Asks(<<p1, p1>>, {}),
            Asks(<<p1>>, {"order"}), Asks(<<p1>>, {"payment"}),
            Asks(<<p1>>, {"reservation"}), Asks(<<p1>>, {"shipment"}),
            Unparsed}]

\* Two orders that share the consumer: one goes all the way forward, comes back
\* from one of its last steps, lists a product twice or does not parse, while the
\* other fails at its payment.
TwoOrders ==
  {r \in [{o1, o2} -> {Asks(<<p1>>, {}), Asks(<<p1>>, {"payment"}),
                       Asks(<<p1>>, {"reservation"}), Asks(<<p1>>, {"shipment"}),
                       Asks(<<p1, p1>>, {}), Unparsed}] :
     r[o2].failures = {"payment"} /\ r[o1].failures # {"payment"}}
=============================================================================
