-------------------------- MODULE MCOrderWorkflow --------------------------
(* A small instance of OrderWorkflow. *)
EXTENDS OrderWorkflow

CONSTANTS o1, c1, c2, p1, p2

Posts(o, products, failures) ==
  [order |-> o, products |-> products, failures |-> failures, parses |-> TRUE]

\* Two clients post the same order, perhaps at once, each body with no failing
\* step or one; their products differ.  One of them may list a product twice
\* or post a body that does not parse.
SameOrder ==
  [c1 : {Posts(o1, <<p1, p2>>, f) : f \in {{}} \cup {{s} : s \in Steps}} \cup
        {Posts(o1, <<p1, p1>>, {}), Posts(o1, <<>>, {}),
         [order |-> o1, products |-> <<>>, failures |-> {}, parses |-> FALSE]},
   c2 : {Posts(o1, <<p1>>, f) : f \in {{}} \cup {{s} : s \in Steps}}]

TwoClients == {[c \in {c1, c2} |-> IF c = c1 THEN r.c1 ELSE r.c2] : r \in SameOrder}
=============================================================================
