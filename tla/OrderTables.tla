---------------------------- MODULE OrderTables ----------------------------
(***************************************************************************)
(* The four tables both business-transaction programs keep (create.sql),   *)
(* with the statements they run on them.  A statement is an action on the  *)
(* tables; XRefused(o) says when the database refuses it.                  *)
(***************************************************************************)
EXTENDS Naturals, Sequences

CONSTANTS Orders,     \* order ids
          Products    \* product ids

VARIABLES
  orders,        \* "none", or the status of the order's row
  payments,      \* the order's payment rows: how many there are of each status
  reservations,  \* the products reserved for the order
  shipments      \* "none", or the status of the order's row

tables == <<orders, payments, reservations, shipments>>

TablesInit ==
  /\ orders = [o \in Orders |-> "none"]
  /\ payments = [o \in Orders |-> [preauth |-> 0, cancelled |-> 0]]
  /\ reservations = [o \in Orders |-> {}]
  /\ shipments = [o \in Orders |-> "none"]

TablesTypeOK ==
  /\ orders \in [Orders -> {"none", "in_progress", "cancelled"}]
  /\ payments \in [Orders -> [preauth: Nat, cancelled: Nat]]
  /\ reservations \in [Orders -> SUBSET Products]
  /\ shipments \in [Orders -> {"none", "in_progress"}]

\* Wrong on purpose, to try the properties: an upsert.
InsertOrderRefused_Never(o) == FALSE

\* INSERT INTO orders: the id is the primary key.
InsertOrderRefused(o) == orders[o] # "none"
InsertOrder(o) ==
  /\ ~InsertOrderRefused(o)
  /\ orders' = [orders EXCEPT ![o] = "in_progress"]
  /\ UNCHANGED <<payments, reservations, shipments>>

\* UPDATE orders SET status = 'cancelled': no row, no effect.
UpdateOrderCancelled(o) ==
  /\ orders' = [orders EXCEPT ![o] = IF @ = "none" THEN "none" ELSE "cancelled"]
  /\ UNCHANGED <<payments, reservations, shipments>>

\* INSERT INTO payments: the id is generated, and order_id is not unique.
InsertPayment(o) ==
  /\ payments' = [payments EXCEPT ![o] =
       [preauth |-> @.preauth + 1, cancelled |-> @.cancelled]]
  /\ UNCHANGED <<orders, reservations, shipments>>

\* Wrong on purpose, to try the properties: one row only.
UpdatePaymentsCancelled_One(o) ==
  /\ payments' = [payments EXCEPT ![o] =
       IF @.preauth = 0 THEN @ ELSE [preauth |-> @.preauth - 1, cancelled |-> @.cancelled + 1]]
  /\ UNCHANGED <<orders, reservations, shipments>>

\* UPDATE payments SET status = 'cancelled': all rows of the order.
UpdatePaymentsCancelled(o) ==
  /\ payments' = [payments EXCEPT ![o] =
       [preauth |-> 0, cancelled |-> @.preauth + @.cancelled]]
  /\ UNCHANGED <<orders, reservations, shipments>>

\* One INSERT INTO reservations per product listed: (order, product) is the
\* primary key and the order must exist.
listed(products) == {products[i] : i \in DOMAIN products}
distinct(products) == \A i, j \in DOMAIN products : products[i] = products[j] => i = j

InsertReservationsRefused(o, products) ==
  \/ ~distinct(products)
  \/ listed(products) \cap reservations[o] # {}
  \/ listed(products) # {} /\ orders[o] = "none"
InsertReservations(o, products) ==
  /\ ~InsertReservationsRefused(o, products)
  /\ reservations' = [reservations EXCEPT ![o] = @ \cup listed(products)]
  /\ UNCHANGED <<orders, payments, shipments>>

DeleteReservations(o) ==
  /\ reservations' = [reservations EXCEPT ![o] = {}]
  /\ UNCHANGED <<orders, payments, shipments>>

\* INSERT INTO shipments: the order id is the primary key.
InsertShipmentRefused(o) == shipments[o] # "none"
InsertShipment(o) ==
  /\ ~InsertShipmentRefused(o)
  /\ shipments' = [shipments EXCEPT ![o] = "in_progress"]
  /\ UNCHANGED <<orders, payments, reservations>>

\* What the business holds for an order: the rows that are not cancelled.
Held(o) ==
  [orders |-> IF orders[o] = "in_progress" THEN 1 ELSE 0,
   payments |-> payments[o].preauth,
   reserved |-> reservations[o],
   shipments |-> IF shipments[o] = "in_progress" THEN 1 ELSE 0]
=============================================================================
