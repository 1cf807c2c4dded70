----------------------------- MODULE SagaProofs -----------------------------
(* Theorems about Saga, for any orders, products, requests and bounds. *)
EXTENDS Saga, FiniteSetTheorems, TLAPS

\* The products of a request are products.
LEMMA ListedProducts ==
  ASSUME NEW s \in Seq(Products)
  PROVE  listed(s) \subseteq Products
  BY DEF listed

LEMMA RequestTyping ==
  ASSUME request \in Requests, NEW o \in Orders
  PROVE  request[o] \in RequestType
  BY RequestsAssumption

\* The tables keep their types under each statement.
LEMMA StatementTyping ==
  ASSUME TablesTypeOK, request \in Requests, NEW o \in Orders,
         \/ InsertOrder(o) \/ UpdateOrderCancelled(o)
         \/ InsertPayment(o) \/ UpdatePaymentsCancelled(o)
         \/ InsertReservations(o, request[o].products) \/ DeleteReservations(o)
         \/ InsertShipment(o) \/ UNCHANGED tables
  PROVE  TablesTypeOK'
<1>1. CASE InsertOrder(o) \/ UpdateOrderCancelled(o)
  BY <1>1 DEF TablesTypeOK, InsertOrder, UpdateOrderCancelled
<1>2. CASE InsertPayment(o)
  BY <1>2 DEF TablesTypeOK, InsertPayment
<1>3. CASE UpdatePaymentsCancelled(o)
  BY <1>3 DEF TablesTypeOK, UpdatePaymentsCancelled
<1>4. CASE InsertReservations(o, request[o].products)
  <2>1. listed(request[o].products) \subseteq Products
    BY RequestTyping, ListedProducts DEF RequestType
  <2>2. QED
    BY <1>4, <2>1 DEF TablesTypeOK, InsertReservations
<1>5. CASE DeleteReservations(o) \/ InsertShipment(o)
  BY <1>5 DEF TablesTypeOK, DeleteReservations, InsertShipment
<1>6. CASE UNCHANGED tables
  BY <1>6 DEF TablesTypeOK, tables
<1>7. QED
  BY <1>1, <1>2, <1>3, <1>4, <1>5, <1>6

\* A message of the topic names a version that exists.
LEMMA TopicEntry ==
  ASSUME TypeOK, NEW i \in 1..Len(topic)
  PROVE  /\ topic[i].order \in Orders
         /\ topic[i].version \in 1..Len(versions[topic[i].order])
<1>1. topic[i] \in Messages
  BY DEF TypeOK
<1>2. topic[i].order \in Orders /\ topic[i].version \in Nat \ {0}
  BY <1>1 DEF Messages
<1>3. topic[i].version <= Len(versions[topic[i].order])
  BY DEF TypeOK
<1>4. QED
  BY <1>2, <1>3 DEF TypeOK

\* What every transaction does, whichever function it is: it writes the next
\* version of the order's row and leaves the message waiting for its commit.
LEMMA TransactionEffect ==
  ASSUME TypeOK, NEW o \in Orders, Transaction(o)
  PROVE  /\ inflight.stage = "fetched"
         /\ Message.order = o
         /\ \E row \in Rows : versions' = [versions EXCEPT ![o] = Append(@, row)]
         /\ TablesTypeOK'
         /\ inflight' = [inflight EXCEPT !.stage = "processed"]
         /\ UNCHANGED <<request, feed, group, faults>>
<1>1. TablesTypeOK /\ request \in Requests
  BY DEF TypeOK
<1>2. TablesTypeOK'
  BY <1>1, StatementTyping
  DEF Transaction, cancelSaga, createOrder, cancelOrder, createPayment, cancelPayment,
      createReservation, cancelReservation, createShipment
<1>3. \E row \in Rows : versions' = [versions EXCEPT ![o] = Append(@, row)]
  BY DEF Transaction, cancelSaga, createOrder, cancelOrder, createPayment, cancelPayment,
         createReservation, cancelReservation, createShipment, updateSaga,
         Rows, Steps, Statuses
<1>4. /\ inflight.stage = "fetched"
      /\ Message.order = o
      /\ inflight' = [inflight EXCEPT !.stage = "processed"]
      /\ UNCHANGED <<request, feed, group, faults>>
  BY DEF Transaction, cancelSaga, createOrder, cancelOrder, createPayment, cancelPayment,
         createReservation, cancelReservation, createShipment, Executes, Handling
<1>5. QED
  BY <1>2, <1>3, <1>4

\* A transaction keeps the types: every message still names a version that exists.
LEMMA TransactionTyping ==
  ASSUME TypeOK, NEW o \in Orders, Transaction(o)
  PROVE  TypeOK'
<1>1. PICK row \in Rows : versions' = [versions EXCEPT ![o] = Append(@, row)]
  BY TransactionEffect
<1>2. /\ versions' \in [Orders -> Seq(Rows)]
      /\ \A x \in Orders : Len(versions[x]) <= Len(versions'[x])
  BY <1>1 DEF TypeOK
<1>3. UNCHANGED <<request, emitted, topic, joined, position, committed,
                  reemits, rebalances, errors, unacked, crashes>>
  BY TransactionEffect DEF feed, group, faults
<1>4. /\ \A x \in Orders : emitted'[x] <= Len(versions'[x])
      /\ \A i \in 1..Len(topic') : topic'[i].version <= Len(versions'[topic'[i].order])
  <2>1. \A x \in Orders : Len(versions[x]) \in Nat /\ Len(versions'[x]) \in Nat
    BY <1>2 DEF TypeOK
  <2>2. ASSUME NEW i \in 1..Len(topic)
        PROVE  topic[i].version <= Len(versions'[topic[i].order])
    BY <1>2, <2>1, TopicEntry
  <2>3. \A x \in Orders : emitted[x] \in Nat /\ emitted[x] <= Len(versions[x])
    BY DEF TypeOK
  <2>4. QED
    BY <1>2, <1>3, <2>1, <2>2, <2>3
<1>5. /\ inflight' \in [stage: {"idle", "fetched", "processed"}, offset: 0..Len(topic')]
      /\ inflight'.stage # "idle" => inflight'.offset # 0
  BY <1>3, TransactionEffect DEF TypeOK
<1>6. QED
  BY <1>2, <1>3, <1>4, <1>5, TransactionEffect DEF TypeOK

LEMMA CreateTyping ==
  ASSUME TypeOK, NEW o \in Orders, createSaga(o)
  PROVE  TypeOK'
<1> DEFINE first == <<[step |-> "order", status |-> "in_progress"]>>
<1>1. first \in Seq(Rows) /\ Len(first) = 1 /\ Len(versions[o]) = 0
  BY DEF Rows, Steps, Statuses, createSaga, Created
<1> HIDE DEF first
<1>2. versions' = [versions EXCEPT ![o] = first]
  BY DEF createSaga, first
<1>3. /\ versions' \in [Orders -> Seq(Rows)]
      /\ \A x \in Orders : /\ Len(versions[x]) \in Nat /\ Len(versions'[x]) \in Nat
                           /\ Len(versions[x]) <= Len(versions'[x])
  BY <1>1, <1>2 DEF TypeOK
<1>4. UNCHANGED <<request, tables, feed, group, inflight, faults>>
  BY DEF createSaga
<1>5. \A i \in 1..Len(topic) : topic[i].version <= Len(versions'[topic[i].order])
  BY <1>3, TopicEntry
<1>6. \A x \in Orders : emitted[x] <= Len(versions'[x])
  BY <1>3 DEF TypeOK
<1>7. QED
  BY <1>3, <1>4, <1>5, <1>6
  DEF TypeOK, TablesTypeOK, tables, feed, group, faults

LEMMA EmitTyping ==
  ASSUME TypeOK, NEW o \in Orders, Emit(o)
  PROVE  TypeOK'
<1> DEFINE m == [order |-> o, version |-> emitted[o] + 1]
<1>1. /\ m \in Messages /\ m.order = o /\ m.version = emitted[o] + 1
      /\ m.version <= Len(versions[o])
  BY DEF Messages, TypeOK, Emit
<1> HIDE DEF m
<1>2. /\ topic' = Append(topic, m)
      /\ UNCHANGED <<request, versions, tables, group, inflight, faults>>
  BY DEF Emit, m
<1>3. topic \in Seq(Messages)
  BY DEF TypeOK
<1>4. /\ topic' \in Seq(Messages) /\ Len(topic') = Len(topic) + 1
      /\ topic'[Len(topic')] = m /\ \A i \in 1..Len(topic) : topic'[i] = topic[i]
  BY <1>1, <1>2, <1>3
<1>5. \A i \in 1..Len(topic') : topic'[i].version <= Len(versions[topic'[i].order])
  BY <1>1, <1>3, <1>4, TopicEntry
<1>6. emitted' \in [Orders -> Nat] /\ \A x \in Orders : emitted'[x] <= Len(versions[x])
  BY DEF Emit, TypeOK
<1>7. Len(topic) \in Nat
  BY <1>3
<1>8. /\ inflight' \in [stage: {"idle", "fetched", "processed"}, offset: 0..Len(topic')]
      /\ position' \in 0..Len(topic') /\ committed' \in 0..Len(topic')
  BY <1>2, <1>4, <1>7 DEF TypeOK, group
<1>9. QED
  BY <1>2, <1>4, <1>5, <1>6, <1>8
  DEF TypeOK, TablesTypeOK, tables, group, faults

\* The type invariant: whatever is delivered again, lost or refused, messages
\* name versions that exist and the group's offsets lie within the topic.
THEOREM Typing == Spec => []TypeOK
<1>1. Init => TypeOK
  <2> SUFFICES ASSUME Init PROVE TypeOK
    OBVIOUS
  <2>1. TablesTypeOK
    BY DEF Init, TablesInit, TablesTypeOK
  <2>2. versions \in [Orders -> Seq(Rows)] /\ \A o \in Orders : Len(versions[o]) = 0
    BY DEF Init
  <2>3. topic \in Seq(Messages) /\ Len(topic) = 0
    BY DEF Init
  <2>4. inflight \in [stage: {"idle", "fetched", "processed"}, offset: 0..Len(topic)]
        /\ inflight.stage = "idle"
    BY <2>3 DEF Init, Idle
  <2>5. /\ reemits \in 0..MaxReemits /\ rebalances \in 0..MaxRebalances
        /\ errors \in 0..MaxErrors /\ unacked \in 0..MaxUnacked /\ crashes \in 0..MaxCrashes
    BY BoundsAssumption DEF Init
  <2>6. /\ emitted \in [Orders -> Nat] /\ \A o \in Orders : emitted[o] = 0
        /\ joined \in BOOLEAN /\ position = 0 /\ committed = 0 /\ request \in Requests
    BY DEF Init
  <2>7. QED
    BY <2>1, <2>2, <2>3, <2>4, <2>5, <2>6 DEF TypeOK
<1>2. TypeOK /\ [Next]_vars => TypeOK'
  <2> SUFFICES ASSUME TypeOK, [Next]_vars PROVE TypeOK'
    OBVIOUS
  <2>1. ASSUME NEW o \in Orders, createSaga(o) PROVE TypeOK'
    BY <2>1, CreateTyping
  <2>2. ASSUME NEW o \in Orders, Emit(o) PROVE TypeOK'
    BY <2>2, EmitTyping
  <2>3. ASSUME NEW o \in Orders, Reemit(o) PROVE TypeOK'
    <3>1. UNCHANGED <<request, versions, tables, topic, group, inflight>>
      BY <2>3 DEF Reemit
    <3>2. PICK n \in 0..(emitted[o] - 1) : emitted' = [emitted EXCEPT ![o] = n]
      BY <2>3 DEF Reemit
    <3>3. /\ emitted' \in [Orders -> Nat]
          /\ \A x \in Orders : emitted'[x] <= Len(versions[x])
      BY <3>2 DEF TypeOK
    <3>4. QED
      BY <2>3, <3>1, <3>3, BoundsAssumption DEF Reemit, TypeOK, TablesTypeOK, tables, group
  <2>4. CASE Join
    BY <2>4 DEF Join, TypeOK, TablesTypeOK, tables, feed, faults
  <2>5. CASE Fetch
    BY <2>5 DEF Fetch, TypeOK, TablesTypeOK, tables, feed, faults, Idle
  <2>6. ASSUME NEW o \in Orders, Transaction(o) PROVE TypeOK'
    BY <2>6, TransactionTyping
  <2>7. ASSUME NEW o \in Orders, Refused(o) PROVE TypeOK'
    BY <2>7 DEF Refused, TypeOK, TablesTypeOK, tables, feed, group, faults, Idle
  <2>8. CASE TransientError
    BY <2>8, BoundsAssumption
    DEF TransientError, TypeOK, TablesTypeOK, tables, feed, group, Idle
  <2>9. CASE Commit
    BY <2>9 DEF Commit, TypeOK, TablesTypeOK, tables, feed, faults, Idle
  <2>10. CASE CommitError
    BY <2>10, BoundsAssumption
    DEF CommitError, TypeOK, TablesTypeOK, tables, feed, group, Idle
  <2>11. CASE Rebalance
    <3>1. joined' = FALSE /\ rebalances' \in 0..MaxRebalances
      BY <2>11, BoundsAssumption DEF Rebalance, TypeOK
    <3>2. UNCHANGED <<request, versions, tables, feed, position, committed, inflight,
                      reemits, errors, unacked, crashes>>
      BY <2>11 DEF Rebalance
    <3>3. QED
      BY <3>1, <3>2 DEF TypeOK, TablesTypeOK, tables, feed
  <2>12. CASE Crash
    <3>1. joined' = FALSE /\ crashes' \in 0..MaxCrashes
      BY <2>12, BoundsAssumption DEF Crash, TypeOK
    <3>2. UNCHANGED <<request, versions, tables, feed, position,
                      reemits, rebalances, errors, unacked>>
      BY <2>12 DEF Crash
    <3>3. Len(topic) \in Nat
      BY DEF TypeOK
    <3>4. /\ committed' \in 0..Len(topic)
          /\ inflight' \in [stage: {"idle", "fetched", "processed"}, offset: 0..Len(topic)]
          /\ inflight'.stage = "idle"
      BY <2>12, <3>3 DEF Crash, Idle
    <3>5. QED
      BY <3>1, <3>2, <3>4 DEF TypeOK, TablesTypeOK, tables, feed
  <2>13. CASE UNCHANGED vars
    BY <2>13 DEF vars, TypeOK, TablesTypeOK, tables, feed, group, faults
  <2>14. QED
    BY <2>1, <2>2, <2>3, <2>4, <2>5, <2>6, <2>7, <2>8, <2>9, <2>10, <2>11, <2>12,
       <2>13 DEF Next
<1>3. QED
  BY <1>1, <1>2, PTL DEF Spec

-----------------------------------------------------------------------------
(* A shipped order is whole *)

\* The versions an order's row has had, as a set.
RowsOf(o) == {versions[o][k] : k \in 1..Len(versions[o])}

\* The steps an order has been through when its row is in progress at a step.
Before(step) ==
  CASE step = "order" -> {}
    [] step = "payment" -> {"order"}
    [] step = "reservation" -> {"order", "payment"}
    [] step = "shipment" -> {"order", "payment", "reservation"}

\* The rows of an order only go past steps that are not to fail, and the rows
\* of an order without failing steps stay true of its tables for ever: a stale
\* message repeats a step, it never undoes one.
RowStands(o, row) ==
  /\ row.status = "in_progress" => Before(row.step) \cap request[o].failures = {}
  /\ row.status = "finished" => row.step = "shipment"
  /\ request[o].failures = {} =>
       /\ row.status \in {"in_progress", "finished"}
       /\ row.step # "order" => orders[o] = "in_progress"
       /\ row.step \in {"reservation", "shipment"} => payments[o].preauth >= 1
       /\ row.step = "shipment" => reservations[o] = productsOf(o)

WholeOrder(o) ==
  /\ \A row \in RowsOf(o) : RowStands(o, row)
  /\ request[o].failures = {} => payments[o].cancelled = 0
  /\ reservations[o] \subseteq productsOf(o)
  /\ shipments[o] # "none" =>
       /\ request[o].failures = {}
       /\ \E row \in RowsOf(o) : row.step = "shipment"

WholeInv == \A o \in Orders : WholeOrder(o)

LEMMA RowsTyping ==
  ASSUME TypeOK, NEW o \in Orders
  PROVE  RowsOf(o) \subseteq Rows
  BY DEF TypeOK, RowsOf

\* A transaction handles a row the order has had, adds the next one, and leaves
\* the rows of the other orders alone.
LEMMA Handled ==
  ASSUME TypeOK, NEW o \in Orders, NEW function, Executes(function, o),
         NEW step \in Steps, NEW status \in Statuses, updateSaga(o, step, status)
  PROVE  /\ \E row \in RowsOf(o) : process(o, row) = function
         /\ RowsOf(o)' = RowsOf(o) \cup {[step |-> step, status |-> status]}
         /\ \A x \in Orders \ {o} : RowsOf(x)' = RowsOf(x)
         /\ request' = request
<1> DEFINE next == [step |-> step, status |-> status]
<1>1. versions[o] \in Seq(Rows) /\ next \in Rows
  BY DEF TypeOK, Rows
<1>2. inflight.offset \in 1..Len(topic)
  BY DEF Executes, Handling, TypeOK
<1>3. Payload(Message) \in RowsOf(o) /\ process(o, Payload(Message)) = function
  BY <1>2, TopicEntry DEF Executes, Handling, Payload, Message, RowsOf
<1> HIDE DEF next
<1>4. versions' = [versions EXCEPT ![o] = Append(@, next)]
  BY DEF updateSaga, next
<1>5. /\ versions'[o] = Append(versions[o], next)
      /\ \A x \in Orders \ {o} : versions'[x] = versions[x]
  BY <1>4 DEF TypeOK
<1>6. RowsOf(o)' = RowsOf(o) \cup {next}
  <2>1. /\ Len(versions'[o]) = Len(versions[o]) + 1 /\ Len(versions[o]) \in Nat
        /\ versions'[o][Len(versions[o]) + 1] = next
        /\ \A k \in 1..Len(versions[o]) : versions'[o][k] = versions[o][k]
    BY <1>1, <1>5
  <2>2. QED
    BY <2>1 DEF RowsOf
<1>7. \A x \in Orders \ {o} : RowsOf(x)' = RowsOf(x)
  BY <1>5 DEF RowsOf
<1>8. QED
  BY <1>3, <1>6, <1>7 DEF next, Executes

\* When each function is chosen.
LEMMA Dispatch ==
  ASSUME NEW o \in Orders, NEW row \in Rows
  PROVE  LET chosen == process(o, row)
             fails == request[o].failures
         IN  /\ chosen = "cancelSaga" => row.step = "order" /\ "order" \in fails
             /\ chosen = "createOrder" =>
                  row.step = "order" /\ row.status = "in_progress" /\ "order" \notin fails
             /\ chosen = "cancelOrder" =>
                  \/ row.step = "order" /\ row.status # "in_progress" /\ "order" \notin fails
                  \/ row.step = "payment" /\ "payment" \in fails
             /\ chosen = "createPayment" =>
                  row.step = "payment" /\ row.status = "in_progress" /\ "payment" \notin fails
             /\ chosen = "cancelPayment" =>
                  \/ row.step = "payment" /\ row.status # "in_progress"
                  \/ row.step = "reservation" /\ "reservation" \in fails
             /\ chosen = "createReservation" =>
                  /\ row.step = "reservation" /\ row.status = "in_progress"
                  /\ "reservation" \notin fails
             /\ chosen = "cancelReservation" =>
                  \/ row.step = "reservation" /\ row.status # "in_progress"
                  \/ row.step = "shipment" /\ "shipment" \in fails
             /\ chosen = "createShipment" =>
                  /\ row.step = "shipment" /\ row.status = "in_progress"
                  /\ "shipment" \notin fails
  BY DEF process, processOrder, processPayment, processReservation, processShipment,
         Rows, Steps

LEMMA OthersKept ==
  ASSUME TypeOK, NEW o \in Orders, Transaction(o), NEW x \in Orders \ {o}
  PROVE  /\ orders'[x] = orders[x] /\ payments'[x] = payments[x]
         /\ reservations'[x] = reservations[x] /\ shipments'[x] = shipments[x]
  BY DEF TypeOK, TablesTypeOK, Transaction, cancelSaga, createOrder, cancelOrder,
         createPayment, cancelPayment, createReservation, cancelReservation,
         createShipment, tables, InsertOrder, UpdateOrderCancelled, InsertPayment,
         UpdatePaymentsCancelled, InsertReservations, DeleteReservations, InsertShipment

LEMMA WholeStep ==
  ASSUME TypeOK, WholeInv, NEW o \in Orders, Transaction(o)
  PROVE  WholeInv'
<1>1. ASSUME NEW x \in Orders \ {o} PROVE WholeOrder(x)'
  <2>1. RowsOf(x)' = RowsOf(x) /\ request' = request
    BY Handled DEF Transaction, cancelSaga, createOrder, cancelOrder, createPayment,
       cancelPayment, createReservation, cancelReservation, createShipment,
       Steps, Statuses
  <2>2. WholeOrder(x)
    BY DEF WholeInv
  <2>3. QED
    BY <2>1, <2>2, OthersKept DEF WholeOrder, RowStands, productsOf
<1>2. WholeOrder(o)'
  <2>1. WholeOrder(o)
    BY DEF WholeInv
  <2>2. /\ RowsOf(o) \subseteq Rows /\ TablesTypeOK
        /\ request[o].failures \subseteq Steps
    BY RowsTyping, RequestTyping DEF TypeOK, RequestType
  <2>3. /\ {"order", "payment", "reservation", "shipment"} \subseteq Steps
        /\ {"in_progress", "finished", "cancelling", "cancelled"} \subseteq Statuses
    BY DEF Steps, Statuses
  <2>4. CASE cancelSaga(o)
    <3>1. PICK row \in RowsOf(o) : process(o, row) = "cancelSaga"
      BY <2>3, <2>4, Handled DEF cancelSaga
    <3>2. /\ RowsOf(o)' = RowsOf(o) \cup {[step |-> "order", status |-> "cancelled"]}
          /\ request' = request
      BY <2>3, <2>4, Handled DEF cancelSaga
    <3>3. RowStands(o, row) /\ row \in Rows
      BY <2>1, <2>2 DEF WholeOrder
    <3>4. "order" \in request[o].failures
      BY <2>2, <3>1, <3>3, Dispatch DEF RowStands, Before, Rows, Steps, Statuses
    <3>5. /\ orders'[o] = orders[o]
          /\ payments'[o] = payments[o]
          /\ reservations'[o] = reservations[o]
          /\ shipments'[o] = shipments[o]
      BY <2>2, <2>4 DEF cancelSaga, TablesTypeOK, tables
    <3>6. RowStands(o, [step |-> "order", status |-> "cancelled"])'
      BY <3>2, <3>3, <3>4, <3>5 DEF RowStands, Before, productsOf
    <3>7. ASSUME NEW old \in RowsOf(o) PROVE RowStands(o, old)'
      BY <2>1, <3>2, <3>3, <3>4, <3>5 DEF WholeOrder, RowStands, productsOf
    <3>8. QED
      BY <2>1, <3>2, <3>4, <3>5, <3>6, <3>7 DEF WholeOrder, productsOf
  <2>5. CASE createOrder(o)
    <3>1. PICK row \in RowsOf(o) : process(o, row) = "createOrder"
      BY <2>3, <2>5, Handled DEF createOrder
    <3>2. /\ RowsOf(o)' = RowsOf(o) \cup {[step |-> "payment", status |-> "in_progress"]}
          /\ request' = request
      BY <2>3, <2>5, Handled DEF createOrder
    <3>3. RowStands(o, row) /\ row \in Rows
      BY <2>1, <2>2 DEF WholeOrder
    <3>4. "order" \notin request[o].failures
      BY <2>2, <3>1, <3>3, Dispatch DEF RowStands, Before, Rows, Steps, Statuses
    <3>5. /\ orders'[o] = "in_progress"
          /\ payments'[o] = payments[o]
          /\ reservations'[o] = reservations[o]
          /\ shipments'[o] = shipments[o]
      BY <2>2, <2>5 DEF createOrder, TablesTypeOK, InsertOrder
    <3>6. RowStands(o, [step |-> "payment", status |-> "in_progress"])'
      BY <3>2, <3>3, <3>4, <3>5 DEF RowStands, Before, productsOf
    <3>7. ASSUME NEW old \in RowsOf(o) PROVE RowStands(o, old)'
      BY <2>1, <3>2, <3>3, <3>4, <3>5 DEF WholeOrder, RowStands, productsOf
    <3>8. QED
      BY <2>1, <3>2, <3>4, <3>5, <3>6, <3>7 DEF WholeOrder, productsOf
  <2>6. CASE cancelOrder(o)
    <3>1. PICK row \in RowsOf(o) : process(o, row) = "cancelOrder"
      BY <2>3, <2>6, Handled DEF cancelOrder
    <3>2. /\ RowsOf(o)' = RowsOf(o) \cup {[step |-> "order", status |-> "cancelled"]}
          /\ request' = request
      BY <2>3, <2>6, Handled DEF cancelOrder
    <3>3. RowStands(o, row) /\ row \in Rows
      BY <2>1, <2>2 DEF WholeOrder
    <3>4. request[o].failures # {}
      BY <2>2, <3>1, <3>3, Dispatch DEF RowStands, Before, Rows, Steps, Statuses
    <3>5. /\ payments'[o] = payments[o]
          /\ reservations'[o] = reservations[o]
          /\ shipments'[o] = shipments[o]
      BY <2>2, <2>6 DEF cancelOrder, TablesTypeOK, UpdateOrderCancelled
    <3>6. RowStands(o, [step |-> "order", status |-> "cancelled"])'
      BY <3>2, <3>3, <3>4, <3>5 DEF RowStands, Before, productsOf
    <3>7. ASSUME NEW old \in RowsOf(o) PROVE RowStands(o, old)'
      BY <2>1, <3>2, <3>3, <3>4, <3>5 DEF WholeOrder, RowStands, productsOf
    <3>8. QED
      BY <2>1, <3>2, <3>4, <3>5, <3>6, <3>7 DEF WholeOrder, productsOf
  <2>7. CASE createPayment(o)
    <3>1. PICK row \in RowsOf(o) : process(o, row) = "createPayment"
      BY <2>3, <2>7, Handled DEF createPayment
    <3>2. /\ RowsOf(o)' = RowsOf(o) \cup {[step |-> "reservation", status |-> "in_progress"]}
          /\ request' = request
      BY <2>3, <2>7, Handled DEF createPayment
    <3>3. RowStands(o, row) /\ row \in Rows
      BY <2>1, <2>2 DEF WholeOrder
    <3>4. row.step = "payment" /\ row.status = "in_progress" /\ "payment" \notin request[o].failures
      BY <2>2, <3>1, <3>3, Dispatch DEF RowStands, Before, Rows, Steps, Statuses
    <3>5. /\ payments'[o].preauth >= 1
          /\ payments'[o].cancelled = payments[o].cancelled
          /\ orders'[o] = orders[o]
          /\ reservations'[o] = reservations[o]
          /\ shipments'[o] = shipments[o]
      BY <2>2, <2>7 DEF createPayment, TablesTypeOK, InsertPayment
    <3>6. RowStands(o, [step |-> "reservation", status |-> "in_progress"])'
      BY <3>2, <3>3, <3>4, <3>5 DEF RowStands, Before, productsOf
    <3>7. ASSUME NEW old \in RowsOf(o) PROVE RowStands(o, old)'
      BY <2>1, <3>2, <3>3, <3>4, <3>5 DEF WholeOrder, RowStands, productsOf
    <3>8. QED
      BY <2>1, <3>2, <3>4, <3>5, <3>6, <3>7 DEF WholeOrder, productsOf
  <2>8. CASE cancelPayment(o)
    <3>1. PICK row \in RowsOf(o) : process(o, row) = "cancelPayment"
      BY <2>3, <2>8, Handled DEF cancelPayment
    <3>2. /\ RowsOf(o)' = RowsOf(o) \cup {[step |-> "order", status |-> "cancelling"]}
          /\ request' = request
      BY <2>3, <2>8, Handled DEF cancelPayment
    <3>3. RowStands(o, row) /\ row \in Rows
      BY <2>1, <2>2 DEF WholeOrder
    <3>4. request[o].failures # {}
      BY <2>2, <3>1, <3>3, Dispatch DEF RowStands, Before, Rows, Steps, Statuses
    <3>5. /\ orders'[o] = orders[o]
          /\ reservations'[o] = reservations[o]
          /\ shipments'[o] = shipments[o]
      BY <2>2, <2>8 DEF cancelPayment, TablesTypeOK, UpdatePaymentsCancelled
    <3>6. RowStands(o, [step |-> "order", status |-> "cancelling"])'
      BY <3>2, <3>3, <3>4, <3>5 DEF RowStands, Before, productsOf
    <3>7. ASSUME NEW old \in RowsOf(o) PROVE RowStands(o, old)'
      BY <2>1, <3>2, <3>3, <3>4, <3>5 DEF WholeOrder, RowStands, productsOf
    <3>8. QED
      BY <2>1, <3>2, <3>4, <3>5, <3>6, <3>7 DEF WholeOrder, productsOf
  <2>9. CASE createReservation(o)
    <3>1. PICK row \in RowsOf(o) : process(o, row) = "createReservation"
      BY <2>3, <2>9, Handled DEF createReservation
    <3>2. /\ RowsOf(o)' = RowsOf(o) \cup {[step |-> "shipment", status |-> "in_progress"]}
          /\ request' = request
      BY <2>3, <2>9, Handled DEF createReservation
    <3>3. RowStands(o, row) /\ row \in Rows
      BY <2>1, <2>2 DEF WholeOrder
    <3>4. row.step = "reservation" /\ row.status = "in_progress" /\ "reservation" \notin request[o].failures
      BY <2>2, <3>1, <3>3, Dispatch DEF RowStands, Before, Rows, Steps, Statuses
    <3>5. /\ reservations'[o] = reservations[o] \cup productsOf(o)
          /\ orders'[o] = orders[o]
          /\ payments'[o] = payments[o]
          /\ shipments'[o] = shipments[o]
      BY <2>2, <2>9 DEF createReservation, TablesTypeOK, InsertReservations, InsertReservationsRefused, productsOf
    <3>6. RowStands(o, [step |-> "shipment", status |-> "in_progress"])'
      BY <2>1, <3>2, <3>3, <3>4, <3>5 DEF WholeOrder, RowStands, Before, productsOf
    <3>7. ASSUME NEW old \in RowsOf(o) PROVE RowStands(o, old)'
      BY <2>1, <3>2, <3>3, <3>4, <3>5 DEF WholeOrder, RowStands, productsOf
    <3>8. QED
      BY <2>1, <3>2, <3>4, <3>5, <3>6, <3>7 DEF WholeOrder, productsOf
  <2>10. CASE cancelReservation(o)
    <3>1. PICK row \in RowsOf(o) : process(o, row) = "cancelReservation"
      BY <2>3, <2>10, Handled DEF cancelReservation
    <3>2. /\ RowsOf(o)' = RowsOf(o) \cup {[step |-> "payment", status |-> "cancelling"]}
          /\ request' = request
      BY <2>3, <2>10, Handled DEF cancelReservation
    <3>3. RowStands(o, row) /\ row \in Rows
      BY <2>1, <2>2 DEF WholeOrder
    <3>4. request[o].failures # {}
      BY <2>2, <3>1, <3>3, Dispatch DEF RowStands, Before, Rows, Steps, Statuses
    <3>5. /\ orders'[o] = orders[o]
          /\ payments'[o] = payments[o]
          /\ shipments'[o] = shipments[o]
          /\ reservations'[o] = {}
      BY <2>2, <2>10 DEF cancelReservation, TablesTypeOK, DeleteReservations
    <3>6. RowStands(o, [step |-> "payment", status |-> "cancelling"])'
      BY <3>2, <3>3, <3>4, <3>5 DEF RowStands, Before, productsOf
    <3>7. ASSUME NEW old \in RowsOf(o) PROVE RowStands(o, old)'
      BY <2>1, <3>2, <3>3, <3>4, <3>5 DEF WholeOrder, RowStands, productsOf
    <3>8. QED
      BY <2>1, <3>2, <3>4, <3>5, <3>6, <3>7 DEF WholeOrder, productsOf
  <2>11. CASE createShipment(o)
    <3>1. PICK row \in RowsOf(o) : process(o, row) = "createShipment"
      BY <2>3, <2>11, Handled DEF createShipment
    <3>2. /\ RowsOf(o)' = RowsOf(o) \cup {[step |-> "shipment", status |-> "finished"]}
          /\ request' = request
      BY <2>3, <2>11, Handled DEF createShipment
    <3>3. RowStands(o, row) /\ row \in Rows
      BY <2>1, <2>2 DEF WholeOrder
    <3>4. row.step = "shipment" /\ request[o].failures = {}
      BY <2>2, <3>1, <3>3, Dispatch DEF RowStands, Before, Rows, Steps, Statuses
    <3>5. /\ shipments'[o] = "in_progress"
          /\ orders'[o] = orders[o]
          /\ payments'[o] = payments[o]
          /\ reservations'[o] = reservations[o]
      BY <2>2, <2>11 DEF createShipment, TablesTypeOK, InsertShipment, InsertShipmentRefused
    <3>6. RowStands(o, [step |-> "shipment", status |-> "finished"])'
      BY <3>2, <3>3, <3>4, <3>5 DEF RowStands, Before, productsOf
    <3>7. ASSUME NEW old \in RowsOf(o) PROVE RowStands(o, old)'
      BY <2>1, <3>2, <3>3, <3>4, <3>5 DEF WholeOrder, RowStands, productsOf
    <3>8. QED
      BY <2>1, <3>2, <3>4, <3>5, <3>6, <3>7 DEF WholeOrder, productsOf
  <2>12. QED
    BY <2>4, <2>5, <2>6, <2>7, <2>8, <2>9, <2>10, <2>11 DEF Transaction
<1>3. QED
  BY <1>1, <1>2 DEF WholeInv

LEMMA WholeAlways == Spec => []WholeInv
<1>1. Init => WholeInv
  <2> SUFFICES ASSUME Init, NEW o \in Orders PROVE WholeOrder(o)
    BY DEF WholeInv
  <2>1. RowsOf(o) = {}
    BY DEF Init, RowsOf
  <2>2. payments[o].cancelled = 0 /\ reservations[o] = {} /\ shipments[o] = "none"
    BY DEF Init, TablesInit
  <2>3. QED
    BY <2>1, <2>2 DEF WholeOrder
<1>2. TypeOK /\ WholeInv /\ [Next]_vars => WholeInv'
  <2> SUFFICES ASSUME TypeOK, WholeInv, [Next]_vars PROVE WholeInv'
    OBVIOUS
  <2>1. ASSUME UNCHANGED <<request, versions, tables>> PROVE WholeInv'
    BY <2>1 DEF WholeInv, WholeOrder, RowStands, RowsOf, productsOf, tables
  <2>2. ASSUME NEW o \in Orders, createSaga(o) PROVE WholeInv'
    <3>1. UNCHANGED <<request, tables>> /\ versions[o] = <<>>
      BY <2>2 DEF createSaga, Created
    <3>2. /\ RowsOf(o)' = {[step |-> "order", status |-> "in_progress"]}
          /\ \A x \in Orders \ {o} : RowsOf(x)' = RowsOf(x)
      BY <2>2 DEF createSaga, RowsOf, TypeOK
    <3>3. WholeOrder(o)'
      BY <3>1, <3>2 DEF WholeInv, WholeOrder, RowStands, RowsOf, Before, productsOf, tables
    <3>4. ASSUME NEW x \in Orders \ {o} PROVE WholeOrder(x)'
      BY <3>1, <3>2 DEF WholeInv, WholeOrder, RowStands, productsOf, tables
    <3>5. QED
      BY <3>3, <3>4 DEF WholeInv
  <2>3. ASSUME NEW o \in Orders, Transaction(o) PROVE WholeInv'
    BY <2>3, WholeStep
  <2>4. QED
    BY <2>1, <2>2, <2>3
    DEF Next, vars, Emit, Reemit, Join, Fetch, Refused, TransientError, Commit,
        CommitError, Rebalance, Crash
<1>3. QED
  BY <1>1, <1>2, Typing, PTL DEF Spec

\* A shipped order is whole, however often messages are delivered again:
\* its order and payment stand and all its products stay reserved.
THEOREM ShippedWhole == Spec => []ShippedIsWhole
<1>1. TypeOK /\ WholeInv => ShippedIsWhole
  BY DEF WholeInv, WholeOrder, RowStands, ShippedIsWhole
<1>2. QED
  BY <1>1, Typing, WholeAlways, PTL

-----------------------------------------------------------------------------
(***************************************************************************)
(* Without redelivery (no changefeed restart, no rebalance) the saga keeps *)
(* its row and its tables together and implements OrderOutcome, whatever   *)
(* transactions and Kafka commits fail and however often the process       *)
(* crashes.                                                                *)
(***************************************************************************)
NoRedelivery == MaxReemits = 0 /\ MaxRebalances = 0

\* Offset i of the topic is still to be handled.
Due(i) ==
  /\ i \in 1..Len(topic)
  /\ i > position \/ (inflight.stage = "fetched" /\ i = inflight.offset)

\* Every message still to be handled is the newest version of its order's row,
\* and there is at most one for each order.
OnceInv ==
  /\ ~joined => committed = 0 /\ inflight.stage = "idle"
  /\ inflight.stage # "idle" => inflight.offset <= position
  /\ inflight.stage = "fetched" => ~Skips(Message)
  /\ \A i \in 1..Len(topic) : Due(i) =>
       /\ topic[i].version = Len(versions[topic[i].order])
       /\ emitted[topic[i].order] = Len(versions[topic[i].order])
  /\ \A i, j \in 1..Len(topic) :
       Due(i) /\ Due(j) /\ topic[i].order = topic[j].order => i = j
  /\ \A o \in Orders : Len(versions[o]) <= emitted[o] + 1

\* The rows a saga goes through.
row(step, status) == [step |-> step, status |-> status]
SagaRows ==
  {row("order", "in_progress"), row("payment", "in_progress"),
   row("reservation", "in_progress"), row("shipment", "in_progress"),
   row("shipment", "finished"), row("payment", "cancelling"),
   row("order", "cancelling"), row("order", "cancelled")}

\* The row of an order tells what its tables hold, and its order and payment
\* steps are not to fail once it has passed them.
Tells(o) ==
  /\ ~Created(o) => Held(o) = Outcome!Nothing
  /\ Created(o) =>
       /\ Row(o) \in SagaRows
       /\ Held(o) = Claimed(Row(o), productsOf(o))
       /\ Row(o) \notin {row("order", "in_progress"), row("order", "cancelled")} =>
            "order" \notin request[o].failures
       /\ Row(o) \in {row("reservation", "in_progress"), row("shipment", "in_progress"),
                      row("payment", "cancelling")} =>
            "payment" \notin request[o].failures

TellInv == \A o \in Orders : Tells(o)

HeldParts(o, n, p, r, s) ==
  Held(o) = [orders |-> n, payments |-> p, reserved |-> r, shipments |-> s]

\* A transaction handles the newest row of its order.
LEMMA HandlesNewest ==
  ASSUME TypeOK, OnceInv, inflight.stage = "fetched"
  PROVE  /\ inflight.offset \in 1..Len(topic)
         /\ Due(inflight.offset)
         /\ Message.order \in Orders
         /\ Created(Message.order)
         /\ Payload(Message) = Row(Message.order)
         /\ Row(Message.order).status \notin {"cancelled", "finished"}
<1>1. inflight.offset \in 1..Len(topic)
  BY DEF TypeOK
<1>2. Due(inflight.offset)
  BY <1>1 DEF Due
<1>3. /\ Message.order \in Orders /\ Message.version \in 1..Len(versions[Message.order])
      /\ Message.version = Len(versions[Message.order])
  BY <1>1, <1>2, TopicEntry DEF OnceInv, Message
<1>4. versions[Message.order] # <<>>
  BY <1>3
<1>5. QED
  BY <1>1, <1>2, <1>3, <1>4 DEF OnceInv, Skips, Payload, Row, Created

\* Steps that only make fewer messages due keep OnceInv.
LEMMA FewerDue ==
  ASSUME TypeOK, OnceInv, UNCHANGED <<request, versions, topic, emitted>>,
         \A i \in 1..Len(topic) : Due(i)' => Due(i),
         ~joined' => committed' = 0 /\ inflight'.stage = "idle",
         inflight'.stage # "idle" => inflight'.offset <= position',
         inflight'.stage = "fetched" => ~Skips(Message)'
  PROVE  OnceInv'
  BY DEF OnceInv

LEMMA OnceTransaction ==
  ASSUME TypeOK, OnceInv, NEW o \in Orders, Transaction(o)
  PROVE  OnceInv'
<1> DEFINE n == Len(versions[o])
<1>1. /\ inflight.stage = "fetched" /\ Message.order = o
      /\ inflight' = [inflight EXCEPT !.stage = "processed"]
      /\ UNCHANGED <<request, emitted, topic, joined, position, committed>>
  BY TransactionEffect DEF feed, group
<1>2. PICK r \in Rows : versions' = [versions EXCEPT ![o] = Append(@, r)]
  BY TransactionEffect
<1>3. /\ Len(versions'[o]) = n + 1 /\ n \in Nat
      /\ \A x \in Orders \ {o} : versions'[x] = versions[x]
  BY <1>2 DEF TypeOK
<1>4. inflight'.stage = "processed" /\ inflight'.offset = inflight.offset
  BY <1>1 DEF TypeOK
<1>5. /\ inflight.offset \in 1..Len(topic) /\ Due(inflight.offset)
      /\ topic[inflight.offset].order = o
  BY <1>1, HandlesNewest DEF Message
<1>6. ASSUME NEW i \in 1..Len(topic), Due(i)' PROVE Due(i) /\ topic[i].order # o
  <2>1. i > position
    BY <1>1, <1>4, <1>6 DEF Due
  <2>2. Due(i) /\ i # inflight.offset
    BY <1>1, <2>1 DEF Due, OnceInv, TypeOK
  <2>3. QED
    BY <1>5, <2>2 DEF OnceInv
<1>7. emitted[o] = n
  BY <1>5 DEF OnceInv
<1>8. \A i \in 1..Len(topic) : topic[i].order \in Orders
  BY TopicEntry
<1>9. joined
  BY <1>1 DEF OnceInv
<1>10. \A i \in 1..Len(topic)' : Due(i)' =>
       /\ topic'[i].version = Len(versions'[topic'[i].order])
       /\ emitted'[topic'[i].order] = Len(versions'[topic'[i].order])
  BY <1>1, <1>3, <1>6, <1>8 DEF OnceInv
<1>11. \A i, j \in 1..Len(topic)' :
       Due(i)' /\ Due(j)' /\ topic'[i].order = topic'[j].order => i = j
  BY <1>1, <1>6 DEF OnceInv
<1>12. \A x \in Orders : Len(versions'[x]) <= emitted'[x] + 1
  BY <1>1, <1>3, <1>7 DEF OnceInv
<1>13. QED
  BY <1>1, <1>4, <1>9, <1>10, <1>11, <1>12 DEF OnceInv

LEMMA OnceCreate ==
  ASSUME TypeOK, OnceInv, NEW o \in Orders, createSaga(o)
  PROVE  OnceInv'
<1>1. /\ Len(versions[o]) = 0 /\ Len(versions'[o]) = 1
      /\ \A x \in Orders \ {o} : versions'[x] = versions[x]
      /\ UNCHANGED <<request, emitted, topic, joined, position, committed, inflight>>
  BY DEF createSaga, Created, feed, group, TypeOK
<1>2. ASSUME NEW i \in 1..Len(topic) PROVE topic[i].order \in Orders \ {o}
  BY <1>1, TopicEntry
<1>3. \A i : Due(i)' <=> Due(i)
  BY <1>1 DEF Due
<1>4. emitted[o] \in Nat
  BY DEF TypeOK
<1>5. \A i \in 1..Len(topic)' : Due(i)' =>
       /\ topic'[i].version = Len(versions'[topic'[i].order])
       /\ emitted'[topic'[i].order] = Len(versions'[topic'[i].order])
  BY <1>1, <1>2, <1>3 DEF OnceInv
<1>6. ASSUME NEW x \in Orders PROVE Len(versions'[x]) <= emitted'[x] + 1
  <2>1. CASE x = o
    <3>1. Len(versions'[x]) = 1 /\ emitted'[x] = emitted[x] /\ emitted[x] \in Nat
      BY <1>1, <1>4, <2>1
    <3>2. QED
      BY <3>1
  <2>2. CASE x # o
    <3>1. versions'[x] = versions[x] /\ emitted'[x] = emitted[x]
      BY <1>1, <2>2
    <3>2. QED
      BY <3>1 DEF OnceInv
  <2>3. QED
    BY <2>1, <2>2
<1>7. inflight'.stage = "fetched" => ~Skips(Message)'
  <2>1. inflight.stage = "fetched" => Message.order \in Orders \ {o}
    BY <1>2, HandlesNewest DEF Message
  <2>2. QED
    BY <1>1, <2>1 DEF OnceInv, Skips, Payload, Message
<1>8. QED
  BY <1>1, <1>3, <1>5, <1>6, <1>7 DEF OnceInv

LEMMA OnceEmit ==
  ASSUME TypeOK, OnceInv, NEW o \in Orders, Emit(o)
  PROVE  OnceInv'
<1> DEFINE m == [order |-> o, version |-> emitted[o] + 1]
           l == Len(topic)
<1>1. m.order = o /\ m.version = emitted[o] + 1
  OBVIOUS
<1> HIDE DEF m
<1>2. /\ topic' = Append(topic, m) /\ emitted' = [emitted EXCEPT ![o] = @ + 1]
      /\ UNCHANGED <<request, versions, joined, position, committed, inflight>>
  BY DEF Emit, group, m
<1>3. /\ Len(topic') = l + 1 /\ l \in Nat /\ topic'[l + 1] = m
      /\ \A i \in 1..l : topic'[i] = topic[i]
  BY <1>2 DEF TypeOK
<1>4. emitted[o] \in Nat /\ Len(versions[o]) = emitted[o] + 1
  BY DEF Emit, OnceInv, TypeOK
<1>5. emitted'[o] = emitted[o] + 1 /\ \A x \in Orders \ {o} : emitted'[x] = emitted[x]
  BY <1>2 DEF TypeOK
<1>6. ASSUME NEW i \in 1..l, Due(i)' PROVE Due(i) /\ topic[i].order \in Orders \ {o}
  <2>1. Due(i)
    BY <1>2, <1>6 DEF Due
  <2>2. topic[i].order # o
    BY <1>4, <2>1 DEF OnceInv
  <2>3. QED
    BY <2>1, <2>2, TopicEntry
<1>7. \A i \in 1..Len(topic') : i \in 1..l \/ i = l + 1
  BY <1>3
<1>8. \A i \in 1..Len(topic)' : Due(i)' =>
       /\ topic'[i].version = Len(versions'[topic'[i].order])
       /\ emitted'[topic'[i].order] = Len(versions'[topic'[i].order])
  BY <1>1, <1>2, <1>3, <1>4, <1>5, <1>6, <1>7 DEF OnceInv
<1>9. \A i, j \in 1..Len(topic)' :
       Due(i)' /\ Due(j)' /\ topic'[i].order = topic'[j].order => i = j
  BY <1>1, <1>3, <1>6, <1>7 DEF OnceInv
<1>10. \A x \in Orders : Len(versions'[x]) <= emitted'[x] + 1
  BY <1>2, <1>4, <1>5 DEF OnceInv
<1>11. inflight'.stage = "fetched" => ~Skips(Message)'
  BY <1>2, <1>3, HandlesNewest DEF OnceInv, Skips, Payload, Message
<1>12. QED
  BY <1>2, <1>8, <1>9, <1>10, <1>11 DEF OnceInv

LEMMA OnceStep ==
  ASSUME NoRedelivery, TypeOK, OnceInv, [Next]_vars
  PROVE  OnceInv'
<1>1. ASSUME NEW o \in Orders, createSaga(o) PROVE OnceInv'
  BY <1>1, OnceCreate
<1>2. ASSUME NEW o \in Orders, Emit(o) PROVE OnceInv'
  BY <1>2, OnceEmit
<1>3. ~(\E o \in Orders : Reemit(o)) /\ ~Rebalance
  BY DEF NoRedelivery, Reemit, Rebalance, TypeOK
<1>4. CASE Join
  <2>1. /\ UNCHANGED <<request, versions, topic, emitted, inflight, committed>>
        /\ inflight.stage = "idle" /\ joined' /\ position' = Len(topic)
    BY <1>4 DEF Join, feed, OnceInv
  <2>2. \A i \in 1..Len(topic) : ~Due(i)'
    BY <2>1 DEF Due, TypeOK
  <2>3. QED
    BY <2>1, <2>2, FewerDue
<1>5. CASE Fetch
  <2>1. /\ UNCHANGED <<request, versions, topic, emitted, joined, committed>>
        /\ joined /\ inflight.stage = "idle" /\ position' = position + 1 /\ position \in Nat
        /\ position + 1 \in 1..Len(topic)
    BY <1>5 DEF Fetch, feed, Idle, TypeOK
  <2>2. /\ inflight' \in [stage: {"idle", "fetched", "processed"}, offset: Nat]
        /\ inflight'.stage \in {"idle", "fetched"}
        /\ inflight'.stage = "fetched" =>
             ~Skips(topic[position + 1]) /\ inflight'.offset = position + 1
    BY <1>5, <2>1 DEF Fetch, Idle
  <2>3. \A i \in 1..Len(topic) : Due(i)' => Due(i)
    BY <2>1, <2>2 DEF Due
  <2>4. inflight'.stage = "fetched" => ~Skips(Message)'
    BY <2>1, <2>2 DEF Skips, Payload, Message
  <2>5. QED
    BY <2>1, <2>2, <2>3, <2>4, FewerDue
<1>6. ASSUME NEW o \in Orders, Transaction(o) PROVE OnceInv'
  BY <1>6, OnceTransaction
<1>7. ASSUME \/ \E o \in Orders : Refused(o)
             \/ TransientError \/ Commit \/ CommitError \/ Crash
      PROVE  OnceInv'
  <2>1. /\ UNCHANGED <<request, versions, topic, emitted, position>>
        /\ inflight'.stage = "idle"
        /\ ~joined' => committed' = 0
    BY <1>7 DEF Refused, TransientError, Commit, CommitError, Crash, Handling, feed, group,
                Idle, OnceInv
  <2>2. \A i \in 1..Len(topic) : Due(i)' => Due(i)
    BY <2>1 DEF Due
  <2>3. QED
    BY <2>1, <2>2, FewerDue
<1>8. CASE UNCHANGED vars
  <2>1. UNCHANGED <<request, versions, topic, emitted, position, inflight, joined, committed>>
    BY <1>8 DEF vars, feed, group
  <2>2. QED
    BY <2>1 DEF OnceInv, Due, Skips, Payload, Message
<1>9. QED
  BY <1>1, <1>2, <1>3, <1>4, <1>5, <1>6, <1>7, <1>8 DEF Next

-----------------------------------------------------------------------------
(* The row tells what the tables hold *)

\* What a transaction does to its order, seen from its row: it starts from a row
\* that is not an end, and the next row tells what the tables then hold.
LEMMA TellTransaction ==
  ASSUME TypeOK, OnceInv, TellInv, NEW o \in Orders, Transaction(o)
  PROVE  /\ Created(o) /\ Row(o).status \notin {"cancelled", "finished"}
         /\ Created(o)'
         /\ Tells(o)'
<1>1. /\ Created(o) /\ Payload(Message) = Row(o)
      /\ Row(o).status \notin {"cancelled", "finished"}
  BY HandlesNewest, TransactionEffect
<1>2. Tells(o) /\ Row(o) \in SagaRows \ {row("shipment", "finished"), row("order", "cancelled")}
  BY <1>1 DEF TellInv, Tells, SagaRows, row
<1>3. Row(o) \in Rows /\ TablesTypeOK /\ versions[o] \in Seq(Rows)
  BY <1>2 DEF SagaRows, row, Rows, Steps, Statuses, TypeOK
<1>4. ASSUME NEW step \in Steps, NEW status \in Statuses, updateSaga(o, step, status)
      PROVE  Created(o)' /\ Row(o)' = row(step, status)
  <2>1. row(step, status) \in Rows
    BY DEF row, Rows
  <2>2. versions'[o] = Append(versions[o], row(step, status))
    BY <1>4 DEF updateSaga, row, TypeOK
  <2>3. QED
    BY <1>3, <2>1, <2>2 DEF Created, Row
<1>5. request' = request
  BY TransactionEffect
<1>6. CASE cancelSaga(o)
  <2>1. process(o, Row(o)) = "cancelSaga"
    BY <1>1, <1>6 DEF cancelSaga, Executes, Handling
  <2>2. Created(o)' /\ Row(o)' = row("order", "cancelled")
    BY <1>4, <1>6 DEF cancelSaga, Steps, Statuses
  <2>3. Row(o) = row("order", "in_progress")
    BY <1>1, <1>2, <1>3, <2>1, Dispatch DEF Tells, SagaRows, row
  <2>4. HeldParts(o, 0, 0, {}, 0)
    BY <1>1, <1>2, <2>3 DEF Tells, row, Held, Claimed, HeldParts
  <2>5. HeldParts(o, 0, 0, {}, 0)'
    BY <1>3, <1>5, <1>6, <2>4
    DEF cancelSaga, tables, HeldParts, Held, TablesTypeOK, productsOf
  <2>6. Held(o)' = Claimed(Row(o), productsOf(o))'
    BY <2>2, <2>5 DEF Claimed, row, HeldParts
  <2>7. QED
    BY <1>1, <1>2, <1>3, <1>5, <2>1, <2>2, <2>3, <2>6, Dispatch DEF Tells, SagaRows, row
<1>7. CASE createOrder(o)
  <2>1. process(o, Row(o)) = "createOrder"
    BY <1>1, <1>7 DEF createOrder, Executes, Handling
  <2>2. Created(o)' /\ Row(o)' = row("payment", "in_progress")
    BY <1>4, <1>7 DEF createOrder, Steps, Statuses
  <2>3. Row(o) = row("order", "in_progress")
    BY <1>1, <1>2, <1>3, <2>1, Dispatch DEF Tells, SagaRows, row
  <2>4. HeldParts(o, 0, 0, {}, 0)
    BY <1>1, <1>2, <2>3 DEF Tells, row, Held, Claimed, HeldParts
  <2>5. HeldParts(o, 1, 0, {}, 0)'
    BY <1>3, <1>5, <1>7, <2>4
    DEF createOrder, InsertOrder, HeldParts, Held, TablesTypeOK, productsOf
  <2>6. Held(o)' = Claimed(Row(o), productsOf(o))'
    BY <2>2, <2>5 DEF Claimed, row, HeldParts
  <2>7. QED
    BY <1>1, <1>2, <1>3, <1>5, <2>1, <2>2, <2>3, <2>6, Dispatch DEF Tells, SagaRows, row
<1>8. CASE cancelOrder(o)
  <2>1. process(o, Row(o)) = "cancelOrder"
    BY <1>1, <1>8 DEF cancelOrder, Executes, Handling
  <2>2. Created(o)' /\ Row(o)' = row("order", "cancelled")
    BY <1>4, <1>8 DEF cancelOrder, Steps, Statuses
  <2>3. Row(o) \in {row("order", "cancelling"), row("payment", "in_progress")}
    BY <1>1, <1>2, <1>3, <2>1, Dispatch DEF Tells, SagaRows, row
  <2>4. HeldParts(o, 1, 0, {}, 0)
    BY <1>1, <1>2, <2>3 DEF Tells, row, Held, Claimed, HeldParts
  <2>5. HeldParts(o, 0, 0, {}, 0)'
    BY <1>3, <1>5, <1>8, <2>4
    DEF cancelOrder, UpdateOrderCancelled, HeldParts, Held, TablesTypeOK, productsOf
  <2>6. Held(o)' = Claimed(Row(o), productsOf(o))'
    BY <2>2, <2>5 DEF Claimed, row, HeldParts
  <2>7. QED
    BY <1>1, <1>2, <1>3, <1>5, <2>1, <2>2, <2>3, <2>6, Dispatch DEF Tells, SagaRows, row
<1>9. CASE createPayment(o)
  <2>1. process(o, Row(o)) = "createPayment"
    BY <1>1, <1>9 DEF createPayment, Executes, Handling
  <2>2. Created(o)' /\ Row(o)' = row("reservation", "in_progress")
    BY <1>4, <1>9 DEF createPayment, Steps, Statuses
  <2>3. Row(o) = row("payment", "in_progress")
    BY <1>1, <1>2, <1>3, <2>1, Dispatch DEF Tells, SagaRows, row
  <2>4. HeldParts(o, 1, 0, {}, 0)
    BY <1>1, <1>2, <2>3 DEF Tells, row, Held, Claimed, HeldParts
  <2>5. HeldParts(o, 1, 1, {}, 0)'
    <3>1. payments[o].preauth = 0
      BY <2>4 DEF HeldParts, Held
    <3>2. /\ payments'[o].preauth = 1
          /\ UNCHANGED <<orders, reservations, shipments>>
      BY <1>3, <1>9, <3>1 DEF createPayment, InsertPayment, TablesTypeOK
    <3>3. QED
      BY <2>4, <3>2 DEF HeldParts, Held
  <2>6. Held(o)' = Claimed(Row(o), productsOf(o))'
    BY <2>2, <2>5 DEF Claimed, row, HeldParts
  <2>7. QED
    BY <1>1, <1>2, <1>3, <1>5, <2>1, <2>2, <2>3, <2>6, Dispatch DEF Tells, SagaRows, row
<1>10. CASE cancelPayment(o)
  <2>1. process(o, Row(o)) = "cancelPayment"
    BY <1>1, <1>10 DEF cancelPayment, Executes, Handling
  <2>2. Created(o)' /\ Row(o)' = row("order", "cancelling")
    BY <1>4, <1>10 DEF cancelPayment, Steps, Statuses
  <2>3. Row(o) \in {row("payment", "cancelling"), row("reservation", "in_progress")}
    BY <1>1, <1>2, <1>3, <2>1, Dispatch DEF Tells, SagaRows, row
  <2>4. HeldParts(o, 1, 1, {}, 0)
    BY <1>1, <1>2, <2>3 DEF Tells, row, Held, Claimed, HeldParts
  <2>5. HeldParts(o, 1, 0, {}, 0)'
    BY <1>3, <1>5, <1>10, <2>4
    DEF cancelPayment, UpdatePaymentsCancelled, HeldParts, Held, TablesTypeOK, productsOf
  <2>6. Held(o)' = Claimed(Row(o), productsOf(o))'
    BY <2>2, <2>5 DEF Claimed, row, HeldParts
  <2>7. QED
    BY <1>1, <1>2, <1>3, <1>5, <2>1, <2>2, <2>3, <2>6, Dispatch DEF Tells, SagaRows, row
<1>11. CASE createReservation(o)
  <2>1. process(o, Row(o)) = "createReservation"
    BY <1>1, <1>11 DEF createReservation, Executes, Handling
  <2>2. Created(o)' /\ Row(o)' = row("shipment", "in_progress")
    BY <1>4, <1>11 DEF createReservation, Steps, Statuses
  <2>3. Row(o) = row("reservation", "in_progress")
    BY <1>1, <1>2, <1>3, <2>1, Dispatch DEF Tells, SagaRows, row
  <2>4. HeldParts(o, 1, 1, {}, 0)
    BY <1>1, <1>2, <2>3 DEF Tells, row, Held, Claimed, HeldParts
  <2>5. HeldParts(o, 1, 1, productsOf(o), 0)'
    BY <1>3, <1>5, <1>11, <2>4
    DEF createReservation, InsertReservations, HeldParts, Held, TablesTypeOK, productsOf
  <2>6. Held(o)' = Claimed(Row(o), productsOf(o))'
    BY <2>2, <2>5 DEF Claimed, row, HeldParts
  <2>7. QED
    BY <1>1, <1>2, <1>3, <1>5, <2>1, <2>2, <2>3, <2>6, Dispatch DEF Tells, SagaRows, row
<1>12. CASE cancelReservation(o)
  <2>1. process(o, Row(o)) = "cancelReservation"
    BY <1>1, <1>12 DEF cancelReservation, Executes, Handling
  <2>2. Created(o)' /\ Row(o)' = row("payment", "cancelling")
    BY <1>4, <1>12 DEF cancelReservation, Steps, Statuses
  <2>3. Row(o) = row("shipment", "in_progress")
    BY <1>1, <1>2, <1>3, <2>1, Dispatch DEF Tells, SagaRows, row
  <2>4. HeldParts(o, 1, 1, productsOf(o), 0)
    BY <1>1, <1>2, <2>3 DEF Tells, row, Held, Claimed, HeldParts
  <2>5. HeldParts(o, 1, 1, {}, 0)'
    BY <1>3, <1>5, <1>12, <2>4
    DEF cancelReservation, DeleteReservations, HeldParts, Held, TablesTypeOK, productsOf
  <2>6. Held(o)' = Claimed(Row(o), productsOf(o))'
    BY <2>2, <2>5 DEF Claimed, row, HeldParts
  <2>7. QED
    BY <1>1, <1>2, <1>3, <1>5, <2>1, <2>2, <2>3, <2>6, Dispatch DEF Tells, SagaRows, row
<1>13. CASE createShipment(o)
  <2>1. process(o, Row(o)) = "createShipment"
    BY <1>1, <1>13 DEF createShipment, Executes, Handling
  <2>2. Created(o)' /\ Row(o)' = row("shipment", "finished")
    BY <1>4, <1>13 DEF createShipment, Steps, Statuses
  <2>3. Row(o) = row("shipment", "in_progress")
    BY <1>1, <1>2, <1>3, <2>1, Dispatch DEF Tells, SagaRows, row
  <2>4. HeldParts(o, 1, 1, productsOf(o), 0)
    BY <1>1, <1>2, <2>3 DEF Tells, row, Held, Claimed, HeldParts
  <2>5. HeldParts(o, 1, 1, productsOf(o), 1)'
    BY <1>3, <1>5, <1>13, <2>4
    DEF createShipment, InsertShipment, HeldParts, Held, TablesTypeOK, productsOf
  <2>6. Held(o)' = Claimed(Row(o), productsOf(o))'
    BY <2>2, <2>5 DEF Claimed, row, HeldParts
  <2>7. QED
    BY <1>1, <1>2, <1>3, <1>5, <2>1, <2>2, <2>3, <2>6, Dispatch DEF Tells, SagaRows, row
<1>14. QED
  BY <1>1, <1>6, <1>7, <1>8, <1>9, <1>10, <1>11, <1>12, <1>13 DEF Transaction

LEMMA TellStep ==
  ASSUME TypeOK, OnceInv, TellInv, [Next]_vars
  PROVE  TellInv'
<1>1. ASSUME UNCHANGED <<request, versions, tables>> PROVE TellInv'
  BY <1>1 DEF TellInv, Tells, Created, Row, Held, productsOf, tables
<1>2. ASSUME NEW o \in Orders, createSaga(o) PROVE TellInv'
  <2>1. /\ UNCHANGED <<request, tables>> /\ ~Created(o)
        /\ \A x \in Orders \ {o} : versions'[x] = versions[x]
    BY <1>2 DEF createSaga, TypeOK
  <2>2. Created(o)' /\ Row(o)' = row("order", "in_progress")
    BY <1>2 DEF createSaga, Created, Row, row, TypeOK
  <2>3. Tells(o)'
    <3>1. Held(o)' = Outcome!Nothing
      BY <2>1 DEF TellInv, Tells, Held, tables
    <3>2. Claimed(row("order", "in_progress"), productsOf(o)') = Outcome!Nothing
      BY DEF Claimed, row, Outcome!Nothing
    <3>3. Held(o)' = Claimed(Row(o), productsOf(o))'
      BY <2>2, <3>1, <3>2 DEF Claimed
    <3>4. QED
      BY <2>2, <3>3 DEF Tells, SagaRows, row
  <2>4. ASSUME NEW x \in Orders \ {o} PROVE Tells(x)'
    BY <2>1 DEF TellInv, Tells, Created, Row, Held, productsOf, tables
  <2>5. QED
    BY <2>3, <2>4 DEF TellInv
<1>3. ASSUME NEW o \in Orders, Transaction(o) PROVE TellInv'
  <2>1. request' = request /\ \A x \in Orders \ {o} : versions'[x] = versions[x]
    BY <1>3, TransactionEffect DEF TypeOK
  <2>2. ASSUME NEW x \in Orders \ {o} PROVE Tells(x)'
    BY <1>3, <2>1, OthersKept DEF TellInv, Tells, Created, Row, Held, productsOf
  <2>3. QED
    BY <1>3, <2>2, TellTransaction DEF TellInv
<1>4. QED
  BY <1>1, <1>2, <1>3
  DEF Next, vars, Emit, Reemit, Join, Fetch, Refused, TransientError, Commit, CommitError,
      Rebalance, Crash

LEMMA OnceTellInit == Init => OnceInv /\ TellInv
<1> SUFFICES ASSUME Init PROVE OnceInv /\ TellInv
  OBVIOUS
<1>1. OnceInv
  BY DEF Init, OnceInv, Due, Idle
<1>2. TellInv
  BY DEF Init, TablesInit, TellInv, Tells, Created, Held, Outcome!Nothing
<1>3. QED
  BY <1>1, <1>2

\* Without redelivery the row of a saga tells exactly what its tables hold.
THEOREM RowTells ==
  ASSUME NoRedelivery
  PROVE  Spec => []RowTellsHoldings
<1>1. TypeOK /\ OnceInv /\ TellInv /\ [Next]_vars => (OnceInv /\ TellInv)'
  BY OnceStep, TellStep
<1>2. TellInv => RowTellsHoldings
  BY DEF TellInv, Tells, RowTellsHoldings
<1>3. QED
  BY <1>1, <1>2, OnceTellInit, Typing, PTL DEF Spec

-----------------------------------------------------------------------------
(* The saga implements the all-or-nothing transaction *)

wantedBar == [o \in Orders |-> IF Created(o) THEN productsOf(o) ELSE {}]
heldBar == [o \in Orders |-> Held(o)]

LEMMA DiffersAt ==
  ASSUME NEW S, NEW o \in S, NEW f, NEW g,
         f = [x \in S |-> f[x]], g = [x \in S |-> g[x]],
         \A x \in S \ {o} : g[x] = f[x]
  PROVE  g = [f EXCEPT ![o] = g[o]]
  OBVIOUS

\* A step that changes what is known of one order alone changes the abstract
\* state of that order alone.
LEMMA OneOrder ==
  ASSUME NEW o \in Orders,
         \A x \in Orders \ {o} : Created(x)' = Created(x) /\ Held(x)' = Held(x)
                              /\ Row(x)' = Row(x) /\ productsOf(x)' = productsOf(x)
  PROVE  /\ outcomeBar' = [outcomeBar EXCEPT ![o] = outcomeBar'[o]]
         /\ heldBar' = [heldBar EXCEPT ![o] = Held(o)']
         /\ wantedBar' = [wantedBar EXCEPT ![o] = wantedBar'[o]]
<1>1. ASSUME NEW x \in Orders \ {o}
      PROVE  /\ outcomeBar'[x] = outcomeBar[x] /\ heldBar'[x] = heldBar[x]
             /\ wantedBar'[x] = wantedBar[x]
  BY DEF outcomeBar, heldBar, wantedBar
<1>2. heldBar'[o] = Held(o)'
  BY DEF heldBar
<1>3. outcomeBar' = [outcomeBar EXCEPT ![o] = outcomeBar'[o]]
  <2>1. outcomeBar = [x \in Orders |-> outcomeBar[x]]
    BY DEF outcomeBar
  <2>2. outcomeBar' = [x \in Orders |-> outcomeBar'[x]]
    BY DEF outcomeBar
  <2>3. QED
    BY <1>1, <2>1, <2>2, DiffersAt
<1>4. heldBar' = [heldBar EXCEPT ![o] = Held(o)']
  BY <1>1, <1>2 DEF heldBar
<1>5. wantedBar' = [wantedBar EXCEPT ![o] = wantedBar'[o]]
  BY <1>1 DEF wantedBar
<1>6. QED
  BY <1>3, <1>4, <1>5

\* Without redelivery every saga, whatever fails on the way, ends with all that
\* was ordered or with nothing, and ends once.
THEOREM Implements ==
  ASSUME NoRedelivery
  PROVE  Spec => ImplementsOutcome
<1>1. Init => Outcome!Init
  <2> SUFFICES ASSUME Init PROVE Outcome!Init
    OBVIOUS
  <2>1. \A o \in Orders : ~Created(o) /\ Held(o) = Outcome!Nothing
    BY DEF Init, TablesInit, Created, Held, Outcome!Nothing
  <2>2. QED
    BY <2>1 DEF Outcome!Init, outcomeBar
<1>2. TypeOK /\ OnceInv /\ TellInv /\ TellInv' /\ [Next]_vars => [Outcome!Next]_(Outcome!vars)
  <2> SUFFICES ASSUME TypeOK, OnceInv, TellInv, TellInv', [Next]_vars
               PROVE  Outcome!Next \/ UNCHANGED Outcome!vars
    OBVIOUS
  <2>1. ASSUME UNCHANGED <<request, versions, tables>> PROVE UNCHANGED Outcome!vars
    BY <2>1 DEF Outcome!vars, outcomeBar, Created, Row, Held, productsOf, tables
  <2>2. ASSUME NEW o \in Orders, createSaga(o) PROVE Outcome!Submit(o)
    <3>1. /\ UNCHANGED <<request, tables>> /\ ~Created(o)
          /\ \A x \in Orders \ {o} : versions'[x] = versions[x]
      BY <2>2 DEF createSaga, TypeOK
    <3>2. Created(o)' /\ Row(o)' = row("order", "in_progress")
      BY <2>2 DEF createSaga, Created, Row, row, TypeOK
    <3>3. Held(o)' = Outcome!Nothing
      BY <3>1 DEF TellInv, Tells, Held, tables
    <3>4. /\ outcomeBar' = [outcomeBar EXCEPT ![o] = outcomeBar'[o]]
          /\ heldBar' = [heldBar EXCEPT ![o] = Held(o)']
          /\ wantedBar' = [wantedBar EXCEPT ![o] = wantedBar'[o]]
      BY <3>1, OneOrder DEF Created, Row, Held, productsOf, tables
    <3>5. outcomeBar[o] = "absent" /\ outcomeBar'[o] = "open"
      BY <3>1, <3>2 DEF outcomeBar, row
    <3>6. wantedBar'[o] = productsOf(o) /\ productsOf(o) \subseteq Products
      BY <3>1, <3>2, RequestTyping, ListedProducts
      DEF wantedBar, productsOf, TypeOK, RequestType
    <3>7. Outcome!Nothing \in Outcome!Parts(productsOf(o))
      BY DEF Outcome!Nothing, Outcome!Parts
    <3>8. QED
      BY <3>3, <3>4, <3>5, <3>6, <3>7
      DEF Outcome!Submit, Outcome!Becomes, wantedBar, heldBar
  <2>3. ASSUME NEW o \in Orders, Transaction(o)
        PROVE  Outcome!Work(o) \/ Outcome!Complete(o) \/ Outcome!Cancel(o)
    <3>1. request' = request /\ \A x \in Orders \ {o} : versions'[x] = versions[x]
      BY <2>3, TransactionEffect DEF TypeOK
    <3>2. /\ Created(o) /\ Row(o).status \notin {"cancelled", "finished"}
          /\ Created(o)' /\ Tells(o)'
      BY <2>3, TellTransaction
    <3>3. /\ outcomeBar' = [outcomeBar EXCEPT ![o] = outcomeBar'[o]]
          /\ heldBar' = [heldBar EXCEPT ![o] = Held(o)']
          /\ wantedBar' = [wantedBar EXCEPT ![o] = wantedBar'[o]]
      BY <2>3, <3>1, OthersKept, OneOrder DEF Created, Row, Held, productsOf
    <3>4. wantedBar' = wantedBar /\ wantedBar[o] = productsOf(o)
      BY <3>1, <3>2, <3>3 DEF wantedBar, productsOf
    <3>5. outcomeBar[o] = "open"
      BY <3>2 DEF outcomeBar
    <3>6. Row(o)' \in SagaRows /\ Held(o)' = Claimed(Row(o)', productsOf(o))
      BY <3>1, <3>2 DEF Tells, productsOf, Claimed
    <3>7. CASE Row(o)' = row("shipment", "finished")
      <4>1. outcomeBar'[o] = "completed" /\ Held(o)' = Outcome!Everything(productsOf(o))
        BY <3>2, <3>6, <3>7 DEF outcomeBar, row, Claimed, Outcome!Everything
      <4>2. QED
        BY <3>3, <3>4, <3>5, <4>1 DEF Outcome!Complete, Outcome!Becomes, wantedBar, heldBar
    <3>8. CASE Row(o)' = row("order", "cancelled")
      <4>1. outcomeBar'[o] = "cancelled" /\ Held(o)' = Outcome!Nothing
        BY <3>2, <3>6, <3>8 DEF outcomeBar, row, Claimed, Outcome!Nothing
      <4>2. QED
        BY <3>3, <3>4, <3>5, <4>1 DEF Outcome!Cancel, Outcome!Becomes, wantedBar, heldBar
    <3>9. CASE Row(o)' \notin {row("shipment", "finished"), row("order", "cancelled")}
      <4>1. outcomeBar'[o] = "open"
        BY <3>2, <3>6, <3>9 DEF outcomeBar, row, SagaRows
      <4>2. Held(o)' \in Outcome!Parts(productsOf(o))
        BY <3>6, <3>9 DEF SagaRows, row, Claimed, Outcome!Parts
      <4>3. QED
        BY <3>3, <3>4, <3>5, <4>1, <4>2 DEF Outcome!Work, Outcome!Becomes, wantedBar, heldBar
    <3>10. QED
      BY <3>7, <3>8, <3>9
  <2>4. QED
    BY <2>1, <2>2, <2>3
    DEF Next, vars, Emit, Reemit, Join, Fetch, Refused, TransientError, Commit, CommitError,
        Rebalance, Crash, Outcome!Next
<1>3. TypeOK /\ OnceInv /\ TellInv /\ [Next]_vars => (OnceInv /\ TellInv)'
  BY OnceStep, TellStep
<1>4. QED
  BY <1>1, <1>2, <1>3, OnceTellInit, Typing, PTL DEF Spec, ImplementsOutcome, Outcome!Spec
-----------------------------------------------------------------------------
(***************************************************************************)
(* How often an order can be charged.  A row comes to payment once; its    *)
(* message is emitted once more for each time the changefeed goes back,    *)
(* and each copy is read once more for each rebalance.  Both are counted   *)
(* ahead: a charge in hand, or on the topic ahead of the consumer, is as   *)
(* good as made, and so is the return a rebalance has made possible.       *)
(***************************************************************************)

\* The payment row, and the version of an order's row that is one.
PayRow == [step |-> "payment", status |-> "in_progress"]
PayVersions(o) == {k \in 1..Len(versions[o]) : versions[o][k] = PayRow}
Passed(o) == \E k \in PayVersions(o) : k <= emitted[o]

\* The messages that make the consumer charge an order, and those ahead of it.
PayOffsets(o) ==
  {i \in 1..Len(topic) : topic[i].order = o /\ versions[o][topic[i].version] = PayRow}
PayAhead(o) == {i \in PayOffsets(o) : i > position}
InHand(o) == IF inflight.stage = "fetched" /\ inflight.offset \in PayOffsets(o) THEN 1 ELSE 0
Charges(o) == payments[o].preauth + payments[o].cancelled

\* A rebalance after which the consumer may yet go back.
Again == IF ~joined /\ (committed # 0 \/ inflight.stage # "idle") THEN 1 ELSE 0

ChargeInv(o) ==
  /\ \A j, k \in PayVersions(o) : j = k
  /\ PayVersions(o) # {} => orders[o] # "none"
  /\ Cardinality(PayOffsets(o)) <= reemits + (IF Passed(o) THEN 1 ELSE 0)
  /\ Charges(o) + InHand(o) + Cardinality(PayAhead(o)) <=
       Cardinality(PayOffsets(o)) * (1 + rebalances - Again)

ChargesInv == Again <= rebalances /\ \A o \in Orders : ChargeInv(o)

LEMMA ChargesInit == Init => ChargesInv
<1> SUFFICES ASSUME Init PROVE ChargesInv
  OBVIOUS
<1>1. Again = 0 /\ rebalances = 0
  BY DEF Init, Again, Idle
<1>2. ASSUME NEW o \in Orders PROVE ChargeInv(o)
  <2>1. PayVersions(o) = {} /\ PayOffsets(o) = {}
    BY DEF Init, PayVersions, PayOffsets
  <2>2. PayAhead(o) = {} /\ InHand(o) = 0
    BY <2>1 DEF PayAhead, InHand
  <2>3. Cardinality(PayOffsets(o)) = 0 /\ Cardinality(PayAhead(o)) = 0
    BY <2>1, <2>2, FS_EmptySet
  <2>4. Charges(o) = 0 /\ reemits = 0
    BY DEF Init, TablesInit, Charges
  <2>5. 0 + 0 + 0 <= 0 * (1 + 0 - 0) /\ 0 <= 0 + (IF Passed(o) THEN 1 ELSE 0)
    OBVIOUS
  <2>6. QED
    BY <1>1, <2>1, <2>2, <2>3, <2>4, <2>5 DEF ChargeInv
<1>3. QED
  BY <1>1, <1>2 DEF ChargesInv

LEMMA CountsTyping ==
  ASSUME TypeOK, NEW o \in Orders
  PROVE  /\ IsFiniteSet(PayOffsets(o)) /\ IsFiniteSet(PayAhead(o))
         /\ Cardinality(PayOffsets(o)) \in Nat /\ Cardinality(PayAhead(o)) \in Nat
         /\ Cardinality(PayAhead(o)) <= Cardinality(PayOffsets(o))
         /\ Charges(o) \in Nat /\ InHand(o) \in {0, 1} /\ Again \in {0, 1}
         /\ reemits \in Nat /\ rebalances \in Nat
<1>1. IsFiniteSet(1..Len(topic))
  BY FS_Interval DEF TypeOK
<1>2. IsFiniteSet(PayOffsets(o))
  BY <1>1, FS_Subset DEF PayOffsets
<1>3. IsFiniteSet(PayAhead(o)) /\ Cardinality(PayAhead(o)) <= Cardinality(PayOffsets(o))
  BY <1>2, FS_Subset DEF PayAhead
<1>4. Charges(o) \in Nat
  BY DEF TypeOK, TablesTypeOK, Charges
<1>5. InHand(o) \in {0, 1} /\ Again \in {0, 1}
  BY DEF InHand, Again
<1>6. reemits \in Nat /\ rebalances \in Nat
  BY BoundsAssumption DEF TypeOK
<1>7. QED
  BY <1>2, <1>3, <1>4, <1>5, <1>6, FS_CardinalityType

\* The arithmetic of the bound.
LEMMA MoreTimes ==
  ASSUME NEW q \in Nat, NEW a \in Nat, NEW b \in Nat, a <= b
  PROVE  q * a <= q * b
<1>1. PICK d \in Nat : b = a + d
  <2>1. b - a \in Nat /\ b = a + (b - a)
    OBVIOUS
  <2>2. QED
    BY <2>1
<1>2. q * b = q * a + q * d /\ q * d \in Nat /\ q * a \in Nat
  BY <1>1
<1>3. QED
  BY <1>2

LEMMA NoLess ==
  ASSUME NEW a \in Nat, NEW b \in Nat, NEW g \in {0, 1}, NEW h \in {0, 1},
         (a = b /\ h <= g) \/ (b = a + 1 /\ g = 0)
  PROVE  a - g <= b - h
<1>1. CASE g = 0 /\ h = 0
  BY <1>1
<1>2. CASE g = 0 /\ h = 1
  BY <1>2
<1>3. CASE g = 1
  BY <1>3
<1>4. QED
  BY <1>1, <1>2, <1>3

LEMMA OneMore ==
  ASSUME NEW r \in Nat, NEW g \in {0, 1}
  PROVE  1 + r - g \in Nat
<1>1. CASE g = 0
  BY <1>1
<1>2. CASE g = 1
  BY <1>2
<1>3. QED
  BY <1>1, <1>2

\* The consumer, its group and its process: what is on the topic stays, and what
\* it has yet to handle grows only by a rebalance's worth.
LEMMA ConsumerCharges ==
  ASSUME TypeOK, TypeOK', Again <= rebalances, Again' <= rebalances',
         NEW o \in Orders, ChargeInv(o),
         UNCHANGED <<versions, tables, feed, reemits>>,
         Again' \in {0, 1}, rebalances' \in Nat,
         \/ /\ rebalances - Again <= rebalances' - Again'
            /\ InHand(o)' + Cardinality(PayAhead(o)') <= InHand(o) + Cardinality(PayAhead(o))
         \/ /\ rebalances' = rebalances /\ Again = 1 /\ Again' = 0 /\ InHand(o)' <= InHand(o)
  PROVE  ChargeInv(o)'
<1>1. /\ PayVersions(o)' = PayVersions(o) /\ Passed(o)' = Passed(o)
      /\ PayOffsets(o)' = PayOffsets(o) /\ Charges(o)' = Charges(o)
      /\ orders' = orders /\ reemits' = reemits
  BY DEF PayVersions, Passed, PayOffsets, Charges, tables, feed
<1>2. PICK q \in Nat : q = Cardinality(PayOffsets(o))
  BY CountsTyping
<1>3. PICK c \in Nat : c = Charges(o)
  BY CountsTyping
<1>4. PICK s \in Nat : s = InHand(o) + Cardinality(PayAhead(o))
  BY CountsTyping
<1>5. PayAhead(o)' \subseteq PayOffsets(o)
  BY <1>1 DEF PayAhead
<1>6. Cardinality(PayAhead(o)') <= q /\ Cardinality(PayAhead(o)') \in Nat
  BY <1>2, <1>5, CountsTyping, FS_Subset, FS_CardinalityType
<1>7. InHand(o)' \in {0, 1}
  BY DEF InHand
<1>8. PICK t \in Nat : t = 1 + rebalances - Again
  BY CountsTyping
<1>9. PICK u \in Nat : u = 1 + rebalances' - Again'
  BY OneMore
<1>10. c + s <= q * t
  <2>1. Charges(o) + InHand(o) + Cardinality(PayAhead(o)) <= q * t
    BY <1>2, <1>8, Zenon DEF ChargeInv
  <2>2. QED
    BY <1>3, <1>4, <2>1, CountsTyping
<1>11. c + InHand(o)' + Cardinality(PayAhead(o)') <= q * u
  <2>1. CASE /\ rebalances - Again <= rebalances' - Again'
             /\ InHand(o)' + Cardinality(PayAhead(o)') <= InHand(o) + Cardinality(PayAhead(o))
    <3>1. t <= u
      BY <1>8, <1>9, <2>1, CountsTyping
    <3>2. q * t <= q * u /\ q * t \in Nat /\ q * u \in Nat
      BY <3>1, MoreTimes
    <3>3. InHand(o)' + Cardinality(PayAhead(o)') <= s
      BY <1>4, <2>1
    <3>4. QED
      BY <1>6, <1>7, <1>10, <3>2, <3>3
  <2>2. CASE rebalances' = rebalances /\ Again = 1 /\ Again' = 0 /\ InHand(o)' <= InHand(o)
    <3>1. u = t + 1
      BY <1>8, <1>9, <2>2, CountsTyping
    <3>2. q * u = q * t + q /\ q * t \in Nat
      BY <3>1
    <3>3. InHand(o)' <= s
      BY <1>4, <1>7, <2>2, CountsTyping
    <3>4. QED
      BY <1>6, <1>7, <1>10, <3>2, <3>3
  <2>3. QED
    BY <2>1, <2>2
<1>12. Charges(o)' + InHand(o)' + Cardinality(PayAhead(o)') <=
         Cardinality(PayOffsets(o)') * (1 + rebalances' - Again')
  BY <1>1, <1>2, <1>3, <1>9, <1>11, Zenon
<1>13. QED
  BY <1>1, <1>12 DEF ChargeInv

LEMMA AgainStep ==
  ASSUME TypeOK, [Next]_vars, Again <= rebalances
  PROVE  Again' <= rebalances'
<1> USE DEF Again
<1>1. rebalances \in Nat
  BY CountsTyping, BoundsAssumption DEF TypeOK
<1>2. CASE Rebalance
  BY <1>1, <1>2 DEF Rebalance
<1>3. CASE Join \/ Fetch
  BY <1>1, <1>3 DEF Join, Fetch, faults
<1>4. CASE Crash
  BY <1>1, <1>4 DEF Crash, Idle
<1>5. CASE Commit \/ CommitError \/ TransientError \/ \E o \in Orders : Refused(o)
  BY <1>1, <1>5 DEF Commit, CommitError, TransientError, Refused, Idle, faults, group, Handling
<1>6. ASSUME NEW o \in Orders, Transaction(o) PROVE Again' <= rebalances'
  <2>1. /\ inflight.stage = "fetched" /\ inflight'.stage = "processed"
        /\ UNCHANGED <<joined, committed, rebalances>>
    BY <1>6, TransactionEffect DEF TypeOK, group, faults
  <2>2. QED
    BY <2>1
<1>7. CASE (\E o \in Orders : createSaga(o) \/ Emit(o) \/ Reemit(o)) \/ UNCHANGED vars
  <2>1. UNCHANGED <<joined, committed, inflight, rebalances>>
    BY <1>7 DEF createSaga, Emit, Reemit, vars, group, faults
  <2>2. QED
    BY <2>1
<1>8. QED
  BY <1>2, <1>3, <1>4, <1>5, <1>6, <1>7 DEF Next

LEMMA GroupCharges ==
  ASSUME TypeOK, TypeOK', ChargesInv, Again' <= rebalances', NEW o \in Orders,
         \/ Join \/ Fetch \/ (\E x \in Orders : Refused(x))
         \/ TransientError \/ Commit \/ CommitError \/ Rebalance \/ Crash
         \/ UNCHANGED vars
  PROVE  ChargeInv(o)'
<1>1. Again <= rebalances /\ ChargeInv(o)
  BY DEF ChargesInv
<1>2. UNCHANGED <<versions, tables, feed, reemits>> /\ topic' = topic
  BY DEF Join, Fetch, Refused, TransientError, Commit, CommitError, Rebalance, Crash, vars,
         feed, faults
<1>3. Again' \in {0, 1} /\ Again \in {0, 1} /\ Again' \in Nat /\ Again \in Nat
  BY DEF Again
<1>4. rebalances' \in Nat /\ rebalances \in Nat
  BY BoundsAssumption DEF TypeOK
<1>5. PayOffsets(o)' = PayOffsets(o)
  BY <1>2 DEF PayOffsets
<1>6. Cardinality(PayAhead(o)) \in Nat /\ IsFiniteSet(PayAhead(o)) /\ InHand(o) \in {0, 1}
  BY CountsTyping
<1>7. CASE /\ rebalances - Again <= rebalances' - Again'
           /\ position' = position /\ InHand(o)' <= InHand(o)
  <2>1. PayAhead(o)' = PayAhead(o)
    BY <1>5, <1>7 DEF PayAhead
  <2>2. InHand(o)' \in {0, 1}
    BY DEF InHand
  <2>3. InHand(o)' + Cardinality(PayAhead(o)') <= InHand(o) + Cardinality(PayAhead(o))
    BY <1>6, <1>7, <2>1, <2>2
  <2>4. QED
    BY <1>1, <1>2, <1>3, <1>4, <1>7, <2>3, ConsumerCharges
<1>8. CASE (\E x \in Orders : Refused(x)) \/ TransientError \/ Commit \/ CommitError
  <2>1. /\ inflight.stage # "idle" /\ inflight'.stage = "idle"
        /\ UNCHANGED <<joined, position, rebalances>>
    BY <1>8 DEF Refused, Handling, TransientError, Commit, CommitError, Idle, group, faults
  <2>2. InHand(o)' = 0
    BY <2>1 DEF InHand
  <2>3. Again' <= Again
    BY <2>1 DEF Again
  <2>4. rebalances - Again <= rebalances' - Again'
    BY <1>3, <1>4, <2>1, <2>3, NoLess
  <2>5. QED
    BY <1>6, <1>7, <2>1, <2>2, <2>4
<1>9. CASE Rebalance
  <2>1. rebalances' = rebalances + 1 /\ Again = 0 /\ UNCHANGED <<position, inflight>>
    BY <1>9 DEF Rebalance, Again
  <2>2. InHand(o)' = InHand(o)
    BY <1>5, <2>1 DEF InHand
  <2>3. rebalances - Again <= rebalances' - Again'
    BY <1>3, <1>4, <2>1, NoLess
  <2>4. QED
    BY <1>6, <1>7, <2>1, <2>2, <2>3
<1>10. CASE Crash
  <2>1. rebalances' = rebalances /\ position' = position /\ Again' = 0 /\ InHand(o)' = 0
    BY <1>10 DEF Crash, Again, InHand, Idle
  <2>2. rebalances - Again <= rebalances' - Again'
    BY <1>3, <1>4, <2>1
  <2>3. QED
    BY <1>6, <1>7, <2>1, <2>2
<1>11. CASE Join
  <2>1. ~joined /\ joined' /\ inflight' = inflight /\ rebalances' = rebalances
    BY <1>11 DEF Join, faults
  <2>2. Again' = 0 /\ InHand(o)' = InHand(o)
    BY <1>5, <2>1 DEF Again, InHand
  <2>3. CASE committed = 0
    <3>1. position' = Len(topic)
      BY <1>11, <2>3 DEF Join
    <3>2. PayAhead(o)' = {}
      <4>1. PayOffsets(o)' \subseteq 1..Len(topic) /\ Len(topic) \in Nat
        <5>1. PayOffsets(o) \subseteq 1..Len(topic)
          BY DEF PayOffsets
        <5>2. Len(topic) \in Nat
          BY DEF TypeOK
        <5>3. QED
          BY <1>5, <5>1, <5>2
      <4>2. \A i \in PayOffsets(o)' : ~(i > Len(topic))
        BY <4>1
      <4>3. QED
        BY <3>1, <4>2 DEF PayAhead
    <3>3. Cardinality(PayAhead(o)') = 0
      BY <3>2, FS_EmptySet
    <3>4. InHand(o)' + Cardinality(PayAhead(o)') <= InHand(o) + Cardinality(PayAhead(o))
      BY <1>6, <2>2, <3>3
    <3>5. rebalances - Again <= rebalances' - Again'
      BY <1>3, <1>4, <2>1, <2>2
    <3>6. QED
      BY <1>1, <1>2, <1>3, <1>4, <3>4, <3>5, ConsumerCharges
  <2>4. CASE committed # 0
    <3>1. Again = 1
      BY <2>1, <2>4 DEF Again
    <3>2. InHand(o)' <= InHand(o)
      BY <1>6, <2>2
    <3>3. QED
      BY <1>1, <1>2, <1>3, <1>4, <2>1, <2>2, <3>1, <3>2, ConsumerCharges
  <2>5. QED
    BY <2>3, <2>4
<1>12. CASE Fetch
  <2>1. /\ joined /\ inflight = Idle /\ position' = position + 1 /\ position \in Nat
        /\ UNCHANGED <<joined, rebalances>>
        /\ inflight' \in {Idle, [stage |-> "fetched", offset |-> position + 1]}
    BY <1>12 DEF Fetch, faults, TypeOK
  <2>2. Again = 0 /\ Again' = 0 /\ InHand(o) = 0
    BY <2>1 DEF Again, InHand, Idle
  <2>3. PayAhead(o)' = PayAhead(o) \ {position + 1}
    BY <1>5, <2>1 DEF PayAhead, PayOffsets
  <2>4. Cardinality(PayAhead(o)') =
          IF position + 1 \in PayAhead(o) THEN Cardinality(PayAhead(o)) - 1
          ELSE Cardinality(PayAhead(o))
    BY <1>6, <2>3, FS_RemoveElement
  <2>5. InHand(o)' = 0 \/ (InHand(o)' = 1 /\ position + 1 \in PayAhead(o))
    BY <1>5, <2>1 DEF InHand, PayAhead, PayOffsets, Idle
  <2>6. InHand(o)' + Cardinality(PayAhead(o)') <= InHand(o) + Cardinality(PayAhead(o))
    BY <1>6, <2>2, <2>4, <2>5
  <2>7. rebalances - Again <= rebalances' - Again'
    BY <1>4, <2>1, <2>2
  <2>8. QED
    BY <1>1, <1>2, <1>3, <1>4, <2>6, <2>7, ConsumerCharges
<1>13. CASE UNCHANGED vars
  <2>1. UNCHANGED <<rebalances, position, inflight, joined, committed>>
    BY <1>13 DEF vars, group, faults
  <2>2. InHand(o)' = InHand(o) /\ Again' = Again
    BY <1>5, <2>1 DEF InHand, Again
  <2>3. QED
    BY <1>3, <1>4, <1>6, <1>7, <2>1, <2>2
<1>14. QED
  BY <1>8, <1>9, <1>10, <1>11, <1>12, <1>13

\* A version more of an order's row: the messages on the topic stay what they are.
LEMMA VersionAdded ==
  ASSUME TypeOK, NEW x \in Orders, NEW next \in Rows,
         versions' = [versions EXCEPT ![x] = Append(@, next)], UNCHANGED feed,
         NEW o \in Orders
  PROVE  /\ PayOffsets(o)' = PayOffsets(o)
         /\ Passed(o)' <=> Passed(o)
         /\ o # x \/ next # PayRow => PayVersions(o)' = PayVersions(o)
         /\ PayVersions(o)' \subseteq PayVersions(o) \cup {Len(versions[o]) + 1}
<1>1. versions[o] \in Seq(Rows) /\ Len(versions[o]) \in Nat
  BY DEF TypeOK
<1>2. \A k \in 1..Len(versions[o]) : versions'[o][k] = versions[o][k]
  BY <1>1 DEF TypeOK
<1>3. CASE o # x
  <2>1. versions'[o] = versions[o]
    BY <1>3 DEF TypeOK
  <2>2. PayVersions(o)' = PayVersions(o)
    BY <2>1 DEF PayVersions
  <2>3. PayOffsets(o)' = PayOffsets(o)
    BY <2>1 DEF PayOffsets, feed
  <2>4. QED
    BY <2>2, <2>3 DEF Passed, feed
<1>4. CASE o = x
  <2>1. /\ Len(versions'[o]) = Len(versions[o]) + 1
        /\ versions'[o][Len(versions[o]) + 1] = next
    BY <1>1, <1>4 DEF TypeOK
  <2>2. PayVersions(o)' =
          PayVersions(o) \cup (IF next = PayRow THEN {Len(versions[o]) + 1} ELSE {})
    BY <1>1, <1>2, <2>1 DEF PayVersions
  <2>3. PayOffsets(o)' = PayOffsets(o)
    <3>1. \A i \in 1..Len(topic) : topic[i].order = o =>
            versions'[o][topic[i].version] = versions[o][topic[i].version]
      BY <1>2, TopicEntry
    <3>2. QED
      BY <3>1 DEF PayOffsets, feed
  <2>4. emitted' = emitted /\ emitted[o] \in Nat /\ emitted[o] <= Len(versions[o])
    BY DEF feed, TypeOK
  <2>5. Passed(o)' <=> Passed(o)
    BY <1>1, <2>2, <2>4 DEF Passed
  <2>6. next # PayRow => PayVersions(o)' = PayVersions(o)
    BY <2>2
  <2>7. PayVersions(o)' \subseteq PayVersions(o) \cup {Len(versions[o]) + 1}
    BY <2>2
  <2>8. QED
    BY <1>4, <2>3, <2>5, <2>6, <2>7, Zenon
<1>5. QED
  BY <1>3, <1>4

\* A step that leaves what is ahead alone, and charges for no more than it had
\* in hand.
LEMMA ChargeMoved ==
  ASSUME TypeOK, NEW o \in Orders, ChargeInv(o), PayOffsets(o)' = PayOffsets(o),
         position' = position, rebalances' = rebalances, Again' = Again,
         Charges(o)' + InHand(o)' <= Charges(o) + InHand(o), Charges(o)' \in Nat
  PROVE  Charges(o)' + InHand(o)' + Cardinality(PayAhead(o)') <=
           Cardinality(PayOffsets(o)') * (1 + rebalances' - Again')
<1>1. PayAhead(o)' = PayAhead(o)
  BY DEF PayAhead
<1>2. PICK b \in Int : b = Cardinality(PayOffsets(o)) * (1 + rebalances - Again)
  <2>1. 1 + rebalances - Again \in Nat
    BY CountsTyping, OneMore
  <2>2. Cardinality(PayOffsets(o)) * (1 + rebalances - Again) \in Nat
    BY <2>1, CountsTyping
  <2>3. QED
    BY <2>2
<1>3. Charges(o) + InHand(o) + Cardinality(PayAhead(o)) <= b
  BY <1>2, Zenon DEF ChargeInv
<1>4. InHand(o)' \in Nat /\ InHand(o) \in Nat
  BY DEF InHand
<1>5. Charges(o)' + InHand(o)' + Cardinality(PayAhead(o)') <= b
  BY <1>1, <1>3, <1>4, CountsTyping
<1>6. Cardinality(PayOffsets(o)') * (1 + rebalances' - Again') = b
  BY <1>2, Zenon
<1>7. QED
  BY <1>5, <1>6

LEMMA CreateCharges ==
  ASSUME TypeOK, ChargesInv, NEW x \in Orders, createSaga(x), NEW o \in Orders
  PROVE  ChargeInv(o)'
<1> DEFINE first == [step |-> "order", status |-> "in_progress"]
<1>1. first \in Rows /\ first # PayRow
  BY DEF Rows, Steps, Statuses, PayRow
<1>2. versions[x] = <<>> /\ UNCHANGED <<request, tables, feed, group, inflight, faults>>
  BY DEF createSaga, Created
<1>3. versions' = [versions EXCEPT ![x] = Append(@, first)]
  BY <1>2 DEF createSaga
<1> HIDE DEF first
<1>4. /\ PayOffsets(o)' = PayOffsets(o) /\ (Passed(o)' <=> Passed(o))
      /\ PayVersions(o)' = PayVersions(o)
  BY <1>1, <1>2, <1>3, VersionAdded
<1>5. ChargeInv(o)
  BY DEF ChargesInv
<1>6. UNCHANGED <<orders, payments, position, joined, committed, inflight,
                  rebalances, reemits>>
  BY <1>2 DEF tables, group, faults
<1>7. InHand(o)' = InHand(o) /\ Charges(o)' = Charges(o) /\ Again' = Again
  BY <1>4, <1>6 DEF InHand, Charges, Again
<1>8. Charges(o) \in Nat /\ InHand(o) \in Nat
  BY CountsTyping DEF InHand
<1>9. Charges(o)' + InHand(o)' + Cardinality(PayAhead(o)') <=
        Cardinality(PayOffsets(o)') * (1 + rebalances' - Again')
  BY <1>4, <1>5, <1>6, <1>7, <1>8, ChargeMoved
<1>10. QED
  BY <1>4, <1>5, <1>6, <1>9, Zenon DEF ChargeInv

\* A transaction charges for the payment message in hand, or not at all; the row
\* comes to payment once, with the order's row, whose key is unique.
LEMMA TransactionCharges ==
  ASSUME TypeOK, TypeOK', ChargesInv, NEW x \in Orders, Transaction(x), NEW o \in Orders
  PROVE  ChargeInv(o)'
<1>1. /\ inflight.stage = "fetched" /\ Message.order = x
      /\ inflight' = [inflight EXCEPT !.stage = "processed"]
      /\ UNCHANGED <<feed, group, faults>>
  BY TransactionEffect
<1>2. ChargeInv(o)
  BY DEF ChargesInv
<1>3. UNCHANGED <<emitted, topic, position, joined, committed, rebalances, reemits>>
  BY <1>1 DEF feed, group, faults
<1>4. inflight.stage # "idle" /\ inflight'.stage = "processed"
  BY <1>1 DEF TypeOK
<1>5. Again' = Again /\ InHand(o)' = 0
  BY <1>3, <1>4 DEF Again, InHand
<1>6. PICK next \in Rows : versions' = [versions EXCEPT ![x] = Append(@, next)]
  BY TransactionEffect
<1>7. PayOffsets(o)' = PayOffsets(o) /\ (Passed(o)' <=> Passed(o))
  BY <1>1, <1>6, VersionAdded
<1>8. Charges(o) \in Nat /\ Charges(o)' \in Nat /\ InHand(o) \in {0, 1} /\ InHand(o) \in Nat
  <2>1. Charges(o)' \in Nat
    <3>1. TablesTypeOK'
      BY DEF TypeOK
    <3>2. payments'[o] \in [preauth: Nat, cancelled: Nat]
      BY <3>1 DEF TablesTypeOK
    <3>3. QED
      BY <3>2 DEF Charges
  <2>2. QED
    BY <2>1, CountsTyping DEF InHand
<1>9. Charges(o)' <= Charges(o) + InHand(o)
  <2>1. /\ payments \in [Orders -> [preauth: Nat, cancelled: Nat]]
        /\ payments[o] \in [preauth: Nat, cancelled: Nat]
    <3>1. TablesTypeOK
      BY DEF TypeOK
    <3>2. payments \in [Orders -> [preauth: Nat, cancelled: Nat]]
      BY <3>1 DEF TablesTypeOK
    <3>3. QED
      BY <3>2
  <2>2. CASE o = x /\ createPayment(x)
    <3>1. inflight.offset \in 1..Len(topic)
      <4>1. inflight.offset \in 0..Len(topic) /\ inflight.offset # 0 /\ Len(topic) \in Nat
        BY <1>4 DEF TypeOK
      <4>2. QED
        BY <4>1
    <3>2. /\ topic[inflight.offset].order = x
          /\ topic[inflight.offset].version \in 1..Len(versions[x])
      BY <1>1, <3>1, TopicEntry DEF Message
    <3>3. Payload(Message) = versions[x][topic[inflight.offset].version]
      BY <1>1 DEF Payload, Message
    <3>4. Payload(Message) \in Rows /\ process(x, Payload(Message)) = "createPayment"
      <4>1. versions[x] \in Seq(Rows)
        BY DEF TypeOK
      <4>2. Payload(Message) \in Rows
        BY <3>2, <3>3, <4>1
      <4>3. process(x, Payload(Message)) = "createPayment"
        BY <2>2 DEF createPayment, Executes, Handling
      <4>4. QED
        BY <4>2, <4>3
    <3>5. Payload(Message) = PayRow
      <4>1. Payload(Message).step = "payment" /\ Payload(Message).status = "in_progress"
        BY <3>4, Dispatch
      <4>2. QED
        BY <3>4, <4>1 DEF Rows, PayRow
    <3>6. InHand(o) = 1
      BY <1>1, <2>2, <3>1, <3>2, <3>3, <3>5 DEF InHand, PayOffsets
    <3>7. payments'[o] = [preauth |-> payments[o].preauth + 1, cancelled |-> payments[o].cancelled]
      BY <2>1, <2>2 DEF createPayment, InsertPayment
    <3>8. Charges(o)' = Charges(o) + 1
      BY <2>1, <3>7 DEF Charges
    <3>9. QED
      BY <1>8, <3>6, <3>8
  <2>3. CASE o = x /\ cancelPayment(x)
    <3>1. payments'[o] = [preauth |-> 0, cancelled |-> payments[o].preauth + payments[o].cancelled]
      BY <2>1, <2>3 DEF cancelPayment, UpdatePaymentsCancelled
    <3>2. Charges(o)' = Charges(o)
      BY <2>1, <3>1 DEF Charges
    <3>3. QED
      BY <1>8, <3>2
  <2>4. CASE o # x \/ ~(createPayment(x) \/ cancelPayment(x))
    <3>1. payments'[o] = payments[o]
      <4>1. CASE o # x
        BY <4>1, OthersKept
      <4>2. CASE ~(createPayment(x) \/ cancelPayment(x))
        BY <4>2 DEF Transaction, cancelSaga, createOrder, cancelOrder, createReservation,
           cancelReservation, createShipment, tables, InsertOrder, UpdateOrderCancelled,
           InsertReservations, DeleteReservations, InsertShipment
      <4>3. QED
        BY <2>4, <4>1, <4>2
    <3>2. Charges(o)' = Charges(o)
      BY <3>1 DEF Charges
    <3>3. QED
      BY <1>8, <3>2
  <2>5. QED
    BY <2>2, <2>3, <2>4
<1>10. Charges(o)' + InHand(o)' + Cardinality(PayAhead(o)') <=
         Cardinality(PayOffsets(o)') * (1 + rebalances' - Again')
  <2>1. Charges(o)' + InHand(o)' <= Charges(o) + InHand(o)
    BY <1>5, <1>8, <1>9
  <2>2. QED
    BY <1>2, <1>3, <1>5, <1>7, <1>8, <2>1, ChargeMoved
<1>11. /\ \A j, k \in PayVersions(o)' : j = k
       /\ PayVersions(o)' # {} => orders'[o] # "none"
  <2>1. orders \in [Orders -> {"none", "in_progress", "cancelled"}]
    BY DEF TypeOK, TablesTypeOK
  <2>2. CASE o = x /\ createOrder(x)
    <3>1. orders[o] = "none" /\ orders'[o] = "in_progress"
      BY <2>1, <2>2 DEF createOrder, InsertOrder, InsertOrderRefused
    <3>2. PayVersions(o) = {}
      BY <1>2, <3>1 DEF ChargeInv
    <3>3. PayVersions(o)' \subseteq {Len(versions[o]) + 1}
      BY <1>1, <1>6, <3>2, VersionAdded
    <3>4. QED
      BY <3>1, <3>3
  <2>3. CASE o # x \/ ~createOrder(x)
    <3>1. PayVersions(o)' = PayVersions(o)
      <4>1. CASE o # x
        BY <1>1, <1>6, <4>1, VersionAdded
      <4>2. CASE ~createOrder(x)
        <5>1. PICK other \in Rows :
                other # PayRow /\ versions' = [versions EXCEPT ![x] = Append(@, other)]
          BY <4>2 DEF Transaction, cancelSaga, cancelOrder, createPayment, cancelPayment,
             createReservation, cancelReservation, createShipment, updateSaga, Rows, Steps,
             Statuses, PayRow
        <5>2. QED
          BY <1>1, <5>1, VersionAdded
      <4>3. QED
        BY <2>3, <4>1, <4>2
    <3>2. orders[o] # "none" => orders'[o] # "none"
      BY <2>1 DEF Transaction, cancelSaga, createOrder, cancelOrder, createPayment, cancelPayment,
         createReservation, cancelReservation, createShipment, tables, InsertOrder,
         UpdateOrderCancelled, InsertPayment, UpdatePaymentsCancelled, InsertReservations,
         DeleteReservations, InsertShipment
    <3>3. QED
      BY <1>2, <3>1, <3>2 DEF ChargeInv
  <2>4. QED
    BY <2>2, <2>3
<1>12. Cardinality(PayOffsets(o)') <= reemits' + (IF Passed(o)' THEN 1 ELSE 0)
  BY <1>2, <1>3, <1>7, Zenon DEF ChargeInv
<1>13. QED
  BY <1>10, <1>11, <1>12 DEF ChargeInv

\* A message more that charges an order is emitted once, and once more for each
\* time the changefeed went back; it may be handled once, and once more for each
\* rebalance still to be used.
LEMMA EmitCharges ==
  ASSUME TypeOK, ChargesInv, NEW x \in Orders, Emit(x), NEW o \in Orders
  PROVE  ChargeInv(o)'
<1>1. ChargeInv(o) /\ Again <= rebalances
  BY DEF ChargesInv
<1>2. /\ UNCHANGED <<versions, orders, payments, position, joined, committed, inflight,
                     rebalances, reemits>>
      /\ topic' = Append(topic, [order |-> x, version |-> emitted[x] + 1])
      /\ emitted' = [emitted EXCEPT ![x] = @ + 1]
      /\ emitted[x] < Len(versions[x])
  BY DEF Emit, tables, group, faults
<1>3. /\ topic \in Seq(Messages) /\ Len(topic) \in Nat /\ emitted \in [Orders -> Nat]
      /\ Len(versions[x]) \in Nat /\ position \in 0..Len(topic)
      /\ inflight.offset \in 0..Len(topic)
  BY DEF TypeOK
<1>4. /\ Len(topic') = Len(topic) + 1
      /\ topic'[Len(topic) + 1] = [order |-> x, version |-> emitted[x] + 1]
      /\ \A i \in 1..Len(topic) : topic'[i] = topic[i]
  BY <1>2, <1>3
<1>5. PayVersions(o)' = PayVersions(o)
  BY <1>2 DEF PayVersions
<1>6. Passed(o) => Passed(o)'
  BY <1>2, <1>3, <1>5 DEF Passed, PayVersions
<1>7. Charges(o)' = Charges(o) /\ Again' = Again
  BY <1>2 DEF Charges, Again
<1>8. PICK charging \in BOOLEAN :
        charging <=> (o = x /\ versions[o][emitted[o] + 1] = PayRow)
  OBVIOUS
<1>9. PayOffsets(o)' = PayOffsets(o) \cup (IF charging THEN {Len(topic) + 1} ELSE {})
  <2>1. 1..Len(topic') = 1..Len(topic) \cup {Len(topic) + 1}
    BY <1>3, <1>4
  <2>2. \A i \in 1..Len(topic') :
          i \in PayOffsets(o)' <=>
            topic'[i].order = o /\ versions[o][topic'[i].version] = PayRow
    BY <1>2 DEF PayOffsets
  <2>3. \A i \in 1..Len(topic) : i \in PayOffsets(o)' <=> i \in PayOffsets(o)
    BY <1>4, <2>1, <2>2 DEF PayOffsets
  <2>4. Len(topic) + 1 \in PayOffsets(o)' <=> charging
    BY <1>4, <1>8, <2>1, <2>2
  <2>5. PayOffsets(o)' \subseteq 1..Len(topic') /\ PayOffsets(o) \subseteq 1..Len(topic)
    BY DEF PayOffsets
  <2>6. QED
    BY <2>1, <2>3, <2>4, <2>5
<1>10. Len(topic) + 1 \notin PayOffsets(o)
  BY <1>3 DEF PayOffsets
<1>11. InHand(o)' = InHand(o)
  <2>1. inflight.offset # Len(topic) + 1
    BY <1>3
  <2>2. inflight.offset \in PayOffsets(o)' <=> inflight.offset \in PayOffsets(o)
    BY <1>9, <2>1
  <2>3. QED
    BY <1>2, <2>2 DEF InHand
<1>12. Charges(o) \in Nat /\ InHand(o) \in Nat
  BY CountsTyping DEF InHand
<1>13. CASE ~charging
  <2>1. PayOffsets(o)' = PayOffsets(o)
    BY <1>9, <1>13
  <2>2. Charges(o)' + InHand(o)' + Cardinality(PayAhead(o)') <=
          Cardinality(PayOffsets(o)') * (1 + rebalances' - Again')
    BY <1>1, <1>2, <1>7, <1>11, <1>12, <2>1, ChargeMoved
  <2>3. Cardinality(PayOffsets(o)') <= reemits' + (IF Passed(o)' THEN 1 ELSE 0)
    <3>1. PICK q \in Nat : q = Cardinality(PayOffsets(o))
      BY CountsTyping
    <3>2. q <= reemits + (IF Passed(o) THEN 1 ELSE 0)
      BY <1>1, <3>1, Zenon DEF ChargeInv
    <3>3. q <= reemits + (IF Passed(o)' THEN 1 ELSE 0)
      BY <1>6, <3>2, CountsTyping
    <3>4. QED
      BY <1>2, <2>1, <3>1, <3>3
  <2>4. QED
    BY <1>1, <1>2, <1>5, <2>2, <2>3 DEF ChargeInv
<1>14. CASE charging
  <2>1. PayOffsets(o)' = PayOffsets(o) \cup {Len(topic) + 1}
    BY <1>9, <1>14
  <2>2. PICK q \in Nat : q = Cardinality(PayOffsets(o))
    BY CountsTyping
  <2>3. Cardinality(PayOffsets(o)') = q + 1
    BY <1>10, <2>1, <2>2, CountsTyping, FS_AddElement
  <2>4. ~Passed(o) /\ Passed(o)'
    <3>1. emitted[o] + 1 \in PayVersions(o)
      BY <1>2, <1>3, <1>8, <1>14 DEF PayVersions
    <3>2. \A k \in PayVersions(o) : k = emitted[o] + 1
      BY <1>1, <3>1 DEF ChargeInv
    <3>3. emitted'[o] = emitted[o] + 1 /\ emitted[o] \in Nat
      BY <1>2, <1>3, <1>8, <1>14
    <3>4. ~(emitted[o] + 1 <= emitted[o])
      BY <3>3
    <3>5. ~Passed(o)
      BY <3>2, <3>4 DEF Passed
    <3>6. emitted[o] + 1 <= emitted'[o]
      BY <3>3
    <3>7. \E k \in PayVersions(o)' : k <= emitted'[o]
      BY <1>5, <3>1, <3>6, Zenon
    <3>8. QED
      BY <3>5, <3>7 DEF Passed
  <2>5. q <= reemits
    <3>1. q <= reemits + 0
      BY <1>1, <2>2, <2>4 DEF ChargeInv
    <3>2. QED
      BY <3>1, CountsTyping
  <2>6. PayAhead(o)' = PayAhead(o) \cup {Len(topic) + 1}
    <3>1. Len(topic) + 1 > position
      BY <1>3
    <3>2. QED
      BY <1>2, <2>1, <3>1 DEF PayAhead
  <2>7. PICK a \in Nat : a = Cardinality(PayAhead(o))
    BY CountsTyping
  <2>8. Cardinality(PayAhead(o)') = a + 1
    <3>1. Len(topic) + 1 \notin PayAhead(o)
      BY <1>10 DEF PayAhead
    <3>2. QED
      BY <2>6, <2>7, <3>1, CountsTyping, FS_AddElement
  <2>9. PICK t \in Nat : t = 1 + rebalances - Again
    BY CountsTyping, OneMore
  <2>10. 1 <= t
    <3>1. PICK g \in Nat : g = Again
      BY CountsTyping
    <3>2. QED
      BY <1>1, <2>9, <3>1, CountsTyping
  <2>11. Charges(o) + InHand(o) + a <= q * t
    BY <1>1, <2>2, <2>7, <2>9, Zenon DEF ChargeInv
  <2>12. (q + 1) * t = q * t + t /\ q * t \in Nat
    OBVIOUS
  <2>13. Charges(o) + InHand(o) + (a + 1) <= (q + 1) * t
    BY <1>12, <2>10, <2>11, <2>12
  <2>14. Charges(o)' + InHand(o)' + Cardinality(PayAhead(o)') <=
           Cardinality(PayOffsets(o)') * (1 + rebalances' - Again')
    BY <1>2, <1>7, <1>11, <2>3, <2>8, <2>9, <2>13, Zenon
  <2>15. Cardinality(PayOffsets(o)') <= reemits' + (IF Passed(o)' THEN 1 ELSE 0)
    BY <1>2, <2>3, <2>4, <2>5, CountsTyping
  <2>16. QED
    BY <1>1, <1>2, <1>5, <2>14, <2>15 DEF ChargeInv
<1>15. QED
  BY <1>13, <1>14

\* The changefeed goes back: what it will emit again is paid for.
LEMMA ReemitCharges ==
  ASSUME TypeOK, ChargesInv, NEW x \in Orders, Reemit(x), NEW o \in Orders
  PROVE  ChargeInv(o)'
<1>1. ChargeInv(o)
  BY DEF ChargesInv
<1>2. /\ UNCHANGED <<versions, orders, payments, topic, position, joined, committed,
                     inflight, rebalances>>
      /\ reemits' = reemits + 1
  BY DEF Reemit, tables, group
<1>3. /\ PayVersions(o)' = PayVersions(o) /\ PayOffsets(o)' = PayOffsets(o)
      /\ PayAhead(o)' = PayAhead(o) /\ InHand(o)' = InHand(o)
      /\ Charges(o)' = Charges(o) /\ Again' = Again
  BY <1>2 DEF PayVersions, PayOffsets, PayAhead, InHand, Charges, Again
<1>4. Cardinality(PayOffsets(o)') <= reemits' + (IF Passed(o)' THEN 1 ELSE 0)
  <2>1. Cardinality(PayOffsets(o)) <= reemits + 1
    <3>1. PICK q \in Nat : q = Cardinality(PayOffsets(o))
      BY CountsTyping
    <3>2. q <= reemits + (IF Passed(o) THEN 1 ELSE 0)
      BY <1>1, <3>1, Zenon DEF ChargeInv
    <3>3. q <= reemits + 1
      BY <3>2, CountsTyping
    <3>4. QED
      BY <3>1, <3>3
  <2>2. QED
    BY <1>2, <1>3, <2>1, CountsTyping
<1>5. Charges(o)' + InHand(o)' + Cardinality(PayAhead(o)') <=
        Cardinality(PayOffsets(o)') * (1 + rebalances' - Again')
  BY <1>1, <1>2, <1>3, Zenon DEF ChargeInv
<1>6. QED
  BY <1>1, <1>2, <1>3, <1>4, <1>5 DEF ChargeInv

LEMMA ChargesStep ==
  ASSUME TypeOK, TypeOK', ChargesInv, [Next]_vars
  PROVE  ChargesInv'
<1>1. Again' <= rebalances'
  BY AgainStep DEF ChargesInv
<1>2. ASSUME NEW o \in Orders PROVE ChargeInv(o)'
  <2>1. CASE \E x \in Orders : createSaga(x)
    BY <2>1, CreateCharges
  <2>2. CASE \E x \in Orders : Emit(x)
    BY <2>2, EmitCharges
  <2>3. CASE \E x \in Orders : Reemit(x)
    BY <2>3, ReemitCharges
  <2>4. CASE \E x \in Orders : Transaction(x)
    BY <2>4, TransactionCharges
  <2>5. CASE \/ Join \/ Fetch \/ (\E x \in Orders : Refused(x))
             \/ TransientError \/ Commit \/ CommitError \/ Rebalance \/ Crash
             \/ UNCHANGED vars
    BY <1>1, <2>5, GroupCharges
  <2>6. QED
    BY <2>1, <2>2, <2>3, <2>4, <2>5 DEF Next
<1>3. QED
  BY <1>1, <1>2 DEF ChargesInv

\* However often the changefeed goes back and the group rebalances, and however
\* these meet, an order is charged at most once for each copy of its payment
\* message and each reading of the copy.
THEOREM Bounded == Spec => []ChargesBounded
<1>1. TypeOK /\ TypeOK' /\ ChargesInv /\ [Next]_vars => ChargesInv'
  BY ChargesStep
<1>2. TypeOK /\ ChargesInv => ChargesBounded
  <2> SUFFICES ASSUME TypeOK, ChargesInv, NEW o \in Orders
               PROVE  Charges(o) <= (1 + reemits) * (1 + rebalances)
    BY DEF ChargesBounded, Charges
  <2>1. PICK q \in Nat : q = Cardinality(PayOffsets(o))
    BY CountsTyping
  <2>2. PICK t \in Nat : t = 1 + rebalances - Again
    BY CountsTyping, OneMore
  <2>3. q <= reemits + (IF Passed(o) THEN 1 ELSE 0)
    BY <2>1, Zenon DEF ChargesInv, ChargeInv
  <2>4. q <= 1 + reemits
    BY <2>3, CountsTyping
  <2>5. Charges(o) + InHand(o) + Cardinality(PayAhead(o)) <= q * t
    BY <2>1, <2>2, Zenon DEF ChargesInv, ChargeInv
  <2>6. InHand(o) \in Nat
    BY DEF InHand
  <2>7. q * t \in Nat
    OBVIOUS
  <2>8. Charges(o) <= q * t
    BY <2>5, <2>6, <2>7, CountsTyping
  <2>9. t <= 1 + rebalances
    <3>1. Again \in Nat
      BY DEF Again
    <3>2. QED
      BY <2>2, <3>1, CountsTyping
  <2>10. PICK u \in Nat : u = 1 + rebalances
    BY CountsTyping
  <2>11. PICK p \in Nat : p = 1 + reemits
    BY CountsTyping
  <2>12. q * t <= q * u /\ q * u \in Nat
    BY <2>9, <2>10, MoreTimes
  <2>13. u * q <= u * p /\ u * q = q * u /\ u * p = p * u /\ p * u \in Nat
    BY <2>4, <2>11, MoreTimes
  <2>14. Charges(o) <= p * u
    BY <2>7, <2>8, <2>12, <2>13, CountsTyping
  <2>15. QED
    BY <2>10, <2>11, <2>14
<1>3. QED
  BY <1>1, <1>2, ChargesInit, Typing, PTL DEF Spec

-----------------------------------------------------------------------------
(* Sagas that come to a halt on their way, without redelivery *)

\* Before the one reader joins nothing is handled; from then on its place is the
\* place of the message in hand.  No version is on the topic twice, and only an
\* order whose saga is at its start is without a row.
HaltInv ==
  /\ ~joined /\ crashes = 0 => position = 0 /\ \A o \in Orders : Len(versions[o]) \in {0, 1}
  /\ inflight.stage # "idle" => inflight.offset = position
  /\ \A i \in 1..Len(topic) : topic[i].version <= emitted[topic[i].order]
  /\ \A i, j \in 1..Len(topic) : topic[i] = topic[j] => i = j
  /\ \A o \in Orders :
       ~Created(o) \/ Row(o) = row("order", "in_progress") => orders[o] = "none"

LEMMA HaltInit == Init => HaltInv
  BY DEF Init, TablesInit, HaltInv, Created, Idle

LEMMA HaltTransaction ==
  ASSUME TypeOK, OnceInv, TellInv, HaltInv, NEW o \in Orders, Transaction(o)
  PROVE  HaltInv'
<1>1. /\ inflight.stage = "fetched" /\ Message.order = o
      /\ inflight' = [inflight EXCEPT !.stage = "processed"]
      /\ UNCHANGED <<request, emitted, topic, joined, position, committed, crashes>>
  BY TransactionEffect DEF feed, group, faults
<1>2. joined
  BY <1>1 DEF OnceInv
<1>3. inflight'.offset = inflight.offset
  BY <1>1 DEF TypeOK
<1>4. \A x \in Orders \ {o} : versions'[x] = versions[x] /\ orders'[x] = orders[x]
  BY TransactionEffect, OthersKept DEF TypeOK
<1>5. Created(o)' /\ Row(o)' # row("order", "in_progress")
  <2>1. PICK step \in Steps, status \in Statuses :
          updateSaga(o, step, status) /\ row(step, status) # row("order", "in_progress")
    BY DEF Transaction, cancelSaga, createOrder, cancelOrder, createPayment, cancelPayment,
           createReservation, cancelReservation, createShipment, Steps, Statuses, row
  <2>2. versions'[o] = Append(versions[o], row(step, status)) /\ versions[o] \in Seq(Rows)
    BY <2>1 DEF updateSaga, row, TypeOK
  <2>3. row(step, status) \in Rows
    BY DEF row, Rows
  <2>4. QED
    BY <2>1, <2>2, <2>3 DEF Created, Row
<1>6. \A x \in Orders : ~Created(x)' \/ Row(x)' = row("order", "in_progress") =>
        orders'[x] = "none"
  BY <1>4, <1>5 DEF HaltInv, Created, Row
<1>7. QED
  BY <1>1, <1>2, <1>3, <1>6 DEF HaltInv

LEMMA HaltCreate ==
  ASSUME TypeOK, HaltInv, NEW o \in Orders, createSaga(o)
  PROVE  HaltInv'
<1>1. /\ UNCHANGED <<emitted, topic, joined, position, inflight, crashes, orders>>
      /\ ~Created(o) /\ Len(versions'[o]) = 1
      /\ \A x \in Orders \ {o} : versions'[x] = versions[x]
  BY DEF createSaga, feed, group, faults, tables, TypeOK
<1>2. \A x \in Orders : ~Created(x)' \/ Row(x)' = row("order", "in_progress") =>
        orders'[x] = "none"
  BY <1>1 DEF HaltInv, Created, Row
<1>3. \A x \in Orders : Len(versions[x]) \in {0, 1} => Len(versions'[x]) \in {0, 1}
  BY <1>1
<1>4. QED
  BY <1>1, <1>2, <1>3 DEF HaltInv

LEMMA HaltEmit ==
  ASSUME TypeOK, HaltInv, NEW o \in Orders, Emit(o)
  PROVE  HaltInv'
<1> DEFINE m == [order |-> o, version |-> emitted[o] + 1]
           l == Len(topic)
<1>1. m.order = o /\ m.version = emitted[o] + 1
  OBVIOUS
<1> HIDE DEF m
<1>2. /\ topic' = Append(topic, m) /\ emitted' = [emitted EXCEPT ![o] = @ + 1]
      /\ UNCHANGED <<versions, joined, position, inflight, crashes, orders>>
  BY DEF Emit, group, faults, tables, m
<1>3. /\ Len(topic') = l + 1 /\ l \in Nat /\ topic'[l + 1] = m
      /\ \A i \in 1..l : topic'[i] = topic[i]
  BY <1>2 DEF TypeOK
<1>4. \A x \in Orders : emitted[x] \in Nat /\ emitted'[x] = IF x = o THEN emitted[x] + 1
                                                                    ELSE emitted[x]
  BY <1>2 DEF TypeOK
<1>5. \A i \in 1..Len(topic') : i \in 1..l \/ i = l + 1
  BY <1>3
<1>6. ASSUME NEW i \in 1..l
      PROVE  topic[i] # m /\ topic[i].version <= emitted'[topic[i].order]
  <2>1. /\ topic[i].order \in Orders /\ topic[i].version \in Nat
        /\ topic[i].version <= emitted[topic[i].order]
    BY TopicEntry DEF HaltInv, TypeOK
  <2>2. QED
    BY <1>1, <1>4, <2>1
<1>7. \A i \in 1..Len(topic') : topic'[i].version <= emitted'[topic'[i].order]
  BY <1>1, <1>3, <1>4, <1>5, <1>6
<1>8. \A i, j \in 1..Len(topic') : topic'[i] = topic'[j] => i = j
  BY <1>3, <1>5, <1>6 DEF HaltInv
<1>9. QED
  BY <1>2, <1>7, <1>8 DEF HaltInv, Created, Row

LEMMA HaltStep ==
  ASSUME NoRedelivery, TypeOK, OnceInv, TellInv, HaltInv, [Next]_vars
  PROVE  HaltInv'
<1>1. ~(\E o \in Orders : Reemit(o)) /\ ~Rebalance
  BY DEF NoRedelivery, Reemit, Rebalance, TypeOK
<1>2. ASSUME UNCHANGED <<versions, emitted, topic, orders>>,
             ~joined' /\ crashes' = 0 => ~joined /\ crashes = 0 /\ position' = position,
             inflight'.stage # "idle" => inflight'.offset = position'
      PROVE  HaltInv'
  BY <1>2 DEF HaltInv, Created, Row
<1>3. CASE Join \/ Commit \/ CommitError \/ TransientError \/ \E o \in Orders : Refused(o)
  <2>1. UNCHANGED <<versions, emitted, topic, orders, crashes>> /\ (joined' \/ joined' = joined)
    BY <1>3 DEF Join, Commit, CommitError, TransientError, Refused, tables, feed, group, faults
  <2>2. Join => inflight' = inflight /\ inflight.stage = "idle" /\ joined'
    BY DEF Join, OnceInv
  <2>3. ~Join => inflight'.stage = "idle" /\ position' = position
    BY <1>3 DEF Commit, CommitError, TransientError, Refused, Idle, group
  <2>4. ~Join => joined' = joined
    BY <1>3 DEF Commit, CommitError, TransientError, Refused, group
  <2>5. QED
    BY <1>2, <2>1, <2>2, <2>3, <2>4
<1>4. CASE Fetch
  <2>1. UNCHANGED <<versions, emitted, topic, orders, crashes, joined>> /\ joined
    BY <1>4 DEF Fetch, tables, feed, faults
  <2>2. inflight'.stage # "idle" => inflight'.offset = position'
    BY <1>4 DEF Fetch, Idle
  <2>3. QED
    BY <1>2, <2>1, <2>2
<1>5. CASE Crash
  <2>1. UNCHANGED <<versions, emitted, topic, orders>> /\ crashes' # 0 /\ inflight' = Idle
    BY <1>5 DEF Crash, tables, feed, TypeOK
  <2>2. QED
    BY <1>2, <2>1 DEF Idle
<1>6. CASE UNCHANGED vars
  BY <1>2, <1>6 DEF vars, tables, feed, group, faults, HaltInv
<1>7. QED
  BY <1>1, <1>3, <1>4, <1>5, <1>6, HaltTransaction, HaltCreate, HaltEmit DEF Next

-----------------------------------------------------------------------------
\* The database refuses only what is not servable.
LEMMA RefusedUnservable ==
  ASSUME TypeOK, OnceInv, TellInv, HaltInv, NEW o \in Orders, Refused(o)
  PROVE  inflight.stage = "fetched" /\ Message.order = o /\ ~Servable(o)
<1>1. PICK function \in {"createOrder", "createReservation", "createShipment",
                         "cancelShipment"} :
        Handling(function, o) /\ StatementFails(function, o)
  BY DEF Refused
<1>2. /\ inflight.stage = "fetched" /\ Message.order = o
      /\ process(o, Row(o)) = function /\ Created(o)
      /\ Row(o).status \notin {"cancelled", "finished"}
  BY <1>1, HandlesNewest DEF Handling
<1>3. Tells(o) /\ Row(o) \in SagaRows \ {row("shipment", "finished"), row("order", "cancelled")}
  BY <1>2 DEF TellInv, Tells, SagaRows, row
<1>4. Row(o) \in Rows /\ TablesTypeOK
  BY <1>3 DEF SagaRows, row, Rows, Steps, Statuses, TypeOK
<1>5. CASE function = "createOrder"
  <2>1. Row(o) = row("order", "in_progress")
    BY <1>2, <1>3, <1>4, <1>5, Dispatch DEF SagaRows, row
  <2>2. orders[o] = "none"
    BY <2>1 DEF HaltInv
  <2>3. QED
    BY <1>1, <1>5, <2>2 DEF StatementFails, InsertOrderRefused
<1>6. CASE function = "createReservation"
  <2>1. Row(o) = row("reservation", "in_progress") /\ "reservation" \notin request[o].failures
    BY <1>2, <1>3, <1>4, <1>6, Dispatch DEF SagaRows, row
  <2>2. {"order", "payment", "reservation"} \cap request[o].failures = {}
    BY <1>2, <1>3, <2>1 DEF Tells, row
  <2>3. HeldParts(o, 1, 1, {}, 0)
    BY <1>2, <1>3, <2>1 DEF Tells, row, Held, Claimed, HeldParts
  <2>4. reservations[o] = {} /\ orders[o] # "none"
    BY <2>3 DEF HeldParts, Held
  <2>5. ~distinct(request[o].products)
    BY <1>1, <1>6, <2>4 DEF StatementFails, InsertReservationsRefused
  <2>6. QED
    BY <1>2, <2>2, <2>5 DEF Servable
<1>7. CASE function = "createShipment"
  <2>1. Row(o) = row("shipment", "in_progress")
    BY <1>2, <1>3, <1>4, <1>7, Dispatch DEF SagaRows, row
  <2>2. HeldParts(o, 1, 1, productsOf(o), 0)
    BY <1>2, <1>3, <2>1 DEF Tells, row, Held, Claimed, HeldParts
  <2>3. shipments[o] # "in_progress"
    BY <2>2 DEF HeldParts, Held
  <2>4. shipments[o] = "none"
    BY <1>4, <2>3 DEF TablesTypeOK
  <2>5. QED
    BY <1>1, <1>7, <2>4 DEF StatementFails, InsertShipmentRefused
<1>8. CASE function = "cancelShipment"
  <2>1. Row(o) \in {row("shipment", "cancelling"), row("shipment", "cancelled")}
    BY <1>2, <1>3, <1>4, <1>8
    DEF process, processOrder, processPayment, processReservation, processShipment, SagaRows, row
  <2>2. QED
    BY <1>3, <2>1 DEF SagaRows, row
<1>9. QED
  BY <1>1, <1>2, <1>5, <1>6, <1>7, <1>8

-----------------------------------------------------------------------------
\* Why nothing is to come for the order, but for an error.
Excused(o) ==
  ~Created(o) \/ Settled(o) \/ ~Servable(o) \/ NewestIsAhead(o) \/ Missed(o)

\* Steps that leave the rows and the topic alone, and after which what was ahead
\* of an order's reader still is.
LEMMA StillExcused ==
  ASSUME NEW o \in Orders, Excused(o), UNCHANGED <<request, versions, topic, emitted>>,
         NewestIsAhead(o) => Excused(o)'
  PROVE  Excused(o)'
<1>1. CASE NewestIsAhead(o)
  BY <1>1
<1>2. CASE ~NewestIsAhead(o)
  BY <1>2 DEF Excused, Created, Settled, Row, Servable, Missed
<1>3. QED
  BY <1>1, <1>2

LEMMA ExcusedCreate ==
  ASSUME TypeOK, OnceInv, NEW x \in Orders, createSaga(x), NEW o \in Orders, Excused(o)
  PROVE  Excused(o)'
<1>1. /\ Len(versions[x]) = 0 /\ Len(versions'[x]) = 1
      /\ \A y \in Orders \ {x} : versions'[y] = versions[y]
      /\ UNCHANGED <<request, emitted, topic, position, inflight>>
  BY DEF createSaga, Created, feed, group, TypeOK
<1>2. \A i \in 1..Len(topic) : topic[i].order \in Orders \ {x}
  BY <1>1, TopicEntry
<1>3. CASE o = x
  <2>1. emitted'[o] < Len(versions'[o])
    <3>1. emitted[o] \in 0..Len(versions[o]) /\ Len(versions[o]) = 0
      BY <1>1, <1>3 DEF TypeOK
    <3>2. emitted'[o] = 0 /\ Len(versions'[o]) = 1
      BY <1>1, <1>3, <3>1
    <3>3. QED
      BY <3>2
  <2>2. Created(o)'
    BY <1>1, <1>3 DEF Created
  <2>3. QED
    BY <2>1, <2>2 DEF Excused, NewestIsAhead
<1>4. CASE o # x
  <2>1. versions'[o] = versions[o]
    BY <1>1, <1>4
  <2>2. Missed(o) => Missed(o)'
    BY <1>1, <1>2 DEF Missed
  <2>3. NewestIsAhead(o) => NewestIsAhead(o)'
    BY <1>1, <2>1 DEF NewestIsAhead, Created, Message
  <2>4. QED
    BY <1>1, <2>1, <2>2, <2>3 DEF Excused, Created, Settled, Row, Servable
<1>5. QED
  BY <1>3, <1>4

LEMMA ExcusedEmit ==
  ASSUME TypeOK, OnceInv, NEW x \in Orders, Emit(x), NEW o \in Orders, Excused(o)
  PROVE  Excused(o)'
<1> DEFINE m == [order |-> x, version |-> emitted[x] + 1]
           l == Len(topic)
<1>1. /\ topic' = Append(topic, m) /\ emitted' = [emitted EXCEPT ![x] = @ + 1]
      /\ UNCHANGED <<request, versions, position, inflight>>
  BY DEF Emit, group
<1>2. /\ Len(topic') = l + 1 /\ l \in Nat /\ topic'[l + 1] = m
      /\ \A i \in 1..l : topic'[i] = topic[i]
  BY <1>1 DEF TypeOK
<1>3. Missed(o) => Missed(o)'
  <2>1. ASSUME NEW i \in 1..l, topic[i].order = o,
               \A j \in 1..i : Len(versions[topic[j].order]) = 1
        PROVE  Missed(o)'
    <3>1. i \in 1..Len(topic') /\ \A j \in 1..i : topic'[j] = topic[j]
      BY <1>2
    <3>2. QED
      BY <1>1, <2>1, <3>1 DEF Missed
  <2>2. QED
    BY <2>1 DEF Missed
<1>4. NewestIsAhead(o) => NewestIsAhead(o)'
  <2>1. CASE Created(o) /\ emitted[o] < Len(versions[o]) /\ o = x
    <3>1. Len(versions[o]) = emitted[o] + 1
      BY <2>1 DEF OnceInv, TypeOK
    <3>2. topic'[l + 1] = [order |-> o, version |-> Len(versions'[o])]
      BY <1>1, <1>2, <2>1, <3>1
    <3>3. l + 1 \in (position' + 1)..Len(topic')
      BY <1>1, <1>2 DEF TypeOK
    <3>4. QED
      BY <1>1, <2>1, <3>2, <3>3 DEF NewestIsAhead, Created
  <2>2. CASE Created(o) /\ emitted[o] < Len(versions[o]) /\ o # x
    BY <1>1, <2>2 DEF NewestIsAhead, Created, TypeOK
  <2>3. ASSUME Created(o), inflight.stage = "fetched",
               Message = [order |-> o, version |-> Len(versions[o])]
        PROVE  NewestIsAhead(o)'
    <3>1. inflight.offset \in 1..l
      BY <2>3, HandlesNewest
    <3>2. Message' = Message
      BY <1>1, <1>2, <3>1 DEF Message
    <3>3. QED
      BY <1>1, <2>3, <3>2 DEF NewestIsAhead, Created
  <2>4. ASSUME Created(o), NEW i \in (position + 1)..l,
               topic[i] = [order |-> o, version |-> Len(versions[o])]
        PROVE  NewestIsAhead(o)'
    <3>1. i \in 1..l /\ i \in (position' + 1)..Len(topic')
      BY <1>1, <1>2 DEF TypeOK
    <3>2. topic'[i] = [order |-> o, version |-> Len(versions'[o])]
      BY <1>1, <1>2, <2>4, <3>1
    <3>3. QED
      BY <1>1, <2>4, <3>1, <3>2 DEF NewestIsAhead, Created
  <2>5. QED
    BY <2>1, <2>2, <2>3, <2>4 DEF NewestIsAhead
<1>5. QED
  BY <1>1, <1>3, <1>4 DEF Excused, Created, Settled, Row, Servable

\* The order a transaction is of has its next version to come; the others keep
\* what they have ahead, and those behind a row that was handled just now were
\* not missed, but are ahead of the reader.
LEMMA ExcusedTransaction ==
  ASSUME TypeOK, OnceInv, HaltInv, NEW x \in Orders, Transaction(x),
         NEW o \in Orders, Excused(o)
  PROVE  Excused(o)'
<1>1. /\ inflight.stage = "fetched" /\ Message.order = x
      /\ inflight' = [inflight EXCEPT !.stage = "processed"]
      /\ UNCHANGED <<request, emitted, topic, position>>
  BY TransactionEffect DEF feed, group
<1>2. PICK r \in Rows : versions' = [versions EXCEPT ![x] = Append(@, r)]
  BY TransactionEffect
<1>3. /\ Len(versions'[x]) = Len(versions[x]) + 1 /\ Len(versions[x]) \in Nat
      /\ \A y \in Orders \ {x} : versions'[y] = versions[y]
  BY <1>2 DEF TypeOK
<1>4. CASE o = x
  <2>1. emitted'[o] < Len(versions'[o]) /\ Created(o)'
    BY <1>1, <1>3, <1>4 DEF TypeOK, Created
  <2>2. QED
    BY <2>1 DEF Excused, NewestIsAhead
<1>5. CASE o # x
  <2>1. versions'[o] = versions[o]
    BY <1>3, <1>5
  <2>2. NewestIsAhead(o) => NewestIsAhead(o)'
    <3>1. Message # [order |-> o, version |-> Len(versions[o])]
      BY <1>1, <1>5
    <3>2. QED
      BY <1>1, <2>1, <3>1 DEF NewestIsAhead, Created
  <2>3. ASSUME NEW i \in 1..Len(topic), topic[i].order = o,
               \A j \in 1..i : Len(versions[topic[j].order]) = 1
        PROVE  Missed(o)' \/ NewestIsAhead(o)
    <3>1. CASE i > position
      <4>1. topic[i] \in Messages /\ topic[i].version \in 1..Len(versions[o])
        BY <2>3, TopicEntry DEF TypeOK
      <4>2. Len(versions[o]) = 1
        BY <2>3, i \in 1..i
      <4>3. topic[i] = [order |-> o, version |-> Len(versions[o])]
        BY <2>3, <4>1, <4>2 DEF Messages
      <4>4. i \in (position + 1)..Len(topic)
        BY <3>1 DEF TypeOK
      <4>5. versions[o] # <<>>
        BY <4>2
      <4>6. QED
        BY <4>3, <4>4, <4>5 DEF NewestIsAhead, Created
    <3>2. CASE i <= position
      <4>1. position = inflight.offset /\ position \in 1..Len(topic)
            /\ topic[position].order = x
        BY <1>1, HandlesNewest DEF HaltInv, Message
      <4>2. ASSUME NEW j \in 1..i PROVE topic[j].order # x
        <5>1. SUFFICES ASSUME topic[j].order = x PROVE FALSE
          OBVIOUS
        <5>2. j \in 1..Len(topic) /\ Len(versions[x]) = 1
          BY <2>3, <5>1
        <5>3. topic[j].version = 1 /\ topic[position].version = 1
          <6>1. topic[j].version \in 1..1 /\ topic[position].version \in 1..1
            BY <4>1, <5>1, <5>2, TopicEntry
          <6>2. QED
            BY <6>1
        <5>4. topic[j] \in Messages /\ topic[position] \in Messages
          BY <4>1, <5>2 DEF TypeOK
        <5>5. topic[j] = topic[position]
          BY <4>1, <5>1, <5>3, <5>4 DEF Messages
        <5>6. j = position
          BY <4>1, <5>2, <5>5 DEF HaltInv
        <5>7. i = position
          BY <3>2, <5>6
        <5>8. QED
          BY <1>5, <2>3, <4>1, <5>7
      <4>3. \A j \in 1..i : topic[j].order \in Orders \ {x}
        BY <4>2, TopicEntry
      <4>4. QED
        BY <1>1, <1>3, <2>3, <4>3 DEF Missed
    <3>3. QED
      BY <3>1, <3>2 DEF TypeOK
  <2>4. Missed(o) => Missed(o)' \/ NewestIsAhead(o)
    BY <2>3 DEF Missed
  <2>5. QED
    BY <1>1, <2>1, <2>2, <2>4 DEF Excused, Created, Settled, Row, Servable
<1>6. QED
  BY <1>4, <1>5

LEMMA ExcusedConsumer ==
  ASSUME TypeOK, OnceInv, TellInv, HaltInv, (Join => crashes = 0),
         Join \/ Fetch \/ Commit \/ CommitError \/ \E x \in Orders : Refused(x),
         NEW o \in Orders, Excused(o)
  PROVE  Excused(o)'
<1>1. UNCHANGED <<request, versions, topic, emitted>>
  BY DEF Join, Fetch, Commit, CommitError, Refused, feed
<1>2. SUFFICES ASSUME NewestIsAhead(o) PROVE Excused(o)'
  BY <1>1, StillExcused
<1>3. Created(o)' /\ (emitted[o] < Len(versions[o]) => NewestIsAhead(o)')
  BY <1>1, <1>2 DEF NewestIsAhead, Created
<1> DEFINE newest == [order |-> o, version |-> Len(versions[o])]
<1>4. ASSUME Join, ~emitted[o] < Len(versions[o]) PROVE Missed(o)
  <2>1. ~joined /\ crashes = 0 /\ inflight.stage = "idle" /\ position = 0
    BY <1>1, <1>4 DEF Join, OnceInv, HaltInv
  <2>2. PICK i \in 1..Len(topic) : topic[i].order = o
    BY <1>2, <1>4, <2>1 DEF NewestIsAhead
  <2>3. ASSUME NEW j \in 1..i PROVE Len(versions[topic[j].order]) = 1
    <3>1. j \in 1..Len(topic)
      OBVIOUS
    <3>2. topic[j].order \in Orders /\ topic[j].version \in 1..Len(versions[topic[j].order])
      BY <3>1, TopicEntry
    <3>3. Len(versions[topic[j].order]) \in {0, 1}
      BY <1>1, <2>1, <3>2 DEF HaltInv
    <3>4. 1..0 = {}
      OBVIOUS
    <3>5. QED
      BY <3>2, <3>3, <3>4
  <2>4. QED
    BY <2>2, <2>3 DEF Missed
<1>5. CASE Join
  <2>1. Missed(o) => Missed(o)'
    BY <1>1 DEF Missed
  <2>2. QED
    BY <1>3, <1>4, <1>5, <2>1 DEF Excused
<1>6. CASE Fetch
  <2>1. /\ inflight.stage = "idle" /\ position' = position + 1 /\ position \in Nat
        /\ position + 1 \in 1..Len(topic)
        /\ inflight' = IF Skips(topic[position + 1]) THEN Idle
                       ELSE [stage |-> "fetched", offset |-> position + 1]
    BY <1>6 DEF Fetch, Idle, TypeOK
  <2>2. ASSUME NEW i \in (position + 1)..Len(topic), topic[i] = newest, i # position + 1
        PROVE  NewestIsAhead(o)'
    <3>1. i \in (position' + 1)..Len(topic)'
      BY <1>1, <2>1, <2>2
    <3>2. QED
      BY <1>1, <1>3, <2>2, <3>1 DEF NewestIsAhead
  <2>3. ASSUME topic[position + 1] = newest PROVE Excused(o)'
    <3>1. CASE Skips(newest)
      <4>1. ~request[o].parses \/ Row(o).status \in {"cancelled", "finished"}
        BY <3>1 DEF Skips, Payload, Row
      <4>2. ~Servable(o)' \/ Settled(o)'
        BY <1>1, <1>3, <4>1 DEF Servable, Settled, Created, Row
      <4>3. QED
        BY <4>2 DEF Excused
    <3>2. CASE ~Skips(newest)
      <4>1. inflight' = [stage |-> "fetched", offset |-> position + 1]
        BY <2>1, <2>3, <3>2
      <4>2. inflight'.stage = "fetched" /\ Message' = newest
        BY <1>1, <2>3, <4>1 DEF Message
      <4>3. QED
        BY <1>1, <1>3, <4>2 DEF Excused, NewestIsAhead
    <3>3. QED
      BY <3>1, <3>2
  <2>4. QED
    BY <1>2, <1>3, <2>1, <2>2, <2>3 DEF NewestIsAhead, Excused
<1>7. CASE Commit \/ CommitError
  <2>1. inflight.stage = "processed" /\ position' = position
    BY <1>7 DEF Commit, CommitError, group
  <2>2. QED
    BY <1>1, <1>2, <2>1 DEF NewestIsAhead, Excused, Created
<1>8. ASSUME NEW x \in Orders, Refused(x) PROVE Excused(o)'
  <2>1. Message.order = x /\ ~Servable(x) /\ position' = position
    BY <1>8, RefusedUnservable DEF Refused, group
  <2>2. CASE o = x
    BY <1>1, <2>1, <2>2 DEF Excused, Servable
  <2>3. CASE o # x
    <3>1. Message # newest
      BY <2>1, <2>3
    <3>2. QED
      BY <1>1, <1>2, <2>1, <3>1 DEF NewestIsAhead, Excused, Created
  <2>4. QED
    BY <2>2, <2>3
<1>9. QED
  BY <1>5, <1>6, <1>7, <1>8

LEMMA ExcusedNext ==
  ASSUME NoRedelivery, TypeOK, OnceInv, TellInv, HaltInv, [Next]_vars,
         ~TransientError, ~Crash, (Join => crashes = 0),
         NEW o \in Orders, Excused(o)
  PROVE  Excused(o)'
<1>1. ~(\E x \in Orders : Reemit(x)) /\ ~Rebalance
  BY DEF NoRedelivery, Reemit, Rebalance, TypeOK
<1>2. CASE UNCHANGED vars
  BY <1>2 DEF vars, feed, group, Excused, Created, Settled, Row, Servable, NewestIsAhead, Message,
              Missed
<1>3. QED
  BY <1>1, <1>2, ExcusedCreate, ExcusedEmit, ExcusedTransaction, ExcusedConsumer DEF Next

\* A transient error, or a crash, costs the order of the message in hand at most.
LEMMA ExcusedFault ==
  ASSUME TransientError \/ Crash, NEW o \in Orders, Excused(o), Message.order # o
  PROVE  Excused(o)'
<1>1. UNCHANGED <<request, versions, topic, emitted, position>>
  BY DEF TransientError, Crash, feed, group
<1>2. Message # [order |-> o, version |-> Len(versions[o])]
  OBVIOUS
<1>3. NewestIsAhead(o) => NewestIsAhead(o)'
  BY <1>1, <1>2 DEF NewestIsAhead, Created
<1>4. QED
  BY <1>1, <1>3, StillExcused DEF Excused

\* Where nothing is in hand, a crash costs none.
LEMMA ExcusedIdle ==
  ASSUME Crash, inflight.stage # "fetched", NEW o \in Orders, Excused(o)
  PROVE  Excused(o)'
<1>1. UNCHANGED <<request, versions, topic, emitted, position>>
  BY DEF Crash, feed
<1>2. NewestIsAhead(o) => NewestIsAhead(o)'
  BY <1>1 DEF NewestIsAhead, Created
<1>3. QED
  BY <1>1, <1>2, StillExcused DEF Excused

LEMMA PaidStep ==
  ASSUME NoRedelivery, TypeOK, OnceInv, TellInv, HaltInv, [Next]_vars
  PROVE  \/ Stranded' \subseteq Stranded
         \/ /\ errors' > errors \/ crashes' > crashes
            /\ \E o \in Orders : Stranded' \subseteq Stranded \cup {o}
         \/ (crashes > 0 /\ ~joined /\ joined')
<1>1. Stranded = {o \in Orders : ~Excused(o)} /\ Stranded' = {o \in Orders : ~Excused(o)'}
  BY DEF Stranded, Excused
<1>2. CASE ~TransientError /\ ~Crash /\ (Join => crashes = 0)
  BY <1>1, <1>2, ExcusedNext
<1>3. CASE Join /\ crashes # 0
  BY <1>3 DEF Join, TypeOK
<1>4. CASE TransientError \/ (Crash /\ inflight.stage = "fetched")
  <2>1. inflight.stage = "fetched"
    BY <1>4 DEF TransientError
  <2>2. Message.order \in Orders
    BY <2>1, HandlesNewest
  <2>3. Stranded' \subseteq Stranded \cup {Message.order}
    BY <1>1, <1>4, ExcusedFault
  <2>4. errors' > errors \/ crashes' > crashes
    BY <1>4 DEF TransientError, Crash, TypeOK
  <2>5. QED
    BY <2>2, <2>3, <2>4
<1>5. CASE Crash /\ inflight.stage # "fetched"
  BY <1>1, <1>5, ExcusedIdle
<1>6. QED
  BY <1>2, <1>3, <1>4, <1>5

\* Without redelivery a saga comes to a halt on its way only by a transient error
\* or a crash, one at a time, or when a process started again begins at the end
\* of the topic: for any number of orders, errors, failed commits and crashes.
THEOREM StrandedPaid ==
  ASSUME NoRedelivery
  PROVE  Spec => StrandedIsPaidFor
<1> DEFINE SagaInv == OnceInv /\ TellInv /\ HaltInv
<1>1. TypeOK /\ SagaInv /\ [Next]_vars => SagaInv'
  BY OnceStep, TellStep, HaltStep
<1>2. TypeOK /\ SagaInv /\ [Next]_vars =>
        [\/ Stranded' \subseteq Stranded
         \/ /\ errors' > errors \/ crashes' > crashes
            /\ \E o \in Orders : Stranded' \subseteq Stranded \cup {o}
         \/ (crashes > 0 /\ ~joined /\ joined')]_vars
  BY PaidStep
<1>3. Init => SagaInv
  BY OnceTellInit, HaltInit
<1> HIDE DEF SagaInv
<1>4. QED
  BY <1>1, <1>2, <1>3, Typing, PTL DEF Spec, StrandedIsPaidFor

-----------------------------------------------------------------------------
(***************************************************************************)
(* Sagas with a failing step, while the changefeed publishes again what it *)
(* will.  Whatever such a saga holds, a row that undoes it is still to be  *)
(* handled: a message that makes it hold more puts such a row ahead, and   *)
(* one that is refused finds another there.                                *)
(***************************************************************************)
Calm == errors = 0 /\ crashes = 0 /\ rebalances = 0

\* The order's row r is still to be published or to be read, or in hand.
Comes(o, r) ==
  \/ \E v \in (emitted[o] + 1)..Len(versions[o]) : versions[o][v] = r
  \/ \E i \in (position + 1)..Len(topic) : topic[i].order = o /\ Payload(topic[i]) = r
  \/ inflight.stage = "fetched" /\ Message.order = o /\ Payload(Message) = r

Unpaying == {row("reservation", "in_progress"), row("shipment", "in_progress"),
             row("payment", "cancelling")}
Underway == Unpaying \cup {row("payment", "in_progress"), row("order", "cancelling")}

\* What a row of a saga with a failing step tells for good.
HealRow(o, r) ==
  /\ r \in Underway \cup {row("order", "in_progress"), row("order", "cancelled")}
  /\ r = row("payment", "cancelling") => {"order", "payment"} \cap request[o].failures = {}
  /\ r = row("order", "cancelling") => "order" \notin request[o].failures
  /\ r \in Underway => orders[o] # "none"

Undone(o) ==
  /\ reservations[o] # {} => Comes(o, row("shipment", "in_progress"))
  /\ payments[o].preauth # 0 => \E r \in Unpaying : Comes(o, r)
  /\ orders[o] = "in_progress" => \E r \in Underway : Comes(o, r)
  /\ Created(o) =>
       Settled(o) \/ Len(versions[o]) = 1 \/ \E r \in Underway : Comes(o, r)

Fails(o) == Servable(o) /\ request[o].failures # {}

Heals(o) ==
  /\ \A r \in RowsOf(o) : HealRow(o, r)
  /\ Calm => Undone(o)

\* Before the one reader joins nothing is handled.
AsleepInv ==
  Calm /\ ~joined =>
    /\ inflight.stage = "idle"
    /\ \A o \in Orders : /\ Len(versions[o]) \in {0, 1} /\ orders[o] = "none"
                         /\ payments[o].preauth = 0 /\ reservations[o] = {}

HealInv == AsleepInv /\ \A o \in Orders : Fails(o) => Heals(o)

LEMMA CalmBefore ==
  ASSUME TypeOK, [Next]_vars, Calm'
  PROVE  Calm /\ ~TransientError /\ ~Crash /\ ~Rebalance
<1>1. ~TransientError /\ ~Crash /\ ~Rebalance
  BY DEF TransientError, Crash, Rebalance, Calm, TypeOK
<1>2. ASSUME NEW o \in Orders, createSaga(o) \/ Emit(o) \/ Reemit(o) \/ Refused(o) PROVE Calm
  BY <1>2 DEF createSaga, Emit, Reemit, Refused, faults, Calm
<1>3. ASSUME NEW o \in Orders, Transaction(o) PROVE Calm
  BY <1>3, TransactionEffect DEF faults, Calm
<1>4. ASSUME Join \/ Fetch \/ Commit \/ CommitError \/ UNCHANGED vars PROVE Calm
  <2>1. UNCHANGED <<errors, crashes, rebalances>>
    BY <1>4 DEF Join, Fetch, Commit, CommitError, vars, faults
  <2>2. QED
    BY <2>1 DEF Calm
<1>5. QED
  BY <1>1, <1>2, <1>3, <1>4 DEF Next

\* Steps that leave the order's rows and tables alone, and take no row that is
\* under way from ahead of the reader.
LEMMA StillHeals ==
  ASSUME NEW o \in Orders, Heals(o),
         UNCHANGED <<request, versions[o], orders[o], payments[o], reservations[o]>>,
         Calm' => Calm /\ \A r \in Underway : Comes(o, r) => Comes(o, r)'
  PROVE  Heals(o)'
<1>1. RowsOf(o)' = RowsOf(o)
  BY DEF RowsOf
<1>2. \A r \in RowsOf(o) : HealRow(o, r)'
  BY DEF Heals, HealRow
<1>3. ASSUME Calm' PROVE Undone(o)'
  <2>1. Undone(o) /\ \A r \in Underway : Comes(o, r) => Comes(o, r)'
    BY <1>3 DEF Heals
  <2>2. row("shipment", "in_progress") \in Underway /\ Unpaying \subseteq Underway
    BY DEF Underway, Unpaying
  <2>3. QED
    BY <2>1, <2>2 DEF Undone, Created, Settled, Row
<1>4. QED
  BY <1>1, <1>2, <1>3 DEF Heals

\* The changefeed takes nothing from ahead of the reader.
LEMMA FeedHeals ==
  ASSUME TypeOK, NEW x \in Orders, Emit(x) \/ Reemit(x), NEW o \in Orders, NEW r, Comes(o, r)
  PROVE  Comes(o, r)'
<1>1. /\ UNCHANGED <<versions, position, inflight>> /\ emitted \in [Orders -> Nat]
      /\ topic \in Seq(Messages) /\ versions \in [Orders -> Seq(Rows)]
      /\ inflight.stage = "fetched" => inflight.offset \in 1..Len(topic)
  BY DEF Emit, Reemit, group, TypeOK
<1>2. CASE Reemit(x)
  <2>1. topic' = topic
    BY <1>2 DEF Reemit
  <2>2. emitted'[o] \in Nat /\ emitted'[o] <= emitted[o]
    BY <1>1, <1>2 DEF Reemit
  <2>3. \A v \in (emitted[o] + 1)..Len(versions[o]) : v \in (emitted'[o] + 1)..Len(versions[o])
    BY <1>1, <2>2
  <2>4. QED
    BY <1>1, <2>1, <2>3 DEF Comes, Message, Payload
<1>3. CASE Emit(x)
  <2> DEFINE m == [order |-> x, version |-> emitted[x] + 1]
  <2>1. /\ topic' = Append(topic, m) /\ m \in Messages
        /\ emitted' = [emitted EXCEPT ![x] = @ + 1]
    BY <1>1, <1>3 DEF Emit, Messages
  <2>2. m.order = x /\ m.version = emitted[x] + 1
    OBVIOUS
  <2> HIDE DEF m
  <2>3. /\ Len(topic) \in Nat /\ Len(topic') = Len(topic) + 1 /\ topic'[Len(topic')] = m
        /\ \A i \in 1..Len(topic) : topic'[i] = topic[i]
    BY <1>1, <2>1
  <2>4. ASSUME NEW i \in (position + 1)..Len(topic), topic[i].order = o, Payload(topic[i]) = r
        PROVE  Comes(o, r)'
    <3>1. i \in 1..Len(topic) /\ i \in (position + 1)..Len(topic')
      BY <2>3 DEF TypeOK
    <3>2. topic'[i] = topic[i]
      BY <2>3, <3>1
    <3>3. QED
      BY <1>1, <2>4, <3>1, <3>2 DEF Comes, Payload
  <2>5. ASSUME NEW v \in (emitted[o] + 1)..Len(versions[o]), versions[o][v] = r
        PROVE  Comes(o, r)'
    <3>1. CASE v \in (emitted'[o] + 1)..Len(versions[o])
      BY <1>1, <2>5, <3>1 DEF Comes
    <3>2. CASE v \notin (emitted'[o] + 1)..Len(versions[o])
      <4>1. o = x /\ v = emitted[x] + 1
        BY <1>1, <2>1, <3>2
      <4>2. (topic[Len(topic)].order = o /\ Payload(topic[Len(topic)]) = r)'
        BY <1>1, <2>2, <2>3, <2>5, <4>1 DEF Payload
      <4>3. Len(topic') \in (position + 1)..Len(topic')
        BY <2>3 DEF TypeOK
      <4>4. QED
        BY <1>1, <4>2, <4>3 DEF Comes, Payload
    <3>3. QED
      BY <3>1, <3>2
  <2>6. inflight.stage = "fetched" => Message' = Message
    BY <1>1, <2>3 DEF Message
  <2>7. QED
    BY <1>1, <2>4, <2>5, <2>6 DEF Comes, Payload
<1>4. QED
  BY <1>2, <1>3

\* The consumer's loop passes over settled rows, and rows it does not refuse it
\* hands to their function.
LEMMA LoopHeals ==
  ASSUME TypeOK, Fetch \/ Commit \/ CommitError \/ UNCHANGED vars,
         NEW o \in Orders, request[o].parses, NEW r \in Underway, Comes(o, r)
  PROVE  Comes(o, r)'
<1>1. UNCHANGED <<request, versions, topic, emitted>>
  BY DEF Fetch, Commit, CommitError, feed, vars
<1>2. CASE Fetch
  <2>1. /\ inflight.stage = "idle" /\ position' = position + 1 /\ position \in Nat
        /\ inflight' = IF Skips(topic[position + 1]) THEN Idle
                       ELSE [stage |-> "fetched", offset |-> position + 1]
    BY <1>2 DEF Fetch, Idle, TypeOK
  <2>2. ASSUME topic[position + 1].order = o, Payload(topic[position + 1]) = r
        PROVE  Comes(o, r)'
    <3>1. ~Skips(topic[position + 1])
      BY <2>2 DEF Skips, Underway, Unpaying, row
    <3>2. inflight'.stage = "fetched" /\ Message' = topic[position + 1]
      BY <1>1, <2>1, <3>1 DEF Message
    <3>3. QED
      BY <1>1, <2>2, <3>2 DEF Comes, Payload
  <2>3. ASSUME NEW i \in (position + 1)..Len(topic), i # position + 1
        PROVE  i \in (position' + 1)..Len(topic')
    BY <1>1, <2>1, <2>3
  <2>4. QED
    BY <1>1, <2>1, <2>2, <2>3 DEF Comes, Payload
<1>3. CASE Commit \/ CommitError
  <2>1. inflight.stage = "processed" /\ position' = position
    BY <1>3 DEF Commit, CommitError, group
  <2>2. QED
    BY <1>1, <2>1 DEF Comes, Payload
<1>4. CASE UNCHANGED vars
  BY <1>1, <1>4 DEF vars, group, Comes, Payload, Message
<1>5. QED
  BY <1>2, <1>3, <1>4

\* A transaction takes one row from ahead of the reader, the one it handles, ...
LEMMA ComesOn ==
  ASSUME TypeOK, NEW x \in Orders, Transaction(x), NEW o \in Orders,
         NEW r, Comes(o, r), x # o \/ r # Payload(Message)
  PROVE  Comes(o, r)'
<1>1. /\ inflight.stage = "fetched" /\ Message.order = x
      /\ UNCHANGED <<emitted, topic, position>>
  BY TransactionEffect DEF feed, group
<1>2. PICK next \in Rows : versions' = [versions EXCEPT ![x] = Append(@, next)]
  BY TransactionEffect
<1>3. /\ Len(versions[o]) \in Nat /\ Len(versions[o]) <= Len(versions'[o])
      /\ \A v \in 1..Len(versions[o]) : versions'[o][v] = versions[o][v]
  BY <1>2 DEF TypeOK
<1>4. emitted[o] \in Nat /\ position \in Nat
  BY DEF TypeOK
<1>5. ASSUME NEW v \in (emitted[o] + 1)..Len(versions[o]), versions[o][v] = r
      PROVE  Comes(o, r)'
  <2>1. v \in (emitted[o] + 1)..Len(versions'[o]) /\ v \in 1..Len(versions[o])
    BY <1>3, <1>4
  <2>2. QED
    BY <1>1, <1>3, <1>5, <2>1 DEF Comes
<1>6. ASSUME NEW i \in (position + 1)..Len(topic), topic[i].order = o, Payload(topic[i]) = r
      PROVE  Comes(o, r)'
  <2>1. topic[i].version \in 1..Len(versions[o])
    BY <1>4, <1>6, TopicEntry DEF TypeOK
  <2>2. Payload(topic[i])' = r
    BY <1>1, <1>3, <1>6, <2>1 DEF Payload
  <2>3. QED
    BY <1>1, <1>6, <2>2 DEF Comes
<1>7. QED
  BY <1>1, <1>5, <1>6 DEF Comes

\* ... and puts one there, the next version.
LEMMA NextComes ==
  ASSUME TypeOK, NEW o \in Orders, Transaction(o),
         NEW step \in Steps, NEW status \in Statuses, updateSaga(o, step, status)
  PROVE  /\ Comes(o, row(step, status))' /\ Created(o)' /\ Row(o)' = row(step, status)
         /\ RowsOf(o)' = RowsOf(o) \cup {row(step, status)}
<1>1. row(step, status) \in Rows /\ emitted' = emitted
  BY TransactionEffect DEF row, Rows, feed
<1> DEFINE next == row(step, status)
<1>2. versions'[o] = Append(versions[o], next) /\ versions[o] \in Seq(Rows)
  BY DEF updateSaga, row, TypeOK
<1> HIDE DEF next
<1>3. /\ Len(versions'[o]) = Len(versions[o]) + 1 /\ Len(versions[o]) \in Nat
      /\ versions'[o][Len(versions[o]) + 1] = next
      /\ \A k \in 1..Len(versions[o]) : versions'[o][k] = versions[o][k]
  BY <1>1, <1>2 DEF next
<1>4. emitted[o] \in Nat /\ emitted[o] <= Len(versions[o])
  BY DEF TypeOK
<1>5. Comes(o, next)'
  <2>1. Len(versions'[o]) \in (emitted'[o] + 1)..Len(versions'[o])
    BY <1>1, <1>3, <1>4
  <2>2. QED
    BY <1>3, <2>1 DEF Comes
<1>6. Created(o)' /\ Row(o)' = next
  BY <1>2, <1>3 DEF Created, Row
<1>7. RowsOf(o)' = RowsOf(o) \cup {next}
  BY <1>3 DEF RowsOf
<1>8. QED
  BY <1>5, <1>6, <1>7 DEF next
-----------------------------------------------------------------------------
(* The transactions of a saga with a failing step *)

\* What the handled row is to a saga: one it has had, and what that tells.
LEMMA HandledHeals ==
  ASSUME TypeOK, WholeInv, NEW o \in Orders, Fails(o), Heals(o), NEW function,
         Handling(function, o)
  PROVE  /\ Payload(Message) \in RowsOf(o) /\ Payload(Message) \in Rows
         /\ process(o, Payload(Message)) = function
         /\ HealRow(o, Payload(Message)) /\ RowStands(o, Payload(Message))
         /\ request[o].failures \subseteq Steps
<1>1. inflight.offset \in 1..Len(topic)
  BY DEF Handling, TypeOK
<1>2. Payload(Message) \in RowsOf(o) /\ process(o, Payload(Message)) = function
  BY <1>1, TopicEntry DEF Handling, Payload, Message, RowsOf
<1>3. request[o].failures \subseteq Steps
  BY RequestTyping DEF TypeOK, RequestType
<1>4. QED
  BY <1>2, <1>3, RowsTyping DEF WholeInv, WholeOrder, Heals

\* A transaction heals when what is held after it is undone by the row it writes,
\* or was held before and is undone by another row than the one it handles.
LEMMA StepHeals ==
  ASSUME TypeOK, NEW o \in Orders, Heals(o), Transaction(o),
         NEW step \in Steps, NEW status \in Statuses, updateSaga(o, step, status),
         NEW r, r = Payload(Message), NEW next, next = row(step, status),
         next \in Underway \cup {row("order", "cancelled")}, HealRow(o, next)',
         orders[o] # "none" => orders'[o] # "none",
         \/ reservations'[o] = {} \/ next = row("shipment", "in_progress")
         \/ reservations[o] # {} /\ r # row("shipment", "in_progress"),
         \/ payments'[o].preauth = 0 \/ next \in Unpaying
         \/ payments[o].preauth # 0 /\ r \notin Unpaying,
         \/ orders'[o] # "in_progress" \/ next \in Underway
         \/ orders[o] = "in_progress" /\ r \notin Underway
  PROVE  Heals(o)'
<1>1. /\ Comes(o, next)' /\ Created(o)' /\ Row(o)' = next
      /\ RowsOf(o)' = RowsOf(o) \cup {next}
  BY NextComes
<1>2. \A x : Comes(o, x) /\ x # r => Comes(o, x)'
  BY ComesOn
<1>3. request' = request /\ (Calm' => Calm)
  BY TransactionEffect DEF faults, Calm
<1>4. \A x \in RowsOf(o) : HealRow(o, x)'
  BY <1>3 DEF Heals, HealRow
<1>5. ASSUME Calm' PROVE Undone(o)'
  <2>1. Undone(o)
    BY <1>3, <1>5 DEF Heals
  <2>2. Settled(o)' \/ next \in Underway
    BY <1>1 DEF Settled, row
  <2>3. QED
    BY <1>1, <1>2, <2>1, <2>2 DEF Undone
<1>6. QED
  BY <1>1, <1>4, <1>5 DEF Heals

LEMMA HealTransaction ==
  ASSUME TypeOK, WholeInv, NEW o \in Orders, Fails(o), Heals(o), Transaction(o)
  PROVE  Heals(o)'
<1> DEFINE r == Payload(Message)
           fails == request[o].failures
           OI == row("order", "in_progress")
           PI == row("payment", "in_progress")
           RI == row("reservation", "in_progress")
           SI == row("shipment", "in_progress")
           PC == row("payment", "cancelling")
           OC == row("order", "cancelling")
           OX == row("order", "cancelled")
<1>1. /\ TablesTypeOK /\ request' = request
      /\ r \in RowsOf(o) /\ r \in Rows /\ HealRow(o, r) /\ RowStands(o, r)
      /\ fails \subseteq Steps /\ fails # {}
  BY TransactionEffect, HandledHeals
  DEF TypeOK, Fails, Transaction, cancelSaga, createOrder, cancelOrder, createPayment,
      cancelPayment, createReservation, cancelReservation, createShipment, Executes
<1>2. /\ r \in {OI, PI, RI, SI, PC, OC, OX}
      /\ r = PC => {"order", "payment"} \cap fails = {}
      /\ r = OC => "order" \notin fails
      /\ r \in {PI, RI, SI, PC, OC} => orders[o] # "none"
      /\ r = RI => {"order", "payment"} \cap fails = {}
      /\ r = SI => {"order", "payment", "reservation"} \cap fails = {}
  BY <1>1 DEF HealRow, Underway, Unpaying, RowStands, Before, row
<1>3. ASSUME NEW function, Handling(function, o) PROVE process(o, r) = function
  BY <1>3, HandledHeals
<1>4. CASE cancelSaga(o)
  <2>1. r \in {OI, OX}
    BY <1>1, <1>2, <1>3, <1>4, Dispatch DEF cancelSaga, Executes, row
  <2>2. UNCHANGED tables /\ updateSaga(o, "order", "cancelled")
    BY <1>4 DEF cancelSaga
  <2>3. HealRow(o, OX)'
    BY DEF HealRow, Underway, Unpaying, row
  <2>4. r \notin Underway
    BY <2>1 DEF Underway, Unpaying, row
  <2>5. QED
    BY <2>2, <2>3, <2>4, StepHeals DEF tables, Steps, Statuses, Underway, Unpaying
<1>5. CASE createOrder(o)
  <2>1. r = OI
    BY <1>1, <1>2, <1>3, <1>5, Dispatch DEF createOrder, Executes, row
  <2>2. /\ orders'[o] = "in_progress" /\ UNCHANGED <<payments, reservations>>
        /\ updateSaga(o, "payment", "in_progress")
    BY <1>1, <1>5 DEF createOrder, InsertOrder, TablesTypeOK
  <2>3. HealRow(o, PI)'
    BY <2>2 DEF HealRow, Underway, Unpaying, row
  <2>4. r \notin Underway
    BY <2>1 DEF Underway, Unpaying, row
  <2>5. QED
    BY <2>2, <2>3, <2>4, StepHeals DEF Steps, Statuses, Underway, Unpaying
<1>6. CASE cancelOrder(o)
  <2>1. r \in {OC, OX, PI}
    BY <1>1, <1>2, <1>3, <1>6, Dispatch DEF cancelOrder, Executes, row
  <2>2. /\ orders'[o] = IF orders[o] = "none" THEN "none" ELSE "cancelled"
        /\ UNCHANGED <<payments, reservations>> /\ updateSaga(o, "order", "cancelled")
    BY <1>1, <1>6 DEF cancelOrder, UpdateOrderCancelled, TablesTypeOK
  <2>3. HealRow(o, OX)'
    BY DEF HealRow, Underway, Unpaying, row
  <2>4. r \notin Unpaying /\ r # SI
    BY <2>1 DEF Unpaying, row
  <2>5. QED
    BY <2>2, <2>3, <2>4, StepHeals DEF Steps, Statuses
<1>7. CASE createPayment(o)
  <2>1. r = PI
    BY <1>1, <1>2, <1>3, <1>7, Dispatch DEF createPayment, Executes, row
  <2>2. /\ UNCHANGED <<orders, reservations>> /\ updateSaga(o, "reservation", "in_progress")
    BY <1>7 DEF createPayment, InsertPayment
  <2>3. HealRow(o, RI)'
    BY <1>2, <2>1, <2>2 DEF HealRow, Underway, Unpaying, row
  <2>4. r # SI /\ RI \in Unpaying /\ RI \in Underway
    BY <2>1 DEF Underway, Unpaying, row
  <2>5. QED
    BY <2>2, <2>3, <2>4, StepHeals DEF Steps, Statuses
<1>8. CASE cancelPayment(o)
  <2>1. r \in {PC, RI}
    BY <1>1, <1>2, <1>3, <1>8, Dispatch DEF cancelPayment, Executes, row
  <2>2. /\ payments'[o].preauth = 0 /\ UNCHANGED <<orders, reservations>>
        /\ updateSaga(o, "order", "cancelling")
    BY <1>1, <1>8 DEF cancelPayment, UpdatePaymentsCancelled, TablesTypeOK
  <2>3. HealRow(o, OC)'
    BY <1>1, <1>2, <2>1, <2>2 DEF HealRow, Underway, Unpaying, row
  <2>4. r # SI /\ OC \in Underway
    BY <2>1 DEF Underway, row
  <2>5. QED
    BY <2>2, <2>3, <2>4, StepHeals DEF Steps, Statuses
<1>9. CASE createReservation(o)
  <2>1. r = RI
    BY <1>1, <1>2, <1>3, <1>9, Dispatch DEF createReservation, Executes, row
  <2>2. UNCHANGED <<orders, payments>> /\ updateSaga(o, "shipment", "in_progress")
    BY <1>9 DEF createReservation, InsertReservations
  <2>3. HealRow(o, SI)'
    BY <1>2, <2>1, <2>2 DEF HealRow, Underway, Unpaying, row
  <2>4. SI \in Unpaying /\ SI \in Underway
    BY DEF Underway, Unpaying
  <2>5. QED
    BY <2>2, <2>3, <2>4, StepHeals DEF Steps, Statuses
<1>10. CASE cancelReservation(o)
  <2>1. r = SI
    BY <1>1, <1>2, <1>3, <1>10, Dispatch DEF cancelReservation, Executes, row
  <2>2. /\ reservations'[o] = {} /\ UNCHANGED <<orders, payments>>
        /\ updateSaga(o, "payment", "cancelling")
    BY <1>1, <1>10 DEF cancelReservation, DeleteReservations, TablesTypeOK
  <2>3. HealRow(o, PC)'
    BY <1>1, <1>2, <2>1, <2>2 DEF HealRow, Underway, Unpaying, row
  <2>4. PC \in Unpaying /\ PC \in Underway
    BY DEF Underway, Unpaying
  <2>5. QED
    BY <2>2, <2>3, <2>4, StepHeals DEF Steps, Statuses
<1>11. CASE createShipment(o)
  <2>1. r = SI /\ "shipment" \notin fails
    BY <1>1, <1>2, <1>3, <1>11, Dispatch DEF createShipment, Executes, row
  <2>2. QED
    BY <1>1, <1>2, <2>1 DEF Steps
<1>12. QED
  BY <1>4, <1>5, <1>6, <1>7, <1>8, <1>9, <1>10, <1>11 DEF Transaction
\* A row that is refused finds another that is under way: only a reservation that
\* was made refuses one, and the shipment's row, which undoes it, is ahead.
LEMMA RefusedHeals ==
  ASSUME TypeOK, WholeInv, NEW x \in Orders, Refused(x), NEW o \in Orders, Fails(o), Heals(o)
  PROVE  Heals(o)'
<1> DEFINE r == Payload(Message)
           fails == request[o].failures
           RI == row("reservation", "in_progress")
           SI == row("shipment", "in_progress")
<1>1. /\ inflight.stage = "fetched" /\ Message.order = x /\ inflight'.stage = "idle"
      /\ UNCHANGED <<request, versions, topic, emitted, position, orders, payments, reservations>>
      /\ Calm' => Calm
  BY DEF Refused, Handling, Idle, tables, feed, group, faults, Calm
<1>2. \A s : Comes(o, s) /\ (o # x \/ s # r) => Comes(o, s)'
  BY <1>1 DEF Comes, Payload
<1>3. CASE o # x
  BY <1>1, <1>2, <1>3, StillHeals
<1>4. CASE o = x
  <2>1. PICK function \in {"createOrder", "createReservation", "createShipment",
                           "cancelShipment"} :
          Handling(function, o) /\ StatementFails(function, o)
    BY <1>4 DEF Refused
  <2>2. /\ r \in Rows /\ process(o, r) = function /\ HealRow(o, r) /\ RowStands(o, r)
        /\ fails \subseteq Steps /\ fails # {}
    BY <2>1, HandledHeals DEF Fails
  <2>3. r.step = "shipment" => r = SI
    BY <2>2 DEF HealRow, Underway, Unpaying, row
  <2>4. CASE r \notin Underway
    BY <1>1, <1>2, <2>4, StillHeals
  <2>5. CASE r \in Underway
    <3>1. function = "createReservation"
      <4>1. function # "createOrder"
        BY <2>2, <2>5, Dispatch DEF Underway, Unpaying, row
      <4>2. function # "createShipment"
        <5>1. SUFFICES ASSUME function = "createShipment" PROVE FALSE
          OBVIOUS
        <5>2. r = SI /\ "shipment" \notin fails
          BY <2>2, <2>3, <5>1, Dispatch
        <5>3. {"order", "payment", "reservation"} \cap fails = {}
          BY <2>2, <5>2 DEF RowStands, Before, row
        <5>4. QED
          BY <2>2, <5>2, <5>3 DEF Steps
      <4>3. function # "cancelShipment"
        <5>1. SUFFICES ASSUME function = "cancelShipment" PROVE FALSE
          OBVIOUS
        <5>2. r.step = "shipment" /\ r.status # "in_progress"
          BY <2>2, <5>1
          DEF process, processOrder, processPayment, processReservation, processShipment, Rows,
              Steps
        <5>3. QED
          BY <2>3, <5>2 DEF row
      <4>4. QED
        BY <4>1, <4>2, <4>3
    <3>2. r = RI /\ "reservation" \notin fails
      BY <2>2, <3>1, Dispatch DEF row, HealRow, Underway, Unpaying
    <3>3. {"order", "payment"} \cap fails = {} /\ orders[o] # "none"
      BY <2>2, <2>5, <3>2 DEF RowStands, HealRow, Before, row
    <3>4. distinct(request[o].products)
      BY <3>2, <3>3 DEF Fails, Servable
    <3>5. reservations[o] # {}
      BY <2>1, <3>1, <3>3, <3>4 DEF StatementFails, InsertReservationsRefused
    <3>6. ASSUME Calm' PROVE Undone(o)'
      <4>1. Comes(o, SI)
        BY <1>1, <3>5, <3>6 DEF Heals, Undone
      <4>2. Comes(o, SI)'
        BY <1>2, <3>2, <4>1 DEF row
      <4>3. SI \in Unpaying /\ SI \in Underway
        BY DEF Underway, Unpaying
      <4>4. QED
        BY <4>2, <4>3 DEF Undone
    <3>7. RowsOf(o)' = RowsOf(o) /\ \A s \in RowsOf(o) : HealRow(o, s)'
      BY <1>1 DEF RowsOf, Heals, HealRow
    <3>8. QED
      BY <3>6, <3>7 DEF Heals
  <2>6. QED
    BY <2>4, <2>5
<1>5. QED
  BY <1>3, <1>4

LEMMA CreateHeals ==
  ASSUME TypeOK, NEW x \in Orders, createSaga(x), NEW o \in Orders, Heals(o)
  PROVE  Heals(o)'
<1> DEFINE OI == row("order", "in_progress")
<1>1. /\ versions[x] = <<>>
      /\ UNCHANGED <<request, emitted, topic, position, inflight, orders, payments, reservations>>
      /\ Calm' => Calm
  BY DEF createSaga, Created, tables, feed, group, faults, Calm
<1>2. versions' = [versions EXCEPT ![x] = <<OI>>]
  BY DEF createSaga, row
<1>3. \A i \in 1..Len(topic) : topic[i].order \in Orders \ {x}
  <2>1. ASSUME NEW i \in 1..Len(topic), topic[i].order = x PROVE FALSE
    <3>1. topic[i].version \in 1..0
      BY <1>1, <2>1, TopicEntry
    <3>2. QED
      BY <3>1
  <2>2. QED
    BY <2>1, TopicEntry
<1>4. /\ position \in Nat
      /\ inflight.stage = "fetched" => inflight.offset \in 1..Len(topic)
  BY DEF TypeOK
<1>5. CASE o # x
  <2>1. /\ versions'[o] = versions[o]
        /\ \A i \in 1..Len(topic) : Payload(topic[i])' = Payload(topic[i])
    BY <1>1, <1>2, <1>3, <1>5 DEF Payload, TypeOK
  <2>2. ASSUME NEW r, Comes(o, r) PROVE Comes(o, r)'
    BY <1>1, <1>4, <2>1, <2>2 DEF Comes, Message
  <2>3. QED
    BY <1>1, <2>1, <2>2, StillHeals
<1>6. CASE o = x
  <2>1. \A r : ~Comes(o, r)
    <3>1. Len(versions[o]) = 0 /\ emitted[o] \in Nat
      BY <1>1, <1>6 DEF TypeOK
    <3>2. QED
      BY <1>3, <1>4, <1>6, <3>1 DEF Comes, Message
  <2>2. versions'[o] = <<OI>> /\ RowsOf(o)' = {OI}
    BY <1>2, <1>6 DEF TypeOK, RowsOf
  <2>3. HealRow(o, OI)'
    BY DEF HealRow, Underway, Unpaying, row
  <2>4. Len(versions'[o]) = 1
    BY <2>2
  <2>5. Calm' => Undone(o)'
    BY <1>1, <2>1, <2>4 DEF Heals, Undone
  <2>6. QED
    BY <2>2, <2>3, <2>5 DEF Heals
<1>7. QED
  BY <1>5, <1>6

-----------------------------------------------------------------------------
(* Every step *)

LEMMA AsleepNext ==
  ASSUME TypeOK, AsleepInv, [Next]_vars
  PROVE  AsleepInv'
<1> SUFFICES ASSUME Calm', ~joined'
             PROVE  /\ inflight'.stage = "idle"
                    /\ \A o \in Orders :
                         /\ Len(versions'[o]) \in {0, 1} /\ orders'[o] = "none"
                         /\ payments'[o].preauth = 0 /\ reservations'[o] = {}
  BY DEF AsleepInv
<1>1. Calm /\ ~TransientError /\ ~Crash /\ ~Rebalance
  BY CalmBefore
<1>2. ~Join
  BY DEF Join
<1>3. joined' = joined
  <2>1. ASSUME NEW o \in Orders, Transaction(o) PROVE joined' = joined
    BY <2>1, TransactionEffect DEF group
  <2>2. QED
    BY <1>1, <1>2, <2>1
    DEF Next, createSaga, Emit, Reemit, Fetch, Refused, Commit, CommitError, group, vars
<1>4. /\ inflight.stage = "idle"
      /\ \A o \in Orders : /\ Len(versions[o]) \in {0, 1} /\ orders[o] = "none"
                           /\ payments[o].preauth = 0 /\ reservations[o] = {}
  BY <1>1, <1>3 DEF AsleepInv
<1>5. ~Fetch /\ ~Commit /\ ~CommitError /\ \A o \in Orders : ~Transaction(o) /\ ~Refused(o)
  BY <1>3, <1>4, TransactionEffect DEF Fetch, Commit, CommitError, Refused, Handling
<1>6. ASSUME NEW x \in Orders, createSaga(x) PROVE \A o \in Orders : Len(versions'[o]) \in {0, 1}
  BY <1>4, <1>6 DEF createSaga, TypeOK
<1>7. ASSUME NEW x \in Orders, createSaga(x)
      PROVE  UNCHANGED <<inflight, orders, payments, reservations>>
  BY <1>7 DEF createSaga, tables
<1>8. ASSUME \/ \E x \in Orders : Emit(x) \/ Reemit(x)
             \/ UNCHANGED vars
      PROVE  UNCHANGED <<inflight, versions, orders, payments, reservations>>
  BY <1>8 DEF Emit, Reemit, tables, vars
<1>9. QED
  BY <1>1, <1>2, <1>4, <1>5, <1>6, <1>7, <1>8 DEF Next

LEMMA HealNext ==
  ASSUME TypeOK, WholeInv, AsleepInv, [Next]_vars, NEW o \in Orders, Fails(o), Heals(o)
  PROVE  Heals(o)'
<1>1. ASSUME NEW x \in Orders, createSaga(x) PROVE Heals(o)'
  BY <1>1, CreateHeals
<1>2. ASSUME NEW x \in Orders, Emit(x) \/ Reemit(x) PROVE Heals(o)'
  <2>1. UNCHANGED <<request, versions, orders, payments, reservations>> /\ (Calm' => Calm)
    BY <1>2 DEF Emit, Reemit, tables, faults, Calm
  <2>2. \A r \in Underway : Comes(o, r) => Comes(o, r)'
    BY <1>2, FeedHeals
  <2>3. QED
    BY <2>1, <2>2, StillHeals
<1>3. CASE Join
  <2>1. UNCHANGED <<request, versions, orders, payments, reservations>> /\ (Calm' => Calm)
    BY <1>3 DEF Join, tables, faults, Calm
  <2>2. RowsOf(o)' = RowsOf(o) /\ \A r \in RowsOf(o) : HealRow(o, r)'
    BY <2>1 DEF RowsOf, Heals, HealRow
  <2>3. ASSUME Calm' PROVE Undone(o)'
    <3>1. /\ Len(versions[o]) \in {0, 1} /\ orders[o] = "none"
          /\ payments[o].preauth = 0 /\ reservations[o] = {}
      BY <1>3, <2>1, <2>3 DEF AsleepInv, Join
    <3>2. Created(o) => Len(versions[o]) = 1
      BY <3>1 DEF Created, TypeOK
    <3>3. QED
      BY <2>1, <3>1, <3>2 DEF Undone, Created
  <2>4. QED
    BY <2>2, <2>3 DEF Heals
<1>4. CASE Fetch \/ Commit \/ CommitError \/ UNCHANGED vars
  <2>1. UNCHANGED <<request, versions, orders, payments, reservations>>
    BY <1>4 DEF Fetch, Commit, CommitError, tables, vars
  <2>2. Calm' => Calm
    BY CalmBefore
  <2>3. \A r \in Underway : Comes(o, r) => Comes(o, r)'
    BY <1>4, LoopHeals DEF Fails, Servable
  <2>4. QED
    BY <2>1, <2>2, <2>3, StillHeals
<1>5. ASSUME NEW x \in Orders, Transaction(x) PROVE Heals(o)'
  <2>1. CASE x = o
    BY <1>5, <2>1, HealTransaction
  <2>2. CASE x # o
    <3>1. /\ request' = request /\ versions'[o] = versions[o] /\ orders'[o] = orders[o]
          /\ payments'[o] = payments[o] /\ reservations'[o] = reservations[o]
      BY <1>5, <2>2, TransactionEffect, OthersKept DEF TypeOK
    <3>2. Calm' => Calm
      BY CalmBefore
    <3>3. \A r \in Underway : Comes(o, r) => Comes(o, r)'
      BY <1>5, <2>2, ComesOn
    <3>4. QED
      BY <3>1, <3>2, <3>3, StillHeals
  <2>3. QED
    BY <2>1, <2>2
<1>6. ASSUME NEW x \in Orders, Refused(x) PROVE Heals(o)'
  BY <1>6, RefusedHeals
<1>7. CASE TransientError \/ Crash \/ Rebalance
  <2>1. ~Calm'
    BY <1>7, CalmBefore
  <2>2. UNCHANGED <<request, versions, orders, payments, reservations>>
    BY <1>7 DEF TransientError, Crash, Rebalance, tables
  <2>3. QED
    BY <2>1, <2>2, StillHeals
<1>8. QED
  BY <1>1, <1>2, <1>3, <1>4, <1>5, <1>6, <1>7 DEF Next

LEMMA HealInit == Init => HealInv
<1> SUFFICES ASSUME Init PROVE HealInv
  OBVIOUS
<1>1. AsleepInv
  BY DEF Init, TablesInit, AsleepInv, Idle
<1>2. ASSUME NEW o \in Orders PROVE Heals(o)
  <2>1. RowsOf(o) = {} /\ ~Created(o)
    BY DEF Init, RowsOf, Created
  <2>2. reservations[o] = {} /\ payments[o].preauth = 0 /\ orders[o] = "none"
    BY DEF Init, TablesInit
  <2>3. QED
    BY <2>1, <2>2 DEF Heals, Undone
<1>3. QED
  BY <1>1, <1>2 DEF HealInv

LEMMA RequestsStay ==
  ASSUME TypeOK, [Next]_vars
  PROVE  request' = request
<1>1. ASSUME NEW o \in Orders, Transaction(o) PROVE request' = request
  BY <1>1, TransactionEffect
<1>2. QED
  BY <1>1 DEF Next, createSaga, Emit, Reemit, Join, Fetch, Refused, TransientError, Commit,
              CommitError, Rebalance, Crash, vars

\* A body that does not parse is never in hand, so that its saga stays at its start.
Untouched(o) == Held(o) = Outcome!Nothing /\ Len(versions[o]) \in {0, 1}

UnparsedInv ==
  /\ inflight.stage = "fetched" => request[Message.order].parses
  /\ \A o \in Orders : ~request[o].parses => Untouched(o)

LEMMA UntouchedInit == Init => UnparsedInv
<1> SUFFICES ASSUME Init PROVE UnparsedInv
  OBVIOUS
<1>1. inflight.stage # "fetched"
  BY DEF Init, Idle
<1>2. ASSUME NEW o \in Orders PROVE Untouched(o)
  <2>1. /\ orders[o] = "none" /\ payments[o].preauth = 0
        /\ reservations[o] = {} /\ shipments[o] = "none"
    BY DEF Init, TablesInit
  <2>2. Len(versions[o]) = 0
    BY DEF Init
  <2>3. QED
    BY <2>1, <2>2 DEF Untouched, Held, Outcome!Nothing
<1>3. QED
  BY <1>1, <1>2 DEF UnparsedInv

LEMMA UnparsedNext ==
  ASSUME TypeOK, UnparsedInv, [Next]_vars
  PROVE  UnparsedInv'
<1>1. request' = request
  BY RequestsStay
<1>2. ASSUME inflight'.stage = "fetched" PROVE request[Message'.order].parses
  <2>1. ASSUME NEW x \in Orders, Transaction(x) PROVE FALSE
    BY <1>2, <2>1, TransactionEffect DEF TypeOK
  <2>2. CASE Fetch
    BY <1>2, <2>2 DEF Fetch, Skips, Idle, Message, feed
  <2>3. ASSUME inflight' = inflight, inflight.offset \in 1..Len(topic) => Message' = Message
        PROVE  request[Message'.order].parses
    BY <1>2, <2>3 DEF UnparsedInv, TypeOK
  <2>4. ASSUME NEW x \in Orders, Emit(x)
        PROVE  /\ inflight' = inflight
               /\ inflight.offset \in 1..Len(topic) => Message' = Message
    BY <2>4 DEF Emit, Message, TypeOK
  <2>5. ASSUME NEW x \in Orders, createSaga(x) \/ Reemit(x)
        PROVE  /\ inflight' = inflight
               /\ inflight.offset \in 1..Len(topic) => Message' = Message
    BY <2>5 DEF createSaga, Reemit, Message, feed
  <2>6. CASE Join \/ Rebalance \/ UNCHANGED vars
    BY <2>3, <2>6 DEF Join, Rebalance, vars, feed, Message
  <2>7. ~TransientError /\ ~Commit /\ ~CommitError /\ ~Crash /\ \A x \in Orders : ~Refused(x)
    BY <1>2 DEF TransientError, Commit, CommitError, Crash, Refused, Idle
  <2>8. QED
    BY <2>1, <2>2, <2>3, <2>4, <2>5, <2>6, <2>7 DEF Next
<1>3. ASSUME NEW o \in Orders, ~request[o].parses PROVE Untouched(o)'
  <2>1. Untouched(o)
    BY <1>3 DEF UnparsedInv
  <2>2. ASSUME UNCHANGED <<tables, versions[o]>> PROVE Untouched(o)'
    BY <2>1, <2>2 DEF Untouched, Held, tables, Outcome!Nothing
  <2>3. ASSUME NEW x \in Orders, createSaga(x) PROVE Untouched(o)'
    <3>1. UNCHANGED tables
      BY <2>3 DEF createSaga
    <3>2. Len(versions'[o]) = 1 \/ versions'[o] = versions[o]
      BY <2>3 DEF createSaga, TypeOK
    <3>3. QED
      BY <2>1, <3>1, <3>2 DEF Untouched, Held, tables, Outcome!Nothing
  <2>4. ASSUME NEW x \in Orders, Transaction(x) PROVE Untouched(o)'
    <3>1. x # o
      BY <1>3, <2>4, TransactionEffect DEF UnparsedInv
    <3>2. versions'[o] = versions[o]
      BY <2>4, <3>1, TransactionEffect DEF TypeOK
    <3>3. Held(o)' = Held(o)
      BY <2>4, <3>1, OthersKept DEF Held, TypeOK
    <3>4. QED
      BY <2>1, <3>2, <3>3 DEF Untouched, Outcome!Nothing
  <2>5. CASE Join \/ Fetch \/ TransientError \/ Commit \/ CommitError \/ Rebalance \/ Crash
             \/ (\E x \in Orders : Emit(x) \/ Reemit(x) \/ Refused(x)) \/ UNCHANGED vars
    <3>1. UNCHANGED <<tables, versions>>
      BY <2>5 DEF Join, Fetch, TransientError, Commit, CommitError, Rebalance, Crash, Emit, Reemit,
                  Refused, vars
    <3>2. QED
      BY <2>2, <3>1
  <2>6. QED
    BY <2>3, <2>4, <2>5 DEF Next
<1>4. QED
  BY <1>1, <1>2, <1>3 DEF UnparsedInv

\* With any number of repetitions by the changefeed and of failed commits, a saga
\* with a failing step of which nothing is left to be handled holds nothing.
THEOREM FailedHeal == Spec => []FailedHoldsNothing
<1>1. TypeOK /\ WholeInv /\ HealInv /\ [Next]_vars => HealInv'
  <2> SUFFICES ASSUME TypeOK, WholeInv, HealInv, [Next]_vars PROVE HealInv'
    OBVIOUS
  <2>1. AsleepInv'
    BY AsleepNext DEF HealInv
  <2>2. ASSUME NEW o \in Orders, Fails(o)' PROVE Heals(o)'
    <3>1. Fails(o)
      BY <2>2, RequestsStay DEF Fails, Servable
    <3>2. QED
      BY <3>1, HealNext DEF HealInv
  <2>3. QED
    BY <2>1, <2>2 DEF HealInv
<1>2. TypeOK /\ WholeInv /\ HealInv /\ Calm =>
        \A o \in Orders :
          Created(o) /\ Fails(o) /\ ~AnyIsAhead(o) =>
            Held(o) = Outcome!Nothing /\ (Cancelled(o) \/ Len(versions[o]) = 1)
  <2> SUFFICES ASSUME TypeOK, WholeInv, HealInv, Calm,
                      NEW o \in Orders, Created(o), Fails(o), ~AnyIsAhead(o)
               PROVE  Held(o) = Outcome!Nothing /\ (Cancelled(o) \/ Len(versions[o]) = 1)
    OBVIOUS
  <2>1. Heals(o) /\ Undone(o) /\ WholeOrder(o)
    BY DEF HealInv, Heals, WholeInv
  <2>2. \A r : ~Comes(o, r)
    <3>1. emitted[o] \in Nat /\ Len(versions[o]) \in Nat /\ emitted[o] = Len(versions[o])
      BY DEF AnyIsAhead, TypeOK
    <3>2. QED
      BY <3>1 DEF Comes, AnyIsAhead
  <2>3. reservations[o] = {} /\ payments[o].preauth = 0 /\ orders[o] # "in_progress"
    BY <2>1, <2>2 DEF Undone
  <2>4. shipments[o] = "none"
    BY <2>1 DEF WholeOrder, Fails
  <2>5. Held(o) = Outcome!Nothing
    BY <2>3, <2>4 DEF Held, Outcome!Nothing
  <2>6. Settled(o) \/ Len(versions[o]) = 1
    BY <2>1, <2>2 DEF Undone
  <2>7. HealRow(o, Row(o))
    <3>1. Len(versions[o]) \in 1..Len(versions[o])
      BY DEF Created, TypeOK
    <3>2. QED
      BY <2>1, <3>1 DEF Heals, RowsOf, Row
  <2>8. QED
    BY <2>5, <2>6, <2>7 DEF Settled, Cancelled, HealRow, Underway, Unpaying, row
<1>3. UnparsedInv => \A o \in Orders : ~request[o].parses =>
                         Held(o) = Outcome!Nothing /\ Len(versions[o]) <= 1
  <2> SUFFICES ASSUME UnparsedInv, NEW o \in Orders, ~request[o].parses
               PROVE  Held(o) = Outcome!Nothing /\ Len(versions[o]) <= 1
    OBVIOUS
  <2>1. Untouched(o)
    BY Zenon DEF UnparsedInv
  <2>2. Held(o) = Outcome!Nothing /\ Len(versions[o]) \in {0, 1}
    BY Zenon, <2>1 DEF Untouched
  <2>3. ASSUME NEW n \in {0, 1} PROVE n <= 1
    OBVIOUS
  <2>4. QED
    BY Zenon, <2>2, <2>3
<1>4. TypeOK /\ WholeInv /\ HealInv /\ UnparsedInv => FailedHoldsNothing
  BY <1>2, <1>3 DEF FailedHoldsNothing, Calm, Fails
<1>5. TypeOK /\ UnparsedInv /\ [Next]_vars => UnparsedInv'
  BY UnparsedNext
<1>6. QED
  BY <1>1, <1>4, <1>5, HealInit, UntouchedInit, Typing, WholeAlways, PTL DEF Spec
=============================================================================
