-------------------------------- MODULE Saga --------------------------------
(***************************************************************************)
(* The order saga of 001_fragile_data_integrations/business_transactions/  *)
(* after.  A client inserts a row into the table sagas; a CockroachDB      *)
(* changefeed publishes every version of that row to the Kafka topic       *)
(* "sagas"; one consumer (handleSagaMessages) reads the topic, runs the    *)
(* database transaction that the row's step and status call for, and that  *)
(* transaction writes the next version of the row.                         *)
(*                                                                         *)
(* A row version is named by its order and its number, so a message is     *)
(* [order, version] and its payload is versions[order][version].           *)
(***************************************************************************)
EXTENDS OrderTables, FiniteSets

CONSTANTS Requests,       \* the bodies clients may post, one for each order id
          MaxReemits,     \* bound: times the changefeed restarts from a checkpoint
          MaxRebalances,  \* bound: times the consumer group rebalances
          MaxErrors,      \* bound: transactions rolled back for a transient error
          MaxUnacked,     \* bound: Kafka commits that fail
          MaxCrashes      \* bound: crashes of the saga process

Steps == {"order", "payment", "reservation", "shipment"}
Statuses == {"in_progress", "finished", "cancelling", "cancelled"}
Rows == [step: Steps, status: Statuses]
Messages == [order: Orders, version: Nat \ {0}]

\* A body lists products (a product may be listed twice), names the steps
\* that are to fail, and carries JSON that readAndParse can or cannot parse.
RequestType == [products: Seq(Products), failures: SUBSET Steps, parses: BOOLEAN]

ASSUME RequestsAssumption == Requests \subseteq [Orders -> RequestType]

ASSUME BoundsAssumption ==
  /\ MaxReemits \in Nat
  /\ MaxRebalances \in Nat
  /\ MaxErrors \in Nat
  /\ MaxUnacked \in Nat
  /\ MaxCrashes \in Nat

VARIABLES
  request,       \* the body posted (or yet to be posted) for each order
  versions,      \* every version of the order's row in sagas, oldest first
  emitted,       \* changefeed: number of row versions emitted, per order
  topic,         \* Kafka: the messages of topic "sagas"
  joined,        \* consumer: it has joined its group and holds the partition
  position,      \* consumer: messages fetched, that is, offset of the next one
  committed,     \* Kafka: the group's committed offset, 0 when it has none
  inflight,      \* consumer: the message being handled and how far it is
  reemits, rebalances, errors, unacked, crashes    \* faults so far

feed == <<emitted, topic>>
group == <<joined, position, committed>>
faults == <<reemits, rebalances, errors, unacked, crashes>>
vars == <<request, versions, tables, feed, group, inflight, faults>>

Idle == [stage |-> "idle", offset |-> 0]
Row(o) == versions[o][Len(versions[o])]
Created(o) == versions[o] # <<>>
Settled(o) == Created(o) /\ Row(o).status \in {"finished", "cancelled"}

Cancelled(o) == Created(o) /\ Row(o).status = "cancelled"

productsOf(o) == listed(request[o].products)

Init ==
  /\ request \in Requests
  /\ versions = [o \in Orders |-> <<>>]
  /\ TablesInit
  /\ emitted = [o \in Orders |-> 0]
  /\ topic = <<>>
  /\ joined = FALSE
  /\ position = 0
  /\ committed = 0
  /\ inflight = Idle
  /\ reemits = 0 /\ rebalances = 0 /\ errors = 0 /\ unacked = 0
  /\ crashes = 0

-----------------------------------------------------------------------------
(* Clients and the changefeed *)

\* POST /sagas.  The primary key admits one saga per order id.
createSaga(o) ==
  /\ ~Created(o)
  /\ versions' = [versions EXCEPT ![o] =
       <<[step |-> "order", status |-> "in_progress"]>>]
  /\ UNCHANGED <<request, tables, feed, group, inflight, faults>>

\* Wrong on purpose, to try the properties: a version too many.
Emit_Ahead(o) ==
  /\ emitted[o] <= Len(versions[o])
  /\ emitted' = [emitted EXCEPT ![o] = @ + 1]
  /\ topic' = Append(topic, [order |-> o, version |-> emitted[o] + 1])
  /\ UNCHANGED <<request, versions, tables, group, inflight, faults>>

\* The changefeed publishes the next version of a row, in order for each key.
Emit(o) ==
  /\ emitted[o] < Len(versions[o])
  /\ emitted' = [emitted EXCEPT ![o] = @ + 1]
  /\ topic' = Append(topic, [order |-> o, version |-> emitted[o] + 1])
  /\ UNCHANGED <<request, versions, tables, group, inflight, faults>>

\* The changefeed restarts from an earlier checkpoint and will publish again
\* versions it has published before (delivery is at least once).
Reemit(o) ==
  /\ reemits < MaxReemits
  /\ \E n \in 0..(emitted[o] - 1) : emitted' = [emitted EXCEPT ![o] = n]
  /\ reemits' = reemits + 1
  /\ UNCHANGED <<request, versions, tables, topic, group, inflight,
                 rebalances, errors, unacked, crashes>>

-----------------------------------------------------------------------------
(* The consumer: fetching, dispatching *)

\* The reader joins its group: it resumes from the committed offset, or, with
\* none (StartOffset: LastOffset), from the end of the topic.
Join ==
  /\ ~joined
  /\ joined' = TRUE
  /\ position' = IF committed = 0 THEN Len(topic) ELSE committed
  /\ UNCHANGED <<request, versions, tables, feed, committed, inflight, faults>>

Message == topic[inflight.offset]
Payload(m) == versions[m.order][m.version]

\* handleSagaMessages goes on to the next message, without a commit, when the
\* body does not parse or the saga is settled.
Skips(m) ==
  \/ ~request[m.order].parses
  \/ Payload(m).status \in {"cancelled", "finished"}

Fetch ==
  /\ joined
  /\ inflight = Idle
  /\ position < Len(topic)
  /\ position' = position + 1
  /\ inflight' = IF Skips(topic[position + 1]) THEN Idle
                 ELSE [stage |-> "fetched", offset |-> position + 1]
  /\ UNCHANGED <<request, versions, tables, feed, joined, committed, faults>>

\* Which database function each step's processor calls.
processOrder(fails, status) ==
  IF "order" \in fails THEN "cancelSaga"
  ELSE IF status = "in_progress" THEN "createOrder" ELSE "cancelOrder"

processPayment(fails, status) ==
  IF "payment" \in fails THEN "cancelOrder"
  ELSE IF status = "in_progress" THEN "createPayment" ELSE "cancelPayment"

\* Wrong on purpose, to try the properties: the payment is forgotten.
processReservation_KeepsPayment(fails, status) ==
  IF "reservation" \in fails THEN "cancelOrder"
  ELSE IF status = "in_progress" THEN "createReservation" ELSE "cancelReservation"

processReservation(fails, status) ==
  IF "reservation" \in fails THEN "cancelPayment"
  ELSE IF status = "in_progress" THEN "createReservation" ELSE "cancelReservation"

processShipment(fails, status) ==
  IF "shipment" \in fails THEN "cancelReservation"
  ELSE IF status = "in_progress" THEN "createShipment" ELSE "cancelShipment"

process(o, row) ==
  CASE row.step = "order" -> processOrder(request[o].failures, row.status)
    [] row.step = "payment" -> processPayment(request[o].failures, row.status)
    [] row.step = "reservation" -> processReservation(request[o].failures, row.status)
    [] row.step = "shipment" -> processShipment(request[o].failures, row.status)

-----------------------------------------------------------------------------
(* The consumer: the transaction of each database function *)

\* Statements the database refuses.  cancelShipment passes two arguments for
\* one placeholder, which is always an error.
StatementFails(function, o) ==
  \/ function = "createOrder" /\ InsertOrderRefused(o)
  \/ function = "createReservation"
       /\ InsertReservationsRefused(o, request[o].products)
  \/ function = "createShipment" /\ InsertShipmentRefused(o)
  \/ function = "cancelShipment"

Handling(function, o) ==
  /\ inflight.stage = "fetched"
  /\ Message.order = o
  /\ process(o, Payload(Message)) = function

Executes(function, o) ==
  /\ Handling(function, o)
  /\ inflight' = [inflight EXCEPT !.stage = "processed"]
  /\ UNCHANGED <<request, feed, group, faults>>

updateSaga(o, step, status) ==
  versions' = [versions EXCEPT ![o] = Append(@, [step |-> step, status |-> status])]

cancelSaga(o) ==
  /\ Executes("cancelSaga", o)
  /\ UNCHANGED tables
  /\ updateSaga(o, "order", "cancelled")

createOrder(o) ==
  /\ Executes("createOrder", o)
  /\ InsertOrder(o)
  /\ updateSaga(o, "payment", "in_progress")

\* Wrong on purpose, to try the properties: no next version of the row.
cancelOrder_WithoutUpdate(o) ==
  /\ Executes("cancelOrder", o)
  /\ UpdateOrderCancelled(o)
  /\ UNCHANGED versions

cancelOrder(o) ==
  /\ Executes("cancelOrder", o)
  /\ UpdateOrderCancelled(o)
  /\ updateSaga(o, "order", "cancelled")

\* Wrong on purpose, to try the properties: the reservation is left out.
createPayment_ToShipment(o) ==
  /\ Executes("createPayment", o)
  /\ InsertPayment(o)
  /\ updateSaga(o, "shipment", "in_progress")

createPayment(o) ==
  /\ Executes("createPayment", o)
  /\ InsertPayment(o)
  /\ updateSaga(o, "reservation", "in_progress")

\* Wrong on purpose, to try the properties: the row alone is written.
cancelPayment_RowOnly(o) ==
  /\ Executes("cancelPayment", o)
  /\ UNCHANGED tables
  /\ updateSaga(o, "order", "cancelling")

cancelPayment(o) ==
  /\ Executes("cancelPayment", o)
  /\ UpdatePaymentsCancelled(o)
  /\ updateSaga(o, "order", "cancelling")

createReservation(o) ==
  /\ Executes("createReservation", o)
  /\ InsertReservations(o, request[o].products)
  /\ updateSaga(o, "shipment", "in_progress")

cancelReservation(o) ==
  /\ Executes("cancelReservation", o)
  /\ DeleteReservations(o)
  /\ updateSaga(o, "payment", "cancelling")

createShipment(o) ==
  /\ Executes("createShipment", o)
  /\ InsertShipment(o)
  /\ updateSaga(o, "shipment", "finished")

\* The transaction rolls back because the database refuses a statement: the
\* error is logged and the loop goes on to the next message.
Refused(o) ==
  /\ \E function \in {"createOrder", "createReservation", "createShipment",
                      "cancelShipment"} :
       Handling(function, o) /\ StatementFails(function, o)
  /\ inflight' = Idle
  /\ UNCHANGED <<request, versions, tables, feed, group, faults>>

\* The transaction rolls back for a transient reason: same treatment.
TransientError ==
  /\ errors < MaxErrors
  /\ inflight.stage = "fetched"
  /\ inflight' = Idle
  /\ errors' = errors + 1
  /\ UNCHANGED <<request, versions, tables, feed, group,
                 reemits, rebalances, unacked, crashes>>

Commit ==
  /\ inflight.stage = "processed"
  /\ committed' = inflight.offset
  /\ inflight' = Idle
  /\ UNCHANGED <<request, versions, tables, feed, joined, position, faults>>

\* The Kafka commit fails (or the transaction took effect but its commit
\* reported an error): the loop goes on, nothing is committed.
CommitError ==
  /\ unacked < MaxUnacked
  /\ inflight.stage = "processed"
  /\ inflight' = Idle
  /\ unacked' = unacked + 1
  /\ UNCHANGED <<request, versions, tables, feed, group,
                 reemits, rebalances, errors, crashes>>

-----------------------------------------------------------------------------
(* The consumer: losing the partition, losing the process *)

\* The group loses the partition; the message in hand is still handled.
Rebalance ==
  /\ rebalances < MaxRebalances
  /\ joined
  /\ joined' = FALSE
  /\ rebalances' = rebalances + 1
  /\ UNCHANGED <<request, versions, tables, feed, position, committed, inflight,
                 reemits, errors, unacked, crashes>>

\* The process dies and is started again, under a new group (uuid.NewString).
Crash ==
  /\ crashes < MaxCrashes
  /\ joined' = FALSE
  /\ committed' = 0
  /\ inflight' = Idle
  /\ crashes' = crashes + 1
  /\ UNCHANGED <<request, versions, tables, feed, position,
                 reemits, rebalances, errors, unacked>>

-----------------------------------------------------------------------------
Transaction(o) ==
  \/ cancelSaga(o)
  \/ createOrder(o) \/ cancelOrder(o)
  \/ createPayment(o) \/ cancelPayment(o)
  \/ createReservation(o) \/ cancelReservation(o)
  \/ createShipment(o)

Next ==
  \/ \E o \in Orders : createSaga(o) \/ Emit(o) \/ Reemit(o)
  \/ Join \/ Fetch
  \/ \E o \in Orders : Transaction(o) \/ Refused(o)
  \/ TransientError \/ Commit \/ CommitError
  \/ Rebalance \/ Crash

\* The changefeed and the consumer's loop keep running; clients, errors and
\* faults owe nothing.
Fairness ==
  /\ \A o \in Orders : WF_vars(Emit(o))
  /\ WF_vars(Join)
  /\ WF_vars(Fetch)
  /\ \A o \in Orders : WF_vars(Transaction(o) \/ Refused(o))
  /\ WF_vars(Commit)

Spec == Init /\ [][Next]_vars

FairSpec == Spec /\ Fairness

-----------------------------------------------------------------------------
(* Properties *)

\* Every variable has its type: messages and offsets point at what exists.
TypeOK ==
  /\ request \in Requests
  /\ versions \in [Orders -> Seq(Rows)]
  /\ TablesTypeOK
  /\ emitted \in [Orders -> Nat]
  /\ \A o \in Orders : emitted[o] <= Len(versions[o])
  /\ topic \in Seq(Messages)
  /\ \A i \in 1..Len(topic) : topic[i].version <= Len(versions[topic[i].order])
  /\ joined \in BOOLEAN
  /\ position \in 0..Len(topic)
  /\ committed \in 0..Len(topic)
  /\ inflight \in [stage: {"idle", "fetched", "processed"}, offset: 0..Len(topic)]
  /\ inflight.stage # "idle" => inflight.offset # 0
  /\ reemits \in 0..MaxReemits
  /\ rebalances \in 0..MaxRebalances
  /\ errors \in 0..MaxErrors
  /\ unacked \in 0..MaxUnacked
  /\ crashes \in 0..MaxCrashes

\* What a saga row claims to be held for an order that wants the products w.
Claimed(row, w) ==
  [orders |-> IF row.step = "order" /\ row.status # "cancelling" THEN 0 ELSE 1,
   payments |-> IF row.step \in {"order"} \/ row = [step |-> "payment", status |-> "in_progress"]
                THEN 0 ELSE 1,
   reserved |-> IF row.step = "shipment" THEN w ELSE {},
   shipments |-> IF row.status = "finished" THEN 1 ELSE 0]

\* Without redelivery, the row of a saga tells exactly what its four tables
\* hold, at every moment, whatever transactions fail and wherever the process
\* crashes: updateSaga in the same transaction as each insert, update or
\* delete keeps the two together.
RowTellsHoldings ==
  \A o \in Orders : Created(o) => Held(o) = Claimed(Row(o), productsOf(o))

\* Even when messages are delivered again, a shipped order is whole: its order
\* and its payment stand, all its products are reserved, and no part of it is
\* ever taken back, whatever stale message is handled after the shipment.
ShippedIsWhole ==
  \A o \in Orders : shipments[o] # "none" =>
    /\ orders[o] = "in_progress"
    /\ payments[o].preauth >= 1 /\ payments[o].cancelled = 0
    /\ reservations[o] = productsOf(o)

\* payments has no key on the order, so each redelivery of the payment message
\* can charge the customer again.  No replay causes more charges than the
\* redelivered copies explain; without redelivery there is at most one.
ChargesBounded ==
  \A o \in Orders :
    payments[o].preauth + payments[o].cancelled <= (1 + reemits) * (1 + rebalances)

\* The outcome a customer sees: each saga as an order of OrderOutcome.
outcomeBar == [o \in Orders |->
  IF ~Created(o) THEN "absent"
  ELSE CASE Row(o).status = "finished" -> "completed"
         [] Row(o).status = "cancelled" -> "cancelled"
         [] OTHER -> "open"]

Outcome == INSTANCE OrderOutcome WITH
  wanted <- [o \in Orders |-> IF Created(o) THEN productsOf(o) ELSE {}],
  outcome <- outcomeBar,
  held <- [o \in Orders |-> Held(o)]

\* Without redelivery the saga implements the all-or-nothing transaction: it
\* ends with everything or nothing, and an end is final.
ImplementsOutcome == Outcome!Spec

\* The newest version of the order's row is still to be published or to be read,
\* or in hand.
NewestIsAhead(o) ==
  /\ Created(o)
  /\ \/ emitted[o] < Len(versions[o])
     \/ inflight.stage = "fetched"
          /\ Message = [order |-> o, version |-> Len(versions[o])]
     \/ \E i \in (position + 1)..Len(topic) :
          topic[i] = [order |-> o, version |-> Len(versions[o])]

\* The reader will still be given the newest version of the order's row.
NewestIsDue(o) == joined /\ NewestIsAhead(o)

FaultsAreOver ==
  /\ reemits = MaxReemits /\ rebalances = MaxRebalances
  /\ errors = MaxErrors /\ unacked = MaxUnacked /\ crashes = MaxCrashes

\* The body can be handled: it parses, and its products can be reserved
\* (listed once each) unless an earlier step fails.
Servable(o) ==
  /\ request[o].parses
  /\ \/ distinct(request[o].products)
     \/ request[o].failures \cap {"order", "payment", "reservation"} # {}

\* The order's first row was published, and so was every row before it, with
\* none of them handled: the reader began behind them, at the end of the topic.
Missed(o) ==
  \E i \in 1..Len(topic) :
    topic[i].order = o /\ \A j \in 1..i : Len(versions[topic[j].order]) = 1

\* Orders that are not at an end and for which nothing is to come.
Stranded ==
  {o \in Orders :
     Created(o) /\ ~Settled(o) /\ Servable(o) /\ ~NewestIsAhead(o) /\ ~Missed(o)}

\* Without redelivery a saga comes to a halt on its way in three cases only: a
\* transient error or a crash, which costs the saga of the message in hand and no
\* other, or the new group of a process started again, which begins at the end of
\* the topic.  Nothing else between the row, the changefeed, the topic and the
\* consumer's offsets loses the message that would carry a saga on.
StrandedIsPaidFor ==
  [][\/ Stranded' \subseteq Stranded
     \/ /\ errors' > errors \/ crashes' > crashes
        /\ \E o \in Orders : Stranded' \subseteq Stranded \cup {o}
     \/ crashes > 0 /\ ~joined /\ joined']_vars

\* Once errors and crashes are over, a saga whose newest row the consumer has
\* still to see reaches an end (no redelivery).
Settles ==
  \A o \in Orders :
    (FaultsAreOver /\ NewestIsDue(o) /\ Servable(o)) ~> Settled(o)

\* A saga with a failing step heals from redelivery: stale messages may charge
\* the customer again and move a cancelled saga back into progress, but in the
\* end it is cancelled for good and nothing is held.
FailedComesToNothing ==
  \A o \in Orders :
    (FaultsAreOver /\ NewestIsDue(o) /\ Servable(o) /\ request[o].failures # {})
      ~> [](Cancelled(o) /\ Held(o) = Outcome!Nothing)

\* Any version of the order's row is still to be published or read, or in hand.
AnyIsAhead(o) ==
  \/ emitted[o] < Len(versions[o])
  \/ inflight.stage = "fetched" /\ Message.order = o
  \/ \E i \in (position + 1)..Len(topic) : topic[i].order = o

\* However often the changefeed publishes versions again, in whatever order stale
\* and new ones are handled, and whichever commits fail: when nothing of a saga
\* with a failing step is left to be handled, it holds nothing, and is cancelled
\* or was missed by the reader from its start.  (A rebalance before the first
\* commit makes the reader begin at the end of the topic once more.)  A saga whose
\* body does not parse never holds anything, nor leaves its first row.
FailedHoldsNothing ==
  \A o \in Orders :
    /\ errors = 0 /\ crashes = 0 /\ rebalances = 0 =>
         (Created(o) /\ Servable(o) /\ request[o].failures # {} /\ ~AnyIsAhead(o) =>
            Held(o) = Outcome!Nothing /\ (Cancelled(o) \/ Len(versions[o]) = 1))
    /\ ~request[o].parses => Held(o) = Outcome!Nothing /\ Len(versions[o]) <= 1

\* What the comments of the create and cancel functions take for granted: the
\* message of a step that failed stays unacknowledged, so that it can be published
\* and tried again.  No offset the group has committed covers such a message (the
\* reader was in its group when it was published, and the body can be handled).
FailedStaysUnacked ==
  \A k \in 1..committed :
    LET m == topic[k]
    IN  Servable(m.order) /\ ~Missed(m.order) /\ ~Skips(m) =>
          Len(versions[m.order]) > m.version
=============================================================================
