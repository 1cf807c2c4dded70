------------------------- MODULE OrderWorkflowProofs -------------------------
(* Theorems about OrderWorkflow, for any orders, products, requests and bounds. *)
EXTENDS OrderWorkflow, TLAPS

Order(c) == request[c].order
Asked(c) == listed(request[c].products)

\* What there is to cancel at most, and what remains of it after each cancel.
Three == <<"reservation", "payment", "order">>
Two == <<"payment", "order">>
One == <<"order">>

LEMMA CancelSequences ==
  /\ functions["shipment"] = Three /\ functions["reservation"] = Two
  /\ functions["payment"] = One /\ functions["order"] = <<>>
  /\ Head(Three) = "reservation" /\ Head(Two) = "payment" /\ Head(One) = "order"
  /\ Tail(Three) = Two /\ Tail(Two) = One
  /\ Len(Three) = 3 /\ Len(Two) = 2 /\ Len(One) = 1
  /\ {<<>>, Three, Two, One} \subseteq Seq(Steps)
  /\ Three # <<>> /\ Two # <<>> /\ One # <<>>
  /\ Three # Two /\ Three # One /\ Two # One
  BY DEF functions, Three, Two, One, Steps

LEMMA RequestTyping ==
  ASSUME request \in Requests, NEW c \in Clients
  PROVE  /\ request[c] \in RequestType
         /\ Order(c) \in Orders
         /\ Asked(c) \subseteq Products
<1>1. request[c] \in RequestType
  BY RequestsAssumption
<1>2. QED
  BY <1>1 DEF RequestType, Order, Asked, listed

\* The tables keep their types under each statement of a client.
LEMMA StatementTyping ==
  ASSUME TablesTypeOK, request \in Requests, NEW c \in Clients, NEW s \in Steps,
         Creates(s, c) \/ Cancels(s, Order(c)) \/ UNCHANGED tables
  PROVE  TablesTypeOK'
<1>1. Order(c) \in Orders /\ Asked(c) \subseteq Products
  BY RequestTyping
<1>2. CASE Creates(s, c)
  <2>1. CASE InsertOrder(Order(c))
    BY <1>1, <2>1 DEF TablesTypeOK, InsertOrder
  <2>2. CASE InsertPayment(Order(c))
    BY <1>1, <2>2 DEF TablesTypeOK, InsertPayment
  <2>3. CASE InsertReservations(Order(c), request[c].products)
    BY <1>1, <2>3 DEF TablesTypeOK, InsertReservations, Asked
  <2>4. CASE InsertShipment(Order(c))
    BY <1>1, <2>4 DEF TablesTypeOK, InsertShipment
  <2>5. QED
    BY <1>2, <2>1, <2>2, <2>3, <2>4 DEF Creates, Order
<1>3. CASE Cancels(s, Order(c))
  <2>1. CASE UpdateOrderCancelled(Order(c))
    BY <1>1, <2>1 DEF TablesTypeOK, UpdateOrderCancelled
  <2>2. CASE UpdatePaymentsCancelled(Order(c))
    BY <1>1, <2>2 DEF TablesTypeOK, UpdatePaymentsCancelled
  <2>3. CASE DeleteReservations(Order(c))
    BY <1>1, <2>3 DEF TablesTypeOK, DeleteReservations
  <2>4. QED
    BY <1>3, <2>1, <2>2, <2>3 DEF Cancels
<1>4. CASE UNCHANGED tables
  BY <1>4 DEF TablesTypeOK, tables
<1>5. QED
  BY <1>2, <1>3, <1>4

\* Only the cancels of functions, last first, are ever under way.
CancelsInv ==
  \A c \in Clients : cancels[c] \in {<<>>, Three, Two, One}

TypeInv == TypeOK /\ CancelsInv

LEMMA InitTyping == Init => TypeInv
<1> SUFFICES ASSUME Init PROVE TypeInv
  OBVIOUS
<1>1. TablesTypeOK
  BY DEF Init, TablesInit, TablesTypeOK
<1>2. /\ errors \in 0..MaxErrors /\ ambiguous \in 0..MaxAmbiguous
      /\ crashes \in 0..MaxCrashes
  BY BoundsAssumption DEF Init
<1>3. /\ cancels \in [Clients -> Seq(Steps)] /\ CancelsInv
      /\ step \in [Clients -> Steps] /\ doubtful \in [Orders -> SUBSET Steps]
      /\ owner \in [Orders -> SUBSET Clients]
  BY DEF Init, CancelsInv, Steps
<1>4. /\ pc \in [Clients -> {"unsent", "create", "cancel", "done"}]
      /\ \A c \in Clients : pc[c] # "cancel"
      /\ reply \in [Clients -> {"none", "ok", "invalid_order", "creating_order",
                               "cancelling_order"}]
  BY DEF Init
<1>5. request \in Requests
  BY DEF Init
<1>6. QED
  BY <1>1, <1>2, <1>3, <1>4, <1>5 DEF TypeInv, TypeOK

LEMMA AnswerTyping ==
  ASSUME TypeInv, NEW c \in Clients,
         NEW answer \in {"ok", "invalid_order", "creating_order", "cancelling_order"},
         Answer(c, answer)
  PROVE  /\ pc' \in [Clients -> {"unsent", "create", "cancel", "done"}]
         /\ reply' \in [Clients -> {"none", "ok", "invalid_order", "creating_order",
                                  "cancelling_order"}]
         /\ pc'[c] = "done" /\ \A d \in Clients \ {c} : pc'[d] = pc[d]
  BY DEF Answer, TypeInv, TypeOK

LEMMA UnwindTyping ==
  ASSUME TypeInv, NEW c \in Clients, NEW s \in Steps, Creating(c, s), Unwind(c, s)
  PROVE  /\ pc' \in [Clients -> {"unsent", "create", "cancel", "done"}]
         /\ reply' \in [Clients -> {"none", "ok", "invalid_order", "creating_order",
                                  "cancelling_order"}]
         /\ cancels' \in [Clients -> Seq(Steps)]
         /\ \A d \in Clients : pc'[d] = "cancel" => cancels'[d] # <<>>
         /\ CancelsInv'
         /\ UNCHANGED <<request, step>>
<1>1. functions[s] \in {<<>>, Three, Two, One} /\ functions[s] \in Seq(Steps)
  BY CancelSequences DEF Steps
<1>2. cancels' = [cancels EXCEPT ![c] = functions[s]]
  BY DEF Unwind
<1>3. cancels' \in [Clients -> Seq(Steps)] /\ CancelsInv'
  BY <1>1, <1>2 DEF TypeInv, TypeOK, CancelsInv
<1>4. CASE functions[s] = <<>>
  BY <1>2, <1>3, <1>4, AnswerTyping DEF Unwind, TypeInv, TypeOK
<1>5. CASE functions[s] # <<>>
  BY <1>2, <1>3, <1>5 DEF Unwind, TypeInv, TypeOK
<1>6. QED
  BY <1>4, <1>5

LEMMA CreatingTyping ==
  ASSUME TypeInv, NEW c \in Clients, NEW s \in Steps,
         Create(c, s) \/ FailToCreate(c, s) \/ CreateError(c, s) \/ CreateAmbiguous(c, s)
  PROVE  TypeInv'
<1>1. TablesTypeOK' /\ request' = request /\ Order(c) \in Orders
  BY StatementTyping, RequestTyping
     DEF TypeInv, TypeOK, Create, FailToCreate, CreateError, CreateAmbiguous, Unwind
<1>2. CASE Create(c, s)
  <2>1. owner' \in [Orders -> SUBSET Clients]
    BY <1>1, <1>2 DEF Create, TypeInv, TypeOK, Order
  <2>2. CASE s = "shipment"
    <3>1. Answer(c, "ok") /\ UNCHANGED <<step, cancels, doubtful, faults>>
      BY <1>2, <2>2 DEF Create
    <3>2. /\ \A d \in Clients : pc'[d] = "cancel" => cancels'[d] # <<>>
          /\ CancelsInv'
      BY <3>1, AnswerTyping DEF TypeInv, TypeOK, CancelsInv
    <3>3. QED
      BY <1>1, <2>1, <3>1, <3>2, AnswerTyping DEF TypeInv, TypeOK, faults
  <2>3. CASE s # "shipment"
    <3>1. /\ step' = [step EXCEPT ![c] = following[s]]
          /\ UNCHANGED <<pc, reply, cancels, doubtful, faults>>
      BY <1>2, <2>3 DEF Create
    <3>2. following[s] \in Steps
      BY <2>3 DEF following, Steps
    <3>3. step' \in [Clients -> Steps]
      BY <3>1, <3>2 DEF TypeInv, TypeOK
    <3>4. QED
      BY <1>1, <2>1, <3>1, <3>3 DEF TypeInv, TypeOK, CancelsInv, faults
  <2>4. QED
    BY <2>2, <2>3
<1>3. CASE FailToCreate(c, s) \/ CreateError(c, s) \/ CreateAmbiguous(c, s)
  <2>1. Creating(c, s) /\ Unwind(c, s) /\ owner' = owner
    BY <1>3 DEF FailToCreate, CreateError, CreateAmbiguous
  <2>2. /\ errors' \in 0..MaxErrors /\ ambiguous' \in 0..MaxAmbiguous
        /\ crashes' \in 0..MaxCrashes
    BY <1>3, BoundsAssumption
       DEF FailToCreate, CreateError, CreateAmbiguous, faults, TypeInv, TypeOK
  <2>3. doubtful' \in [Orders -> SUBSET Steps]
    BY <1>1, <1>3 DEF FailToCreate, CreateError, CreateAmbiguous, TypeInv, TypeOK, Order
  <2>4. QED
    BY <1>1, <2>1, <2>2, <2>3, UnwindTyping DEF TypeInv, TypeOK
<1>4. QED
  BY <1>2, <1>3

LEMMA CancellingTyping ==
  ASSUME TypeInv, NEW c \in Clients, NEW s \in Steps,
         Cancel(c, s) \/ CancelError(c, s) \/ CancelAmbiguous(c, s)
  PROVE  TypeInv'
<1>1. TablesTypeOK' /\ request' = request
  BY StatementTyping DEF TypeInv, TypeOK, Cancel, CancelError, CancelAmbiguous, Order
<1>2. CASE Cancel(c, s)
  <2>1. cancels[c] \in {Three, Two, One}
    BY <1>2 DEF Cancel, Cancelling, TypeInv, TypeOK, CancelsInv
  <2>2. CASE cancels[c] = One
    <3>1. Tail(One) = <<>>
      BY DEF One
    <3>2. cancels' = [cancels EXCEPT ![c] = <<>>] /\ Answer(c, "creating_order")
      BY <1>2, <2>2, <3>1, CancelSequences DEF Cancel, TypeInv, TypeOK
    <3>3. cancels' \in [Clients -> Seq(Steps)] /\ CancelsInv'
      BY <3>2 DEF TypeInv, TypeOK, CancelsInv
    <3>4. \A d \in Clients : pc'[d] = "cancel" => cancels'[d] # <<>>
      BY <3>2, AnswerTyping DEF TypeInv, TypeOK
    <3>5. QED
      BY <1>1, <1>2, <3>2, <3>3, <3>4, AnswerTyping DEF Cancel, TypeInv, TypeOK, faults
  <2>3. CASE cancels[c] # One
    <3>1. Tail(cancels[c]) \in {Two, One} /\ Len(cancels[c]) # 1
      BY <2>1, <2>3, CancelSequences
    <3>2. cancels' = [cancels EXCEPT ![c] = Tail(cancels[c])] /\ UNCHANGED <<pc, reply>>
      BY <1>2, <3>1 DEF Cancel, TypeInv, TypeOK
    <3>3. cancels' \in [Clients -> Seq(Steps)] /\ CancelsInv'
      BY <3>1, <3>2, CancelSequences DEF TypeInv, TypeOK, CancelsInv
    <3>4. \A d \in Clients : pc'[d] = "cancel" => cancels'[d] # <<>>
      BY <3>1, <3>2, CancelSequences DEF TypeInv, TypeOK
    <3>5. QED
      BY <1>1, <1>2, <3>2, <3>3, <3>4 DEF Cancel, TypeInv, TypeOK, faults
  <2>4. QED
    BY <2>2, <2>3
<1>3. CASE CancelError(c, s) \/ CancelAmbiguous(c, s)
  <2>1. /\ Answer(c, "cancelling_order")
        /\ UNCHANGED <<step, cancels, owner, doubtful>>
    BY <1>3 DEF CancelError, CancelAmbiguous
  <2>2. /\ errors' \in 0..MaxErrors /\ ambiguous' \in 0..MaxAmbiguous
        /\ crashes' \in 0..MaxCrashes
    BY <1>3, BoundsAssumption DEF CancelError, CancelAmbiguous, TypeInv, TypeOK
  <2>3. /\ \A d \in Clients : pc'[d] = "cancel" => cancels'[d] # <<>>
        /\ CancelsInv'
    BY <2>1, AnswerTyping DEF TypeInv, TypeOK, CancelsInv
  <2>4. QED
    BY <1>1, <2>1, <2>2, <2>3, AnswerTyping DEF TypeInv, TypeOK
<1>4. QED
  BY <1>2, <1>3

LEMMA NextTyping == TypeInv /\ [Next]_vars => TypeInv'
<1> SUFFICES ASSUME TypeInv, [Next]_vars PROVE TypeInv'
  OBVIOUS
<1>1. ASSUME NEW c \in Clients, Receive(c) PROVE TypeInv'
  <2>1. TablesTypeOK'
    BY <1>1 DEF Receive, TypeInv, TypeOK, TablesTypeOK, tables
  <2>2. CASE pc' = [pc EXCEPT ![c] = "create"] /\ UNCHANGED reply
    BY <1>1, <2>1, <2>2 DEF Receive, TypeInv, TypeOK, CancelsInv, faults
  <2>3. CASE Answer(c, "invalid_order")
    BY <1>1, <2>1, <2>3, AnswerTyping DEF Receive, TypeInv, TypeOK, CancelsInv, faults
  <2>4. QED
    BY <1>1, <2>2, <2>3 DEF Receive
<1>2. CASE Crash
  <2>1. crashes' \in 0..MaxCrashes
    BY <1>2, BoundsAssumption DEF Crash, TypeInv, TypeOK
  <2>2. /\ pc' \in [Clients -> {"unsent", "create", "cancel", "done"}]
        /\ \A c \in Clients : pc'[c] # "cancel"
    BY <1>2 DEF Crash
  <2>3. TablesTypeOK' /\ CancelsInv'
    BY <1>2 DEF Crash, TypeInv, TypeOK, TablesTypeOK, tables, CancelsInv
  <2>4. QED
    BY <1>2, <2>1, <2>2, <2>3 DEF Crash, TypeInv, TypeOK
<1>3. CASE UNCHANGED vars
  BY <1>3 DEF vars, handlers, faults, tables, TypeInv, TypeOK, TablesTypeOK, CancelsInv
<1>4. QED
  BY <1>1, <1>2, <1>3, CreatingTyping, CancellingTyping DEF Next

\* Type correctness of the tables, the handlers and the clients' answers.
THEOREM Typing == Spec => []TypeOK
<1>1. TypeInv => TypeOK
  BY DEF TypeInv
<1>2. QED
  BY <1>1, InitTyping, NextTyping, PTL DEF Spec

-----------------------------------------------------------------------------
\* Where an order's handler is, and how it ended, tells what the rows of the
\* order hold, but for the step that took effect although it reported an error.

Charges(o) == payments[o].preauth + payments[o].cancelled

NonePaid(o) == payments[o].preauth = 0 \/ "payment" \in doubtful[o]
NoneReserved(o) == reservations[o] = {} \/ "reservation" \in doubtful[o]
NoneShipped(o) == shipments[o] = "none" \/ "shipment" \in doubtful[o]

\* No handler has the order: all there may be is the row of an ambiguous insert.
Unowned(o) ==
  /\ Charges(o) = 0 /\ reservations[o] = {} /\ shipments[o] = "none"
  /\ \/ orders[o] = "none" /\ doubtful[o] = {}
     \/ orders[o] = "in_progress" /\ doubtful[o] = {"order"}

\* Creating: the steps before this one have been taken, and no other.
AtWork(c) ==
  LET o == Order(c) IN
  /\ orders[o] = "in_progress" /\ doubtful[o] = {} /\ shipments[o] = "none"
  /\ payments[o].cancelled = 0
  /\ payments[o].preauth = IF step[c] = "payment" THEN 0 ELSE 1
  /\ reservations[o] = IF step[c] = "shipment" THEN Asked(c) ELSE {}

Unfinished(c) ==
  LET o == Order(c) IN
  /\ doubtful[o] \subseteq {step[c]}
  /\ Charges(o) <= 1
  /\ reservations[o] \subseteq Asked(c)
  /\ NoneShipped(o)

\* Cancelling: what is no longer in cancels has been cancelled.
Unwinding(c) ==
  LET o == Order(c) IN
  /\ Unfinished(c)
  /\ orders[o] = "in_progress"
  /\ cancels[c] # Three => NoneReserved(o)
  /\ cancels[c] = One => NonePaid(o)

Complete(c) ==
  LET o == Order(c) IN
  /\ orders[o] = "in_progress" /\ doubtful[o] = {} /\ shipments[o] = "in_progress"
  /\ payments[o].cancelled = 0 /\ payments[o].preauth = 1
  /\ reservations[o] = Asked(c)

Undone(c) ==
  LET o == Order(c) IN
  /\ Unfinished(c)
  /\ orders[o] = "cancelled" /\ NonePaid(o) /\ NoneReserved(o)

Abandoned(c) ==
  /\ reply[c] = "cancelling_order" \/ (reply[c] = "none" /\ crashes > 0)
  /\ \/ Unfinished(c) /\ orders[Order(c)] = "in_progress"
     \/ Undone(c)

Owned(c) ==
  \/ pc[c] = "create" /\ AtWork(c)
  \/ pc[c] = "cancel" /\ Unwinding(c)
  \/ pc[c] = "done" /\ reply[c] = "ok" /\ Complete(c)
  \/ pc[c] = "done" /\ reply[c] = "creating_order" /\ Undone(c)
  \/ pc[c] = "done" /\ Abandoned(c)

OrderInv(o) ==
  \/ owner[o] = {} /\ Unowned(o)
  \/ \E c \in Clients : owner[o] = {c} /\ Order(c) = o /\ Owned(c)

\* A handler past its first step has the order.
ClientInv(c) ==
  /\ owner[Order(c)] = {c} <=> step[c] # "order"
  /\ pc[c] = "unsent" => step[c] = "order"
  /\ pc[c] = "cancel" => step[c] # "order" /\ cancels[c] \in {Three, Two, One}
  /\ pc[c] # "done" => reply[c] = "none"
  /\ step[c] = "order" => reply[c] \in {"none", "invalid_order", "creating_order"}

RowInv == (\A o \in Orders : OrderInv(o)) /\ \A c \in Clients : ClientInv(c)

LEMMA InitRow == Init => RowInv
<1> SUFFICES ASSUME Init PROVE RowInv
  OBVIOUS
<1>1. ASSUME NEW o \in Orders PROVE OrderInv(o)
  BY DEF Init, TablesInit, OrderInv, Unowned, Charges
<1>2. ASSUME NEW c \in Clients PROVE ClientInv(c)
  <2>1. Order(c) \in Orders
    BY RequestTyping DEF Init
  <2>2. QED
    BY <2>1 DEF Init, ClientInv
<1>3. QED
  BY <1>1, <1>2 DEF RowInv

\* Only the rows of c's order and c's own handler may change.
Apart(c) ==
  /\ UNCHANGED <<request, crashes>>
  /\ \A d \in Clients \ {c} :
       /\ pc'[d] = pc[d] /\ step'[d] = step[d]
       /\ cancels'[d] = cancels[d] /\ reply'[d] = reply[d]
  /\ \A o \in Orders \ {Order(c)} :
       /\ orders'[o] = orders[o] /\ payments'[o] = payments[o]
       /\ reservations'[o] = reservations[o] /\ shipments'[o] = shipments[o]
       /\ owner'[o] = owner[o] /\ doubtful'[o] = doubtful[o]

\* An order whose rows and whose handler have not moved keeps its invariant.
LEMMA OwnedKept ==
  ASSUME NEW d \in Clients, Owned(d), UNCHANGED <<request, crashes>>,
         pc'[d] = pc[d], step'[d] = step[d], cancels'[d] = cancels[d], reply'[d] = reply[d],
         LET o == Order(d) IN
           /\ orders'[o] = orders[o] /\ payments'[o] = payments[o]
           /\ reservations'[o] = reservations[o] /\ shipments'[o] = shipments[o]
           /\ doubtful'[o] = doubtful[o]
  PROVE  Owned(d)'
<1>1. Order(d)' = Order(d) /\ Asked(d)' = Asked(d)
  BY DEF Order, Asked
<1>2. /\ AtWork(d)' = AtWork(d) /\ Complete(d)' = Complete(d)
      /\ Unfinished(d)' = Unfinished(d)
  BY <1>1 DEF AtWork, Complete, Unfinished, Charges, NoneShipped
<1>3. Unwinding(d)' = Unwinding(d) /\ Undone(d)' = Undone(d)
  BY <1>1, <1>2 DEF Unwinding, Undone, NonePaid, NoneReserved
<1>4. Abandoned(d)' = Abandoned(d)
  BY <1>1, <1>2, <1>3 DEF Abandoned
<1>5. QED
  BY <1>2, <1>3, <1>4 DEF Owned

LEMMA Frame ==
  ASSUME TypeInv, RowInv, NEW c \in Clients, Apart(c),
         owner'[Order(c)] = owner[Order(c)]
           \/ (owner[Order(c)] = {} /\ owner'[Order(c)] = {c}),
         OrderInv(Order(c))', ClientInv(c)'
  PROVE  RowInv'
<1>1. \A d \in Clients : Order(d)' = Order(d) /\ Order(d) \in Orders
  BY RequestTyping DEF Apart, Order, TypeInv, TypeOK
<1>2. ASSUME NEW o \in Orders, o # Order(c) PROVE OrderInv(o)'
  <2>1. CASE owner[o] = {} /\ Unowned(o)
    BY <1>2, <2>1 DEF Apart, OrderInv, Unowned, Charges
  <2>2. CASE \E d \in Clients : owner[o] = {d} /\ Order(d) = o /\ Owned(d)
    <3>1. PICK d \in Clients : owner[o] = {d} /\ Order(d) = o /\ Owned(d)
      BY <2>2
    <3>2. d # c
      BY <1>2, <3>1
    <3>3. Owned(d)'
      BY <1>2, <3>1, <3>2, OwnedKept DEF Apart
    <3>4. QED
      BY <1>1, <1>2, <3>1, <3>3 DEF Apart, OrderInv
  <2>3. QED
    BY <2>1, <2>2 DEF RowInv, OrderInv
<1>3. ASSUME NEW d \in Clients, d # c PROVE ClientInv(d)'
  <2>1. owner'[Order(d)] = {d} <=> owner[Order(d)] = {d}
    BY <1>1, <1>3 DEF Apart
  <2>2. ClientInv(d)
    BY DEF RowInv
  <2>3. QED
    BY <1>1, <1>3, <2>1, <2>2 DEF Apart, ClientInv
<1>4. QED
  BY <1>1, <1>2, <1>3 DEF RowInv

\* A handler still at its first step that leaves the rows of the order alone.
LEMMA Aside ==
  ASSUME TypeInv, RowInv, NEW c \in Clients, Apart(c), step[c] = "order",
         LET o == Order(c) IN
           /\ orders'[o] = orders[o] /\ payments'[o] = payments[o]
           /\ reservations'[o] = reservations[o] /\ shipments'[o] = shipments[o]
           /\ owner'[o] = owner[o] /\ doubtful'[o] = doubtful[o],
         ClientInv(c)'
  PROVE  RowInv'
<1> DEFINE o == Order(c)
<1>1. o \in Orders /\ o' = o
  BY RequestTyping DEF Apart, Order, TypeInv, TypeOK
<1>2. owner[o] # {c}
  BY DEF RowInv, ClientInv
<1>3. OrderInv(o)'
  <2>1. CASE owner[o] = {} /\ Unowned(o)
    BY <1>1, <2>1 DEF OrderInv, Unowned, Charges
  <2>2. CASE \E d \in Clients : owner[o] = {d} /\ Order(d) = o /\ Owned(d)
    <3>1. PICK d \in Clients : owner[o] = {d} /\ Order(d) = o /\ Owned(d)
      BY <2>2
    <3>2. d # c
      BY <1>2, <3>1
    <3>3. Owned(d)' /\ Order(d)' = o
      BY <3>1, <3>2, OwnedKept DEF Apart, Order
    <3>4. QED
      BY <1>1, <3>1, <3>3 DEF OrderInv
  <2>3. QED
    BY <1>1, <2>1, <2>2 DEF RowInv, OrderInv
<1>4. QED
  BY <1>1, <1>3, Frame

\* Whom the order belongs to while its handler creates or cancels.
LEMMA Owner ==
  ASSUME TypeInv, RowInv, NEW c \in Clients, step[c] # "order"
  PROVE  Order(c) \in Orders /\ owner[Order(c)] = {c} /\ Owned(c)
<1>1. Order(c) \in Orders /\ owner[Order(c)] = {c}
  BY RequestTyping DEF RowInv, ClientInv, TypeInv, TypeOK
<1>2. PICK d \in Clients : owner[Order(c)] = {d} /\ Order(d) = Order(c) /\ Owned(d)
  BY <1>1 DEF RowInv, OrderInv
<1>3. QED
  BY <1>1, <1>2

LEMMA StatementApart ==
  ASSUME TypeInv, NEW c \in Clients, NEW s \in Steps,
         Creates(s, c) \/ Cancels(s, Order(c)) \/ UNCHANGED tables
  PROVE  \A o \in Orders \ {Order(c)} :
           /\ orders'[o] = orders[o] /\ payments'[o] = payments[o]
           /\ reservations'[o] = reservations[o] /\ shipments'[o] = shipments[o]
<1>1. CASE Creates(s, c)
  BY <1>1 DEF Creates, Order, InsertOrder, InsertPayment, InsertReservations, InsertShipment,
              TypeInv, TypeOK, TablesTypeOK
<1>2. CASE Cancels(s, Order(c))
  BY <1>2 DEF Cancels, UpdateOrderCancelled, UpdatePaymentsCancelled, DeleteReservations,
              TypeInv, TypeOK, TablesTypeOK
<1>3. CASE UNCHANGED tables
  BY <1>3 DEF tables
<1>4. QED
  BY <1>1, <1>2, <1>3

LEMMA CreatingApart ==
  ASSUME TypeInv, NEW c \in Clients, NEW s \in Steps,
         Create(c, s) \/ FailToCreate(c, s) \/ CreateError(c, s) \/ CreateAmbiguous(c, s)
  PROVE  Apart(c)
<1>1. Creates(s, c) \/ UNCHANGED tables
  BY DEF Create, FailToCreate, CreateError, CreateAmbiguous
<1>2. UNCHANGED <<request, crashes>>
  BY DEF Create, FailToCreate, CreateError, CreateAmbiguous, Unwind, faults
<1>3. \A d \in Clients \ {c} :
        /\ pc'[d] = pc[d] /\ step'[d] = step[d]
        /\ cancels'[d] = cancels[d] /\ reply'[d] = reply[d]
  BY DEF Create, FailToCreate, CreateError, CreateAmbiguous, Unwind, Answer, TypeInv, TypeOK
<1>4. \A o \in Orders \ {Order(c)} : owner'[o] = owner[o] /\ doubtful'[o] = doubtful[o]
  BY DEF Create, FailToCreate, CreateError, CreateAmbiguous, Order, TypeInv, TypeOK
<1>5. QED
  BY <1>1, <1>2, <1>3, <1>4, StatementApart DEF Apart

LEMMA CancellingApart ==
  ASSUME TypeInv, NEW c \in Clients, NEW s \in Steps,
         Cancel(c, s) \/ CancelError(c, s) \/ CancelAmbiguous(c, s)
  PROVE  Apart(c)
<1>1. Cancels(s, Order(c)) \/ UNCHANGED tables
  BY DEF Cancel, CancelError, CancelAmbiguous, Order
<1>2. UNCHANGED <<request, owner, doubtful, crashes>>
  BY DEF Cancel, CancelError, CancelAmbiguous, faults
<1>3. \A d \in Clients \ {c} :
        /\ pc'[d] = pc[d] /\ step'[d] = step[d]
        /\ cancels'[d] = cancels[d] /\ reply'[d] = reply[d]
  BY DEF Cancel, CancelError, CancelAmbiguous, Answer, TypeInv, TypeOK
<1>4. QED
  BY <1>1, <1>2, <1>3, StatementApart DEF Apart

\* The first step: its primary key lets one handler take the order.
LEMMA FirstStep ==
  ASSUME TypeInv, RowInv, NEW c \in Clients,
         Create(c, "order") \/ FailToCreate(c, "order")
           \/ CreateError(c, "order") \/ CreateAmbiguous(c, "order")
  PROVE  RowInv'
<1> DEFINE o == Order(c)
<1>0. /\ o \in Orders /\ Apart(c) /\ "order" \in Steps
      /\ pc[c] = "create" /\ step[c] = "order" /\ o' = o
  BY RequestTyping, CreatingApart
  DEF TypeInv, TypeOK, Steps, Creating, Create, FailToCreate, CreateError, CreateAmbiguous,
      Apart, Order
<1>1. ClientInv(c)
  BY DEF RowInv
<1>2. ASSUME orders[o] = "none" PROVE owner[o] = {} /\ Unowned(o)
  BY <1>0, <1>2 DEF RowInv, OrderInv, Owned, AtWork, Unwinding, Complete, Undone, Abandoned
<1>3. CASE Create(c, "order")
  <2>1. InsertOrder(o) /\ UNCHANGED <<pc, reply, cancels, doubtful>>
    BY <1>3 DEF Create, Creates, Order
  <2>2. owner[o] = {} /\ Unowned(o) /\ doubtful[o] = {}
    BY <1>2, <2>1 DEF InsertOrder, InsertOrderRefused, Unowned
  <2>3. step'[c] = "payment" /\ owner'[o] = {c}
    BY <1>0, <1>3 DEF Create, Order, following, TypeInv, TypeOK
  <2>4. ClientInv(c)'
    BY <1>0, <1>1, <2>1, <2>3 DEF ClientInv
  <2>5. /\ orders'[o] = "in_progress" /\ doubtful'[o] = {} /\ shipments'[o] = "none"
        /\ payments'[o].cancelled = 0 /\ payments'[o].preauth = 0 /\ reservations'[o] = {}
    BY <1>0, <2>1, <2>2 DEF InsertOrder, Unowned, Charges, TypeInv, TypeOK, TablesTypeOK
  <2>6. AtWork(c)' /\ pc'[c] = "create"
    BY <1>0, <2>1, <2>3, <2>5 DEF AtWork
  <2>7. OrderInv(o)'
    BY <1>0, <2>3, <2>6 DEF OrderInv, Owned
  <2>8. QED
    BY <1>0, <2>2, <2>3, <2>4, <2>7, Frame
<1>4. CASE FailToCreate(c, "order") \/ CreateError(c, "order")
  <2>1. UNCHANGED <<tables, owner, doubtful>> /\ Answer(c, "creating_order") /\ step' = step
    BY <1>4, CancelSequences DEF FailToCreate, CreateError, Unwind
  <2>2. ClientInv(c)'
    BY <1>0, <1>1, <2>1 DEF ClientInv, Answer, TypeInv, TypeOK
  <2>3. QED
    BY <1>0, <2>1, <2>2, Aside DEF tables
<1>5. CASE CreateAmbiguous(c, "order")
  <2>1. InsertOrder(o) /\ Answer(c, "creating_order") /\ UNCHANGED <<step, owner>>
    BY <1>5, CancelSequences DEF CreateAmbiguous, Unwind, Creates, Order
  <2>2. owner[o] = {} /\ Unowned(o) /\ doubtful[o] = {}
    BY <1>2, <2>1 DEF InsertOrder, InsertOrderRefused, Unowned
  <2>3. ClientInv(c)'
    BY <1>0, <1>1, <2>1 DEF ClientInv, Answer, TypeInv, TypeOK
  <2>4. doubtful'[o] = {"order"}
    BY <1>0, <1>5, <2>2 DEF CreateAmbiguous, Order, TypeInv, TypeOK
  <2>5. Unowned(o)'
    BY <1>0, <2>1, <2>2, <2>4 DEF InsertOrder, Unowned, Charges, TypeInv, TypeOK, TablesTypeOK
  <2>6. QED
    BY <1>0, <2>1, <2>2, <2>3, <2>5, Frame DEF OrderInv
<1>6. QED
  BY <1>3, <1>4, <1>5

\* The next steps: only the handler that has the order takes them, each once.
LEMMA NextStep ==
  ASSUME TypeInv, RowInv, NEW c \in Clients, NEW s \in Steps \ {"order"}, Create(c, s)
  PROVE  RowInv'
<1> DEFINE o == Order(c)
<1>1. /\ o \in Orders /\ owner[o] = {c} /\ AtWork(c) /\ ClientInv(c)
      /\ pc[c] = "create" /\ step[c] = s
  BY Owner DEF Owned, Create, Creating, RowInv
<1>2. Apart(c) /\ UNCHANGED <<owner, doubtful, cancels>> /\ o' = o /\ Asked(c)' = Asked(c)
  BY CreatingApart DEF Create, Order, Asked
<1>3. CASE s = "payment"
  <2>1. InsertPayment(o) /\ step'[c] = "reservation" /\ UNCHANGED <<pc, reply>>
    BY <1>1, <1>3 DEF Create, Creates, following, Order, TypeInv, TypeOK
  <2>2. payments'[o] = [preauth |-> 1, cancelled |-> 0]
    BY <1>1, <1>3, <2>1 DEF InsertPayment, AtWork, TypeInv, TypeOK, TablesTypeOK
  <2>3. AtWork(c)'
    BY <1>1, <1>2, <1>3, <2>1, <2>2 DEF InsertPayment, AtWork
  <2>4. QED
    BY <1>1, <1>2, <1>3, <2>1, <2>3, Frame DEF OrderInv, Owned, ClientInv
<1>4. CASE s = "reservation"
  <2>1. /\ InsertReservations(o, request[c].products) /\ step'[c] = "shipment"
        /\ UNCHANGED <<pc, reply>>
    BY <1>1, <1>4 DEF Create, Creates, following, Order, TypeInv, TypeOK
  <2>2. reservations'[o] = Asked(c)
    BY <1>1, <1>4, <2>1 DEF InsertReservations, AtWork, Asked, TypeInv, TypeOK, TablesTypeOK
  <2>3. AtWork(c)'
    BY <1>1, <1>2, <1>4, <2>1, <2>2 DEF InsertReservations, AtWork
  <2>4. QED
    BY <1>1, <1>2, <1>4, <2>1, <2>3, Frame DEF OrderInv, Owned, ClientInv
<1>5. CASE s = "shipment"
  <2>1. InsertShipment(o) /\ Answer(c, "ok") /\ UNCHANGED step
    BY <1>5 DEF Create, Creates, Order
  <2>2. shipments'[o] = "in_progress"
    BY <1>1, <2>1 DEF InsertShipment, TypeInv, TypeOK, TablesTypeOK
  <2>3. Complete(c)'
    BY <1>1, <1>2, <1>5, <2>1, <2>2 DEF InsertShipment, AtWork, Complete
  <2>4. pc'[c] = "done" /\ reply'[c] = "ok"
    BY <2>1 DEF Answer, TypeInv, TypeOK
  <2>5. QED
    BY <1>1, <1>2, <1>5, <2>1, <2>3, <2>4, Frame DEF OrderInv, Owned, ClientInv
<1>6. QED
  BY <1>3, <1>4, <1>5 DEF Steps

\* When such a step fails, or is told to have failed, what was taken is what
\* there is to cancel.
LEMMA TurnBack ==
  ASSUME TypeInv, RowInv, NEW c \in Clients, NEW s \in Steps \ {"order"},
         FailToCreate(c, s) \/ CreateError(c, s) \/ CreateAmbiguous(c, s)
  PROVE  RowInv'
<1> DEFINE o == Order(c)
<1>1. Creating(c, s) /\ Unwind(c, s)
  BY DEF FailToCreate, CreateError, CreateAmbiguous
<1>2. /\ o \in Orders /\ owner[o] = {c} /\ AtWork(c) /\ ClientInv(c)
      /\ pc[c] = "create" /\ step[c] = s
  BY <1>1, Owner DEF Owned, Creating, RowInv
<1>3. Apart(c) /\ UNCHANGED <<owner, step>> /\ o' = o /\ Asked(c)' = Asked(c)
  BY CreatingApart
  DEF FailToCreate, CreateError, CreateAmbiguous, Unwind, Order, Asked
<1>4. /\ pc'[c] = "cancel" /\ reply' = reply
      /\ cancels'[c] = functions[s] /\ functions[s] \in {Three, Two, One}
      /\ functions[s] = Three => s = "shipment"
      /\ functions[s] = Two => s = "reservation"
      /\ functions[s] = One => s = "payment"
  BY <1>1, CancelSequences DEF Unwind, Steps, TypeInv, TypeOK
<1>5. ClientInv(c)'
  BY <1>2, <1>3, <1>4 DEF ClientInv
<1>6. CASE UNCHANGED <<tables, doubtful>>
  <2>1. Unfinished(c)'
    BY <1>2, <1>3, <1>6
    DEF AtWork, Unfinished, Charges, NoneShipped, tables, TypeInv, TypeOK, TablesTypeOK
  <2>2. Unwinding(c)'
    BY <1>2, <1>3, <1>4, <1>6, <2>1 DEF AtWork, Unwinding, NonePaid, NoneReserved, tables
  <2>3. QED
    BY <1>2, <1>3, <1>4, <1>5, <2>2, Frame DEF OrderInv, Owned
<1>7. CASE Creates(s, c) /\ doubtful' = [doubtful EXCEPT ![o] = @ \cup {s}]
  <2>1. doubtful'[o] = {s}
    BY <1>2, <1>7 DEF AtWork, TypeInv, TypeOK
  <2>2. CASE s = "payment"
    <3>1. /\ payments'[o].preauth + payments'[o].cancelled = 1
          /\ UNCHANGED <<orders, reservations, shipments>>
      BY <1>2, <1>7, <2>2
      DEF Creates, InsertPayment, AtWork, Order, TypeInv, TypeOK, TablesTypeOK
    <3>2. Unfinished(c)'
      BY <1>2, <1>3, <2>1, <2>2, <3>1 DEF AtWork, Unfinished, Charges, NoneShipped
    <3>3. QED
      BY <1>2, <1>3, <1>4, <2>1, <2>2, <3>1, <3>2, <1>5, Frame
      DEF AtWork, Unwinding, NonePaid, NoneReserved, OrderInv, Owned
  <2>3. CASE s = "reservation"
    <3>1. reservations'[o] = Asked(c) /\ UNCHANGED <<orders, payments, shipments>>
      BY <1>2, <1>7, <2>3
      DEF Creates, InsertReservations, AtWork, Order, Asked, TypeInv, TypeOK, TablesTypeOK
    <3>2. Unfinished(c)'
      BY <1>2, <1>3, <2>1, <2>3, <3>1
      DEF AtWork, Unfinished, Charges, NoneShipped, TypeInv, TypeOK, TablesTypeOK
    <3>3. QED
      BY <1>2, <1>3, <1>4, <2>1, <2>3, <3>1, <3>2, <1>5, Frame
      DEF AtWork, Unwinding, NonePaid, NoneReserved, OrderInv, Owned
  <2>4. CASE s = "shipment"
    <3>1. UNCHANGED <<orders, payments, reservations>>
      BY <1>7, <2>4 DEF Creates, InsertShipment
    <3>2. Unfinished(c)'
      BY <1>2, <1>3, <2>1, <2>4, <3>1
      DEF AtWork, Unfinished, Charges, NoneShipped, TypeInv, TypeOK, TablesTypeOK
    <3>3. QED
      BY <1>2, <1>3, <1>4, <2>1, <2>4, <3>1, <3>2, <1>5, Frame
      DEF AtWork, Unwinding, NonePaid, NoneReserved, OrderInv, Owned
  <2>5. QED
    BY <2>2, <2>3, <2>4 DEF Steps
<1>8. QED
  BY <1>6, <1>7 DEF FailToCreate, CreateError, CreateAmbiguous, Order

\* A cancel that takes effect, whatever the handler is told of it.
LEMMA CancelEffect ==
  ASSUME TypeInv, NEW c \in Clients, NEW s \in Steps, Order(c) \in Orders, request' = request,
         UNCHANGED <<step, doubtful>>, Unwinding(c), cancels[c] \in {Three, Two, One},
         Head(cancels[c]) = s, Cancels(s, Order(c))
  PROVE  /\ Unfinished(c)'
         /\ cancels[c] = Three =>
              orders'[Order(c)] = "in_progress" /\ NoneReserved(Order(c))'
         /\ cancels[c] = Two =>
              /\ orders'[Order(c)] = "in_progress"
              /\ NoneReserved(Order(c))' /\ NonePaid(Order(c))'
         /\ cancels[c] = One => Undone(c)'
<1> DEFINE o == Order(c)
<1>1. o' = o /\ Asked(c)' = Asked(c)
  BY DEF Order, Asked
<1>2. CASE cancels[c] = Three
  <2>1. reservations'[o] = {} /\ UNCHANGED <<orders, payments, shipments>>
    BY <1>2, CancelSequences DEF Cancels, DeleteReservations, TypeInv, TypeOK, TablesTypeOK
  <2>2. QED
    BY <1>1, <1>2, <2>1, CancelSequences
    DEF Unwinding, Unfinished, Charges, NoneShipped, NoneReserved
<1>3. CASE cancels[c] = Two
  <2>1. UpdatePaymentsCancelled(o)
    BY <1>3, CancelSequences DEF Cancels
  <2>2. /\ payments'[o].preauth = 0 /\ payments'[o].cancelled = Charges(o)
        /\ UNCHANGED <<orders, reservations, shipments>>
    BY <2>1 DEF UpdatePaymentsCancelled, Charges, TypeInv, TypeOK, TablesTypeOK
  <2>3. Charges(o) \in Nat /\ Charges(o)' = Charges(o)
    BY <1>1, <2>2 DEF Charges, TypeInv, TypeOK, TablesTypeOK
  <2>4. QED
    BY <1>1, <1>3, <2>2, <2>3, CancelSequences
    DEF Unwinding, Unfinished, NoneShipped, NoneReserved, NonePaid
<1>4. CASE cancels[c] = One
  <2>1. orders'[o] = "cancelled" /\ UNCHANGED <<payments, reservations, shipments>>
    BY <1>4, CancelSequences DEF Cancels, UpdateOrderCancelled, Unwinding, TypeInv, TypeOK, TablesTypeOK
  <2>2. QED
    BY <1>1, <1>4, <2>1, CancelSequences
    DEF Unwinding, Undone, Unfinished, Charges, NoneShipped, NoneReserved, NonePaid
<1>5. QED
  BY <1>2, <1>3, <1>4

LEMMA CancelStep ==
  ASSUME TypeInv, RowInv, NEW c \in Clients, NEW s \in Steps,
         Cancel(c, s) \/ CancelError(c, s) \/ CancelAmbiguous(c, s)
  PROVE  RowInv'
<1> DEFINE o == Order(c)
<1>1. pc[c] = "cancel" /\ Head(cancels[c]) = s
  BY DEF Cancel, CancelError, CancelAmbiguous, Cancelling
<1>2. /\ o \in Orders /\ owner[o] = {c} /\ Unwinding(c) /\ ClientInv(c)
      /\ cancels[c] \in {Three, Two, One}
  BY <1>1, Owner DEF Owned, RowInv, ClientInv
<1>3. /\ Apart(c) /\ UNCHANGED <<request, owner, step, doubtful>>
      /\ o' = o /\ Asked(c)' = Asked(c)
  BY CancellingApart DEF Cancel, CancelError, CancelAmbiguous, Order, Asked
<1>4. CASE Cancel(c, s) /\ cancels[c] # One
  <2>1. Cancels(s, o) /\ UNCHANGED <<pc, reply>> /\ cancels'[c] = Tail(cancels[c])
    BY <1>2, <1>4, CancelSequences DEF Cancel, Order, TypeInv, TypeOK
  <2>2. ASSUME cancels[c] = Three PROVE Unwinding(c)' /\ cancels'[c] = Two
    <3>1. cancels'[c] = Two
      BY <2>1, <2>2, CancelSequences
    <3>2. Unfinished(c)' /\ orders'[o] = "in_progress" /\ NoneReserved(o)'
      BY <1>1, <1>2, <1>3, <2>1, <2>2, CancelEffect
    <3>3. Unwinding(c)'
      BY <1>3, <3>1, <3>2, CancelSequences DEF Unwinding
    <3>4. QED
      BY <3>1, <3>3
  <2>3. ASSUME cancels[c] = Two PROVE Unwinding(c)' /\ cancels'[c] = One
    <3>1. cancels'[c] = One
      BY <2>1, <2>3, CancelSequences
    <3>2. /\ Unfinished(c)' /\ orders'[o] = "in_progress"
          /\ NoneReserved(o)' /\ NonePaid(o)'
      BY <1>1, <1>2, <1>3, <2>1, <2>3, CancelEffect
    <3>3. Unwinding(c)'
      BY <1>3, <3>1, <3>2 DEF Unwinding
    <3>4. QED
      BY <3>1, <3>3
  <2>4. Unwinding(c)' /\ cancels'[c] \in {Two, One}
    BY <1>2, <1>4, <2>1, <2>2, <2>3, CancelSequences
  <2>5. ClientInv(c)'
    BY <1>1, <1>2, <1>3, <2>1, <2>4 DEF ClientInv
  <2>6. QED
    BY <1>1, <1>2, <1>3, <2>1, <2>4, <2>5, Frame DEF OrderInv, Owned
<1>5. CASE Cancel(c, s) /\ cancels[c] = One
  <2>1. Cancels(s, o) /\ Answer(c, "creating_order")
    BY <1>5, CancelSequences DEF Cancel, Order
  <2>2. pc'[c] = "done" /\ reply'[c] = "creating_order"
    BY <2>1 DEF Answer, TypeInv, TypeOK
  <2>3. Undone(c)'
    BY <1>1, <1>2, <1>3, <1>5, <2>1, CancelEffect
  <2>4. ClientInv(c)'
    BY <1>1, <1>2, <1>3, <2>2 DEF ClientInv
  <2>5. QED
    BY <1>2, <1>3, <2>2, <2>3, <2>4, Frame DEF OrderInv, Owned
<1>6. CASE CancelError(c, s) \/ CancelAmbiguous(c, s)
  <2>1. Answer(c, "cancelling_order") /\ (Cancels(s, o) \/ UNCHANGED tables)
    BY <1>6 DEF CancelError, CancelAmbiguous, Order
  <2>2. pc'[c] = "done" /\ reply'[c] = "cancelling_order"
    BY <2>1 DEF Answer, TypeInv, TypeOK
  <2>3. ClientInv(c)'
    BY <1>1, <1>2, <1>3, <2>2 DEF ClientInv
  <2>4. Abandoned(c)'
    <3>1. CASE Cancels(s, o)
      BY <1>1, <1>2, <1>3, <2>2, <3>1, CancelEffect DEF Abandoned
    <3>2. CASE UNCHANGED tables
      <4>1. Unfinished(c)' /\ orders'[o] = "in_progress"
        BY <1>2, <1>3, <3>2 DEF Unwinding, Unfinished, Charges, NoneShipped, tables
      <4>2. QED
        BY <1>3, <2>2, <4>1 DEF Abandoned
    <3>3. QED
      BY <2>1, <3>1, <3>2
  <2>5. QED
    BY <1>2, <1>3, <2>2, <2>3, <2>4, Frame DEF OrderInv, Owned
<1>7. QED
  BY <1>4, <1>5, <1>6

LEMMA ReceiveStep ==
  ASSUME TypeInv, RowInv, NEW c \in Clients, Receive(c)
  PROVE  RowInv'
<1>1. Apart(c) /\ step[c] = "order" /\ ClientInv(c)
  BY DEF Receive, Answer, Apart, faults, tables, RowInv, ClientInv, TypeInv, TypeOK
<1>2. ClientInv(c)'
  BY <1>1 DEF Receive, Answer, ClientInv, Order, TypeInv, TypeOK
<1>3. QED
  BY <1>1, <1>2, Aside DEF Receive, tables

LEMMA CrashStep ==
  ASSUME TypeInv, RowInv, Crash
  PROVE  RowInv'
<1>1. UNCHANGED <<request, tables, step, cancels, reply, owner, doubtful>> /\ crashes' > 0
  BY DEF Crash, TypeInv, TypeOK
<1>2. ASSUME NEW c \in Clients PROVE Order(c)' = Order(c) /\ Asked(c)' = Asked(c)
  BY <1>1 DEF Order, Asked
<1>3. ASSUME NEW c \in Clients PROVE ClientInv(c)'
  BY <1>1, <1>2 DEF Crash, RowInv, ClientInv, TypeInv, TypeOK
<1>4. ASSUME NEW c \in Clients, Owned(c), pc[c] # "unsent", ClientInv(c) PROVE Owned(c)'
  <2>1. pc'[c] = "done" /\ (pc[c] # "done" => reply'[c] = "none")
    BY <1>1, <1>4 DEF Crash, ClientInv
  <2>2. Unfinished(c)' = Unfinished(c) /\ Complete(c)' = Complete(c) /\ Undone(c)' = Undone(c)
    BY <1>1, <1>2
    DEF tables, Unfinished, Complete, Undone, Charges, NonePaid, NoneReserved, NoneShipped
  <2>3. CASE pc[c] = "create" /\ AtWork(c)
    <3>1. Unfinished(c) /\ orders[Order(c)] = "in_progress"
      BY <2>3, RequestTyping
      DEF AtWork, Unfinished, Charges, NoneShipped, TypeInv, TypeOK, TablesTypeOK
    <3>2. QED
      BY <1>1, <1>2, <2>1, <2>2, <2>3, <3>1 DEF Owned, Abandoned, tables
  <2>4. CASE pc[c] = "cancel" /\ Unwinding(c)
    BY <1>1, <1>2, <2>1, <2>2, <2>4 DEF Unwinding, Owned, Abandoned, tables
  <2>5. CASE pc[c] = "done"
    <3>1. Abandoned(c) => Abandoned(c)'
      BY <1>1, <1>2, <2>2 DEF Abandoned, tables
    <3>2. QED
      BY <1>1, <1>4, <2>1, <2>2, <2>5, <3>1 DEF Owned
  <2>6. QED
    BY <1>4, <2>3, <2>4, <2>5 DEF Owned
<1>5. ASSUME NEW o \in Orders PROVE OrderInv(o)'
  <2>1. CASE owner[o] = {} /\ Unowned(o)
    BY <1>1, <2>1 DEF OrderInv, Unowned, Charges, tables
  <2>2. CASE \E c \in Clients : owner[o] = {c} /\ Order(c) = o /\ Owned(c)
    <3>1. PICK c \in Clients : owner[o] = {c} /\ Order(c) = o /\ Owned(c)
      BY <2>2
    <3>2. ClientInv(c) /\ pc[c] # "unsent"
      BY <3>1 DEF RowInv, ClientInv
    <3>3. Owned(c)'
      BY <1>4, <3>1, <3>2
    <3>4. QED
      BY <1>1, <1>2, <3>1, <3>3 DEF OrderInv
  <2>3. QED
    BY <2>1, <2>2 DEF RowInv, OrderInv
<1>6. QED
  BY <1>3, <1>5 DEF RowInv

LEMMA NextRow == TypeInv /\ RowInv /\ [Next]_vars => RowInv'
<1> SUFFICES ASSUME TypeInv, RowInv, [Next]_vars PROVE RowInv'
  OBVIOUS
<1>1. ASSUME NEW c \in Clients, NEW s \in Steps,
             Create(c, s) \/ FailToCreate(c, s) \/ CreateError(c, s) \/ CreateAmbiguous(c, s)
      PROVE  RowInv'
  BY <1>1, FirstStep, NextStep, TurnBack
<1>2. CASE UNCHANGED vars
  <2>1. ASSUME NEW c \in Clients PROVE ClientInv(c)'
    BY <1>2 DEF vars, handlers, RowInv, ClientInv, Order
  <2>2. ASSUME NEW c \in Clients, Owned(c) PROVE Owned(c)'
    BY <1>2, <2>2, OwnedKept DEF vars, handlers, faults, tables
  <2>3. ASSUME NEW o \in Orders PROVE OrderInv(o)'
    <3>1. OrderInv(o)
      BY DEF RowInv
    <3>2. QED
      BY <1>2, <2>2, <3>1 DEF vars, tables, OrderInv, Unowned, Charges, Order
  <2>4. QED
    BY <2>1, <2>3 DEF RowInv
<1>3. QED
  BY <1>1, <1>2, CancelStep, ReceiveStep, CrashStep DEF Next

LEMMA Invariance == Spec => [](TypeInv /\ RowInv)
BY InitTyping, InitRow, NextTyping, NextRow, PTL DEF Spec

-----------------------------------------------------------------------------
(* The properties *)

LEMMA OneOwner ==
  ASSUME RowInv, NEW o \in Orders, NEW c \in owner[o]
  PROVE  owner[o] = {c} /\ Order(c) = o /\ Owned(c) /\ c \in Clients
BY DEF RowInv, OrderInv

\* The payment of an order is taken at most once: only the handler whose insert
\* the primary key let through reaches the payment, and it never goes back.
THEOREM Charged == Spec => []ChargedOnce
<1>1. ASSUME TypeInv, RowInv, NEW o \in Orders PROVE Charges(o) <= 1
  <2>1. CASE owner[o] = {}
    BY <1>1, <2>1 DEF RowInv, OrderInv, Unowned
  <2>2. CASE owner[o] # {}
    <3>1. PICK c \in owner[o] : TRUE
      BY <2>2
    <3>2. Order(c) = o /\ Owned(c)
      BY <1>1, <3>1, OneOwner
    <3>3. QED
      BY <3>2 DEF Owned, AtWork, Unwinding, Complete, Abandoned, Undone, Unfinished, Charges
  <2>3. QED
    BY <2>1, <2>2
<1>2. TypeInv /\ RowInv => ChargedOnce
  BY <1>1 DEF ChargedOnce, Charges
<1>3. QED
  BY <1>2, Invariance, PTL

\* What a handler that ended holds for certain.
LEMMA HeldWhenComplete ==
  ASSUME TypeInv, NEW c \in Clients, Complete(c)
  PROVE  /\ Held(Order(c)) = Outcome!Everything(Asked(c))
         /\ CertainlyHeld(Order(c)) = Outcome!Everything(Asked(c))
  BY DEF Complete, Held, CertainlyHeld, Outcome!Everything

LEMMA HeldWhenUndone ==
  ASSUME TypeInv, RowInv, NEW c \in Clients, step[c] # "order", Undone(c)
  PROVE  CertainlyHeld(Order(c)) = Outcome!Nothing
<1>1. "order" \notin doubtful[Order(c)] /\ Held(Order(c)).orders = 0
  BY DEF Undone, Unfinished, Held
<1>2. CertainlyHeld(Order(c)).payments = 0 /\ CertainlyHeld(Order(c)).reserved = {}
  BY DEF Undone, NonePaid, NoneReserved, CertainlyHeld, Held
<1>3. CertainlyHeld(Order(c)).shipments = 0
  BY DEF Undone, Unfinished, NoneShipped, CertainlyHeld, Held
<1>4. QED
  BY <1>1, <1>2, <1>3 DEF CertainlyHeld, Outcome!Nothing

\* "ok" means that all the client asked for stands, and a failed creation that
\* nothing the handler is sure of is held.
THEOREM RepliesTrue == Spec => []ReplyTellsTruth
<1>1. ASSUME TypeInv, RowInv, NEW c \in Clients, reply[c] = "ok"
      PROVE  owner[Order(c)] = {c} /\ Held(Order(c)) = Outcome!Everything(Asked(c))
  <2>1. step[c] # "order" /\ pc[c] = "done"
    BY <1>1 DEF RowInv, ClientInv, TypeInv, TypeOK
  <2>2. owner[Order(c)] = {c} /\ Owned(c)
    BY <1>1, <2>1, Owner
  <2>3. Complete(c)
    BY <1>1, <2>1, <2>2 DEF Owned, Abandoned
  <2>4. QED
    BY <1>1, <2>2, <2>3, HeldWhenComplete
<1>2. ASSUME TypeInv, RowInv, NEW c \in Clients,
             reply[c] = "creating_order", owner[Order(c)] = {c}
      PROVE  CertainlyHeld(Order(c)) = Outcome!Nothing
  <2>1. step[c] # "order" /\ pc[c] = "done"
    BY <1>2 DEF RowInv, ClientInv, TypeInv, TypeOK
  <2>2. Undone(c)
    BY <1>2, <2>1, Owner DEF Owned, Abandoned
  <2>3. QED
    BY <1>2, <2>1, <2>2, HeldWhenUndone
<1>3. TypeInv /\ RowInv => ReplyTellsTruth
  BY <1>1, <1>2 DEF ReplyTellsTruth, Order, Asked
<1>4. QED
  BY <1>3, Invariance, PTL

\* The outcome of an order that a client's handler has.
LEMMA OutcomeTells ==
  ASSUME TypeInv, RowInv, NEW c \in Clients, step[c] # "order"
  PROVE  LET o == Order(c) IN
         /\ Complete(c) => outcomeBar[o] = "completed"
         /\ Undone(c) => outcomeBar[o] = "cancelled"
         /\ AtWork(c) => outcomeBar[o] = "open"
         /\ Unfinished(c) /\ orders[o] = "in_progress" => outcomeBar[o] = "open"
<1>1. Order(c) \in Orders /\ owner[Order(c)] = {c}
  BY Owner
<1>2. Complete(c) => outcomeBar[Order(c)] = "completed"
  BY <1>1 DEF Complete, outcomeBar, CertainlyHeld, Held
<1>3. Undone(c) => outcomeBar[Order(c)] = "cancelled"
  BY <1>1 DEF Undone, outcomeBar
<1>4. NoneShipped(Order(c)) => CertainlyHeld(Order(c)).shipments = 0
  BY DEF NoneShipped, CertainlyHeld, Held
<1>5. QED
  BY <1>1, <1>2, <1>3, <1>4 DEF AtWork, Unfinished, NoneShipped, outcomeBar

\* An order left open was left by a crash or by a cancel that failed, and of
\* the latter the client has been told.
THEOREM Abandonment == Spec => []AbandonedIsExplained
<1>1. ASSUME TypeInv, RowInv, NEW o \in Orders, NEW c \in owner[o],
             outcomeBar[o] = "open", pc[c] = "done"
      PROVE  crashes > 0 \/ reply[c] = "cancelling_order"
  <2>1. owner[o] = {c} /\ Order(c) = o /\ Owned(c) /\ c \in Clients
    BY <1>1, OneOwner
  <2>2. step[c] # "order"
    BY <1>1, <2>1 DEF RowInv, ClientInv
  <2>3. ~Complete(c) /\ ~Undone(c)
    BY <1>1, <2>1, <2>2, OutcomeTells
  <2>4. QED
    BY <1>1, <2>1, <2>3 DEF Owned, Abandoned
<1>2. TypeInv /\ RowInv => AbandonedIsExplained
  BY <1>1 DEF AbandonedIsExplained
<1>3. QED
  BY <1>2, Invariance, PTL

-----------------------------------------------------------------------------
(* The refinement *)

heldBar == [o \in Orders |-> CertainlyHeld(o)]

LEMMA RowsSame ==
  ASSUME request' = request, NEW o \in Orders,
         orders'[o] = orders[o], payments'[o] = payments[o],
         reservations'[o] = reservations[o], shipments'[o] = shipments[o],
         owner'[o] = owner[o], doubtful'[o] = doubtful[o]
  PROVE  /\ wantedBar'[o] = wantedBar[o] /\ outcomeBar'[o] = outcomeBar[o]
         /\ heldBar'[o] = heldBar[o]
<1>1. Held(o)' = Held(o)
  BY DEF Held
<1>2. CertainlyHeld(o)' = CertainlyHeld(o)
  BY <1>1 DEF CertainlyHeld
<1>3. QED
  BY <1>2 DEF wantedBar, outcomeBar, heldBar

\* What a step of one handler changes of the abstract state.
LEMMA OneOrder ==
  ASSUME NEW c \in Clients, Apart(c), Order(c) \in Orders
  PROVE  LET o == Order(c) IN
         /\ wantedBar' = [wantedBar EXCEPT ![o] = wantedBar'[o]]
         /\ outcomeBar' = [outcomeBar EXCEPT ![o] = outcomeBar'[o]]
         /\ heldBar' = [heldBar EXCEPT ![o] = heldBar'[o]]
<1>1. \A x \in Orders \ {Order(c)} :
        /\ wantedBar'[x] = wantedBar[x] /\ outcomeBar'[x] = outcomeBar[x]
        /\ heldBar'[x] = heldBar[x]
  BY RowsSame DEF Apart
<1>2. QED
  BY <1>1 DEF wantedBar, outcomeBar, heldBar

LEMMA HeldParts ==
  ASSUME TypeInv, NEW c \in Clients, step[c] # "order", Order(c) \in Orders,
         AtWork(c) \/ (Unfinished(c) /\ orders[Order(c)] = "in_progress")
  PROVE  heldBar[Order(c)] \in Outcome!Parts(Asked(c))
<1> DEFINE o == Order(c)
<1>1. /\ orders[o] = "in_progress" /\ "order" \notin doubtful[o]
      /\ payments[o].preauth \in 0..1 /\ reservations[o] \subseteq Asked(c) /\ NoneShipped(o)
  BY DEF AtWork, Unfinished, NoneShipped, Charges, TypeInv, TypeOK, TablesTypeOK
<1>2. CertainlyHeld(o).orders \in 0..1 /\ CertainlyHeld(o).payments \in 0..1
  BY <1>1 DEF CertainlyHeld, Held
<1>3. CertainlyHeld(o).reserved \in SUBSET Asked(c) /\ CertainlyHeld(o).shipments \in {0}
  BY <1>1 DEF CertainlyHeld, Held, NoneShipped
<1>4. QED
  BY <1>2, <1>3 DEF CertainlyHeld, heldBar, Outcome!Parts

LEMMA WantedOf ==
  ASSUME NEW c \in Clients, Order(c) \in Orders, owner[Order(c)] = {c}
  PROVE  wantedBar[Order(c)] = Asked(c)
BY DEF wantedBar, Asked

\* What the rows say in the abstract: an order that no handler has is not there
\* yet, and one that a handler has is open while the handler is at work on it.
Told(c) ==
  LET o == Order(c) IN
  /\ owner[o] = {c} /\ wantedBar[o] = Asked(c)
  /\ \/ outcomeBar[o] = "open" /\ heldBar[o] \in Outcome!Parts(Asked(c))
     \/ /\ pc[c] = "done" /\ outcomeBar[o] = "completed"
        /\ heldBar[o] = Outcome!Everything(Asked(c))
     \/ pc[c] = "done" /\ outcomeBar[o] = "cancelled" /\ heldBar[o] = Outcome!Nothing

Untold(o) ==
  wantedBar[o] = {} /\ outcomeBar[o] = "absent" /\ heldBar[o] = Outcome!Nothing

BarsInv ==
  /\ \A o \in Orders : owner[o] = {} => Untold(o)
  /\ \A c \in Clients : step[c] # "order" => Told(c)

LEMMA Bars == TypeInv /\ RowInv => BarsInv
<1> SUFFICES ASSUME TypeInv, RowInv PROVE BarsInv
  OBVIOUS
<1>1. ASSUME NEW o \in Orders, owner[o] = {} PROVE Untold(o)
  <2>1. Unowned(o)
    BY <1>1 DEF RowInv, OrderInv
  <2>2. payments[o].preauth = 0
    BY <2>1 DEF Unowned, Charges, TypeInv, TypeOK, TablesTypeOK
  <2>3. CertainlyHeld(o) = Outcome!Nothing
    BY <2>1, <2>2 DEF Unowned, CertainlyHeld, Held, Outcome!Nothing
  <2>4. QED
    BY <1>1, <2>3 DEF Untold, wantedBar, outcomeBar, heldBar
<1>2. ASSUME NEW c \in Clients, step[c] # "order" PROVE Told(c)
  <2>1. Order(c) \in Orders /\ owner[Order(c)] = {c} /\ Owned(c)
    BY <1>2, Owner
  <2>2. wantedBar[Order(c)] = Asked(c)
    BY <2>1 DEF wantedBar, Asked
  <2>3. CASE Complete(c) /\ pc[c] = "done"
    <3>1. outcomeBar[Order(c)] = "completed"
      BY <1>2, <2>3, OutcomeTells
    <3>2. QED
      BY <2>1, <2>2, <2>3, <3>1, HeldWhenComplete DEF Told, heldBar
  <2>4. CASE Undone(c) /\ pc[c] = "done"
    <3>1. outcomeBar[Order(c)] = "cancelled"
      BY <1>2, <2>4, OutcomeTells
    <3>2. QED
      BY <1>2, <2>1, <2>2, <2>4, <3>1, HeldWhenUndone DEF Told, heldBar
  <2>5. CASE AtWork(c) \/ (Unfinished(c) /\ orders[Order(c)] = "in_progress")
    <3>1. outcomeBar[Order(c)] = "open"
      BY <1>2, <2>5, OutcomeTells
    <3>2. QED
      BY <1>2, <2>1, <2>2, <2>5, <3>1, HeldParts DEF Told
  <2>6. QED
    BY <2>1, <2>3, <2>4, <2>5 DEF Owned, Unwinding, Abandoned
<1>3. QED
  BY <1>1, <1>2 DEF BarsInv

\* A step of the handler that has the order.
LEMMA OwnerImplements ==
  ASSUME BarsInv, BarsInv', NEW c \in Clients, Order(c) \in Orders, Apart(c),
         step[c] # "order", step'[c] # "order", pc[c] # "done"
  PROVE  LET o == Order(c) IN Outcome!Work(o) \/ Outcome!Complete(o) \/ Outcome!Cancel(o)
<1> DEFINE o == Order(c)
<1>1. o' = o /\ Asked(c)' = Asked(c)
  BY DEF Apart, Order, Asked
<1>2. /\ wantedBar[o] = Asked(c) /\ wantedBar'[o] = Asked(c)
      /\ outcomeBar[o] = "open" /\ Told(c)'
  BY <1>1 DEF BarsInv, Told
<1>3. /\ wantedBar' = [wantedBar EXCEPT ![o] = wantedBar'[o]]
      /\ outcomeBar' = [outcomeBar EXCEPT ![o] = outcomeBar'[o]]
      /\ heldBar' = [heldBar EXCEPT ![o] = heldBar'[o]]
  BY OneOrder
<1>4. wantedBar' = wantedBar
  BY <1>2, <1>3 DEF wantedBar
<1>5. \/ outcomeBar'[o] = "open" /\ heldBar'[o] \in Outcome!Parts(Asked(c))
      \/ outcomeBar'[o] = "completed" /\ heldBar'[o] = Outcome!Everything(Asked(c))
      \/ outcomeBar'[o] = "cancelled" /\ heldBar'[o] = Outcome!Nothing
  BY <1>1, <1>2 DEF Told
<1>6. CASE outcomeBar'[o] = "open" /\ heldBar'[o] \in Outcome!Parts(Asked(c))
  BY <1>2, <1>3, <1>4, <1>6 DEF Outcome!Work, Outcome!Becomes, heldBar
<1>7. CASE outcomeBar'[o] = "completed" /\ heldBar'[o] = Outcome!Everything(Asked(c))
  BY <1>2, <1>3, <1>4, <1>7 DEF Outcome!Complete, Outcome!Becomes, heldBar
<1>8. CASE outcomeBar'[o] = "cancelled" /\ heldBar'[o] = Outcome!Nothing
  BY <1>2, <1>3, <1>4, <1>8 DEF Outcome!Cancel, Outcome!Becomes, heldBar
<1>9. QED
  BY <1>5, <1>6, <1>7, <1>8

\* The insert of the order's row submits it.
LEMMA FirstImplements ==
  ASSUME TypeInv, RowInv, BarsInv, BarsInv', NEW c \in Clients, Create(c, "order")
  PROVE  Outcome!Submit(Order(c))
<1> DEFINE o == Order(c)
<1>1. /\ o \in Orders /\ Asked(c) \subseteq Products /\ Apart(c) /\ "order" \in Steps
      /\ o' = o /\ Asked(c)' = Asked(c)
  BY RequestTyping, CreatingApart DEF TypeInv, TypeOK, Steps, Apart, Order, Asked
<1>2. owner[o] = {}
  BY <1>1
  DEF Create, Creates, InsertOrder, InsertOrderRefused, Order, RowInv, OrderInv,
      Owned, AtWork, Unwinding, Complete, Undone, Abandoned
<1>3. step'[c] = "payment" /\ pc'[c] = "create"
  BY DEF Create, Creating, following, TypeInv, TypeOK
<1>4. Untold(o) /\ Told(c)'
  BY <1>1, <1>2, <1>3 DEF BarsInv
<1>5. /\ wantedBar' = [wantedBar EXCEPT ![o] = Asked(c)]
      /\ outcomeBar' = [outcomeBar EXCEPT ![o] = "open"]
      /\ heldBar' = [heldBar EXCEPT ![o] = heldBar'[o]]
      /\ heldBar'[o] \in Outcome!Parts(Asked(c))
  BY <1>1, <1>3, <1>4, OneOrder DEF Told
<1>6. QED
  BY <1>1, <1>4, <1>5 DEF Untold, Outcome!Submit, Outcome!Becomes, heldBar

\* The compensating workflow implements the all-or-nothing order, up to the
\* steps that took effect although they reported an error, for any number of
\* clients and orders and any faults.
THEOREM Implements == Spec => ImplementsOutcome
<1>1. Init => Outcome!Init
  <2> SUFFICES ASSUME Init PROVE Outcome!Init
    OBVIOUS
  <2>1. \A o \in Orders : owner[o] = {} /\ CertainlyHeld(o) = Outcome!Nothing
    BY DEF Init, TablesInit, CertainlyHeld, Held, Outcome!Nothing
  <2>2. QED
    BY <2>1 DEF Outcome!Init, wantedBar, outcomeBar
<1>2. /\ TypeInv /\ RowInv /\ BarsInv /\ RowInv' /\ BarsInv' /\ [Next]_vars
      => [Outcome!Next]_(Outcome!vars)
  <2> SUFFICES ASSUME TypeInv, RowInv, BarsInv, RowInv', BarsInv', [Next]_vars
               PROVE  Outcome!Next \/ UNCHANGED Outcome!vars
    OBVIOUS
  <2>1. ASSUME UNCHANGED <<request, tables, owner, doubtful>> PROVE UNCHANGED Outcome!vars
    <3>1. \A o \in Orders : CertainlyHeld(o)' = CertainlyHeld(o)
      BY <2>1 DEF CertainlyHeld, Held, tables
    <3>2. QED
      BY <2>1, <3>1 DEF Outcome!vars, wantedBar, outcomeBar, tables
  <2>2. ASSUME NEW c \in Clients, NEW s \in Steps \ {"order"},
               \/ Create(c, s) \/ FailToCreate(c, s) \/ CreateError(c, s)
               \/ CreateAmbiguous(c, s)
        PROVE  Outcome!Next
    <3>1. Order(c) \in Orders /\ Apart(c) /\ step[c] # "order" /\ pc[c] # "done"
      BY <2>2, RequestTyping, CreatingApart
      DEF TypeInv, TypeOK, Create, FailToCreate, CreateError, CreateAmbiguous, Creating
    <3>2. step'[c] # "order"
      BY <2>2, <3>1
      DEF Create, FailToCreate, CreateError, CreateAmbiguous, Unwind, following, Steps,
          TypeInv, TypeOK
    <3>3. QED
      BY <3>1, <3>2, OwnerImplements DEF Outcome!Next
  <2>3. ASSUME NEW c \in Clients, NEW s \in Steps,
               Cancel(c, s) \/ CancelError(c, s) \/ CancelAmbiguous(c, s)
        PROVE  Outcome!Next
    <3>1. Order(c) \in Orders /\ Apart(c) /\ step' = step /\ pc[c] = "cancel"
      BY <2>3, RequestTyping, CancellingApart
      DEF TypeInv, TypeOK, Cancel, CancelError, CancelAmbiguous, Cancelling
    <3>2. step[c] # "order"
      BY <3>1 DEF RowInv, ClientInv
    <3>3. QED
      BY <3>1, <3>2, OwnerImplements DEF Outcome!Next
  <2>4. ASSUME NEW c \in Clients, CreateAmbiguous(c, "order") PROVE UNCHANGED Outcome!vars
    <3>1. Order(c) \in Orders /\ Apart(c) /\ "order" \in Steps /\ owner' = owner
      BY <2>4, RequestTyping, CreatingApart DEF TypeInv, TypeOK, Steps, CreateAmbiguous
    <3>2. owner[Order(c)] = {}
      BY <2>4, <3>1
      DEF CreateAmbiguous, Creates, InsertOrder, InsertOrderRefused, Order, RowInv, OrderInv,
          Owned, AtWork, Unwinding, Complete, Undone, Abandoned
    <3>3. Order(c)' = Order(c)
      BY <3>1 DEF Apart, Order
    <3>4. Untold(Order(c)) /\ Untold(Order(c))'
      BY <3>1, <3>2, <3>3 DEF BarsInv
    <3>5. /\ wantedBar'[Order(c)] = wantedBar[Order(c)]
          /\ outcomeBar'[Order(c)] = outcomeBar[Order(c)]
          /\ heldBar'[Order(c)] = heldBar[Order(c)]
      BY <3>3, <3>4 DEF Untold, Outcome!Nothing
    <3>6. wantedBar' = wantedBar
      <4>1. wantedBar' = [wantedBar EXCEPT ![Order(c)] = wantedBar[Order(c)]]
        BY <3>1, <3>5, OneOrder
      <4>2. QED
        BY <4>1 DEF wantedBar
    <3>7. outcomeBar' = outcomeBar
      <4>1. outcomeBar' = [outcomeBar EXCEPT ![Order(c)] = outcomeBar[Order(c)]]
        BY <3>1, <3>5, OneOrder
      <4>2. QED
        BY <4>1 DEF outcomeBar
    <3>8. heldBar' = heldBar
      <4>1. heldBar' = [heldBar EXCEPT ![Order(c)] = heldBar[Order(c)]]
        BY <3>1, <3>5, OneOrder
      <4>2. QED
        BY <4>1 DEF heldBar
    <3>9. QED
      BY <3>6, <3>7, <3>8 DEF Outcome!vars, heldBar
  <2>5. ASSUME NEW c \in Clients, Create(c, "order") PROVE Outcome!Next
    BY <2>5, FirstImplements, RequestTyping DEF Outcome!Next, TypeInv, TypeOK
  <2>6. ASSUME NEW c \in Clients,
               Receive(c) \/ FailToCreate(c, "order") \/ CreateError(c, "order")
        PROVE  UNCHANGED <<request, tables, owner, doubtful>>
    BY <2>6 DEF Receive, FailToCreate, CreateError, Unwind
  <2>7. CASE Crash \/ UNCHANGED vars
    BY <2>1, <2>7 DEF Crash, vars, tables
  <2>8. QED
    BY <2>1, <2>2, <2>3, <2>4, <2>5, <2>6, <2>7 DEF Next
<1>3. QED
  BY <1>1, <1>2, Bars, Invariance, PTL DEF Spec, ImplementsOutcome, Outcome!Spec
=============================================================================
