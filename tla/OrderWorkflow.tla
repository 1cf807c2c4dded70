--------------------------- MODULE OrderWorkflow ---------------------------
(***************************************************************************)
(* The order handler of 001_fragile_data_integrations/                     *)
(* business_transactions/before.  Each HTTP request runs handleCreateOrder *)
(* in a goroutine of its own: it creates the order, the payment, the       *)
(* reservations and the shipment, each in a transaction of its own, and    *)
(* when one cannot be created it cancels the earlier ones, last first.     *)
(***************************************************************************)
EXTENDS OrderTables

CONSTANTS Clients,       \* one HTTP request each
          Requests,      \* the bodies they may post: a set of functions on Clients
          MaxErrors,     \* bound: transactions rolled back for a transient error
          MaxAmbiguous,  \* bound: transactions that commit but return an error
          MaxCrashes     \* bound: crashes of the process

Steps == {"order", "payment", "reservation", "shipment"}

RequestType ==
  [order: Orders, products: Seq(Products), failures: SUBSET Steps, parses: BOOLEAN]

ASSUME RequestsAssumption == Requests \subseteq [Clients -> RequestType]

ASSUME BoundsAssumption ==
  MaxErrors \in Nat /\ MaxAmbiguous \in Nat /\ MaxCrashes \in Nat

VARIABLES
  request,    \* the body each client posts
  pc,         \* where each handler is: "unsent", "create", "cancel" or "done"
  step,       \* the step it is creating
  cancels,    \* the steps it has still to cancel
  reply,      \* what the client was answered
  owner,      \* history: {the client whose handler created the order}, or {}
  doubtful,   \* history: steps of each order that committed but returned an error
  errors, ambiguous, crashes    \* faults so far

handlers == <<pc, step, cancels, reply>>
faults == <<errors, ambiguous, crashes>>
vars == <<request, tables, handlers, owner, doubtful, faults>>

\* Wrong on purpose, to try the properties: first to last, and a step missed.
functions_FirstToLast ==
  [order |-> <<>>,
   payment |-> <<"order">>,
   reservation |-> <<"order", "payment">>,
   shipment |-> <<"order", "payment", "reservation">>]

functions_KeepsPayment ==
  [order |-> <<>>,
   payment |-> <<"order">>,
   reservation |-> <<"order">>,
   shipment |-> <<"reservation", "payment", "order">>]

\* The compensating workflow: what to cancel when a step cannot be created.
functions ==
  [order |-> <<>>,
   payment |-> <<"order">>,
   reservation |-> <<"payment", "order">>,
   shipment |-> <<"reservation", "payment", "order">>]

following == [order |-> "payment", payment |-> "reservation", reservation |-> "shipment"]

Init ==
  /\ request \in Requests
  /\ TablesInit
  /\ pc = [c \in Clients |-> "unsent"]
  /\ step = [c \in Clients |-> "order"]
  /\ cancels = [c \in Clients |-> <<>>]
  /\ reply = [c \in Clients |-> "none"]
  /\ owner = [o \in Orders |-> {}]
  /\ doubtful = [o \in Orders |-> {}]
  /\ errors = 0 /\ ambiguous = 0 /\ crashes = 0

Answer(c, answer) ==
  /\ pc' = [pc EXCEPT ![c] = "done"]
  /\ reply' = [reply EXCEPT ![c] = answer]

\* POST /orders: a body that does not parse is answered at once.
Receive(c) ==
  /\ pc[c] = "unsent"
  /\ \/ request[c].parses /\ pc' = [pc EXCEPT ![c] = "create"] /\ UNCHANGED reply
     \/ ~request[c].parses /\ Answer(c, "invalid_order")
  /\ UNCHANGED <<request, tables, step, cancels, owner, doubtful, faults>>

-----------------------------------------------------------------------------
(* Creating *)

Creating(c, s) == pc[c] = "create" /\ step[c] = s

\* The create functions: the statement each runs, when it is not to fail.
Creates(s, c) ==
  LET o == request[c].order IN
  /\ s \notin request[c].failures
  /\ \/ s = "order" /\ InsertOrder(o)
     \/ s = "payment" /\ InsertPayment(o)
     \/ s = "reservation" /\ InsertReservations(o, request[c].products)
     \/ s = "shipment" /\ InsertShipment(o)

CreateFails(s, c) ==
  LET o == request[c].order IN
  \/ s \in request[c].failures
  \/ s = "order" /\ InsertOrderRefused(o)
  \/ s = "reservation" /\ InsertReservationsRefused(o, request[c].products)
  \/ s = "shipment" /\ InsertShipmentRefused(o)

Create(c, s) ==
  /\ Creating(c, s)
  /\ Creates(s, c)
  /\ owner' = IF s = "order" THEN [owner EXCEPT ![request[c].order] = {c}] ELSE owner
  /\ IF s = "shipment" THEN Answer(c, "ok") /\ UNCHANGED step
     ELSE step' = [step EXCEPT ![c] = following[s]] /\ UNCHANGED <<pc, reply>>
  /\ UNCHANGED <<request, cancels, doubtful, faults>>

\* Wrong on purpose, to try the properties: no answer with nothing to cancel.
Unwind_AlwaysCancels(c, s) ==
  /\ pc' = [pc EXCEPT ![c] = "cancel"]
  /\ cancels' = [cancels EXCEPT ![c] = functions[s]]
  /\ UNCHANGED <<request, step, reply>>

\* handleCreateOrder turns to the cancels of the step that failed.
Unwind(c, s) ==
  /\ IF functions[s] = <<>> THEN Answer(c, "creating_order")
     ELSE pc' = [pc EXCEPT ![c] = "cancel"] /\ UNCHANGED reply
  /\ cancels' = [cancels EXCEPT ![c] = functions[s]]
  /\ UNCHANGED <<request, step>>

\* A mocked failure, or a statement the database refuses.
FailToCreate(c, s) ==
  /\ Creating(c, s)
  /\ CreateFails(s, c)
  /\ Unwind(c, s)
  /\ UNCHANGED <<tables, owner, doubtful, faults>>

CreateError(c, s) ==
  /\ errors < MaxErrors
  /\ Creating(c, s)
  /\ Unwind(c, s)
  /\ errors' = errors + 1
  /\ UNCHANGED <<tables, owner, doubtful, ambiguous, crashes>>

\* The transaction commits but its result is lost: ExecuteTx returns an error.
CreateAmbiguous(c, s) ==
  /\ ambiguous < MaxAmbiguous
  /\ Creating(c, s)
  /\ Creates(s, c)
  /\ Unwind(c, s)
  /\ ambiguous' = ambiguous + 1
  /\ doubtful' = [doubtful EXCEPT ![request[c].order] = @ \cup {s}]
  /\ UNCHANGED <<owner, errors, crashes>>

-----------------------------------------------------------------------------
(* Cancelling *)

Cancelling(c, s) == pc[c] = "cancel" /\ Head(cancels[c]) = s

Cancels(s, o) ==
  \/ s = "order" /\ UpdateOrderCancelled(o)
  \/ s = "payment" /\ UpdatePaymentsCancelled(o)
  \/ s = "reservation" /\ DeleteReservations(o)

Cancel(c, s) ==
  /\ Cancelling(c, s)
  /\ Cancels(s, request[c].order)
  /\ cancels' = [cancels EXCEPT ![c] = Tail(@)]
  /\ IF Len(cancels[c]) = 1 THEN Answer(c, "creating_order") ELSE UNCHANGED <<pc, reply>>
  /\ UNCHANGED <<request, step, owner, doubtful, faults>>

\* Wrong on purpose, to try the properties: the cancel's error is swallowed.
CancelError_Swallowed(c, s) ==
  /\ errors < MaxErrors
  /\ Cancelling(c, s)
  /\ Answer(c, "creating_order")
  /\ errors' = errors + 1
  /\ UNCHANGED <<request, tables, step, cancels, owner, doubtful, ambiguous, crashes>>

\* A cancel that fails ends the handler: the rest is not cancelled.
CancelError(c, s) ==
  /\ errors < MaxErrors
  /\ Cancelling(c, s)
  /\ Answer(c, "cancelling_order")
  /\ errors' = errors + 1
  /\ UNCHANGED <<request, tables, step, cancels, owner, doubtful, ambiguous, crashes>>

CancelAmbiguous(c, s) ==
  /\ ambiguous < MaxAmbiguous
  /\ Cancelling(c, s)
  /\ Cancels(s, request[c].order)
  /\ Answer(c, "cancelling_order")
  /\ ambiguous' = ambiguous + 1
  /\ UNCHANGED <<request, step, cancels, owner, doubtful, errors, crashes>>

-----------------------------------------------------------------------------
\* The process dies: every handler at work is gone, and nothing resumes it.
Crash ==
  /\ crashes < MaxCrashes
  /\ pc' = [c \in Clients |-> IF pc[c] = "unsent" THEN "unsent" ELSE "done"]
  /\ crashes' = crashes + 1
  /\ UNCHANGED <<request, tables, step, cancels, reply, owner, doubtful, errors, ambiguous>>

Next ==
  \/ \E c \in Clients : Receive(c)
  \/ \E c \in Clients, s \in Steps :
       \/ Create(c, s) \/ FailToCreate(c, s) \/ CreateError(c, s) \/ CreateAmbiguous(c, s)
       \/ Cancel(c, s) \/ CancelError(c, s) \/ CancelAmbiguous(c, s)
  \/ Crash

Spec == Init /\ [][Next]_vars

-----------------------------------------------------------------------------
(* Properties *)

TypeOK ==
  /\ request \in Requests
  /\ TablesTypeOK
  /\ pc \in [Clients -> {"unsent", "create", "cancel", "done"}]
  /\ step \in [Clients -> Steps]
  /\ cancels \in [Clients -> Seq(Steps)]
  /\ \A c \in Clients : pc[c] = "cancel" => cancels[c] # <<>>
  /\ reply \in [Clients -> {"none", "ok", "invalid_order", "creating_order",
                          "cancelling_order"}]
  /\ owner \in [Orders -> SUBSET Clients]
  /\ doubtful \in [Orders -> SUBSET Steps]
  /\ errors \in 0..MaxErrors /\ ambiguous \in 0..MaxAmbiguous /\ crashes \in 0..MaxCrashes

\* What is held for an order, leaving out the steps whose transaction took
\* effect although the handler was told that it failed.
CertainlyHeld(o) ==
  [orders |-> IF "order" \in doubtful[o] THEN 0 ELSE Held(o).orders,
   payments |-> IF "payment" \in doubtful[o] THEN 0 ELSE Held(o).payments,
   reserved |-> IF "reservation" \in doubtful[o] THEN {} ELSE Held(o).reserved,
   shipments |-> IF "shipment" \in doubtful[o] THEN 0 ELSE Held(o).shipments]

wantedBar == [o \in Orders |-> UNION {listed(request[c].products) : c \in owner[o]}]

outcomeBar == [o \in Orders |->
  IF owner[o] = {} THEN "absent"
  ELSE IF orders[o] = "cancelled" THEN "cancelled"
  ELSE IF CertainlyHeld(o).shipments = 1 THEN "completed" ELSE "open"]

Outcome == INSTANCE OrderOutcome WITH
  wanted <- wantedBar,
  outcome <- outcomeBar,
  held <- [o \in Orders |-> CertainlyHeld(o)]

\* The compensating workflow implements the all-or-nothing transaction for
\* concurrent and repeated requests of an order: the primary key of orders
\* lets one handler work on it.  All that can be left behind is a step whose
\* transaction committed but reported an error: its own cancel is not run.
ImplementsOutcome == Outcome!Spec

\* The payment of an order is taken at most once, although payments has no key
\* on the order and clients may post the order again at any time.
ChargedOnce ==
  \A o \in Orders : payments[o].preauth + payments[o].cancelled <= 1

\* The answer tells the truth: "ok" means that all the client asked for stands;
\* a failed creation means that nothing the handler is sure of is held for it.
ReplyTellsTruth ==
  \A c \in Clients :
    LET o == request[c].order IN
    /\ reply[c] = "ok" =>
         owner[o] = {c} /\ Held(o) = Outcome!Everything(listed(request[c].products))
    /\ reply[c] = "creating_order" /\ owner[o] = {c} =>
         CertainlyHeld(o) = Outcome!Nothing

\* An order that stays open with no handler at work on it was left by a crash
\* or by a cancel that failed; the client of the latter has been told.
AbandonedIsExplained ==
  \A o \in Orders : \A c \in owner[o] :
    outcomeBar[o] = "open" /\ pc[c] = "done" =>
      crashes > 0 \/ reply[c] = "cancelling_order"
=============================================================================
