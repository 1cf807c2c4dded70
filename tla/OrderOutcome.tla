---------------------------- MODULE OrderOutcome ----------------------------
(***************************************************************************)
(* What a business transaction promises its customer, whichever program    *)
(* carries it out (the compensating handler of business_transactions/      *)
(* before or the saga of business_transactions/after): an order is open    *)
(* for a while, during which any part of it may be held, and it ends       *)
(* either with everything it asked for or with nothing.  Nothing is        *)
(* shipped before the end, nothing is ever held twice, and an order that   *)
(* has ended never changes again.                                          *)
(***************************************************************************)
EXTENDS Naturals

CONSTANTS Orders,     \* order identifiers
          Products    \* product identifiers

VARIABLES wanted,     \* the products each order asks for
          outcome,    \* what is known of each order
          held        \* what the business currently holds for each order

vars == <<wanted, outcome, held>>

Nothing == [orders |-> 0, payments |-> 0, reserved |-> {}, shipments |-> 0]

Everything(w) == [orders |-> 1, payments |-> 1, reserved |-> w, shipments |-> 1]

\* What an open order that wants the products w may hold.
Parts(w) ==
  [orders: 0..1, payments: 0..1, reserved: SUBSET w, shipments: {0}]

Init ==
  /\ wanted = [o \in Orders |-> {}]
  /\ outcome = [o \in Orders |-> "absent"]
  /\ held = [o \in Orders |-> Nothing]

Becomes(o, next, holding) ==
  /\ outcome' = [outcome EXCEPT ![o] = next]
  /\ held' = [held EXCEPT ![o] = holding]

Submit(o) ==
  /\ outcome[o] = "absent"
  /\ \E w \in SUBSET Products : \E part \in Parts(w) :
       /\ wanted' = [wanted EXCEPT ![o] = w]
       /\ Becomes(o, "open", part)

Work(o) ==
  /\ outcome[o] = "open"
  /\ \E part \in Parts(wanted[o]) : Becomes(o, "open", part)
  /\ UNCHANGED wanted

Complete(o) ==
  /\ outcome[o] = "open"
  /\ Becomes(o, "completed", Everything(wanted[o]))
  /\ UNCHANGED wanted

Cancel(o) ==
  /\ outcome[o] = "open"
  /\ Becomes(o, "cancelled", Nothing)
  /\ UNCHANGED wanted

Next == \E o \in Orders : Submit(o) \/ Work(o) \/ Complete(o) \/ Cancel(o)

Spec == Init /\ [][Next]_vars
=============================================================================
