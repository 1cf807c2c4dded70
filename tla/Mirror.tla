------------------------------- MODULE Mirror -------------------------------
(***************************************************************************)
(* What a table and its copy promise when the rows are carried over at     *)
(* least once: only what the source has is copied, a row at a time and     *)
(* perhaps again, and whoever is told that an order arrived can rely on it, *)
(* until the copy is lost as a whole.                                       *)
(***************************************************************************)
EXTENDS Naturals

CONSTANT Orders

VARIABLES
  source,  \* the orders of the source
  copies,  \* how many rows the copy has of each order
  told     \* the orders said to have arrived in the copy there is

Init ==
  /\ source = {}
  /\ copies = [o \in Orders |-> 0]
  /\ told = {}

Insert(o) ==
  /\ o \notin source
  /\ source' = source \cup {o}
  /\ UNCHANGED <<copies, told>>

Copy(o) ==
  /\ o \in source
  /\ copies' = [copies EXCEPT ![o] = @ + 1]
  /\ UNCHANGED <<source, told>>

Tell(some) ==
  /\ \A o \in some : copies[o] > 0
  /\ told' = told \cup some
  /\ UNCHANGED <<source, copies>>

Lose ==
  /\ copies' = [o \in Orders |-> 0]
  /\ told' = {}
  /\ UNCHANGED source

Next ==
  \/ \E o \in Orders : Insert(o) \/ Copy(o)
  \/ Lose
  \/ \E some \in SUBSET source : Tell(some)

Spec == Init /\ [][Next]_<<source, copies, told>>
=============================================================================
