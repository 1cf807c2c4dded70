----------------------------- MODULE LossyQueue -----------------------------
(***************************************************************************)
(* What a chain of topics and readers that read from the end promises: a   *)
(* queue that may lose messages and may hand one on several times running, *)
(* and that never hands one on after a later one, nor passes over one that *)
(* it has not written off.  Messages are numbered as they are sent.        *)
(***************************************************************************)
EXTENDS Naturals, Sequences

VARIABLES
  sent,      \* how many messages were sent
  received,  \* the messages handed on, in order
  lost       \* messages written off

Init ==
  /\ sent = 0
  /\ received = <<>>
  /\ lost = {}

Send ==
  /\ sent' = sent + 1
  /\ lost' \in {lost, lost \cup {sent + 1}}
  /\ UNCHANGED received

Lose ==
  /\ lost' \in SUBSET (1..sent)
  /\ lost \subseteq lost'
  /\ UNCHANGED <<sent, received>>

Receive(k) ==
  /\ \A j \in DOMAIN received : received[j] <= k
  /\ \A m \in 1..(k - 1) : m \in lost \/ \E j \in DOMAIN received : received[j] = m
  /\ received' = Append(received, k)
  /\ UNCHANGED <<sent, lost>>

Next == Send \/ Lose \/ \E k \in 1..sent : Receive(k)

Spec == Init /\ [][Next]_<<sent, received, lost>>
=============================================================================
