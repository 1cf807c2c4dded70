--------------------------- MODULE MCLoadBalancer ---------------------------
(* Small instances of LoadBalancer: the values of its constants. *)
EXTENDS LoadBalancer

CONSTANTS s1, s2, c1, c2, c3, a1, a2, a3

OneServer == <<s1>>
BothServers == <<s1, s2>>

Adds(s) == [verb |-> "add", server |-> s, parses |-> TRUE]
Removes(s) == [verb |-> "remove", server |-> s, parses |-> TRUE]

\* Three requests: a removal of the first server, then any addition or removal,
\* then one of three, of which one does not parse.
AnyThree ==
  {r \in [{a1, a2, a3} -> {Adds(s1), Adds(s2), Removes(s1), Removes(s2),
                           [Adds(s1) EXCEPT !.parses = FALSE]}] :
     /\ r[a1] = Removes(s1)
     /\ r[a2].parses
     /\ r[a3] \notin {Adds(s2), Removes(s1)}}

\* The migration the program is for: add the new server, remove the old one.
Migration == {(a1 :> Adds(s2)) @@ (a2 :> Removes(s1))}
=============================================================================
