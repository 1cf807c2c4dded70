------------------------- MODULE LoadBalancerProofs -------------------------
(* Theorems about LoadBalancer, for any servers, clients and requests. *)
EXTENDS LoadBalancer, FiniteSetTheorems, TLAPS

\* Taking out a position leaves a list of servers.
LEMMA RemoveTyping ==
  ASSUME NEW s \in Seq(Servers), NEW e \in Servers
  PROVE  removeElement(s, e) \in Seq(Servers)
<1>1. CASE e \in ToSet(s)
  <2>1. Len(s) \in Nat \ {0}
    BY <1>1 DEF ToSet
  <2>2. \A i \in 1..(Len(s) - 1) : s[i] \in Servers /\ s[i + 1] \in Servers
    OBVIOUS
  <2>3. QED
    BY <1>1, <2>1, <2>2 DEF removeElement
<1>2. CASE e \notin ToSet(s)
  BY <1>2 DEF removeElement
<1>3. QED
  BY <1>1, <1>2

LEMMA InitTyping == Init => TypeOK
  BY ServersAssumption DEF Init, TypeOK, ClientStates

LEMMA NextTyping == TypeOK /\ [Next]_vars => TypeOK'
<1> SUFFICES ASSUME TypeOK, [Next]_vars PROVE TypeOK'
  OBVIOUS
<1>1. ASSUME NEW c \in Clients, Connect(c) \/ accept(c) \/ handleClient(c) \/ terminate(c)
      PROVE  TypeOK'
  BY <1>1 DEF TypeOK, Connect, accept, handleClient, terminate, ClientStates
<1>2. ASSUME NEW c \in Clients, nextServer(c) PROVE TypeOK'
  <2>1. selectedServerIndex' \in 0..(Len(servers) - 1)
    BY <1>2 DEF nextServer, TypeOK
  <2>2. servers[selectedServerIndex' + 1] \in Servers
    BY <2>1 DEF TypeOK
  <2>3. QED
    BY <1>2, <2>1, <2>2 DEF TypeOK, nextServer, ClientStates
<1>3. ASSUME NEW c \in Clients, nextServerPanics(c) PROVE TypeOK'
  BY <1>3 DEF TypeOK, nextServerPanics, connection
<1>4. ASSUME NEW a \in Admins, Post(a) \/ sendSignal(a) PROVE TypeOK'
  BY <1>4 DEF TypeOK, Post, sendSignal, connection
<1>5. ASSUME NEW a \in Admins, addServer(a) PROVE TypeOK'
  <2>1. request[a].server \in Servers
    BY RequestsAssumption DEF TypeOK, RequestType
  <2>2. servers' \in Seq(Servers)
    BY <1>5, <2>1 DEF TypeOK, addServer
  <2>3. QED
    BY <1>5, <2>2 DEF TypeOK, addServer, connection, Asks
<1>6. ASSUME NEW a \in Admins, removeServer(a) PROVE TypeOK'
  <2>1. request[a].server \in Servers
    BY RequestsAssumption DEF TypeOK, RequestType
  <2>2. servers' \in Seq(Servers)
    BY <1>6, <2>1, RemoveTyping DEF TypeOK, removeServer
  <2>3. QED
    BY <1>6, <2>2 DEF TypeOK, removeServer, connection, Locked, Asks
<1>7. CASE UNCHANGED vars
  BY <1>7 DEF TypeOK, vars, connection
<1>8. QED
  BY <1>1, <1>2, <1>3, <1>4, <1>5, <1>6, <1>7 DEF Next

\* Type correctness: the list holds servers only, one goroutine accepts, and
\* one request at a time holds serversMu.
THEOREM Typing == Spec => []TypeOK
<1>1. Init => TypeOK
  BY InitTyping
<1>2. TypeOK /\ [Next]_vars => TypeOK'
  BY NextTyping
<1>3. QED
  BY <1>1, <1>2, PTL DEF Spec

-----------------------------------------------------------------------------
(* The count of signals *)

LEMMA FiniteCounts ==
  /\ IsFiniteSet(Closed) /\ IsFiniteSet(Signalled)
  /\ Cardinality(Closed) \in Nat /\ Cardinality(Signalled) \in Nat
<1>1. Closed \subseteq Clients /\ Signalled \subseteq Admins
  BY DEF Closed, Signalled, Asked
<1>2. IsFiniteSet(Closed) /\ IsFiniteSet(Signalled)
  BY <1>1, FinitenessAssumption, FS_Subset
<1>3. QED
  BY <1>2, FS_CardinalityType

\* The strengthening: the mutex is held over a step by removals only.
SignalInv ==
  /\ \A a \in Admins : admin[a] = "sending" => request[a].verb = "remove"
  /\ SignalsAccounted

LEMMA InitSignal == Init => SignalInv
<1> SUFFICES ASSUME Init PROVE SignalInv
  OBVIOUS
<1>1. Closed = {} /\ Signalled = {}
  BY DEF Init, Closed, Signalled, Asked
<1>2. Cardinality(Closed) = 0 /\ Cardinality(Signalled) = 0
  BY <1>1, FS_EmptySet
<1>3. QED
  BY <1>2 DEF Init, SignalInv, SignalsAccounted

LEMMA NextSignal == TypeOK /\ SignalInv /\ [Next]_vars => SignalInv'
<1> SUFFICES ASSUME TypeOK, SignalInv, [Next]_vars PROVE SignalInv'
  OBVIOUS
<1> USE DEF SignalInv
<1>1. ASSUME NEW c \in Clients, terminate(c) PROVE SignalInv'
  <2>1. Closed' = Closed \cup {c} /\ c \notin Closed /\ Signalled' = Signalled
    BY <1>1 DEF terminate, TypeOK, Closed, Signalled, Asked
  <2>2. Cardinality(Closed') = Cardinality(Closed) + 1
    BY <2>1, FiniteCounts, FS_AddElement
  <2>3. SignalsAccounted'
    BY <1>1, <2>1, <2>2, FiniteCounts DEF terminate, TypeOK, SignalsAccounted
  <2>4. QED
    BY <1>1, <2>3 DEF terminate
<1>2. ASSUME NEW a \in Admins, sendSignal(a) PROVE SignalInv'
  <2>1. Signalled' = Signalled \cup {a} /\ a \notin Signalled /\ Closed' = Closed
    BY <1>2 DEF sendSignal, TypeOK, Closed, Signalled, Asked, connection
  <2>2. Cardinality(Signalled') = Cardinality(Signalled) + 1
    BY <2>1, FiniteCounts, FS_AddElement
  <2>3. SignalsAccounted'
    BY <1>2, <2>1, <2>2, FiniteCounts DEF sendSignal, SignalsAccounted
  <2>4. QED
    BY <1>2, <2>3 DEF sendSignal, TypeOK
<1>3. ASSUME NEW c \in Clients,
             Connect(c) \/ accept(c) \/ nextServer(c) \/ nextServerPanics(c) \/ handleClient(c)
      PROVE  SignalInv'
  <2>1. Closed' = Closed /\ Signalled' = Signalled /\ UNCHANGED <<terminateSignal, request, admin>>
    BY <1>3 DEF Connect, accept, nextServer, nextServerPanics, handleClient, TypeOK,
                Closed, Signalled, Asked, connection
  <2>2. QED
    BY <2>1 DEF SignalsAccounted
<1>4. ASSUME NEW a \in Admins, Post(a) \/ addServer(a) \/ removeServer(a) PROVE SignalInv'
  <2>1. Closed' = Closed /\ Signalled' = Signalled /\ UNCHANGED terminateSignal
    BY <1>4 DEF Post, addServer, removeServer, Asks, TypeOK, Closed, Signalled, Asked, connection
  <2>2. \A b \in Admins : admin'[b] = "sending" => request'[b].verb = "remove"
    BY <1>4 DEF Post, addServer, removeServer, Asks, TypeOK
  <2>3. QED
    BY <2>1, <2>2 DEF SignalsAccounted
<1>5. CASE UNCHANGED vars
  <2>1. Closed' = Closed /\ Signalled' = Signalled /\ UNCHANGED <<terminateSignal, request, admin>>
    BY <1>5 DEF vars, connection, Closed, Signalled, Asked
  <2>2. QED
    BY <2>1 DEF SignalsAccounted
<1>6. QED
  BY <1>1, <1>2, <1>3, <1>4, <1>5 DEF Next

LEMMA SignalInvariant == Spec => [](TypeOK /\ SignalInv)
<1>1. Init => TypeOK /\ SignalInv
  BY InitTyping, InitSignal
<1>2. TypeOK /\ SignalInv /\ [Next]_vars => (TypeOK /\ SignalInv)'
  BY NextTyping, NextSignal
<1>3. QED
  BY <1>1, <1>2, PTL DEF Spec

\* One removal, one connection: however many connections a removed server has,
\* each answered removal ends one connection, or leaves the one buffered signal.
THEOREM Signals == Spec => []SignalsAccounted
<1>1. TypeOK /\ SignalInv => SignalsAccounted
  BY DEF SignalInv
<1>2. QED
  BY <1>1, SignalInvariant, PTL

LEMMA StallCount == TypeOK /\ SignalInv => StallNeedsTwoSurplusRemovals
<1> SUFFICES ASSUME TypeOK, SignalInv, Stalled
             PROVE  Cardinality(Removals) = Cardinality(Closed) + 2
  BY DEF StallNeedsTwoSurplusRemovals
<1>1. PICK a \in Admins : admin[a] = "sending"
  BY DEF Stalled, Locked
<1>2. Removals = Signalled \cup {a} /\ a \notin Signalled
  BY <1>1 DEF Removals, Signalled, Asked, TypeOK, SignalInv
<1>3. Cardinality(Removals) = Cardinality(Signalled) + 1
  BY <1>2, FiniteCounts, FS_AddElement
<1>4. Cardinality(Closed) + 1 = Cardinality(Signalled)
  BY DEF SignalInv, SignalsAccounted, Stalled
<1>5. QED
  BY <1>3, <1>4, FiniteCounts

\* A stall takes two removals more than there were connections to end.
THEOREM StallNeeds == Spec => []StallNeedsTwoSurplusRemovals
  BY StallCount, SignalInvariant, PTL

LEMMA StallStep == TypeOK /\ [Next]_vars => (Stalled => Stalled')
<1> SUFFICES ASSUME TypeOK, [Next]_vars, Stalled PROVE Stalled'
  OBVIOUS
<1>1. PICK a \in Admins : admin[a] = "sending"
  BY DEF Stalled, Locked
<1>2. ASSUME NEW c \in Clients, Connect(c) \/ accept(c) PROVE Stalled'
  BY <1>2 DEF Connect, accept, Stalled, Locked, TypeOK
<1>3. ASSUME NEW c \in Clients,
             nextServer(c) \/ nextServerPanics(c) \/ handleClient(c) \/ terminate(c)
      PROVE  FALSE
  BY <1>3 DEF nextServer, nextServerPanics, handleClient, terminate, Stalled
<1>4. ASSUME NEW b \in Admins, Post(b) PROVE Stalled'
  BY <1>1, <1>4 DEF Post, Stalled, Locked, TypeOK, connection
<1>5. ASSUME NEW b \in Admins, addServer(b) \/ removeServer(b) \/ sendSignal(b) PROVE FALSE
  BY <1>5 DEF addServer, removeServer, sendSignal, Stalled
<1>6. CASE UNCHANGED vars
  BY <1>6 DEF vars, connection, Stalled, Locked
<1>7. QED
  BY <1>2, <1>3, <1>4, <1>5, <1>6 DEF Next

\* A stall is never undone: serversMu stays locked for good, so no connection
\* and no request is served again.
THEOREM StallForever == Spec => StallIsForever
  BY Typing, StallStep, PTL DEF Spec, StallIsForever

-----------------------------------------------------------------------------
(* The listings *)

Places(q, s) == {i \in DOMAIN q : q[i] = s}

\* The places of e that no other place of e is before: one at most.
Foremost(q, e) == {i \in Places(q, e) : \A j \in 1..(i - 1) : q[j] # e}

LEMMA FinitePlaces ==
  ASSUME NEW q \in Seq(Servers), NEW s
  PROVE  IsFiniteSet(Places(q, s)) /\ Cardinality(Places(q, s)) \in Nat
<1>1. Places(q, s) \subseteq 1..Len(q) /\ Len(q) \in Nat
  BY DEF Places
<1>2. IsFiniteSet(1..Len(q))
  BY <1>1, FS_Interval
<1>3. IsFiniteSet(Places(q, s))
  BY <1>1, <1>2, FS_Subset
<1>4. QED
  BY <1>3, FS_CardinalityType

\* A removal adds no listing of any server ...
LEMMA RemoveAddsNone ==
  ASSUME NEW q \in Seq(Servers), NEW e \in Servers, NEW s \in Servers
  PROVE  Cardinality(Places(removeElement(q, e), s)) <= Cardinality(Places(q, s))
<1> DEFINE r == removeElement(q, e)
           f == [i \in Places(r, s) |-> IF \E j \in 1..i : q[j] = e THEN i + 1 ELSE i]
<1>1. CASE e \in ToSet(q)
  <2>1. r = [i \in 1..(Len(q) - 1) |-> IF \E j \in 1..i : q[j] = e THEN q[i + 1] ELSE q[i]]
    BY <1>1 DEF removeElement
  <2>2. Len(q) \in Nat /\ DOMAIN q = 1..Len(q)
    OBVIOUS
  <2>3. ASSUME NEW i \in Places(r, s) PROVE f[i] \in Places(q, s)
    <3>1. i \in 1..(Len(q) - 1) /\ r[i] = s
      BY <2>1 DEF Places
    <3>2. QED
      BY <2>1, <2>2, <3>1 DEF Places
  <2>4. ASSUME NEW i \in Places(r, s), NEW k \in Places(r, s), f[i] = f[k] PROVE i = k
    <3>1. i \in 1..(Len(q) - 1) /\ k \in 1..(Len(q) - 1)
      BY <2>1 DEF Places
    <3>2. QED
      BY <2>2, <2>4, <3>1
  <2>5. f \in Injection(Places(r, s), Places(q, s))
    BY <2>3, <2>4 DEF Injection, IsInjective
  <2>6. QED
    BY <2>5, FinitePlaces, FS_Injection
<1>2. CASE e \notin ToSet(q)
  BY <1>2, FinitePlaces DEF removeElement
<1>3. QED
  BY <1>1, <1>2

\* ... and takes out one at most, of the server it names.
LEMMA RemoveTakesOne ==
  ASSUME NEW q \in Seq(Servers), NEW e \in Servers, NEW s \in Servers
  PROVE  /\ Cardinality(Places(q, s)) <= Cardinality(Places(removeElement(q, e), s)) + 1
         /\ s # e => Cardinality(Places(q, s)) <= Cardinality(Places(removeElement(q, e), s))
<1> DEFINE r == removeElement(q, e)
           Rest == Places(q, s) \ Foremost(q, e)
           g == [i \in Rest |-> IF \E j \in 1..(i - 1) : q[j] = e THEN i - 1 ELSE i]
<1>0. /\ Cardinality(Places(q, s)) \in Nat /\ IsFiniteSet(Places(q, s))
      /\ Cardinality(Places(r, s)) \in Nat /\ IsFiniteSet(Places(r, s))
  BY FinitePlaces, RemoveTyping
<1>1. CASE e \in ToSet(q)
  <2>1. r = [i \in 1..(Len(q) - 1) |-> IF \E j \in 1..i : q[j] = e THEN q[i + 1] ELSE q[i]]
    BY <1>1 DEF removeElement
  <2>2. Len(q) \in Nat /\ DOMAIN q = 1..Len(q)
    OBVIOUS
  <2>3. ASSUME NEW i \in Rest PROVE g[i] \in Places(r, s)
    <3>1. i \in 1..Len(q) /\ q[i] = s
      BY <2>2 DEF Places
    <3>2. CASE \E j \in 1..(i - 1) : q[j] = e
      <4>1. g[i] = i - 1
        BY <3>2
      <4>2. i - 1 \in 1..(Len(q) - 1)
        BY <2>2, <3>1, <3>2
      <4>3. r[i - 1] = q[(i - 1) + 1] /\ (i - 1) + 1 = i
        BY <2>1, <3>1, <3>2, <4>2
      <4>4. QED
        BY <2>1, <3>1, <4>1, <4>2, <4>3 DEF Places
    <3>3. CASE \A j \in 1..(i - 1) : q[j] # e
      <4>1. q[i] # e
        BY <2>2, <3>1, <3>3 DEF Foremost, Places
      <4>2. PICK k \in 1..Len(q) : q[k] = e
        BY <1>1, <2>2 DEF ToSet
      <4>3. i \in 1..(Len(q) - 1) /\ \A j \in 1..i : q[j] # e
        BY <2>2, <3>1, <3>3, <4>1, <4>2
      <4>4. g[i] = i /\ r[i] = q[i]
        BY <2>1, <3>3, <4>3
      <4>5. QED
        BY <2>1, <3>1, <4>3, <4>4 DEF Places
    <3>4. QED
      BY <3>2, <3>3
  <2>4. ASSUME NEW i \in Rest, NEW k \in Rest, g[i] = g[k], i < k PROVE FALSE
    <3>1. i \in 1..Len(q) /\ k \in 1..Len(q)
      BY <2>2 DEF Places
    <3>2. /\ \E j \in 1..(k - 1) : q[j] = e
          /\ \A j \in 1..(i - 1) : q[j] # e
          /\ k - 1 = i
      BY <2>2, <2>4, <3>1
    <3>3. q[i] = e
      BY <3>1, <3>2
    <3>4. i \in Foremost(q, e)
      BY <2>2, <3>1, <3>2, <3>3 DEF Foremost, Places
    <3>5. QED
      BY <3>4
  <2>5. ASSUME NEW i \in Rest, NEW k \in Rest, g[i] = g[k] PROVE i = k
    <3>1. i \in Int /\ k \in Int
      BY <2>2 DEF Places
    <3>2. QED
      BY <2>4, <2>5, <3>1
  <2>6. g \in Injection(Rest, Places(r, s))
    BY <2>3, <2>5 DEF Injection, IsInjective
  <2>7. Cardinality(Rest) <= Cardinality(Places(r, s)) /\ IsFiniteSet(Rest)
    BY <2>6, <1>0, FS_Injection
  <2>8. CASE Foremost(q, e) \cap Places(q, s) = {}
    <3>1. Rest = Places(q, s)
      BY <2>8
    <3>2. Cardinality(Places(q, s)) <= Cardinality(Places(r, s))
      BY <2>7, <3>1
    <3>3. QED
      BY <1>0, <3>2
  <2>9. CASE Foremost(q, e) \cap Places(q, s) # {}
    <3>1. PICK k \in Foremost(q, e) : k \in Places(q, s)
      BY <2>9
    <3>2. s = e
      BY <3>1 DEF Foremost, Places
    <3>3. ASSUME NEW m \in Foremost(q, e) PROVE m = k
      <4>1. /\ m \in 1..Len(q) /\ q[m] = e /\ \A j \in 1..(m - 1) : q[j] # e
            /\ k \in 1..Len(q) /\ q[k] = e /\ \A j \in 1..(k - 1) : q[j] # e
        BY <2>2, <3>1 DEF Foremost, Places
      <4>2. ~(m < k) /\ ~(k < m)
        BY <2>2, <4>1
      <4>3. QED
        BY <2>2, <4>1, <4>2
    <3>4. Rest = Places(q, s) \ {k}
      BY <3>1, <3>3
    <3>5. Cardinality(Rest) = Cardinality(Places(q, s)) - 1
      BY <1>0, <3>1, <3>4, FS_RemoveElement
    <3>6. QED
      BY <1>0, <2>7, <3>2, <3>5
  <2>10. QED
    BY <2>8, <2>9
<1>2. CASE e \notin ToSet(q)
  BY <1>0, <1>2 DEF removeElement
<1>3. QED
  BY <1>1, <1>2

Ever(s) == Cardinality(Places(InitialServers, s)) + Cardinality(AnsweredAdds(s))

\* The strengthening: the process ends only with an empty list.
ListInv ==
  /\ \A s \in Servers :
       /\ Cardinality(Listings(s)) + Cardinality(RemovalsOf(s)) >= Ever(s)
       /\ Cardinality(Listings(s)) <= Ever(s)
  /\ ~running => servers = <<>>

LEMMA FiniteLists ==
  ASSUME TypeOK, NEW s \in Servers
  PROVE  /\ IsFiniteSet(AnsweredAdds(s)) /\ Cardinality(AnsweredAdds(s)) \in Nat
         /\ IsFiniteSet(RemovalsOf(s)) /\ Cardinality(RemovalsOf(s)) \in Nat
         /\ Listings(s) = Places(servers, s)
         /\ IsFiniteSet(Listings(s)) /\ Cardinality(Listings(s)) \in Nat
         /\ Cardinality(Places(InitialServers, s)) \in Nat
         /\ Ever(s) \in Nat
<1>1. AnsweredAdds(s) \subseteq Admins /\ RemovalsOf(s) \subseteq Admins
  BY DEF AnsweredAdds, RemovalsOf, Removals, Asked
<1>2. IsFiniteSet(AnsweredAdds(s)) /\ IsFiniteSet(RemovalsOf(s))
  BY <1>1, FinitenessAssumption, FS_Subset
<1>3. Cardinality(AnsweredAdds(s)) \in Nat /\ Cardinality(RemovalsOf(s)) \in Nat
  BY <1>2, FS_CardinalityType
<1>4. Listings(s) = Places(servers, s)
  BY DEF Listings, Places
<1>5. IsFiniteSet(Listings(s)) /\ Cardinality(Listings(s)) \in Nat
  BY <1>4, FinitePlaces DEF TypeOK
<1>6. Cardinality(Places(InitialServers, s)) \in Nat
  BY FinitePlaces, ServersAssumption
<1>7. Ever(s) \in Nat
  BY <1>3, <1>6 DEF Ever
<1>8. QED
  BY <1>2, <1>3, <1>4, <1>5, <1>6, <1>7

LEMMA InitList == Init => ListInv
<1> SUFFICES ASSUME Init PROVE ListInv
  OBVIOUS
<1>1. ASSUME NEW s \in Servers
      PROVE  /\ Cardinality(Listings(s)) + Cardinality(RemovalsOf(s)) >= Ever(s)
             /\ Cardinality(Listings(s)) <= Ever(s)
  <2>1. AnsweredAdds(s) = {} /\ RemovalsOf(s) = {}
    BY DEF Init, AnsweredAdds, RemovalsOf, Removals, Asked
  <2>2. Listings(s) = Places(InitialServers, s)
    BY DEF Init, Listings, Places
  <2>3. Cardinality(Listings(s)) \in Nat
    BY FiniteLists, InitTyping
  <2>4. QED
    BY <2>1, <2>2, <2>3, FS_EmptySet DEF Ever
<1>2. QED
  BY <1>1 DEF Init, ListInv

\* A step that leaves the counts of every server as they are.
LEMMA ListFrame ==
  ASSUME ListInv, UNCHANGED servers, ~running' => ~running \/ servers = <<>>,
         \A s \in Servers : AnsweredAdds(s)' = AnsweredAdds(s) /\ RemovalsOf(s)' = RemovalsOf(s)
  PROVE  ListInv'
<1>1. \A s \in Servers : Listings(s)' = Listings(s) /\ Ever(s)' = Ever(s)
  BY DEF Listings, Ever
<1>2. QED
  BY <1>1 DEF ListInv

LEMMA NextList == TypeOK /\ SignalInv /\ ListInv /\ [Next]_vars => ListInv'
<1> SUFFICES ASSUME TypeOK, TypeOK', SignalInv, ListInv, [Next]_vars PROVE ListInv'
  BY NextTyping
<1>1. ASSUME NEW c \in Clients,
             \/ Connect(c) \/ accept(c) \/ nextServer(c) \/ handleClient(c) \/ terminate(c)
             \/ nextServerPanics(c)
      PROVE  ListInv'
  <2>1. UNCHANGED <<servers, request, admin>> /\ (~running' => ~running \/ servers = <<>>)
    BY <1>1 DEF Connect, accept, nextServer, handleClient, terminate, nextServerPanics
  <2>2. \A s \in Servers : AnsweredAdds(s)' = AnsweredAdds(s) /\ RemovalsOf(s)' = RemovalsOf(s)
    BY <2>1 DEF AnsweredAdds, RemovalsOf, Removals, Asked
  <2>3. QED
    BY <2>1, <2>2, ListFrame
<1>2. ASSUME NEW a \in Admins, Post(a) \/ sendSignal(a) PROVE ListInv'
  <2>1. UNCHANGED <<servers, running, request>>
    BY <1>2 DEF Post, sendSignal
  <2>2. \A s \in Servers : AnsweredAdds(s)' = AnsweredAdds(s)
    BY <1>2 DEF Post, sendSignal, AnsweredAdds, Asked, TypeOK, SignalInv
  <2>3. \A s \in Servers : RemovalsOf(s)' = RemovalsOf(s)
    BY <1>2 DEF Post, sendSignal, RemovalsOf, Removals, Asked, TypeOK, SignalInv
  <2>4. QED
    BY <2>1, <2>2, <2>3, ListFrame
<1>3. ASSUME NEW a \in Admins, addServer(a) PROVE ListInv'
  <2> DEFINE e == request[a].server
             k == Len(servers) + 1
  <2>0. e \in Servers
    BY RequestsAssumption DEF TypeOK, RequestType
  <2>1. running /\ running' = running
    BY <1>3 DEF addServer
  <2>2. ASSUME NEW s \in Servers
        PROVE  /\ Cardinality(Listings(s)') + Cardinality(RemovalsOf(s)') >= Ever(s)'
               /\ Cardinality(Listings(s)') <= Ever(s)'
    <3>1. RemovalsOf(s)' = RemovalsOf(s)
      BY <1>3 DEF addServer, Asks, RemovalsOf, Removals, Asked, TypeOK
    <3>2. servers' = Append(servers, e) /\ servers \in Seq(Servers)
      BY <1>3 DEF addServer, TypeOK
    <3>3. CASE s = e
      <4>1. Listings(s)' = Listings(s) \cup {k} /\ k \notin Listings(s)
        BY <2>0, <3>2, <3>3 DEF Listings
      <4>2. AnsweredAdds(s)' = AnsweredAdds(s) \cup {a} /\ a \notin AnsweredAdds(s)
        BY <1>3, <3>3 DEF addServer, Asks, AnsweredAdds, Asked, TypeOK
      <4>3. /\ Cardinality(Listings(s)') = Cardinality(Listings(s)) + 1
            /\ Cardinality(AnsweredAdds(s)') = Cardinality(AnsweredAdds(s)) + 1
        BY <4>1, <4>2, FiniteLists, FS_AddElement
      <4>4. Ever(s)' = Ever(s) + 1
        BY <4>3, FiniteLists DEF Ever
      <4>5. QED
        BY <3>1, <4>3, <4>4, FiniteLists DEF ListInv
    <3>4. CASE s # e
      <4>1. Listings(s)' = Listings(s)
        BY <2>0, <3>2, <3>4 DEF Listings
      <4>2. AnsweredAdds(s)' = AnsweredAdds(s)
        BY <1>3, <3>4 DEF addServer, Asks, AnsweredAdds, Asked, TypeOK
      <4>3. QED
        BY <3>1, <4>1, <4>2 DEF ListInv, Ever
    <3>5. QED
      BY <3>3, <3>4
  <2>3. QED
    BY <2>1, <2>2 DEF ListInv
<1>4. ASSUME NEW a \in Admins, removeServer(a) PROVE ListInv'
  <2> DEFINE e == request[a].server
  <2>0. e \in Servers
    BY RequestsAssumption DEF TypeOK, RequestType
  <2>1. running /\ running' = running
    BY <1>4 DEF removeServer
  <2>2. ASSUME NEW s \in Servers
        PROVE  /\ Cardinality(Listings(s)') + Cardinality(RemovalsOf(s)') >= Ever(s)'
               /\ Cardinality(Listings(s)') <= Ever(s)'
    <3>1. AnsweredAdds(s)' = AnsweredAdds(s)
      BY <1>4 DEF removeServer, Asks, AnsweredAdds, Asked, TypeOK
    <3>2. Ever(s)' = Ever(s)
      BY <3>1 DEF Ever
    <3>3. Listings(s)' = Places(removeElement(servers, e), s)
      BY <1>4 DEF removeServer, Listings, Places
    <3>4. Cardinality(Listings(s)') \in Nat
      BY <3>3, <2>0, RemoveTyping, FinitePlaces DEF TypeOK
    <3>5. Cardinality(Listings(s)') <= Cardinality(Listings(s))
      BY <2>0, <3>3, RemoveAddsNone, FiniteLists DEF TypeOK
    <3>6. /\ Cardinality(Listings(s)) <= Cardinality(Listings(s)') + 1
          /\ s # e => Cardinality(Listings(s)) <= Cardinality(Listings(s)')
      BY <2>0, <3>3, RemoveTakesOne, FiniteLists DEF TypeOK
    <3>7. CASE s = e
      <4>1. RemovalsOf(s)' = RemovalsOf(s) \cup {a} /\ a \notin RemovalsOf(s)
        BY <1>4, <3>7 DEF removeServer, Asks, RemovalsOf, Removals, Asked, TypeOK
      <4>2. Cardinality(RemovalsOf(s)') = Cardinality(RemovalsOf(s)) + 1
        BY <4>1, FiniteLists, FS_AddElement
      <4>3. QED
        BY <3>2, <3>4, <3>5, <3>6, <4>2, FiniteLists DEF ListInv
    <3>8. CASE s # e
      <4>1. RemovalsOf(s)' = RemovalsOf(s)
        BY <1>4, <3>8 DEF removeServer, Asks, RemovalsOf, Removals, Asked, TypeOK
      <4>2. QED
        BY <3>2, <3>4, <3>5, <3>6, <3>8, <4>1, FiniteLists DEF ListInv
    <3>9. QED
      BY <3>7, <3>8
  <2>3. QED
    BY <2>1, <2>2 DEF ListInv
<1>5. CASE UNCHANGED vars
  <2>1. UNCHANGED <<servers, running, request, admin>>
    BY <1>5 DEF vars
  <2>2. \A s \in Servers : AnsweredAdds(s)' = AnsweredAdds(s) /\ RemovalsOf(s)' = RemovalsOf(s)
    BY <2>1 DEF AnsweredAdds, RemovalsOf, Removals, Asked
  <2>3. QED
    BY <2>1, <2>2, ListFrame
<1>6. QED
  BY <1>1, <1>2, <1>3, <1>4, <1>5 DEF Next

LEMMA ListsFollow == TypeOK /\ ListInv => ListingsAccounted
<1> SUFFICES ASSUME TypeOK, ListInv, NEW s \in Servers
             PROVE  /\ Cardinality(Listings(s)) + Cardinality(RemovalsOf(s)) >= Ever(s)
                    /\ Cardinality(Listings(s)) <= Ever(s)
                    /\ ~running => Cardinality(RemovalsOf(s)) >= Ever(s)
  BY DEF ListingsAccounted, Ever, Places
<1>1. ASSUME ~running PROVE Cardinality(Listings(s)) = 0
  <2>1. Listings(s) = {}
    BY <1>1 DEF ListInv, Listings
  <2>2. QED
    BY <2>1, FS_EmptySet
<1>2. QED
  BY <1>1, FiniteLists DEF ListInv

\* A removal takes out one listing at most, and only of the server it names,
\* wherever it stands in the list and however often; and the process panics only
\* when every listing there ever was has a removal of its own.
THEOREM Listed == Spec => []ListingsAccounted
<1>1. Init => ListInv
  BY InitList
<1>2. TypeOK /\ SignalInv /\ ListInv /\ [Next]_vars => ListInv'
  BY NextList
<1>3. QED
  BY <1>1, <1>2, SignalInvariant, ListsFollow, PTL DEF Spec
=============================================================================
