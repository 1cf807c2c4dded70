---------------------------- MODULE LoadBalancer ----------------------------
(***************************************************************************)
(* The TCP load balancer of 003_failover_region/database_migration/after   *)
(* (lb.go).  One goroutine accepts client connections and picks a server   *)
(* for each; a goroutine per connection dials the server and then waits    *)
(* for a value on the channel terminateSignal, which ends the connection;  *)
(* HTTP requests add and remove servers, and a removal sends one value.    *)
(* The mutex serversMu guards the list; a removal holds it while it sends. *)
(***************************************************************************)
EXTENDS SequencesExt

CONSTANTS Servers,         \* addresses
          Clients,         \* one TCP connection each
          Admins,          \* one HTTP request each
          InitialServers,  \* the -server flags
          Requests         \* what the HTTP requests may ask

RequestType == [verb: {"add", "remove"}, server: Servers, parses: BOOLEAN]

\* main refuses to start without a server.
ASSUME ServersAssumption == InitialServers \in Seq(Servers) /\ InitialServers # <<>>

ASSUME RequestsAssumption == Requests \subseteq [Admins -> RequestType]

ASSUME FinitenessAssumption == IsFiniteSet(Clients) /\ IsFiniteSet(Admins)

VARIABLES
  running,          \* the process is alive
  servers,          \* the list of servers
  selectedServerIndex,
  terminateSignal,  \* values in the channel, which buffers one
  client,           \* where each connection is
  backend,          \* {the server picked for each connection}, or {}
  request,          \* what each HTTP request asks
  admin             \* where each HTTP request is

connection == <<client, backend>>
vars == <<running, servers, selectedServerIndex, terminateSignal, connection,
          request, admin>>

\* Wrong on purpose, to try the properties: every occurrence goes.
removeElement_All(slice, element) == SelectSeq(slice, LAMBDA s : s # element)

\* The first occurrence goes, and what lies behind it moves up.
removeElement(slice, element) ==
  IF element \in ToSet(slice)
  THEN [i \in 1..(Len(slice) - 1) |->
          IF \E j \in 1..i : slice[j] = element THEN slice[i + 1] ELSE slice[i]]
  ELSE slice

Init ==
  /\ running = TRUE
  /\ servers = InitialServers
  /\ selectedServerIndex = 0
  /\ terminateSignal = 0
  /\ client = [c \in Clients |-> "absent"]
  /\ backend = [c \in Clients |-> {}]
  /\ request \in Requests
  /\ admin = [a \in Admins |-> "unsent"]

\* serversMu is held over a step only by a removal about to send its value.
Locked == \E a \in Admins : admin[a] = "sending"

-----------------------------------------------------------------------------
(* Connections *)

Connect(c) ==
  /\ running
  /\ client[c] = "absent"
  /\ client' = [client EXCEPT ![c] = "backlog"]
  /\ UNCHANGED <<running, servers, selectedServerIndex, terminateSignal,
                 backend, request, admin>>

\* Wrong on purpose, to try the properties: the handler runs in the accept loop.
accept_Inline(c) ==
  /\ running
  /\ client[c] = "backlog"
  /\ \A d \in Clients : client[d] \notin {"accepted", "picked", "proxied"}
  /\ client' = [client EXCEPT ![c] = "accepted"]
  /\ UNCHANGED <<running, servers, selectedServerIndex, terminateSignal,
                 backend, request, admin>>

\* The one accept loop takes the next connection when it is done with the last.
accept(c) ==
  /\ running
  /\ client[c] = "backlog"
  /\ \A d \in Clients : client[d] # "accepted"
  /\ client' = [client EXCEPT ![c] = "accepted"]
  /\ UNCHANGED <<running, servers, selectedServerIndex, terminateSignal,
                 backend, request, admin>>

\* Wrong on purpose, to try the properties: without the mutex.
nextServer_Unlocked(c) ==
  /\ running
  /\ client[c] = "accepted"
  /\ servers # <<>>
  /\ selectedServerIndex' = selectedServerIndex % Len(servers)
  /\ backend' = [backend EXCEPT ![c] = {servers[selectedServerIndex' + 1]}]
  /\ client' = [client EXCEPT ![c] = "picked"]
  /\ UNCHANGED <<running, servers, terminateSignal, request, admin>>

nextServer(c) ==
  /\ running
  /\ client[c] = "accepted" /\ ~Locked
  /\ servers # <<>>
  /\ selectedServerIndex' = selectedServerIndex % Len(servers)
  /\ backend' = [backend EXCEPT ![c] = {servers[selectedServerIndex' + 1]}]
  /\ client' = [client EXCEPT ![c] = "picked"]
  /\ UNCHANGED <<running, servers, terminateSignal, request, admin>>

\* With no server left the remainder is by zero: the process panics.
nextServerPanics(c) ==
  /\ running
  /\ client[c] = "accepted" /\ ~Locked
  /\ servers = <<>>
  /\ running' = FALSE
  /\ UNCHANGED <<servers, selectedServerIndex, terminateSignal, connection,
                 request, admin>>

\* handleClient dials and waits for the signal; when it cannot dial it returns,
\* with the client's connection left open and unserved.
handleClient(c) ==
  /\ running
  /\ client[c] = "picked"
  /\ \E next \in {"proxied", "stranded"} : client' = [client EXCEPT ![c] = next]
  /\ UNCHANGED <<running, servers, selectedServerIndex, terminateSignal,
                 backend, request, admin>>

\* Wrong on purpose, to try the properties: all connections end, or the value stays.
terminate_All(c) ==
  /\ running
  /\ client[c] = "proxied"
  /\ terminateSignal > 0
  /\ terminateSignal' = terminateSignal - 1
  /\ client' = [d \in Clients |-> IF client[d] = "proxied" THEN "closed" ELSE client[d]]
  /\ UNCHANGED <<running, servers, selectedServerIndex, backend, request, admin>>

terminate_KeepsSignal(c) ==
  /\ running
  /\ client[c] = "proxied"
  /\ terminateSignal > 0
  /\ client' = [client EXCEPT ![c] = "closed"]
  /\ UNCHANGED <<running, servers, selectedServerIndex, terminateSignal, backend,
                 request, admin>>

\* Any waiting handler may be the one that receives the value.
terminate(c) ==
  /\ running
  /\ client[c] = "proxied"
  /\ terminateSignal > 0
  /\ terminateSignal' = terminateSignal - 1
  /\ client' = [client EXCEPT ![c] = "closed"]
  /\ UNCHANGED <<running, servers, selectedServerIndex, backend, request, admin>>

-----------------------------------------------------------------------------
(* Administration *)

\* A request that does not parse is answered without the mutex.
Post(a) ==
  /\ running
  /\ admin[a] = "unsent"
  /\ admin' = [admin EXCEPT ![a] =
       IF request[a].parses THEN "waiting" ELSE "invalid"]
  /\ UNCHANGED <<running, servers, selectedServerIndex, terminateSignal,
                 connection, request>>

Asks(a, verb) == admin[a] = "waiting" /\ request[a].verb = verb

addServer(a) ==
  /\ running
  /\ Asks(a, "add") /\ ~Locked
  /\ servers' = Append(servers, request[a].server)
  /\ admin' = [admin EXCEPT ![a] = "answered"]
  /\ UNCHANGED <<running, selectedServerIndex, terminateSignal, connection, request>>

removeServer(a) ==
  /\ running
  /\ Asks(a, "remove") /\ ~Locked
  /\ servers' = removeElement(servers, request[a].server)
  /\ admin' = [admin EXCEPT ![a] = "sending"]
  /\ UNCHANGED <<running, selectedServerIndex, terminateSignal, connection, request>>

\* Wrong on purpose, to try the properties: an unbounded channel.
sendSignal_Unbounded(a) ==
  /\ running
  /\ admin[a] = "sending"
  /\ terminateSignal' = terminateSignal + 1
  /\ admin' = [admin EXCEPT ![a] = "answered"]
  /\ UNCHANGED <<running, servers, selectedServerIndex, connection, request>>

\* The send blocks, with the mutex held, while the channel's buffer is full.
sendSignal(a) ==
  /\ running
  /\ admin[a] = "sending"
  /\ terminateSignal = 0
  /\ terminateSignal' = 1
  /\ admin' = [admin EXCEPT ![a] = "answered"]
  /\ UNCHANGED <<running, servers, selectedServerIndex, connection, request>>

-----------------------------------------------------------------------------
Next ==
  \/ \E c \in Clients :
       \/ Connect(c) \/ accept(c) \/ nextServer(c) \/ nextServerPanics(c)
       \/ handleClient(c) \/ terminate(c)
  \/ \E a \in Admins :
       Post(a) \/ addServer(a) \/ removeServer(a) \/ sendSignal(a)

\* Goroutines that can run do, and a Go mutex does not starve a waiter.
\* Clients and administrators owe nothing.
Fairness ==
  /\ WF_vars(\E c \in Clients : accept(c))
  /\ \A c \in Clients :
       /\ SF_vars(nextServer(c) \/ nextServerPanics(c))
       /\ WF_vars(handleClient(c))
  /\ WF_vars(\E c \in Clients : terminate(c))
  /\ \A a \in Admins : SF_vars(addServer(a) \/ removeServer(a)) /\ WF_vars(sendSignal(a))

Spec == Init /\ [][Next]_vars

FairSpec == Spec /\ Fairness

-----------------------------------------------------------------------------
(* Properties *)

ClientStates ==
  {"absent", "backlog", "accepted", "picked", "proxied", "stranded", "closed"}

\* Every variable has its type; one goroutine accepts and one holds the mutex.
TypeOK ==
  /\ running \in BOOLEAN
  /\ servers \in Seq(Servers)
  /\ selectedServerIndex \in Nat
  /\ terminateSignal \in 0..1
  /\ client \in [Clients -> ClientStates]
  /\ backend \in [Clients -> SUBSET Servers]
  /\ \A c, d \in Clients : client[c] = "accepted" /\ client[d] = "accepted" => c = d
  /\ request \in Requests
  /\ admin \in [Admins -> {"unsent", "waiting", "sending", "answered", "invalid"}]
  /\ \A a, b \in Admins : admin[a] = "sending" /\ admin[b] = "sending" => a = b

Asked(verb) == {a \in Admins : request[a].verb = verb}
Closed == {c \in Clients : client[c] = "closed"}
Signalled == {a \in Asked("remove") : admin[a] = "answered"}
Removals == {a \in Asked("remove") : admin[a] \in {"sending", "answered"}}

\* Removals and ended connections stay in step: each answered removal has ended
\* one connection, of whatever server, but for the one signal that may be
\* buffered for a connection still to come.
SignalsAccounted ==
  Cardinality(Closed) + terminateSignal = Cardinality(Signalled)

\* A removal holds the mutex over a full channel and no handler is left to
\* receive from it.
Stalled ==
  /\ running
  /\ Locked
  /\ terminateSignal = 1
  /\ \A c \in Clients : client[c] \notin {"picked", "proxied"}

\* It takes two removals more than connections ever served to stall.
StallNeedsTwoSurplusRemovals ==
  Stalled => Cardinality(Removals) = Cardinality(Closed) + 2

\* Once stalled the balancer stays so: the accept loop and all later requests
\* wait for the mutex, and no connection is served ever again.
StallIsForever == [][Stalled => Stalled']_vars

Listings(s) == {i \in DOMAIN servers : servers[i] = s}
AnsweredAdds(s) == {a \in Asked("add") : admin[a] = "answered" /\ request[a].server = s}
RemovalsOf(s) == {a \in Removals : request[a].server = s}

\* A removal takes out at most one listing, and only of the server it names,
\* whatever the order of the requests; in particular the process panics only
\* after at least as many removals of each server as it had listings.
ListingsAccounted ==
  \A s \in Servers :
    LET listed == Cardinality({i \in DOMAIN InitialServers : InitialServers[i] = s})
                    + Cardinality(AnsweredAdds(s))
    IN /\ Cardinality(Listings(s)) + Cardinality(RemovalsOf(s)) >= listed
       /\ Cardinality(Listings(s)) <= listed
       /\ ~running => Cardinality(RemovalsOf(s)) >= listed

\* Unless the balancer stalls or panics, each request is answered and each
\* client is connected to a server (or refused by it).
ServedUnlessStalled ==
  /\ \A a \in Admins :
       admin[a] = "waiting" ~> (admin[a] = "answered" \/ Stalled \/ ~running)
  /\ \A c \in Clients :
       client[c] = "backlog" ~> (client[c] \in {"proxied", "stranded"} \/ Stalled \/ ~running)

\* What the comment in handleClient says: the handler waits for its server to
\* change, and the connection closes when it does.
ServerChangeClosesConnection ==
  \A c \in Clients :
    (client[c] = "proxied" /\ backend[c] \cap ToSet(servers) = {})
      ~> (client[c] = "closed" \/ ~running)
=============================================================================
