----------------------------- MODULE CacheAside -----------------------------
(***************************************************************************)
(* A table "stock" with a Redis cache in front of it: a reader that misses *)
(* the cache reads the table and fills the cache; the one writer updates   *)
(* the table and then invalidates the cache.  Two programs of              *)
(* 004_unecessary_caching_tier do it: in read_performance/before each HTTP *)
(* request is a reader and nothing keeps readers and writer apart; in      *)
(* cache_coherence/before globalMU keeps one reading, one writing and one  *)
(* comparing goroutine apart, and one in a hundred UPDATEs, DELs and fills *)
(* is left out on purpose.                                                 *)
(***************************************************************************)
EXTENDS Naturals, FiniteSets

CONSTANTS Products,
          Readers,     \* goroutines that read
          MaxWrites    \* bound: writes attempted

ASSUME MaxWritesAssumption == MaxWrites \in Nat

VARIABLES
  stock,          \* the table: the quantity of each product, 0 at first
  cache,          \* Redis: {the quantity cached for each product}, or {}
  reader,         \* readers under way: where each is, with what
  writer,         \* the writer: where it is, with which product
  checker,        \* the comparison under way: its quantities from the table
  writes,         \* writes attempted; n stands for the quantity the n-th one writes
  verdict,        \* the outcome of the last comparison
  locked,         \* the program is cache_coherence: globalMU is used
  uninvalidated,  \* history: products whose last update was not followed by a DEL
  overtaken       \* history: products of which a reader held an older quantity
                  \* at the last DEL

stores  == <<stock, cache>>
history == <<uninvalidated, overtaken>>
vars == <<stores, reader, writer, checker, writes, verdict, locked, history>>

Resting == [pc |-> "idle"]

Init ==
  /\ stock = [p \in Products |-> 0]
  /\ cache = [p \in Products |-> {}]
  /\ reader = [r \in Readers |-> Resting]
  /\ writer = Resting
  /\ checker = Resting
  /\ writes = 0
  /\ verdict = "none"
  /\ locked \in BOOLEAN
  /\ uninvalidated = {}
  /\ overtaken = {}

Stale(p) == cache[p] \notin {{}, {stock[p]}}

\* Wrong on purpose, to try the properties: a lock that one side does not take.
Free_WhileChecking == locked => writer = Resting /\ \A r \in Readers : reader[r] = Resting

\* With globalMU, and one goroutine of each kind, work starts when none is under way.
Free ==
  locked => /\ \A r \in Readers : reader[r] = Resting
            /\ writer = Resting
            /\ checker = Resting

-----------------------------------------------------------------------------
(* A reader.  One that finds the product in the cache has nothing to do. *)

Miss(r, p) ==
  /\ Free
  /\ reader[r] = Resting
  /\ cache[p] = {}
  /\ reader' = [reader EXCEPT ![r] = [pc |-> "missed", product |-> p]]
  /\ UNCHANGED cache

readFromDB(r) ==
  /\ reader[r].pc = "missed"
  /\ reader' = [reader EXCEPT ![r] =
       [pc |-> "read", product |-> @.product, quantity |-> stock[@.product]]]
  /\ UNCHANGED cache

\* Wrong on purpose, to try the properties: the entry is added to.
Fill_Adds(r) ==
  /\ reader[r].pc = "read"
  /\ cache' = [cache EXCEPT ![reader[r].product] = @ \cup {reader[r].quantity}]
  /\ reader' = [reader EXCEPT ![r] = Resting]

Fill(r) ==
  /\ reader[r].pc = "read"
  /\ cache' = [cache EXCEPT ![reader[r].product] = {reader[r].quantity}]
  /\ reader' = [reader EXCEPT ![r] = Resting]

\* The read or the fill fails, or the fill is left out: the reader is done.
GiveUp(r) ==
  /\ reader[r].pc \in {"missed", "read"}
  /\ reader' = [reader EXCEPT ![r] = Resting]
  /\ UNCHANGED cache

simulateRead(r) ==
  /\ (\E p \in Products : Miss(r, p)) \/ readFromDB(r) \/ Fill(r) \/ GiveUp(r)
  /\ UNCHANGED <<stock, writer, checker, writes, verdict, locked, history>>

-----------------------------------------------------------------------------
(* The writer *)

Attempt == Free /\ writer = Resting /\ writes < MaxWrites /\ writes' = writes + 1

Updated(p) == [stock EXCEPT ![p] = writes + 1]

Update(p) ==
  /\ Attempt
  /\ stock' = Updated(p)
  /\ writer' = [pc |-> "updated", product |-> p]
  /\ uninvalidated' = uninvalidated \cup {p}
  /\ UNCHANGED <<cache, overtaken>>

\* The UPDATE reports an error, whether or not it took effect: no DEL follows.
UpdateFails(p) ==
  /\ Attempt
  /\ \/ UNCHANGED <<stock, uninvalidated>>
     \/ stock' = Updated(p) /\ uninvalidated' = uninvalidated \cup {p}
  /\ UNCHANGED <<cache, writer, overtaken>>

\* The UPDATE is left out, not the DEL.
LeaveOutUpdate(p) ==
  /\ locked
  /\ Attempt
  /\ writer' = [pc |-> "updated", product |-> p]
  /\ UNCHANGED <<stores, history>>

Outdated(r, p) ==
  reader[r].pc = "read" /\ reader[r].product = p /\ reader[r].quantity # stock[p]

Invalidate ==
  /\ writer.pc = "updated"
  /\ cache' = [cache EXCEPT ![writer.product] = {}]
  /\ writer' = Resting
  /\ uninvalidated' = uninvalidated \ {writer.product}
  /\ overtaken' = {p \in overtaken \cup {writer.product} :
       p = writer.product => \E r \in Readers : Outdated(r, p)}
  /\ UNCHANGED <<stock, writes>>

\* The DEL does not take effect, or is left out.
InvalidateFails ==
  /\ writer.pc = "updated"
  /\ writer' = Resting
  /\ UNCHANGED <<stores, writes, history>>

\* Wrong on purpose, to try the properties: the DEL comes before the UPDATE.
simulateWrite_DelFirst ==
  /\ \/ \E p \in Products :
          /\ Attempt
          /\ cache' = [cache EXCEPT ![p] = {}]
          /\ writer' = [pc |-> "updated", product |-> p]
          /\ UNCHANGED stock
     \/ /\ writer.pc = "updated"
        /\ stock' = [stock EXCEPT ![writer.product] = writes]
        /\ writer' = Resting
        /\ UNCHANGED <<cache, writes>>
  /\ UNCHANGED <<reader, checker, verdict, locked, history>>

simulateWrite ==
  /\ \/ \E p \in Products : Update(p) \/ UpdateFails(p) \/ LeaveOutUpdate(p)
     \/ Invalidate
     \/ InvalidateFails
  /\ UNCHANGED <<reader, checker, verdict, locked>>

-----------------------------------------------------------------------------
(* fetchAndCheck of cache_coherence reads the table, then the cache; a       *)
(* product that is not cached is not compared.                               *)

\* rows.Err is not looked at: a result that is cut short passes for the table.
FetchTable ==
  /\ locked
  /\ Free
  /\ \E fetched \in SUBSET Products :
       checker' = [pc |-> "fetched", quantities |-> [p \in fetched |-> stock[p]]]
  /\ verdict' = "none"

FetchCacheAndCompare ==
  /\ checker.pc = "fetched"
  /\ verdict' = IF \A p \in DOMAIN checker.quantities : cache[p] \subseteq {checker.quantities[p]}
                THEN "correct" ELSE "incorrect"
  /\ checker' = Resting

\* The query of one of the stores fails: nothing is counted.
FetchFails ==
  /\ checker.pc = "fetched"
  /\ checker' = Resting
  /\ UNCHANGED verdict

fetchAndCheck ==
  /\ FetchTable \/ FetchCacheAndCompare \/ FetchFails
  /\ UNCHANGED <<stores, reader, writer, writes, locked, history>>

\* The process is killed; both stores outlive it, and a new process starts.
Kill ==
  /\ reader' = [r \in Readers |-> Resting]
  /\ writer' = Resting
  /\ checker' = Resting
  /\ UNCHANGED <<stores, writes, verdict, locked, history>>

Next == (\E r \in Readers : simulateRead(r)) \/ simulateWrite \/ fetchAndCheck \/ Kill

Spec == Init /\ [][Next]_vars

-----------------------------------------------------------------------------
ReaderStates ==
  {Resting} \cup [pc: {"missed"}, product: Products]
            \cup [pc: {"read"}, product: Products, quantity: 0..MaxWrites]
WriterStates  == {Resting} \cup [pc: {"updated"}, product: Products]
CheckerStates == {Resting} \cup [pc: {"fetched"},
  quantities: UNION {[fetched -> 0..MaxWrites] : fetched \in SUBSET Products}]

TypeOK ==
  /\ stock \in [Products -> 0..MaxWrites]
  /\ cache \in [Products -> {{}} \cup {{q} : q \in 0..MaxWrites}]
  /\ reader \in [Readers -> ReaderStates]
  /\ writer \in WriterStates
  /\ checker \in CheckerStates
  /\ writes \in 0..MaxWrites
  /\ verdict \in {"none", "correct", "incorrect"}
  /\ locked \in BOOLEAN
  /\ uninvalidated \subseteq Products
  /\ overtaken \subseteq Products

\* Because the DEL comes after the UPDATE, a stale entry that outlives its
\* write has one cause left besides a lost DEL: a reader that had read the old
\* quantity before the UPDATE and was still to fill the cache when the DEL ran.
\* With globalMU not even that: a DEL that does not run is all that makes an entry
\* stale, and the next DEL of the product repairs it.
StaleIsExplained ==
  \A p \in Products : Stale(p) => p \in uninvalidated \/ (~locked /\ p \in overtaken)

\* The program counts what it means to show.  Table and cache are read one
\* after the other, and yet the comparison finds a difference exactly when an
\* entry, of a product it has fetched, is stale at that moment, because nothing
\* else runs in between.
VerdictsAreTrue ==
  [][verdict = "none" /\ verdict' # "none" =>
       (verdict' = "incorrect") = (\E p \in DOMAIN checker.quantities : Stale(p))]_vars
=============================================================================
