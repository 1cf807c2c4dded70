-------------------------- MODULE CacheAsideProofs --------------------------
(* Theorems about CacheAside, for any products, readers and number of writes. *)
EXTENDS CacheAside, TLAPS

\* A reader's or the writer's fields, by where it is.
LEMMA ReaderFields ==
  ASSUME TypeOK, NEW r \in Readers
  PROVE  /\ reader[r].pc = "missed" => reader[r].product \in Products
         /\ reader[r].pc = "read" =>
              reader[r].product \in Products /\ reader[r].quantity \in 0..MaxWrites
<1>1. reader[r] \in ReaderStates
  BY DEF TypeOK
<1>2. QED
  BY <1>1 DEF ReaderStates, Resting

LEMMA WriterFields ==
  ASSUME TypeOK, writer.pc = "updated"
  PROVE  writer.product \in Products
  BY DEF TypeOK, WriterStates, Resting

LEMMA InitTyping == Init => TypeOK
  BY MaxWritesAssumption
     DEF Init, TypeOK, ReaderStates, WriterStates, CheckerStates, Resting

LEMMA ReadTyping ==
  ASSUME TypeOK, NEW r \in Readers, simulateRead(r)
  PROVE  TypeOK'
<1>1. reader' \in [Readers -> ReaderStates] /\ cache' \in [Products -> {{}} \cup {{q} : q \in 0..MaxWrites}]
  <2>1. CASE \E p \in Products : Miss(r, p)
    <3>1. PICK p \in Products : Miss(r, p)
      BY <2>1
    <3>2. [pc |-> "missed", product |-> p] \in ReaderStates
      BY DEF ReaderStates
    <3>3. QED
      BY <3>1, <3>2 DEF Miss, TypeOK
  <2>2. CASE readFromDB(r)
    <3>1. reader[r].product \in Products /\ stock[reader[r].product] \in 0..MaxWrites
      BY <2>2, ReaderFields DEF readFromDB, TypeOK
    <3>2. [pc |-> "read", product |-> reader[r].product,
           quantity |-> stock[reader[r].product]] \in ReaderStates
      BY <3>1 DEF ReaderStates
    <3>3. QED
      BY <2>2, <3>2 DEF readFromDB, TypeOK
  <2>3. CASE Fill(r)
    <3>1. reader[r].quantity \in 0..MaxWrites
      BY <2>3, ReaderFields DEF Fill
    <3>2. reader' \in [Readers -> ReaderStates]
      BY <2>3 DEF Fill, TypeOK, ReaderStates
    <3>3. QED
      BY <2>3, <3>1, <3>2 DEF Fill, TypeOK
  <2>4. CASE GiveUp(r)
    BY <2>4 DEF GiveUp, TypeOK, ReaderStates
  <2>5. QED
    BY <2>1, <2>2, <2>3, <2>4 DEF simulateRead
<1>2. QED
  BY <1>1 DEF simulateRead, TypeOK, history

LEMMA WriteTyping ==
  ASSUME TypeOK, simulateWrite
  PROVE  TypeOK'
<1> USE MaxWritesAssumption
<1>1. CASE \E p \in Products : Update(p) \/ UpdateFails(p) \/ LeaveOutUpdate(p)
  <2>1. PICK p \in Products : Update(p) \/ UpdateFails(p) \/ LeaveOutUpdate(p)
    BY <1>1
  <2>2. writes' = writes + 1 /\ writes + 1 \in 0..MaxWrites
    BY <2>1 DEF Update, UpdateFails, LeaveOutUpdate, Attempt, TypeOK
  <2>3. stock' \in [Products -> 0..MaxWrites] /\ UNCHANGED cache
    BY <2>1, <2>2 DEF Update, UpdateFails, LeaveOutUpdate, Updated, TypeOK, stores
  <2>4. writer' \in WriterStates
    BY <2>1 DEF Update, UpdateFails, LeaveOutUpdate, TypeOK, WriterStates
  <2>5. uninvalidated' \subseteq Products /\ UNCHANGED overtaken
    BY <2>1 DEF Update, UpdateFails, LeaveOutUpdate, TypeOK, history
  <2>6. QED
    BY <2>2, <2>3, <2>4, <2>5 DEF simulateWrite, TypeOK
<1>2. CASE Invalidate
  <2>1. overtaken' \subseteq Products
    BY <1>2, WriterFields DEF Invalidate, TypeOK
  <2>2. QED
    BY <1>2, <2>1 DEF simulateWrite, Invalidate, TypeOK, WriterStates
<1>3. CASE InvalidateFails
  BY <1>3 DEF simulateWrite, InvalidateFails, TypeOK, WriterStates, stores, history
<1>4. QED
  BY <1>1, <1>2, <1>3 DEF simulateWrite

LEMMA NextTyping == TypeOK /\ [Next]_vars => TypeOK'
<1> SUFFICES ASSUME TypeOK, [Next]_vars PROVE TypeOK'
  OBVIOUS
<1>1. CASE fetchAndCheck
  <2>1. ASSUME NEW fetched \in SUBSET Products
        PROVE  [pc |-> "fetched", quantities |-> [p \in fetched |-> stock[p]]] \in CheckerStates
    <3>1. [p \in fetched |-> stock[p]] \in [fetched -> 0..MaxWrites]
      BY DEF TypeOK
    <3>2. QED
      BY <3>1 DEF CheckerStates
  <2>2. checker' \in CheckerStates /\ verdict' \in {"none", "correct", "incorrect"}
    BY <1>1, <2>1 DEF fetchAndCheck, FetchTable, FetchCacheAndCompare, FetchFails, TypeOK,
       CheckerStates
  <2>3. QED
    BY <1>1, <2>2 DEF fetchAndCheck, TypeOK, stores, history
<1>2. CASE Kill
  BY <1>2 DEF Kill, TypeOK, ReaderStates, WriterStates, CheckerStates, stores, history
<1>3. CASE UNCHANGED vars
  BY <1>3 DEF vars, stores, history, TypeOK
<1>4. QED
  BY <1>1, <1>2, <1>3, ReadTyping, WriteTyping DEF Next

\* Type correctness of both stores and of what each goroutine holds.
THEOREM Typing == Spec => []TypeOK
<1>1. Init => TypeOK
  BY InitTyping
<1>2. TypeOK /\ [Next]_vars => TypeOK'
  BY NextTyping
<1>3. QED
  BY <1>1, <1>2, PTL DEF Spec

-----------------------------------------------------------------------------
\* What globalMU gives: one goroutine at work at most; so what a reader or the
\* comparison has read from the table is what the table holds, and no DEL
\* overtakes a reader.
LockInv ==
  locked =>
    /\ writer # Resting => \A r \in Readers : reader[r] = Resting
    /\ checker # Resting => writer = Resting /\ \A r \in Readers : reader[r] = Resting
    /\ \A r \in Readers : \A p \in Products : ~Outdated(r, p)
    /\ overtaken = {}

\* Without globalMU there is no comparison; with it, what one has of the table is
\* what the table has.
CheckInv ==
  checker # Resting =>
    /\ locked
    /\ \A p \in DOMAIN checker.quantities : p \in Products /\ checker.quantities[p] = stock[p]

\* With or without it: of a product with no such cause, no reader holds an old
\* quantity either, so no fill can make its entry stale.
FreshInv ==
  \A p \in Products : p \notin uninvalidated \cup overtaken =>
    /\ ~Stale(p)
    /\ \A r \in Readers : ~Outdated(r, p)

StaleInv == LockInv /\ CheckInv /\ FreshInv

LEMMA InitStale == Init => StaleInv
  BY DEF Init, StaleInv, LockInv, CheckInv, FreshInv, Stale, Outdated, Resting

\* A step that does not touch the table leaves no reader with an older quantity.
LEMMA ReadOutdates ==
  ASSUME TypeOK, NEW r \in Readers, simulateRead(r), NEW q \in Readers, NEW p \in Products,
         ~Outdated(q, p)
  PROVE  ~Outdated(q, p)'
  BY DEF simulateRead, Miss, readFromDB, Fill, GiveUp, Outdated, TypeOK, Resting

LEMMA ReadStale ==
  ASSUME TypeOK, StaleInv, NEW r \in Readers, simulateRead(r)
  PROVE  StaleInv'
<1> USE DEF TypeOK
<1>1. locked => writer = Resting /\ checker = Resting
  BY DEF simulateRead, Miss, readFromDB, Fill, GiveUp, StaleInv, LockInv, Free, Resting
<1>2. LockInv'
  BY <1>1, ReadOutdates DEF StaleInv, LockInv, simulateRead, history
<1>3. CheckInv'
  BY DEF StaleInv, CheckInv, simulateRead
<1>4. ASSUME NEW p \in Products, p \notin uninvalidated \cup overtaken
      PROVE  ~Stale(p)'
  <2>1. CASE Fill(r)
    <3>1. reader[r].product = p => reader[r].quantity = stock[p]
      BY <1>4, <2>1 DEF StaleInv, FreshInv, Fill, Outdated
    <3>2. cache'[p] = IF reader[r].product = p THEN {stock[p]} ELSE cache[p]
      BY <2>1, <3>1 DEF Fill
    <3>3. QED
      BY <1>4, <3>2 DEF StaleInv, FreshInv, Stale, simulateRead
  <2>2. CASE ~Fill(r)
    BY <1>4, <2>2 DEF simulateRead, Miss, readFromDB, GiveUp, StaleInv, FreshInv, Stale
  <2>3. QED
    BY <2>1, <2>2
<1>5. FreshInv'
  BY <1>4, ReadOutdates DEF StaleInv, FreshInv, simulateRead, history
<1>6. QED
  BY <1>2, <1>3, <1>5 DEF StaleInv

\* While the writer is at work under globalMU, nobody else is.
LEMMA WriterAlone ==
  ASSUME TypeOK, StaleInv, simulateWrite
  PROVE  checker = Resting /\ (locked => \A r \in Readers : reader[r] = Resting)
  BY DEF simulateWrite, Update, UpdateFails, LeaveOutUpdate, Attempt, Free, Invalidate,
         InvalidateFails, StaleInv, LockInv, CheckInv, Resting

LEMMA WriteStale ==
  ASSUME TypeOK, StaleInv, simulateWrite
  PROVE  StaleInv'
<1> USE DEF TypeOK
<1>1. UNCHANGED <<reader, checker, locked>>
  BY DEF simulateWrite
<1>2. CheckInv'
  BY <1>1, WriterAlone DEF CheckInv
<1>3. CASE Invalidate
  <2>1. LockInv'
    BY <1>1, <1>3, WriterAlone DEF LockInv, StaleInv, Invalidate, Outdated, Resting
  <2>2. ASSUME NEW p \in Products, p \notin (uninvalidated \cup overtaken)'
        PROVE  ~Stale(p)' /\ \A r \in Readers : ~Outdated(r, p)'
    <3>1. CASE p = writer.product
      <4>1. cache'[p] = {} /\ ~\E r \in Readers : Outdated(r, p)
        BY <1>3, <2>2, <3>1 DEF Invalidate
      <4>2. QED
        BY <1>1, <1>3, <4>1 DEF Invalidate, Stale, Outdated
    <3>2. CASE p # writer.product
      <4>1. cache'[p] = cache[p] /\ p \notin uninvalidated \cup overtaken
        BY <1>3, <2>2, <3>2 DEF Invalidate
      <4>2. QED
        BY <1>1, <1>3, <4>1 DEF Invalidate, StaleInv, FreshInv, Stale, Outdated
    <3>3. QED
      BY <3>1, <3>2
  <2>3. QED
    BY <1>2, <2>1, <2>2 DEF StaleInv, FreshInv
<1>4. CASE ~Invalidate
  <2>1. /\ UNCHANGED <<cache, overtaken>>
        /\ uninvalidated \subseteq uninvalidated'
        /\ \A p \in Products : stock'[p] # stock[p] => p \in uninvalidated'
    BY <1>4 DEF simulateWrite, Update, UpdateFails, LeaveOutUpdate, Updated, InvalidateFails,
       stores, history
  <2>2. LockInv'
    BY <1>1, <2>1, WriterAlone DEF LockInv, StaleInv, Outdated, Resting
  <2>3. FreshInv'
    BY <1>1, <2>1 DEF StaleInv, FreshInv, Stale, Outdated
  <2>4. QED
    BY <1>2, <2>2, <2>3 DEF StaleInv
<1>5. QED
  BY <1>3, <1>4

LEMMA OtherStale ==
  ASSUME TypeOK, StaleInv, fetchAndCheck \/ Kill \/ UNCHANGED vars
  PROVE  StaleInv'
<1>1. UNCHANGED <<stores, locked, history>>
  BY DEF fetchAndCheck, Kill, vars
<1>2. \A r \in Readers : reader'[r] = reader[r] \/ reader'[r] = Resting
  BY DEF fetchAndCheck, Kill, vars, TypeOK
<1>3. FreshInv'
  BY <1>1, <1>2 DEF StaleInv, FreshInv, Stale, Outdated, Resting, stores, history
<1>4. LockInv' /\ CheckInv'
  <2>1. CASE fetchAndCheck
    <3>1. CASE FetchTable
      BY <1>1, <2>1, <3>1 DEF fetchAndCheck, FetchTable, Free, StaleInv, LockInv, CheckInv,
         Outdated, Resting, stores, history
    <3>2. CASE FetchCacheAndCompare \/ FetchFails
      BY <1>1, <2>1, <3>2 DEF fetchAndCheck, FetchCacheAndCompare, FetchFails, StaleInv, LockInv,
         CheckInv, Outdated, Resting, stores, history
    <3>3. QED
      BY <2>1, <3>1, <3>2 DEF fetchAndCheck
  <2>2. CASE Kill
    BY <1>1, <2>2 DEF Kill, StaleInv, LockInv, CheckInv, Outdated, Resting, stores, history
  <2>3. CASE UNCHANGED vars
    BY <1>1, <2>3 DEF vars, StaleInv, LockInv, CheckInv, Outdated, stores, history
  <2>4. QED
    BY <2>1, <2>2, <2>3
<1>5. QED
  BY <1>3, <1>4 DEF StaleInv

LEMMA Invariants == Spec => [](TypeOK /\ StaleInv)
<1>1. Init => TypeOK /\ StaleInv
  BY InitTyping, InitStale
<1>2. TypeOK /\ StaleInv /\ [Next]_vars => (TypeOK /\ StaleInv)'
  BY NextTyping, ReadStale, WriteStale, OtherStale DEF Next
<1>3. QED
  BY <1>1, <1>2, PTL DEF Spec

\* With no lock between readers and writer, a stale entry that outlives its
\* write still has only two causes: a DEL that did not run, or a reader that
\* was holding an older quantity when it ran.  Under globalMU the first is left.
THEOREM Explained == Spec => []StaleIsExplained
<1>1. StaleInv => StaleIsExplained
  BY DEF StaleInv, LockInv, FreshInv, StaleIsExplained
<1>2. QED
  BY <1>1, Invariants, PTL

LEMMA VerdictStep ==
  TypeOK /\ StaleInv /\ [Next]_vars =>
    (verdict = "none" /\ verdict' # "none" =>
       (verdict' = "incorrect") = (\E p \in DOMAIN checker.quantities : Stale(p)))
<1> SUFFICES ASSUME TypeOK, StaleInv, [Next]_vars, verdict = "none", verdict' # "none"
             PROVE  (verdict' = "incorrect")
                      = (\E p \in DOMAIN checker.quantities : Stale(p))
  OBVIOUS
<1>1. FetchCacheAndCompare
  BY DEF Next, simulateRead, simulateWrite, fetchAndCheck, FetchTable, FetchFails, Kill, vars
<1>2. \A p \in DOMAIN checker.quantities : p \in Products /\ checker.quantities[p] = stock[p]
  BY <1>1 DEF FetchCacheAndCompare, StaleInv, CheckInv, Resting
<1>3. \A p \in Products : Stale(p) <=> ~(cache[p] \subseteq {stock[p]})
  BY DEF Stale, TypeOK
<1>4. verdict' = IF \A p \in DOMAIN checker.quantities : ~Stale(p)
                 THEN "correct" ELSE "incorrect"
  <2>1. (\A p \in DOMAIN checker.quantities : cache[p] \subseteq {checker.quantities[p]})
          <=> \A p \in DOMAIN checker.quantities : ~Stale(p)
    BY <1>2, <1>3
  <2>2. QED
    BY <1>1, <2>1 DEF FetchCacheAndCompare
<1>5. CASE \A p \in DOMAIN checker.quantities : ~Stale(p)
  BY <1>4, <1>5
<1>6. CASE \E p \in DOMAIN checker.quantities : Stale(p)
  BY <1>4, <1>6
<1>7. QED
  BY <1>5, <1>6

\* The comparison finds a difference exactly when there is one, although it
\* reads the two stores one after the other.
THEOREM TrueVerdicts == Spec => VerdictsAreTrue
  BY Invariants, VerdictStep, PTL DEF Spec, VerdictsAreTrue
=============================================================================
