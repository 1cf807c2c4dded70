--------------------------- MODULE DualWriteProofs ---------------------------
(***************************************************************************)
(* That the stores nest (an order is in a store only if it is in each      *)
(* store before it), and that what they differ by is paid for by faults.   *)
(***************************************************************************)
EXTENDS DualWrite, SequenceTheorems, FiniteSetTheorems, TLAPS

\* Where the writer is tells which stores have its order, and the rows on their
\* way to BigQuery are in the table; with dual writes there are none.
WriterStates ==
  {Idle} \cup [pc: {"cassandra"}, order: pg] \cup [pc: {"bigquery"}, order: pg \cap cs]

HandlerStates ==
  {Idle} \cup [pc: {"writing"}, parcels: SUBSET Nat, left: SUBSET (Nat \X pg)]

StoreTypes == pg \subseteq Orders /\ bq \in [Orders -> Nat]

WriterInv ==
  /\ writer \in WriterStates
  /\ writer # Idle => program = "before"

FeedInv ==
  /\ parcels \in Seq(SUBSET pg)
  /\ handler \in [Handlers -> HandlerStates]
  /\ program = "before" => parcels = <<>> /\ \A h \in Handlers : handler[h] = Idle

NestInv == StoreTypes /\ WriterInv /\ FeedInv /\ StoresNest

LEMMA InitNest == Init => NestInv
<1> SUFFICES ASSUME Init PROVE NestInv
  OBVIOUS
<1>1. StoreTypes /\ WriterInv /\ StoresNest
  BY DEF Init, StoreTypes, WriterInv, WriterStates, StoresNest
<1>2. parcels \in Seq(SUBSET pg)
  BY DEF Init
<1>3. handler \in [Handlers -> HandlerStates]
  BY DEF Init, HandlerStates
<1>4. FeedInv
  BY <1>2, <1>3 DEF Init, FeedInv
<1>5. QED
  BY <1>1, <1>4 DEF NestInv

-----------------------------------------------------------------------------
(* The writer *)

\* A table only grows, and the feed goes on telling of its rows.
LEMMA GrowingTable ==
  ASSUME FeedInv, pg \subseteq pg', UNCHANGED <<program, feed>>
  PROVE  FeedInv'
<1>1. parcels' \in Seq(SUBSET pg')
  <2>1. parcels \in Seq(SUBSET pg) /\ SUBSET pg \subseteq SUBSET pg'
    BY DEF FeedInv
  <2>2. parcels \in Seq(SUBSET pg')
    BY <2>1, SeqMonotonic, Zenon
  <2>3. QED
    BY <2>2 DEF feed
<1>2. HandlerStates \subseteq HandlerStates'
  BY DEF HandlerStates, Idle
<1>3. handler' \in [Handlers -> HandlerStates']
  BY <1>2 DEF FeedInv, feed
<1>4. QED
  BY <1>1, <1>3 DEF FeedInv, feed

LEMMA WriterNest ==
  ASSUME NestInv, simulateWriter
  PROVE  NestInv'
<1> USE DEF NestInv, StoreTypes, WriterInv, WriterStates, StoresNest, Idle
<1>1. program' = program /\ UNCHANGED feed
  BY DEF simulateWriter
<1>2. CASE \E o \in Orders : writePostgres(o) \/ writeCockroach(o)
  <2>1. PICK o \in Orders : writePostgres(o) \/ writeCockroach(o)
    BY <1>2
  <2>2. pg \subseteq pg' /\ pg' \subseteq Orders /\ cs' = cs /\ bq' = bq
    BY <2>1 DEF writePostgres, writeCockroach
  <2>3. WriterInv'
    BY <1>1, <2>1, <2>2 DEF writePostgres, writeCockroach
  <2>4. QED
    BY <1>1, <2>2, <2>3, GrowingTable
<1>3. CASE writeCassandra
  <2>1. program = "before" /\ writer.order \in pg
    BY <1>3 DEF writeCassandra
  <2>2. /\ UNCHANGED <<pg, bq>>
        /\ \/ cs' = cs
           \/ cs' = cs \cup {writer.order}
    BY <1>3 DEF writeCassandra
  <2>3. WriterInv'
    BY <1>1, <1>3, <2>1, <2>2 DEF writeCassandra
  <2>4. QED
    BY <1>1, <2>1, <2>2, <2>3, GrowingTable
<1>4. CASE writeBigQuery
  <2>1. program = "before" /\ writer.order \in pg \cap cs
    BY <1>4 DEF writeBigQuery
  <2>2. UNCHANGED <<pg, cs>> /\ bq' \in {bq, AddRow(writer.order)} /\ writer' = Idle
    BY <1>4 DEF writeBigQuery
  <2>3. QED
    BY <1>1, <2>1, <2>2, GrowingTable DEF AddRow
<1>5. QED
  BY <1>2, <1>3, <1>4 DEF simulateWriter

-----------------------------------------------------------------------------
(* The changefeed and what it feeds *)

LEMMA PublishNest ==
  ASSUME NestInv, Publish \/ Republish
  PROVE  NestInv'
<1> USE DEF NestInv
<1>1. PICK rows \in SUBSET pg : parcels' = Append(parcels, rows)
  <2>1. CASE Publish
    BY <2>1 DEF Publish
  <2>2. CASE Republish
    <3>1. PICK o \in Published : parcels' = Append(parcels, {o})
      BY <2>2 DEF Republish
    <3>2. \A n \in DOMAIN parcels : parcels[n] \subseteq pg
      BY ElementOfSeq DEF FeedInv
    <3>3. QED
      BY <3>1, <3>2 DEF Published
  <2>3. QED
    BY <2>1, <2>2
<1>2. UNCHANGED <<program, tried, stores, writer, handler>>
  BY DEF Publish, Republish
<1>3. program # "before"
  <2>1. CASE Publish
    BY <2>1 DEF Publish
  <2>2. CASE Republish
    BY <2>2 DEF Republish, Published, FeedInv
  <2>3. QED
    BY <2>1, <2>2
<1>4. parcels' \in Seq(SUBSET pg')
  BY <1>1, <1>2 DEF FeedInv, stores
<1>5. handler' \in [Handlers -> HandlerStates']
  BY <1>2 DEF FeedInv, HandlerStates, stores
<1>6. FeedInv'
  BY <1>2, <1>3, <1>4, <1>5 DEF FeedInv
<1>7. QED
  BY <1>2, <1>6 DEF StoreTypes, WriterInv, WriterStates, StoresNest, stores

LEMMA HandlerNest ==
  ASSUME NestInv, NEW h \in Handlers,
         (\E some \in SUBSET Waiting : Deliver(h, some)) \/ Row(h) \/ Answer(h) \/ AnswerError(h)
  PROVE  NestInv'
<1> USE DEF NestInv
<1>1. UNCHANGED <<program, pg, cs, writer, parcels>>
  BY DEF Deliver, Row, Answer, AnswerError, stores
<1>2. program # "before" /\ handler' \in [Handlers -> HandlerStates]
  <2>1. CASE \E some \in SUBSET Waiting : Deliver(h, some)
    <3>1. PICK some \in SUBSET Waiting : Deliver(h, some)
      BY <2>1
    <3>2. some \subseteq DOMAIN parcels /\ some # {}
      BY <3>1 DEF Deliver, Waiting
    <3>3. \A n \in DOMAIN parcels : n \in Nat /\ parcels[n] \subseteq pg
      BY ElementOfSeq DEF FeedInv
    <3>4. some \in SUBSET Nat /\ Rows(some) \in SUBSET (Nat \X pg)
      BY <3>2, <3>3 DEF Rows
    <3>5. [pc |-> "writing", parcels |-> some, left |-> Rows(some)] \in HandlerStates
      BY <3>4 DEF HandlerStates
    <3>6. QED
      BY <3>1, <3>2, <3>5 DEF Deliver, FeedInv
  <2>2. CASE Row(h)
    <3>1. handler[h] \in [pc: {"writing"}, parcels: SUBSET Nat, left: SUBSET (Nat \X pg)]
      BY <2>2 DEF Row, FeedInv, HandlerStates
    <3>2. PICK row : handler' = [handler EXCEPT ![h].left = @ \ {row}]
      BY <2>2 DEF Row
    <3>3. [handler[h] EXCEPT !.left = @ \ {row}] \in HandlerStates
      BY <3>1 DEF HandlerStates
    <3>4. QED
      BY <2>2, <3>2, <3>3 DEF FeedInv, Row
  <2>3. CASE Answer(h) \/ AnswerError(h)
    BY <2>3 DEF Answer, AnswerError, FeedInv, HandlerStates
  <2>4. QED
    BY <2>1, <2>2, <2>3
<1>3. bq' = bq \/ \E o \in pg : bq' = AddRow(o)
  <2>1. CASE Row(h) \/ AnswerError(h)
    <3>1. handler[h] \in [pc: {"writing"}, parcels: SUBSET Nat, left: SUBSET (Nat \X pg)]
      BY <2>1 DEF Row, AnswerError, FeedInv, HandlerStates
    <3>2. \A row \in handler[h].left : row[2] \in pg
      BY <3>1
    <3>3. QED
      BY <2>1, <3>2 DEF Row, AnswerError
  <2>2. CASE (\E some \in SUBSET Waiting : Deliver(h, some)) \/ Answer(h)
    BY <2>2 DEF Deliver, Answer, stores
  <2>3. QED
    BY <2>1, <2>2
<1>4. StoreTypes' /\ StoresNest'
  BY <1>1, <1>2, <1>3 DEF StoreTypes, StoresNest, AddRow
<1>5. FeedInv'
  BY <1>1, <1>2 DEF FeedInv, HandlerStates
<1>6. QED
  BY <1>1, <1>4, <1>5 DEF WriterInv, WriterStates

LEMMA NextNest ==
  ASSUME NestInv, [Next]_vars
  PROVE  NestInv'
<1>1. CASE Kill \/ Read \/ UNCHANGED vars
  <2>1. UNCHANGED <<program, stores, feed>> /\ writer' \in {writer, Idle}
    BY <1>1 DEF Kill, Read, vars, stores, feed
  <2>2. FeedInv'
    BY <2>1, GrowingTable DEF NestInv, stores
  <2>3. QED
    BY <2>1, <2>2 DEF NestInv, StoreTypes, WriterInv, WriterStates, StoresNest, stores
<1>2. CASE RestartBigQuery
  <2>1. UNCHANGED <<program, pg, cs, writer, feed>> /\ bq' = [o \in Orders |-> 0]
    BY <1>2 DEF RestartBigQuery
  <2>2. FeedInv'
    BY <2>1, GrowingTable DEF NestInv
  <2>3. StoreTypes' /\ WriterInv' /\ StoresNest'
    BY <2>1 DEF NestInv, StoreTypes, WriterInv, WriterStates, StoresNest
  <2>4. QED
    BY <2>2, <2>3 DEF NestInv
<1>3. QED
  BY <1>1, <1>2, WriterNest, PublishNest, HandlerNest DEF Next

\* An order is in a store only if it is in each store before it, whatever fails,
\* is delivered again or dies, for any number of orders, handlers and faults.
THEOREM Nesting == Spec => []StoresNest
<1>1. NestInv => StoresNest
  BY DEF NestInv
<1>2. QED
  BY <1>1, InitNest, NextNest, PTL DEF Spec

-----------------------------------------------------------------------------
(* Dual writes: what is missing, and no copies *)

\* The orders that never came to BigQuery; the one under way is not missing yet.
Absent == Missing \ lost
UnderWay == IF writer = Idle THEN {} ELSE {writer.order}

PaidInv ==
  program = "before" =>
    /\ pg \subseteq tried /\ IsFiniteSet(pg)
    /\ \A o \in Orders : bq[o] <= 1 /\ (o \notin tried => bq[o] = 0)
    /\ \A o \in UnderWay : o \in tried /\ bq[o] = 0
    /\ Cardinality(Absent \ UnderWay) <= faults

LEMMA FaultsTyping == Init => faults = 0
BY DEF Init

LEMMA FaultsNext ==
  faults \in Nat /\ [Next]_vars => faults' \in Nat /\ faults' \in {faults, faults + 1}
BY DEF Next, simulateWriter, writePostgres, writeCockroach, writeCassandra, writeBigQuery,
       Publish, Republish, Deliver, Row, Answer, AnswerError, Kill, RestartBigQuery, Read, Fault,
       vars

LEMMA InitPaid == Init => PaidInv
<1> SUFFICES ASSUME Init PROVE PaidInv
  OBVIOUS
<1>1. Absent \ UnderWay = {}
  BY DEF Init, Missing, Absent
<1>2. Cardinality(Absent \ UnderWay) = 0
  BY <1>1, FS_EmptySet
<1>3. IsFiniteSet(pg)
  BY FS_EmptySet DEF Init
<1>4. QED
  BY <1>2, <1>3 DEF Init, PaidInv, UnderWay

\* One order more at most is missing, and an error was paid for it.
LEMMA OneMoreMissing ==
  ASSUME NEW S, NEW T, NEW x, IsFiniteSet(S), T \subseteq S \cup {x},
         NEW n \in Nat, Cardinality(S) <= n
  PROVE  IsFiniteSet(T) /\ Cardinality(T) <= n + 1
<1>1. IsFiniteSet(S \cup {x}) /\ Cardinality(S \cup {x}) <= Cardinality(S) + 1
  <2>1. Cardinality(S) \in Nat
    BY FS_CardinalityType
  <2>2. IsFiniteSet(S \cup {x})
    BY FS_AddElement
  <2>3. x \in S \/ Cardinality(S \cup {x}) = Cardinality(S) + 1
    BY FS_AddElement
  <2>4. x \in S => S \cup {x} = S
    OBVIOUS
  <2>5. QED
    BY <2>1, <2>2, <2>3, <2>4
<1>2. IsFiniteSet(T) /\ Cardinality(T) <= Cardinality(S \cup {x})
  BY <1>1, FS_Subset
<1>3. QED
  BY <1>1, <1>2, FS_CardinalityType

LEMMA NextPaid ==
  ASSUME NestInv, NestInv', PaidInv, faults \in Nat, [Next]_vars
  PROVE  PaidInv'
<1> SUFFICES ASSUME program = "before" PROVE PaidInv'
  <2>1. program' = program
    BY DEF Next, simulateWriter, Publish, Republish, Deliver, Row, Answer, AnswerError, Kill,
           RestartBigQuery, Read, vars
  <2>2. QED
    BY <2>1 DEF PaidInv
<1>1. /\ pg \subseteq tried /\ IsFiniteSet(pg)
      /\ \A o \in Orders : bq[o] <= 1 /\ (o \notin tried => bq[o] = 0)
      /\ \A o \in UnderWay : o \in tried /\ bq[o] = 0
      /\ Cardinality(Absent \ UnderWay) <= faults
  BY DEF PaidInv
<1>2. IsFiniteSet(Absent \ UnderWay) /\ Absent \subseteq pg
  BY <1>1, FS_Subset DEF Absent, Missing
<1>3. pg \subseteq Orders /\ bq \in [Orders -> Nat] /\ writer \in WriterStates
  BY DEF NestInv, StoreTypes, WriterInv
<1>4. ASSUME NEW o \in Orders, writePostgres(o), lost' = lost PROVE PaidInv'
  <2>1. /\ writer = Idle /\ o \notin tried /\ tried' = tried \cup {o} /\ UNCHANGED bq
        /\ \/ pg' = pg \cup {o} /\ writer' = [pc |-> "cassandra", order |-> o] /\ UNCHANGED faults
           \/ faults' = faults + 1 /\ pg' \in {pg, pg \cup {o}} /\ writer' = writer
    BY <1>4 DEF writePostgres, Begin, Fault
  <2>2. UnderWay = {} /\ o \notin Absent /\ bq[o] = 0
    BY <1>1, <1>2, <2>1 DEF UnderWay
  <2>3. pg' \subseteq tried' /\ IsFiniteSet(pg')
    BY <1>1, <2>1, FS_AddElement
  <2>4. Absent' \subseteq Absent \cup {o}
    BY <1>4, <2>1 DEF Absent, Missing
  <2>5. UnderWay' \subseteq {o}
    BY <2>1 DEF UnderWay
  <2>6. Cardinality((Absent \ UnderWay)') <= faults'
    <3>1. CASE writer' = [pc |-> "cassandra", order |-> o] /\ UNCHANGED faults
      <4>1. UnderWay' = {o}
        BY <3>1 DEF UnderWay, Idle
      <4>2. (Absent \ UnderWay)' \subseteq Absent \ UnderWay
        BY <2>2, <2>4, <4>1
      <4>3. Cardinality((Absent \ UnderWay)') <= Cardinality(Absent \ UnderWay)
        BY <1>2, <4>2, FS_Subset
      <4>4. Cardinality(Absent \ UnderWay) \in Nat /\ Cardinality((Absent \ UnderWay)') \in Nat
        BY <1>2, <4>2, FS_Subset, FS_CardinalityType
      <4>5. QED
        BY <1>1, <3>1, <4>3, <4>4
    <3>2. CASE faults' = faults + 1
      <4>1. (Absent \ UnderWay)' \subseteq (Absent \ UnderWay) \cup {o}
        BY <2>2, <2>4
      <4>2. QED
        BY <1>1, <1>2, <3>2, <4>1, OneMoreMissing
    <3>3. QED
      BY <2>1, <3>1, <3>2
  <2>7. QED
    BY <1>1, <2>1, <2>2, <2>3, <2>5, <2>6 DEF PaidInv
<1>5. ASSUME writeCassandra \/ writeBigQuery \/ Kill, lost' = lost PROVE PaidInv'
  <2>1. PICK o \in Orders : writer # Idle /\ writer.order = o
    <3>1. writer # Idle
      BY <1>5 DEF writeCassandra, writeBigQuery, Kill, Idle
    <3>2. QED
      BY <1>3, <3>1 DEF WriterStates
  <2>2. UnderWay = {o} /\ o \in tried /\ bq[o] = 0
    BY <1>1, <2>1 DEF UnderWay
  <2>3. /\ UNCHANGED <<pg, tried>>
        /\ bq' = bq \/ bq' = AddRow(o)
        /\ \/ writer' = [writer EXCEPT !.pc = "bigquery"] /\ UNCHANGED <<bq, faults>>
           \/ writer' = Idle /\ bq' = AddRow(o) /\ UNCHANGED faults
           \/ writer' = Idle /\ faults' = faults + 1
    BY <1>5, <2>1 DEF writeCassandra, writeBigQuery, Kill, Fault, stores
  <2>4. /\ \A x \in Orders \ {o} : bq'[x] = bq[x]
        /\ bq'[o] = 0 \/ bq'[o] = 1
    BY <1>3, <2>2, <2>3 DEF AddRow
  <2>5. Absent' \subseteq Absent
    BY <1>3, <1>5, <2>2, <2>3, <2>4 DEF Absent, Missing
  <2>6. UnderWay' \subseteq {o}
    BY <1>3, <2>1, <2>3 DEF UnderWay, WriterStates
  <2>7. o \in UnderWay' => bq'[o] = 0
    BY <2>2, <2>3 DEF UnderWay
  <2>8. IsFiniteSet((Absent \ UnderWay)') /\ Cardinality((Absent \ UnderWay)') <= faults'
    <3>1. CASE (Absent \ UnderWay)' \subseteq Absent \ UnderWay
      <4>1. /\ IsFiniteSet((Absent \ UnderWay)')
            /\ Cardinality((Absent \ UnderWay)') <= Cardinality(Absent \ UnderWay)
        BY <1>2, <3>1, FS_Subset
      <4>2. Cardinality(Absent \ UnderWay) \in Nat /\ Cardinality((Absent \ UnderWay)') \in Nat
        BY <1>2, <4>1, FS_CardinalityType
      <4>3. faults' \in {faults, faults + 1}
        BY <2>3
      <4>4. QED
        BY <1>1, <4>1, <4>2, <4>3
    <3>2. CASE writer' = [writer EXCEPT !.pc = "bigquery"] /\ UNCHANGED <<bq, faults>>
      <4>1. UnderWay' = {o}
        BY <1>3, <2>1, <3>2 DEF UnderWay, WriterStates, Idle
      <4>2. QED
        BY <2>2, <2>5, <3>1, <4>1
    <3>3. CASE bq' = AddRow(o)
      <4>1. bq'[o] = 1
        BY <1>3, <2>2, <3>3 DEF AddRow
      <4>2. o \notin Absent'
        BY <4>1 DEF Absent, Missing
      <4>3. QED
        BY <2>2, <2>5, <3>1, <4>2
    <3>4. CASE writer' = Idle /\ faults' = faults + 1
      <4>1. (Absent \ UnderWay)' \subseteq (Absent \ UnderWay) \cup {o}
        BY <2>2, <2>5
      <4>2. QED
        BY <1>1, <1>2, <3>4, <4>1, OneMoreMissing
    <3>5. QED
      BY <2>3, <3>2, <3>3, <3>4
  <2>9. QED
    BY <1>1, <2>2, <2>3, <2>4, <2>6, <2>7, <2>8 DEF PaidInv
<1>6. CASE Read \/ UNCHANGED vars
  <2>1. UNCHANGED <<program, tried, pg, bq, lost, writer, faults>>
    BY <1>6 DEF Read, vars, stores
  <2>2. QED
    BY <2>1 DEF PaidInv, UnderWay, Absent, Missing
<1>7. ~(Publish \/ Republish \/ \E h \in Handlers : \/ \E some \in SUBSET Waiting : Deliver(h, some)
                                                   \/ Row(h) \/ Answer(h) \/ AnswerError(h))
  <2>1. parcels = <<>> /\ \A h \in Handlers : handler[h] = Idle
    BY DEF NestInv, FeedInv
  <2>2. Published = {} /\ Waiting = {}
    BY <2>1 DEF Published, Waiting
  <2>3. QED
    BY <2>1, <2>2 DEF Publish, Republish, Deliver, Row, Answer, AnswerError
<1>8. \A o \in Orders : ~writeCockroach(o)
  BY DEF writeCockroach
<1>9. CASE RestartBigQuery
  <2>1. /\ UNCHANGED <<program, tried, pg, writer>> /\ faults' = faults + 1
        /\ bq' = [o \in Orders |-> 0] /\ lost' = lost \cup {o \in Orders : bq[o] > 0}
    BY <1>9 DEF RestartBigQuery, Fault
  <2>2. Absent' = Absent /\ UnderWay' = UnderWay
    BY <1>3, <2>1 DEF Absent, Missing, UnderWay
  <2>3. Cardinality(Absent \ UnderWay) \in Nat
    BY <1>2, FS_CardinalityType
  <2>4. Cardinality((Absent \ UnderWay)') = Cardinality(Absent \ UnderWay)
    BY <2>2
  <2>5. Cardinality((Absent \ UnderWay)') <= faults'
    BY <1>1, <2>1, <2>3, <2>4
  <2>6. \A o \in Orders : bq'[o] = 0
    BY <2>1
  <2>7. UnderWay \subseteq Orders
    BY <1>3 DEF UnderWay, WriterStates
  <2>8. QED
    BY <1>1, <2>1, <2>2, <2>5, <2>6, <2>7 DEF PaidInv
<1>10. Kill \/ simulateWriter => lost' = lost
  BY DEF Kill, simulateWriter, stores
<1>11. QED
  BY <1>4, <1>5, <1>6, <1>7, <1>8, <1>9, <1>10 DEF Next, simulateWriter

-----------------------------------------------------------------------------
(* A changefeed: the rows that are written, and those that are owed *)

\* The parcels that have an order.
Carriers(o) == {n \in DOMAIN parcels : o \in parcels[n]}

\* Of these the ones whose row for it may be written at no further fault: not
\* answered, and not past that row in a handler.
Owed(o) ==
  {n \in Carriers(o) \ done :
     \A h \in Handlers :
       handler[h] # Idle /\ n \in handler[h].parcels => <<n, o>> \in handler[h].left}

Room(times, f) == times * (1 + f - (times - 1))

HandInv ==
  /\ \A h, g \in Handlers : \A n :
       /\ handler[h] # Idle /\ n \in handler[h].parcels
       /\ handler[g] # Idle /\ n \in handler[g].parcels
       => h = g
  /\ \A h \in Handlers : handler[h] # Idle =>
       /\ handler[h].parcels \subseteq DOMAIN parcels \ done
       /\ \A row \in handler[h].left :
            row[1] \in handler[h].parcels /\ row[2] \in parcels[row[1]]

\* Each parcel that has an order, but for the first, cost a fault, and what is
\* owed is paid for as if it were written.
CopyInv(o) ==
  /\ Cardinality(Carriers(o)) <= faults + 1
  /\ Carriers(o) = {} => bq[o] = 0
  /\ bq[o] + Cardinality(Owed(o)) <= Room(Cardinality(Carriers(o)), faults)

CopiesInv == program # "before" => HandInv /\ \A o \in Orders : CopyInv(o)

LEMMA InitCopies == Init => CopiesInv
<1> SUFFICES ASSUME Init PROVE CopiesInv
  OBVIOUS
<1>1. HandInv
  BY DEF Init, HandInv
<1>2. ASSUME NEW o \in Orders PROVE CopyInv(o)
  <2>1. Carriers(o) = {}
    BY DEF Init, Carriers
  <2>2. Owed(o) = {}
    BY <2>1 DEF Owed
  <2>3. Cardinality(Carriers(o)) = 0 /\ Cardinality(Owed(o)) = 0
    BY <2>1, <2>2, FS_EmptySet
  <2>4. bq[o] = 0 /\ faults = 0
    BY DEF Init
  <2>5. QED
    BY <2>3, <2>4 DEF CopyInv, Room
<1>3. QED
  BY <1>1, <1>2 DEF CopiesInv

LEMMA FiniteCarriers ==
  ASSUME FeedInv, NEW o
  PROVE  /\ IsFiniteSet(Carriers(o)) /\ IsFiniteSet(Owed(o))
         /\ Cardinality(Carriers(o)) \in Nat /\ Cardinality(Owed(o)) \in Nat
         /\ Cardinality(Owed(o)) <= Cardinality(Carriers(o))
<1>1. DOMAIN parcels = 1..Len(parcels) /\ Len(parcels) \in Nat
  BY DEF FeedInv
<1>2. IsFiniteSet(DOMAIN parcels)
  BY <1>1, FS_Interval
<1>3. IsFiniteSet(Carriers(o))
  BY <1>2, FS_Subset DEF Carriers
<1>4. Owed(o) \in SUBSET Carriers(o)
  BY DEF Owed
<1>5. IsFiniteSet(Owed(o)) /\ Cardinality(Owed(o)) <= Cardinality(Carriers(o))
  BY <1>3, <1>4, FS_Subset
<1>6. QED
  BY <1>3, <1>5, FS_CardinalityType

\* The arithmetic: a fault makes room for all the parcels once more, or for one
\* more parcel.
LEMMA RoomGrows ==
  ASSUME NEW t \in Nat, NEW f \in Nat
  PROVE  /\ Room(t, f + 1) = Room(t, f) + t
         /\ Room(t + 1, f + 1) = Room(t, f) + (2 + f - t)
         /\ Room(1, f) = 1 + f
         /\ Room(t, f) \in Int
<1>1. t * (1 + (f + 1) - (t - 1)) = t * (1 + f - (t - 1)) + t
  OBVIOUS
<1>2. (t + 1) * (1 + (f + 1) - ((t + 1) - 1)) = t * (1 + f - (t - 1)) + (2 + f - t)
  OBVIOUS
<1>3. 1 * (1 + f - (1 - 1)) = 1 + f
  OBVIOUS
<1>4. t * (1 + f - (t - 1)) \in Int
  OBVIOUS
<1>5. QED
  BY <1>1, <1>2, <1>3, <1>4 DEF Room

\* No row is written, perhaps all are gone, and none is owed that was not.
LEMMA NothingWritten ==
  ASSUME FeedInv, NEW o \in Orders, CopyInv(o), faults \in Nat, bq[o] \in Nat,
         faults' \in {faults, faults + 1}, bq'[o] \in {0, bq[o]},
         Carriers(o)' = Carriers(o), Owed(o)' \subseteq Owed(o)
  PROVE  CopyInv(o)'
<1>1. IsFiniteSet(Owed(o)') /\ Cardinality(Owed(o)') <= Cardinality(Owed(o))
  BY FiniteCarriers, FS_Subset
<1>2. PICK t \in Nat : t = Cardinality(Carriers(o))
  BY FiniteCarriers
<1>3. Room(t, faults + 1) = Room(t, faults) + t /\ Room(t, faults) \in Int
  BY RoomGrows
<1>4. Cardinality(Owed(o)) \in Nat /\ Cardinality(Owed(o)') \in Nat
  BY <1>1, FiniteCarriers, FS_CardinalityType
<1>5. Cardinality(Carriers(o)') = t
  BY <1>2
<1>6. bq'[o] + Cardinality(Owed(o)') <= Room(t, faults')
  BY <1>1, <1>2, <1>3, <1>4 DEF CopyInv
<1>7. QED
  BY <1>2, <1>5, <1>6 DEF CopyInv

\* A row that is owed is written.
LEMMA OwedWritten ==
  ASSUME FeedInv, NEW o \in Orders, CopyInv(o), faults \in Nat, bq[o] \in Nat,
         faults' = faults, bq'[o] = bq[o] + 1, NEW n \in Owed(o),
         Carriers(o)' = Carriers(o), Owed(o)' \subseteq Owed(o) \ {n}
  PROVE  CopyInv(o)'
<1>1. /\ IsFiniteSet(Owed(o) \ {n})
      /\ Cardinality(Owed(o) \ {n}) = Cardinality(Owed(o)) - 1
  BY FiniteCarriers, FS_RemoveElement
<1>2. IsFiniteSet(Owed(o)') /\ Cardinality(Owed(o)') <= Cardinality(Owed(o) \ {n})
  BY <1>1, FS_Subset
<1>3. Cardinality(Owed(o)) \in Nat /\ Cardinality(Owed(o)') \in Nat
  BY <1>2, FiniteCarriers, FS_CardinalityType
<1>4. PICK t \in Nat : t = Cardinality(Carriers(o))
  BY FiniteCarriers
<1>5. Room(t, faults) \in Int
  BY RoomGrows
<1>6. bq'[o] + Cardinality(Owed(o)') <= bq[o] + Cardinality(Owed(o))
  BY <1>1, <1>2, <1>3
<1>7. n \in Carriers(o)
  BY DEF Owed
<1>8. bq'[o] + Cardinality(Owed(o)') <= Room(t, faults)
  BY <1>3, <1>4, <1>5, <1>6 DEF CopyInv
<1>9. QED
  BY <1>4, <1>7, <1>8 DEF CopyInv

\* A handler fails, perhaps after a row that was owed.
LEMMA HandlerFails ==
  ASSUME FeedInv, NEW o \in Orders, CopyInv(o), faults \in Nat, bq[o] \in Nat,
         faults' = faults + 1, bq'[o] = bq[o] \/ (bq'[o] = bq[o] + 1 /\ Owed(o) # {}),
         Carriers(o)' = Carriers(o), Owed(o)' \subseteq Carriers(o)
  PROVE  CopyInv(o)'
<1>1. PICK t \in Nat : t = Cardinality(Carriers(o))
  BY FiniteCarriers
<1>2. /\ Cardinality(Owed(o)) \in Nat
      /\ Cardinality(Owed(o)') \in Nat
      /\ Cardinality(Owed(o)') <= Cardinality(Carriers(o))
  BY FiniteCarriers, FS_Subset, FS_CardinalityType
<1>3. Owed(o) # {} => Cardinality(Owed(o)) # 0
  BY FiniteCarriers, FS_EmptySet
<1>4. bq'[o] <= bq[o] + Cardinality(Owed(o))
  BY <1>2, <1>3
<1>5. Room(t, faults + 1) = Room(t, faults) + t /\ Room(t, faults) \in Int
  BY RoomGrows
<1>6. bq[o] + Cardinality(Owed(o)) <= Room(t, faults)
  BY <1>1 DEF CopyInv
<1>7. Cardinality(Carriers(o)') = t
  BY <1>1
<1>8. bq'[o] \in Nat
  OBVIOUS
<1>9. bq'[o] + Cardinality(Owed(o)') <= Room(t, faults')
  BY <1>2, <1>4, <1>5, <1>6, <1>7, <1>8
<1>10. Carriers(o) = {} => bq'[o] = 0
  BY DEF CopyInv, Owed
<1>11. QED
  BY <1>1, <1>7, <1>9, <1>10 DEF CopyInv

\* A parcel more has the order: its first one, or one a fault pays for.
LEMMA ParcelAdded ==
  ASSUME FeedInv, NEW o \in Orders, CopyInv(o), faults \in Nat, bq[o] \in Nat,
         bq'[o] = bq[o], NEW n, n \notin Carriers(o),
         Carriers(o)' = Carriers(o) \cup {n}, Owed(o)' \subseteq Owed(o) \cup {n},
         (Carriers(o) = {} /\ faults' = faults) \/ faults' = faults + 1
  PROVE  CopyInv(o)'
<1>1. PICK t \in Nat : t = Cardinality(Carriers(o))
  BY FiniteCarriers
<1>2. Cardinality(Carriers(o)') = t + 1
  BY <1>1, FiniteCarriers, FS_AddElement
<1>3. PICK w \in Nat : w = Cardinality(Owed(o))
  BY FiniteCarriers
<1>4. Cardinality(Owed(o)') <= w + 1 /\ Cardinality(Owed(o)') \in Nat
  <2>1. IsFiniteSet(Owed(o)) /\ Cardinality(Owed(o)) <= w
    BY <1>3, FiniteCarriers
  <2>2. IsFiniteSet(Owed(o)') /\ Cardinality(Owed(o)') <= w + 1
    BY <2>1, OneMoreMissing
  <2>3. QED
    BY <2>2, FS_CardinalityType
<1>5. t <= faults + 1 /\ bq[o] + w <= Room(t, faults)
  BY <1>1, <1>3 DEF CopyInv
<1>6. CASE faults' = faults + 1
  <2>1. Room(t + 1, faults + 1) = Room(t, faults) + (2 + faults - t) /\ Room(t, faults) \in Int
    BY RoomGrows
  <2>2. bq'[o] + Cardinality(Owed(o)') <= Room(t + 1, faults')
    BY <1>4, <1>5, <1>6, <2>1
  <2>3. t + 1 <= faults' + 1
    BY <1>5, <1>6
  <2>4. QED
    BY <1>2, <2>2, <2>3 DEF CopyInv
<1>7. CASE Carriers(o) = {} /\ faults' = faults
  <2>1. t = 0 /\ w = 0 /\ bq[o] = 0
    <3>1. Owed(o) = {}
      BY <1>7 DEF Owed
    <3>2. QED
      BY <1>1, <1>3, <1>7, <3>1, FS_EmptySet DEF CopyInv
  <2>2. Room(1, faults) = 1 + faults
    BY RoomGrows
  <2>3. bq'[o] + Cardinality(Owed(o)') <= Room(1, faults')
    BY <1>4, <1>7, <2>1, <2>2
  <2>4. Cardinality(Carriers(o)') = 1
    BY <1>2, <2>1
  <2>5. QED
    BY <1>7, <2>3, <2>4 DEF CopyInv
<1>8. QED
  BY <1>6, <1>7

\* A row a handler has left is owed.
LEMMA LeftIsOwed ==
  ASSUME NestInv, HandInv, NEW h \in Handlers, handler[h] # Idle, NEW row \in handler[h].left
  PROVE  /\ row = <<row[1], row[2]>> /\ row[2] \in Orders
         /\ row[1] \in Owed(row[2])
<1>1. handler[h].left \subseteq Nat \X pg /\ pg \subseteq Orders
  BY DEF NestInv, StoreTypes, FeedInv, HandlerStates
<1>2. row = <<row[1], row[2]>> /\ row[2] \in Orders
  BY <1>1
<1>3. row[1] \in Carriers(row[2]) \ done
  BY DEF HandInv, Carriers
<1>4. ASSUME NEW g \in Handlers, handler[g] # Idle, row[1] \in handler[g].parcels
      PROVE  <<row[1], row[2]>> \in handler[g].left
  <2>1. g = h
    BY <1>4 DEF HandInv
  <2>2. QED
    BY <1>2, <2>1
<1>5. QED
  BY <1>2, <1>3, <1>4 DEF Owed

LEMMA HandlerHands ==
  ASSUME NestInv, HandInv, NEW h \in Handlers,
         (\E some \in SUBSET Waiting : Deliver(h, some)) \/ Row(h) \/ Answer(h) \/ AnswerError(h)
  PROVE  HandInv'
<1>1. parcels' = parcels
  BY DEF Deliver, Row, Answer, AnswerError
<1>2. handler \in [Handlers -> HandlerStates]
  BY DEF NestInv, FeedInv
<1>3. CASE \E some \in SUBSET Waiting : Deliver(h, some)
  <2>1. PICK some \in SUBSET Waiting : Deliver(h, some)
    BY <1>3
  <2>2. /\ some \subseteq DOMAIN parcels \ done
        /\ \A g \in Handlers : \A n : ~(handler[g] # Idle /\ n \in handler[g].parcels /\ n \in some)
    BY DEF Waiting
  <2>3. /\ done' = done
        /\ handler' = [handler EXCEPT ![h] =
                         [pc |-> "writing", parcels |-> some, left |-> Rows(some)]]
    BY <2>1 DEF Deliver
  <2>4. handler'[h] = [pc |-> "writing", parcels |-> some, left |-> Rows(some)]
    BY <1>2, <2>3
  <2>5. \A g \in Handlers \ {h} : handler'[g] = handler[g]
    BY <1>2, <2>3
  <2>6. \A row \in Rows(some) : row[1] \in some /\ row[2] \in parcels[row[1]]
    BY DEF Rows
  <2>7. \A g \in Handlers \ {h} : \A n :
          handler'[g] # Idle /\ n \in handler'[g].parcels => n \notin handler'[h].parcels
    BY <2>2, <2>4, <2>5
  <2>8. QED
    BY <1>1, <2>2, <2>3, <2>4, <2>5, <2>6, <2>7 DEF HandInv
<1>4. CASE Row(h)
  <2>1. handler[h] \in [pc: {"writing"}, parcels: SUBSET Nat, left: SUBSET (Nat \X pg)]
    BY <1>2, <1>4 DEF Row, HandlerStates
  <2>2. PICK row : handler' = [handler EXCEPT ![h].left = @ \ {row}]
    BY <1>4 DEF Row
  <2>3. handler[h] # Idle /\ done' = done
    BY <1>4 DEF Row
  <2>4. handler'[h].parcels = handler[h].parcels /\ handler'[h].left = handler[h].left \ {row}
    BY <1>2, <2>1, <2>2
  <2>5. \A g \in Handlers \ {h} : handler'[g] = handler[g]
    BY <1>2, <2>2
  <2>6. \A g \in Handlers : handler'[g] # Idle => handler[g] # Idle
    BY <2>3, <2>5
  <2>7. \A g \in Handlers : handler'[g] # Idle =>
          handler'[g].parcels = handler[g].parcels /\ handler'[g].left \subseteq handler[g].left
    BY <2>4, <2>5
  <2>8. QED
    BY <1>1, <2>3, <2>6, <2>7 DEF HandInv
<1>5. CASE Answer(h) \/ AnswerError(h)
  <2>1. /\ handler' = [handler EXCEPT ![h] = Idle] /\ handler[h] # Idle
        /\ done' = done \/ done' = done \cup handler[h].parcels
    BY <1>5 DEF Answer, AnswerError
  <2>2. \A g \in Handlers : handler'[g] # Idle => g # h /\ handler'[g] = handler[g]
    BY <1>2, <2>1
  <2>3. QED
    BY <1>1, <2>1, <2>2 DEF HandInv
<1>6. QED
  BY <1>3, <1>4, <1>5

LEMMA HandlerCopies ==
  ASSUME NestInv, HandInv, faults \in Nat, NEW h \in Handlers,
         (\E some \in SUBSET Waiting : Deliver(h, some)) \/ Row(h) \/ Answer(h) \/ AnswerError(h),
         NEW o \in Orders, CopyInv(o)
  PROVE  CopyInv(o)'
<1>1. Carriers(o)' = Carriers(o)
  BY DEF Deliver, Row, Answer, AnswerError, Carriers
<1>2. FeedInv /\ handler \in [Handlers -> HandlerStates] /\ bq \in [Orders -> Nat]
  BY DEF NestInv, StoreTypes, FeedInv
<1>3. CASE \E some \in SUBSET Waiting : Deliver(h, some)
  <2>1. /\ handler[h] = Idle /\ UNCHANGED <<done, bq, faults>>
        /\ \A g \in Handlers \ {h} : handler'[g] = handler[g]
    BY <1>2, <1>3 DEF Deliver, stores
  <2>2. Owed(o)' \subseteq Owed(o)
    BY <1>1, <2>1 DEF Owed
  <2>3. QED
    BY <1>1, <1>2, <2>1, <2>2, NothingWritten
<1>4. CASE Row(h)
  <2>1. PICK row \in handler[h].left :
          bq' = AddRow(row[2]) /\ handler' = [handler EXCEPT ![h].left = @ \ {row}]
    BY <1>4 DEF Row
  <2>2. handler[h] # Idle /\ UNCHANGED <<done, faults>>
    BY <1>4 DEF Row
  <2>3. row = <<row[1], row[2]>> /\ row[2] \in Orders /\ row[1] \in Owed(row[2])
    BY <2>2, LeftIsOwed
  <2>4. handler[h] \in [pc: {"writing"}, parcels: SUBSET Nat, left: SUBSET (Nat \X pg)]
    BY <1>2, <2>2 DEF HandlerStates
  <2>5. /\ handler'[h].pc = "writing" /\ handler'[h].parcels = handler[h].parcels
        /\ handler'[h].left = handler[h].left \ {row}
        /\ \A g \in Handlers \ {h} : handler'[g] = handler[g]
    BY <1>2, <2>1, <2>4
  <2>6. handler'[h] # Idle
    BY <2>2, <2>4, <2>1, <1>2 DEF Idle
  <2>7. Owed(o)' \subseteq Owed(o)
    BY <1>1, <2>2, <2>5, <2>6 DEF Owed
  <2>8. CASE o = row[2]
    <3>1. row[1] \in handler[h].parcels
      BY <2>2 DEF HandInv
    <3>2. row[1] \notin Owed(o)'
      BY <2>3, <2>5, <2>6, <2>8, <3>1 DEF Owed
    <3>3. bq'[o] = bq[o] + 1
      BY <1>2, <2>1, <2>8 DEF AddRow
    <3>4. PICK n \in Owed(o) : Owed(o)' \subseteq Owed(o) \ {n}
      BY <2>3, <2>7, <2>8, <3>2
    <3>5. QED
      BY <1>1, <1>2, <2>2, <3>3, <3>4, OwedWritten
  <2>9. CASE o # row[2]
    <3>1. bq'[o] = bq[o]
      BY <1>2, <2>1, <2>9 DEF AddRow
    <3>2. QED
      BY <1>1, <1>2, <2>2, <2>7, <3>1, NothingWritten
  <2>10. QED
    BY <2>8, <2>9
<1>5. CASE Answer(h)
  <2>1. /\ done' = done \cup handler[h].parcels /\ UNCHANGED <<bq, faults>>
        /\ \A g \in Handlers \ {h} : handler'[g] = handler[g]
    BY <1>2, <1>5 DEF Answer, stores
  <2>2. Owed(o)' \subseteq Owed(o)
    BY <1>1, <2>1 DEF Owed
  <2>3. QED
    BY <1>1, <1>2, <2>1, <2>2, NothingWritten
<1>6. CASE AnswerError(h)
  <2>1. handler[h] # Idle /\ faults' = faults + 1
    BY <1>6 DEF AnswerError, Fault
  <2>2. bq' = bq \/ \E row \in handler[h].left : bq' = AddRow(row[2])
    BY <1>6 DEF AnswerError
  <2>3. bq'[o] = bq[o] \/ (bq'[o] = bq[o] + 1 /\ Owed(o) # {})
    BY <1>2, <2>1, <2>2, LeftIsOwed DEF AddRow
  <2>4. Owed(o)' \subseteq Carriers(o)
    BY <1>1 DEF Owed
  <2>5. QED
    BY <1>1, <1>2, <2>1, <2>3, <2>4, HandlerFails
<1>7. QED
  BY <1>3, <1>4, <1>5, <1>6

LEMMA PublishCopies ==
  ASSUME NestInv, CopiesInv, faults \in Nat, program # "before", Publish \/ Republish
  PROVE  CopiesInv'
<1>1. FeedInv /\ parcels \in Seq(SUBSET pg) /\ pg \subseteq Orders /\ bq \in [Orders -> Nat]
  BY DEF NestInv, StoreTypes, FeedInv
<1>2. PICK rows \in SUBSET pg :
        /\ parcels' = Append(parcels, rows)
        /\ faults' = faults + 1 \/ (rows \cap Published = {} /\ faults' = faults)
  <2>1. CASE Publish
    BY <2>1 DEF Publish
  <2>2. CASE Republish
    <3>1. \A n \in DOMAIN parcels : parcels[n] \subseteq pg
      BY <1>1, ElementOfSeq
    <3>2. QED
      BY <2>2, <3>1 DEF Republish, Published, Fault
  <2>3. QED
    BY <2>1, <2>2
<1>3. UNCHANGED <<program, done, handler, bq>>
  BY DEF Publish, Republish, stores
<1>4. PICK n : n \notin DOMAIN parcels /\ DOMAIN parcels' = DOMAIN parcels \cup {n}
               /\ parcels'[n] = rows /\ \A k \in DOMAIN parcels : parcels'[k] = parcels[k]
  <2>1. Len(parcels) \in Nat /\ DOMAIN parcels = 1..Len(parcels)
    BY <1>1
  <2>2. DOMAIN parcels' = 1..(Len(parcels) + 1)
    BY <1>1, <1>2
  <2>3. parcels'[Len(parcels) + 1] = rows /\ \A k \in 1..Len(parcels) : parcels'[k] = parcels[k]
    BY <1>1, <1>2
  <2>4. 1..(Len(parcels) + 1) = 1..Len(parcels) \cup {Len(parcels) + 1}
    BY <2>1
  <2>5. Len(parcels) + 1 \notin 1..Len(parcels)
    BY <2>1
  <2>6. QED
    BY <2>1, <2>2, <2>3, <2>4, <2>5
<1>5. HandInv'
  BY <1>3, <1>4 DEF CopiesInv, HandInv
<1>6. ASSUME NEW o \in Orders PROVE CopyInv(o)'
  <2>1. CopyInv(o)
    BY DEF CopiesInv
  <2>2. bq[o] \in Nat /\ bq'[o] = bq[o]
    BY <1>1, <1>3
  <2>3. Owed(o)' \subseteq Owed(o) \cup (Carriers(o)' \ Carriers(o))
    BY <1>3, <1>4 DEF Owed
  <2>4. CASE o \in rows
    <3>1. Carriers(o)' = Carriers(o) \cup {n} /\ n \notin Carriers(o)
      BY <1>4, <2>4 DEF Carriers
    <3>2. Owed(o)' \subseteq Owed(o) \cup {n}
      BY <2>3, <3>1
    <3>3. rows \cap Published = {} => Carriers(o) = {}
      BY <2>4 DEF Published, Carriers
    <3>4. QED
      BY <1>1, <1>2, <2>1, <2>2, <3>1, <3>2, <3>3, ParcelAdded
  <2>5. CASE o \notin rows
    <3>1. Carriers(o)' = Carriers(o)
      BY <1>4, <2>5 DEF Carriers
    <3>2. Owed(o)' \subseteq Owed(o)
      BY <2>3, <3>1
    <3>3. QED
      BY <1>1, <1>2, <2>1, <2>2, <3>1, <3>2, NothingWritten
  <2>6. QED
    BY <2>4, <2>5
<1>7. QED
  BY <1>5, <1>6 DEF CopiesInv

LEMMA NextCopies ==
  ASSUME NestInv, CopiesInv, faults \in Nat, [Next]_vars
  PROVE  CopiesInv'
<1> SUFFICES ASSUME program # "before" PROVE CopiesInv'
  <2>1. program' = program
    BY DEF Next, simulateWriter, Publish, Republish, Deliver, Row, Answer, AnswerError, Kill,
           RestartBigQuery, Read, vars
  <2>2. QED
    BY <2>1 DEF CopiesInv
<1>1. HandInv /\ \A o \in Orders : CopyInv(o)
  BY DEF CopiesInv
<1>2. FeedInv /\ bq \in [Orders -> Nat] /\ writer = Idle
  BY DEF NestInv, StoreTypes, WriterInv
<1>3. CASE simulateWriter \/ Read \/ UNCHANGED vars
  <2>1. UNCHANGED <<feed, bq>> /\ faults' \in {faults, faults + 1}
    <3>1. ~writeCassandra /\ ~writeBigQuery
      BY <1>2 DEF writeCassandra, writeBigQuery, Idle
    <3>2. \A o \in Orders : ~writePostgres(o)
      BY DEF writePostgres
    <3>3. QED
      BY <1>3, <3>1, <3>2 DEF simulateWriter, writeCockroach, Fault, Read, vars, stores
  <2>2. \A o \in Orders : Carriers(o)' = Carriers(o) /\ Owed(o)' = Owed(o)
    BY <2>1 DEF Carriers, Owed, feed
  <2>3. \A o \in Orders : CopyInv(o)'
    BY <1>1, <1>2, <2>1, <2>2, NothingWritten
  <2>4. HandInv'
    BY <1>1, <2>1 DEF HandInv, feed
  <2>5. QED
    BY <2>3, <2>4 DEF CopiesInv
<1>4. CASE Publish \/ Republish
  BY <1>4, PublishCopies
<1>5. ASSUME NEW h \in Handlers,
             \/ \E some \in SUBSET Waiting : Deliver(h, some)
             \/ Row(h) \/ Answer(h) \/ AnswerError(h)
      PROVE  CopiesInv'
  <2>1. HandInv'
    BY <1>1, <1>5, HandlerHands
  <2>2. \A o \in Orders : CopyInv(o)'
    BY <1>1, <1>5, HandlerCopies
  <2>3. QED
    BY <2>1, <2>2 DEF CopiesInv
<1>6. CASE RestartBigQuery
  <2>1. UNCHANGED feed /\ bq' = [o \in Orders |-> 0] /\ faults' = faults + 1
    BY <1>6 DEF RestartBigQuery, Fault
  <2>2. \A o \in Orders : Carriers(o)' = Carriers(o) /\ Owed(o)' = Owed(o)
    BY <2>1 DEF Carriers, Owed, feed
  <2>3. \A o \in Orders : CopyInv(o)'
    BY <1>1, <1>2, <2>1, <2>2, NothingWritten
  <2>4. HandInv'
    BY <1>1, <2>1 DEF HandInv, feed
  <2>5. QED
    BY <2>3, <2>4 DEF CopiesInv
<1>7. ~Kill
  BY <1>2 DEF Kill
<1>8. QED
  BY <1>3, <1>4, <1>5, <1>6, <1>7 DEF Next

\* What the stores differ by is paid for, error by error, for any number of
\* orders, handlers and faults.
THEOREM Paid == Spec => []FaultsPayForDifferences
<1> DEFINE AllInv == NestInv /\ faults \in Nat /\ PaidInv /\ CopiesInv
<1>1. Init => AllInv
  BY InitNest, FaultsTyping, InitPaid, InitCopies
<1>2. AllInv /\ [Next]_vars => AllInv'
  <2> SUFFICES ASSUME AllInv, [Next]_vars PROVE AllInv'
    OBVIOUS
  <2>1. NestInv'
    BY NextNest
  <2>2. QED
    BY <2>1, FaultsNext, NextPaid, NextCopies
<1>3. AllInv => FaultsPayForDifferences
  <2> SUFFICES ASSUME AllInv PROVE FaultsPayForDifferences
    OBVIOUS
  <2>1. CASE program = "before"
    <3>1. pg \in SUBSET Orders /\ IsFiniteSet(pg) /\ Absent \subseteq pg
      BY <2>1 DEF NestInv, StoreTypes, PaidInv, Absent, Missing
    <3>2. IsFiniteSet(Absent) /\ IsFiniteSet(Absent \ UnderWay)
      BY <3>1, FS_Subset
    <3>3. Cardinality(Absent \ UnderWay) <= faults /\ \A o \in Orders : bq[o] <= 1
      BY <2>1 DEF PaidInv
    <3>4. Cardinality(Absent) <= faults + (IF writer = Idle THEN 0 ELSE 1)
      <4>1. CASE writer = Idle
        <5>1. Absent \ UnderWay = Absent
          BY <4>1 DEF UnderWay
        <5>2. Cardinality(Absent) <= faults
          BY <3>3, <5>1, Zenon
        <5>3. faults + 0 = faults
          OBVIOUS
        <5>4. (IF writer = Idle THEN 0 ELSE 1) = 0
          BY <4>1
        <5>5. QED
          BY <5>2, <5>3, <5>4
      <4>2. CASE writer # Idle
        <5>1. Absent \subseteq (Absent \ UnderWay) \cup {writer.order}
          BY <4>2 DEF UnderWay
        <5>2. Cardinality(Absent) <= faults + 1
          BY <3>2, <3>3, <5>1, OneMoreMissing
        <5>3. QED
          BY <4>2, <5>2
      <4>3. QED
        BY <4>1, <4>2
    <3>5. QED
      BY <2>1, <3>3, <3>4 DEF FaultsPayForDifferences, Absent
  <2>2. CASE program # "before"
    <3>1. ASSUME NEW o \in Published
          PROVE  bq[o] <= Room(Cardinality(Carriers(o)), faults)
      <4>1. FeedInv /\ parcels \in Seq(SUBSET pg) /\ pg \subseteq Orders /\ bq \in [Orders -> Nat]
        BY DEF NestInv, StoreTypes, FeedInv
      <4>2. o \in Orders
        BY <4>1, ElementOfSeq DEF Published
      <4>3. PICK t \in Nat : t = Cardinality(Carriers(o))
        BY <4>1, FiniteCarriers
      <4>4. bq[o] + Cardinality(Owed(o)) <= Room(t, faults) /\ Room(t, faults) \in Int
        BY <2>2, <4>2, <4>3, RoomGrows DEF CopiesInv, CopyInv
      <4>5. Cardinality(Owed(o)) \in Nat /\ bq[o] \in Nat
        BY <4>1, <4>2, FiniteCarriers
      <4>6. QED
        BY <4>3, <4>4, <4>5
    <3>2. QED
      BY <2>2, <3>1, Zenon DEF FaultsPayForDifferences, Room, Carriers
  <2>3. QED
    BY <2>1, <2>2
<1>4. QED
  BY <1>1, <1>2, <1>3, PTL DEF Spec
-----------------------------------------------------------------------------
(* The types, and the sums of the end of the day *)

\* Nothing is in a table the writer has not begun with, or answered without a
\* parcel; the tables are finite, which makes their sums numbers.
TableInv ==
  /\ cs \cup pg \subseteq tried /\ tried \subseteq Orders /\ lost \subseteq pg
  /\ done \subseteq DOMAIN parcels
  /\ IsFiniteSet(pg) /\ IsFiniteSet(cs) /\ IsFiniteSet(Copies)
  /\ program \in {"before", "webhook", "s3"}
  /\ faults \in 0..MaxFaults

\* The stores are read in their order, and none before BigQuery sums up to more
\* than the first one by now.
SumsInv ==
  /\ \/ DOMAIN eod \in {{}, {"pg"}}
     \/ program = "before" /\ DOMAIN eod \in {{"pg", "cs"}, {"pg", "cs", "bq"}}
     \/ program # "before" /\ DOMAIN eod = {"pg", "bq"}
  /\ \A s \in DOMAIN eod : eod[s] \in Nat
  /\ \A s \in DOMAIN eod \ {"bq"} : eod[s] <= Cardinality(pg)

LEMMA InitTable == Init => TableInv /\ SumsInv
<1> SUFFICES ASSUME Init PROVE TableInv /\ SumsInv
  OBVIOUS
<1>1. Copies = {}
  BY DEF Init, Copies
<1>2. TableInv
  BY <1>1, FS_EmptySet, MaxFaultsAssumption DEF Init, TableInv
<1>3. SumsInv
  BY DEF Init, SumsInv, NoSums
<1>4. QED
  BY <1>2, <1>3

\* A row more is one copy more.
LEMMA CopyAdded ==
  ASSUME bq \in [Orders -> Nat], IsFiniteSet(Copies), NEW o \in Orders, bq' = AddRow(o)
  PROVE  IsFiniteSet(Copies')
<1>1. bq'[o] = bq[o] + 1 /\ \A x \in Orders \ {o} : bq'[x] = bq[x]
  BY DEF AddRow
<1>2. 1..(bq[o] + 1) = 1..bq[o] \cup {bq[o] + 1}
  BY bq[o] \in Nat
<1>3. Copies' \subseteq Copies \cup {<<o, bq[o] + 1>>}
  BY <1>1, <1>2 DEF Copies
<1>4. IsFiniteSet(Copies \cup {<<o, bq[o] + 1>>})
  BY FS_AddElement
<1>5. QED
  BY <1>3, <1>4, FS_Subset

\* What each step may do to the tables.
LEMMA StepsOfTables ==
  ASSUME NestInv, [Next]_vars
  PROVE  /\ program' = program
         /\ tried' = tried \/ \E o \in Orders \ tried : tried' = tried \cup {o}
         /\ pg' = pg \/ \E o \in Orders \ tried : pg' = pg \cup {o} /\ tried' = tried \cup {o}
         /\ cs' = cs \/ \E o \in pg : cs' = cs \cup {o}
         /\ \/ lost' = lost /\ (bq' = bq \/ \E o \in pg : bq' = AddRow(o))
            \/ RestartBigQuery
<1> USE DEF NestInv, StoreTypes, WriterInv, WriterStates
<1>1. ASSUME NEW o \in Orders, writePostgres(o) \/ writeCockroach(o)
      PROVE  /\ o \in Orders \ tried /\ tried' = tried \cup {o} /\ pg' \in {pg, pg \cup {o}}
             /\ UNCHANGED <<cs, bq>>
  BY <1>1 DEF writePostgres, writeCockroach, Begin
<1>2. ASSUME writeCassandra \/ writeBigQuery
      PROVE  /\ UNCHANGED <<tried, pg>>
             /\ cs' = cs \/ \E o \in pg : cs' = cs \cup {o}
             /\ bq' = bq \/ \E o \in pg : bq' = AddRow(o)
  BY <1>2 DEF writeCassandra, writeBigQuery, Idle
<1>3. ASSUME NEW h \in Handlers, Row(h) \/ AnswerError(h)
      PROVE  bq' = bq \/ \E o \in pg : bq' = AddRow(o)
  <2>1. handler[h] # Idle /\ handler[h] \in HandlerStates
    BY <1>3 DEF FeedInv, Row, AnswerError
  <2>2. \A row \in handler[h].left : row[2] \in pg
    BY <2>1 DEF HandlerStates
  <2>3. QED
    BY <1>3, <2>2 DEF Row, AnswerError
<1>4. CASE simulateWriter
  <2>1. program' = program /\ lost' = lost
    BY <1>4 DEF simulateWriter
  <2>2. QED
    BY <1>1, <1>2, <1>4, <2>1 DEF simulateWriter
<1>5. CASE Publish \/ Republish \/ Kill \/ Read \/ UNCHANGED vars
  BY <1>5 DEF Publish, Republish, Kill, Read, vars, stores
<1>6. ASSUME NEW h \in Handlers,
             \/ \E some \in SUBSET Waiting : Deliver(h, some)
             \/ Row(h) \/ Answer(h) \/ AnswerError(h)
      PROVE  /\ UNCHANGED <<program, tried, pg, cs, lost>>
             /\ bq' = bq \/ \E o \in pg : bq' = AddRow(o)
  BY <1>3, <1>6 DEF Deliver, Row, Answer, AnswerError, stores
<1>7. CASE RestartBigQuery
  BY <1>7 DEF RestartBigQuery
<1>8. QED
  BY <1>4, <1>5, <1>6, <1>7 DEF Next

\* BigQuery has or had rows of orders of the first store only.
LEMMA LostIsOfTheTable ==
  ASSUME NestInv, lost \subseteq pg, [Next]_vars
  PROVE  lost' \subseteq pg'
<1>1. pg \subseteq pg'
  BY StepsOfTables
<1>2. CASE RestartBigQuery
  BY <1>1, <1>2 DEF RestartBigQuery, NestInv, StoresNest
<1>3. QED
  BY <1>1, <1>2, StepsOfTables

LEMMA NextTable ==
  ASSUME NestInv, NestInv', CopiesInv, TableInv, [Next]_vars
  PROVE  TableInv'
<1>1. program' = program /\ pg \subseteq Orders /\ bq \in [Orders -> Nat]
  BY StepsOfTables DEF NestInv, StoreTypes
<1>2. (cs \cup pg \subseteq tried /\ tried \subseteq Orders)'
  BY StepsOfTables DEF TableInv
<1>3. lost' \subseteq pg'
  BY LostIsOfTheTable DEF TableInv
<1>4. IsFiniteSet(pg)' /\ IsFiniteSet(cs)'
  BY StepsOfTables, FS_AddElement DEF TableInv
<1>5. IsFiniteSet(Copies)'
  <2>1. CASE bq' = bq
    BY <2>1 DEF TableInv, Copies
  <2>2. ASSUME NEW o \in pg, bq' = AddRow(o) PROVE IsFiniteSet(Copies)'
    BY <1>1, <2>2, CopyAdded DEF TableInv
  <2>3. CASE RestartBigQuery
    <3>1. \A o \in Orders : bq'[o] = 0
      BY <2>3 DEF RestartBigQuery
    <3>2. Copies' = {}
      BY <3>1 DEF Copies
    <3>3. QED
      BY <3>2, FS_EmptySet
  <2>4. QED
    BY <2>1, <2>2, <2>3, StepsOfTables
<1>6. done' \subseteq DOMAIN parcels'
  <2>1. CASE Publish \/ Republish
    <3>1. PICK rows : parcels' = Append(parcels, rows) /\ done' = done
      BY <2>1 DEF Publish, Republish
    <3>2. DOMAIN parcels \subseteq DOMAIN parcels'
      BY <3>1 DEF NestInv, FeedInv
    <3>3. QED
      BY <3>1, <3>2 DEF TableInv
  <2>2. ASSUME NEW h \in Handlers, Answer(h) PROVE done' \subseteq DOMAIN parcels'
    <3>1. handler[h] # Idle /\ parcels' = parcels /\ done' = done \cup handler[h].parcels
      BY <2>2 DEF Answer
    <3>2. program # "before"
      BY <3>1 DEF NestInv, FeedInv
    <3>3. handler[h].parcels \subseteq DOMAIN parcels
      BY <3>1, <3>2 DEF CopiesInv, HandInv
    <3>4. QED
      BY <3>1, <3>3 DEF TableInv
  <2>3. CASE simulateWriter \/ Kill \/ RestartBigQuery \/ Read \/ UNCHANGED vars
    BY <2>3 DEF simulateWriter, Kill, RestartBigQuery, Read, vars, feed, TableInv
  <2>4. ASSUME NEW h \in Handlers,
               (\E some \in SUBSET Waiting : Deliver(h, some)) \/ Row(h) \/ AnswerError(h)
        PROVE  done' \subseteq DOMAIN parcels'
    BY <2>4 DEF Deliver, Row, AnswerError, TableInv
  <2>5. QED
    BY <2>1, <2>2, <2>3, <2>4 DEF Next
<1>7. faults' \in 0..MaxFaults
  BY MaxFaultsAssumption DEF TableInv, Next, simulateWriter, writePostgres, writeCockroach,
     writeCassandra, writeBigQuery, Publish, Republish, Deliver, Row, Answer, AnswerError, Kill,
     RestartBigQuery, Read, Fault, vars
<1>8. QED
  BY <1>1, <1>2, <1>3, <1>4, <1>5, <1>6, <1>7 DEF TableInv

\* A read takes the next store of the order, or begins again.
LEMMA ReadsNext ==
  ASSUME TableInv, SumsInv, Read
  PROVE  \/ eod' = NoSums
         \/ \E n \in Nat :
              \/ DOMAIN Sums = {} /\ n <= Cardinality(pg) /\ Sum("pg", n)
              \/ /\ program = "before" /\ DOMAIN Sums = {"pg"}
                 /\ n = Cardinality(cs) /\ Sum("cs", n)
              \/ /\ n = Cardinality(Copies) /\ Sum("bq", n)
                 /\ DOMAIN Sums = IF program = "before" THEN {"pg", "cs"} ELSE {"pg"}
<1> DEFINE reads == DOMAIN Sums
<1>1. \/ reads \in {{}, {"pg"}}
      \/ program = "before" /\ reads = {"pg", "cs"}
  <2>1. DOMAIN NoSums = {}
    BY DEF NoSums
  <2>2. program = "before" => (Complete(eod) <=> DOMAIN eod = {"pg", "cs", "bq"})
    BY DEF Complete, readOrder
  <2>3. program # "before" => (Complete(eod) <=> DOMAIN eod = {"pg", "bq"})
    BY DEF Complete, readOrder
  <2>4. QED
    BY <2>1, <2>2, <2>3 DEF SumsInv, Sums
<1>2. /\ Cardinality({}) = 0 /\ Cardinality({"pg"}) = 1 /\ Cardinality({"pg", "cs"}) = 2
  <2>1. Cardinality({"pg"}) = 1 /\ IsFiniteSet({"pg"})
    BY FS_Singleton
  <2>2. Cardinality({"pg"} \cup {"cs"}) = Cardinality({"pg"}) + 1
    BY <2>1, FS_AddElement
  <2>3. {"pg"} \cup {"cs"} = {"pg", "cs"}
    OBVIOUS
  <2>4. QED
    BY <2>1, <2>2, <2>3, FS_EmptySet
<1>3. /\ Due("pg") => reads = {}
      /\ Due("cs") => program = "before" /\ reads = {"pg"}
      /\ Due("bq") => reads = IF program = "before" THEN {"pg", "cs"} ELSE {"pg"}
  BY <1>1, <1>2 DEF Due, readOrder
<1>4. /\ Cardinality(pg) \in Nat /\ Cardinality(cs) \in Nat /\ Cardinality(Copies) \in Nat
  BY FS_CardinalityType DEF TableInv
<1>5. QED
  BY <1>3, <1>4 DEF Read, readPostgres, readCassandra, readBigQuery

LEMMA TablesGrow ==
  ASSUME NestInv, TableInv, TableInv', [Next]_vars
  PROVE  /\ Cardinality(pg) \in Nat /\ Cardinality(pg)' \in Nat
         /\ Cardinality(pg) <= Cardinality(pg)'
<1>1. pg \subseteq pg' /\ IsFiniteSet(pg) /\ IsFiniteSet(pg')
  BY StepsOfTables DEF TableInv
<1>2. QED
  BY <1>1, FS_Subset, FS_CardinalityType

LEMMA NextSums ==
  ASSUME NestInv, TableInv, TableInv', SumsInv, [Next]_vars
  PROVE  SumsInv'
<1>1. program' = program
  BY StepsOfTables
<1>2. PICK n \in Nat, m \in Nat : n = Cardinality(pg) /\ m = Cardinality(pg)' /\ n <= m
  BY TablesGrow
<1>3. CASE eod' = eod
  <2>1. \A s \in DOMAIN eod \ {"bq"} : eod[s] \in Nat /\ eod[s] <= m
    BY <1>2 DEF SumsInv
  <2>2. QED
    BY <1>1, <1>2, <1>3, <2>1 DEF SumsInv
<1>4. CASE eod' = NoSums
  BY <1>4 DEF SumsInv, NoSums
<1>5. CASE Read /\ eod' # NoSums
  <2>1. pg' = pg
    BY <1>5 DEF Read, stores
  <2>2. \A s \in DOMAIN Sums : Sums[s] \in Nat /\ (s # "bq" => Sums[s] <= m)
    BY <1>2, <2>1 DEF Sums, SumsInv, NoSums
  <2>3. PICK k \in Nat :
          \/ DOMAIN Sums = {} /\ k <= Cardinality(pg) /\ Sum("pg", k)
          \/ /\ program = "before" /\ DOMAIN Sums = {"pg"}
             /\ k = Cardinality(cs) /\ Sum("cs", k)
          \/ /\ k = Cardinality(Copies) /\ Sum("bq", k)
             /\ DOMAIN Sums = IF program = "before" THEN {"pg", "cs"} ELSE {"pg"}
    BY <1>5, ReadsNext
  <2>4. CASE DOMAIN Sums = {} /\ k <= Cardinality(pg) /\ Sum("pg", k)
    BY <1>2, <2>1, <2>4 DEF Sum, SumsInv
  <2>5. CASE program = "before" /\ DOMAIN Sums = {"pg"} /\ k = Cardinality(cs) /\ Sum("cs", k)
    <3>1. cs \subseteq pg
      BY <2>5 DEF NestInv, StoresNest, TableInv
    <3>2. k <= m
      BY <1>2, <2>1, <2>5, <3>1, FS_Subset DEF TableInv
    <3>3. DOMAIN eod' = {"pg", "cs"} /\ eod'["pg"] = Sums["pg"] /\ eod'["cs"] = k
      BY <2>5 DEF Sum
    <3>4. QED
      BY <1>1, <1>2, <2>2, <2>5, <3>2, <3>3 DEF SumsInv
  <2>6. CASE /\ k = Cardinality(Copies) /\ Sum("bq", k)
             /\ DOMAIN Sums = IF program = "before" THEN {"pg", "cs"} ELSE {"pg"}
    <3>1. /\ DOMAIN eod' = DOMAIN Sums \cup {"bq"}
          /\ eod'["bq"] = k /\ \A s \in DOMAIN Sums : eod'[s] = Sums[s]
      BY <2>6 DEF Sum
    <3>2. /\ program = "before" => DOMAIN eod' = {"pg", "cs", "bq"}
          /\ program # "before" => DOMAIN eod' = {"pg", "bq"}
      BY <2>6, <3>1
    <3>3. \A s \in DOMAIN eod' : eod'[s] \in Nat /\ (s # "bq" => eod'[s] <= m)
      BY <2>2, <3>1
    <3>4. QED
      BY <1>1, <1>2, <3>2, <3>3 DEF SumsInv
  <2>7. QED
    BY <2>3, <2>4, <2>5, <2>6
<1>6. ~Read => eod' = eod
  BY DEF Next, simulateWriter, Publish, Republish, Deliver, Row, Answer, AnswerError, Kill,
         RestartBigQuery, vars
<1>7. QED
  BY <1>3, <1>4, <1>5, <1>6

\* With no order missing BigQuery has a row for each order of the first store.
LEMMA NoneMissing ==
  ASSUME NestInv, TableInv, Missing = {}
  PROVE  Cardinality(pg) <= Cardinality(Copies)
<1> DEFINE first == [o \in pg |-> <<o, 1>>]
<1>1. \A o \in pg : o \in Orders /\ bq[o] \in Nat /\ bq[o] # 0
  BY DEF NestInv, StoreTypes, Missing
<1>2. first \in Injection(pg, Copies)
  <2>1. \A o \in pg : <<o, 1>> \in Copies
    BY <1>1 DEF Copies
  <2>2. QED
    BY <2>1 DEF Injection, IsInjective
<1>3. QED
  BY <1>2, FS_Injection DEF TableInv

WholeInv == NestInv /\ faults \in Nat /\ PaidInv /\ CopiesInv /\ TableInv /\ SumsInv

LEMMA InitWhole == Init => WholeInv
BY InitNest, FaultsTyping, InitPaid, InitCopies, InitTable DEF WholeInv

LEMMA NextWhole == WholeInv /\ [Next]_vars => WholeInv'
<1> SUFFICES ASSUME WholeInv, [Next]_vars PROVE WholeInv'
  OBVIOUS
<1> USE DEF WholeInv
<1>1. NestInv'
  BY NextNest
<1>2. TableInv'
  BY <1>1, NextTable
<1>3. SumsInv'
  BY <1>2, NextSums
<1>4. QED
  BY <1>1, <1>2, <1>3, FaultsNext, NextPaid, NextCopies

LEMMA WholeTypes == WholeInv => TypeOK
<1> SUFFICES ASSUME WholeInv PROVE TypeOK
  OBVIOUS
<1> USE DEF WholeInv
<1>1. writer \in {Idle} \cup [pc: {"cassandra", "bigquery"}, order: tried]
  BY DEF NestInv, WriterInv, WriterStates, TableInv
<1>2. parcels \in Seq(SUBSET pg) /\ pg \subseteq Orders /\ bq \in [Orders -> Nat]
  BY DEF NestInv, StoreTypes, FeedInv
<1>3. ASSUME NEW h \in Handlers, handler[h] # Idle
      PROVE  handler[h] \in [pc: {"writing"}, parcels: SUBSET (DOMAIN parcels \ done),
                             left: SUBSET ((DOMAIN parcels) \X Orders)]
  <2>1. program # "before"
    BY <1>3 DEF NestInv, FeedInv
  <2>2. handler[h] \in [pc: {"writing"}, parcels: SUBSET Nat, left: SUBSET (Nat \X pg)]
    BY <1>3 DEF NestInv, FeedInv, HandlerStates
  <2>3. /\ handler[h].parcels \subseteq DOMAIN parcels \ done
        /\ \A row \in handler[h].left : row[1] \in handler[h].parcels
    BY <1>3, <2>1 DEF CopiesInv, HandInv
  <2>4. handler[h].left \subseteq (DOMAIN parcels) \X Orders
    BY <1>2, <2>2, <2>3
  <2>5. QED
    BY <2>2, <2>3, <2>4
<1>4. DOMAIN eod \subseteq {"pg", "cs", "bq"} /\ \A s \in DOMAIN eod : eod[s] \in Nat
  BY DEF SumsInv
<1>5. QED
  BY <1>1, <1>2, <1>3, <1>4 DEF TypeOK, TableInv

\* Types, of the sums too, for any number of orders: each store is finite.
THEOREM Typing == Spec => []TypeOK
<1>1. QED
  BY InitWhole, NextWhole, WholeTypes, PTL DEF Spec

\* A shortfall of BigQuery the comparison shows is real, for any orders and
\* faults, whatever is written between the reads.
THEOREM Shortfalls == Spec => ShortfallIsReal
<1>1. ASSUME WholeInv, [Next]_vars, eod' # eod, Complete(eod'),
             NEW s \in DOMAIN eod', eod'[s] > eod'["bq"]
      PROVE  Missing # {}
  <2> SUFFICES ASSUME Missing = {} PROVE FALSE
    OBVIOUS
  <2>1. Read
    BY <1>1 DEF Next, simulateWriter, Publish, Republish, Deliver, Row, Answer, AnswerError,
                Kill, RestartBigQuery, vars
  <2>2. DOMAIN eod' = IF program = "before" THEN {"pg", "cs", "bq"} ELSE {"pg", "bq"}
    BY <1>1 DEF Complete, readOrder
  <2>3. eod' # NoSums
    BY <2>2 DEF NoSums
  <2>4. Sum("bq", Cardinality(Copies))
    <3>1. ~\E n \in Nat : DOMAIN Sums = {} /\ Sum("pg", n)
      BY <2>2 DEF Sum
    <3>2. ~\E n \in Nat : DOMAIN Sums = {"pg"} /\ Sum("cs", n)
      BY <2>2 DEF Sum
    <3>3. QED
      BY <1>1, <2>1, <2>3, <3>1, <3>2, ReadsNext DEF WholeInv
  <2>5. s # "bq"
    <3>1. SumsInv'
      BY <1>1, NextWhole DEF WholeInv
    <3>2. eod'["bq"] \in Nat
      BY <2>2, <3>1 DEF SumsInv
    <3>3. QED
      BY <1>1, <3>2
  <2>6. eod'["bq"] = Cardinality(Copies) /\ s \in DOMAIN Sums /\ eod'[s] = Sums[s]
    BY <1>1, <2>4, <2>5 DEF Sum
  <2>7. Sums[s] \in Nat /\ Sums[s] <= Cardinality(pg)
    BY <1>1, <2>5, <2>6 DEF Sums, NoSums, SumsInv, WholeInv
  <2>8. Cardinality(pg) \in Nat /\ Cardinality(Copies) \in Nat
    BY <1>1, FS_CardinalityType DEF TableInv, WholeInv
  <2>9. QED
    BY <1>1, <2>6, <2>7, <2>8, NoneMissing DEF WholeInv
<1>2. WholeInv /\ [Next]_vars =>
        [eod' # eod /\ Complete(eod') =>
           \A s \in DOMAIN eod' : eod'[s] > eod'["bq"] => Missing # {}]_vars
  BY <1>1
<1>3. QED
  BY <1>2, InitWhole, NextWhole, PTL DEF Spec, ShortfallIsReal

-----------------------------------------------------------------------------
(* BigQuery mirrors the first store *)

Had(o) == bq[o] > 0 \/ o \in lost

\* What was answered BigQuery has, or had when it was stopped, and so what a
\* handler has, unless it is left to write.
WrittenInv ==
  /\ \A n \in done : \A o \in parcels[n] : Had(o)
  /\ \A h \in Handlers : handler[h] # Idle =>
       \A n \in handler[h].parcels : \A o \in parcels[n] : <<n, o>> \in handler[h].left \/ Had(o)

LEMMA InitWritten == Init => WrittenInv
BY DEF Init, WrittenInv

\* No row of BigQuery goes away, unless it is stopped.
LEMMA CopiesStay ==
  ASSUME NestInv, [Next]_vars, NEW o \in Orders, Had(o)
  PROVE  Had(o)'
<1>1. bq \in [Orders -> Nat] /\ pg \subseteq Orders
  BY DEF NestInv, StoreTypes
<1>2. CASE RestartBigQuery
  BY <1>2 DEF RestartBigQuery, Had
<1>3. CASE lost' = lost /\ (bq' = bq \/ \E x \in pg : bq' = AddRow(x))
  BY <1>1, <1>3 DEF AddRow, Had
<1>4. QED
  BY <1>2, <1>3, StepsOfTables

\* What each step may do to the parcels.
LEMMA StepsOfParcels ==
  ASSUME WholeInv, [Next]_vars
  PROVE  /\ DOMAIN parcels \subseteq DOMAIN parcels'
         /\ \A n \in DOMAIN parcels : parcels'[n] = parcels[n] /\ parcels[n] \subseteq Orders
<1>1. parcels \in Seq(SUBSET pg) /\ pg \subseteq Orders
  BY DEF WholeInv, NestInv, StoreTypes, FeedInv
<1>2. \A n \in DOMAIN parcels : parcels[n] \subseteq Orders
  BY <1>1, ElementOfSeq
<1>3. CASE Publish \/ Republish
  <2>1. PICK rows : parcels' = Append(parcels, rows)
    BY <1>3 DEF Publish, Republish
  <2>2. QED
    BY <1>1, <1>2, <2>1
<1>4. ~(Publish \/ Republish) => parcels' = parcels
  BY DEF Next, simulateWriter, Deliver, Row, Answer, AnswerError, Kill, RestartBigQuery, Read, vars, feed
<1>5. QED
  BY <1>2, <1>3, <1>4

LEMMA NextWritten ==
  ASSUME WholeInv, WholeInv', WrittenInv, [Next]_vars
  PROVE  WrittenInv'
<1>1. handler \in [Handlers -> HandlerStates] /\ NestInv /\ done \subseteq DOMAIN parcels
  BY DEF WholeInv, NestInv, FeedInv, TableInv
<1>2. ASSUME NEW h \in Handlers, handler[h] # Idle
      PROVE  handler[h].parcels \subseteq DOMAIN parcels \ done
  <2>1. program # "before"
    BY <1>1, <1>2 DEF NestInv, FeedInv
  <2>2. QED
    BY <1>2, <2>1 DEF WholeInv, CopiesInv, HandInv
\* What was written for a parcel is so after the step.
<1>3. \A n \in DOMAIN parcels : \A o \in parcels'[n] :
        o \in parcels[n] /\ o \in Orders /\ (Had(o) => Had(o)')
  BY <1>1, StepsOfParcels, CopiesStay
<1>4. \A n \in done : \A o \in parcels'[n] : Had(o)'
  BY <1>1, <1>3 DEF WrittenInv
<1>5. ASSUME NEW h \in Handlers, handler'[h] = handler[h], handler[h] # Idle
      PROVE  \A n \in handler'[h].parcels : \A o \in parcels'[n] :
               <<n, o>> \in handler'[h].left \/ Had(o)'
  BY <1>2, <1>3, <1>5 DEF WrittenInv
<1>6. ASSUME UNCHANGED <<done, handler>> PROVE WrittenInv'
  BY <1>4, <1>5, <1>6 DEF WrittenInv
<1>7. ASSUME NEW h \in Handlers, NEW some \in SUBSET Waiting, Deliver(h, some)
      PROVE  WrittenInv'
  <2>1. done' = done /\ parcels' = parcels /\ some \subseteq DOMAIN parcels
    BY <1>7 DEF Deliver, Waiting
  <2>2. handler' = [handler EXCEPT ![h] =
                      [pc |-> "writing", parcels |-> some, left |-> Rows(some)]]
    BY <1>7 DEF Deliver
  <2>3. handler'[h].parcels = some /\ handler'[h].left = Rows(some)
    BY <1>1, <2>2
  <2>4. \A n \in some : \A o \in parcels'[n] : <<n, o>> \in Rows(some)
    BY <2>1 DEF Rows
  <2>5. \A g \in Handlers \ {h} : handler'[g] = handler[g]
    BY <1>1, <2>2
  <2>6. QED
    BY <1>4, <1>5, <2>1, <2>3, <2>4, <2>5 DEF WrittenInv
<1>8. ASSUME NEW h \in Handlers, Row(h) PROVE WrittenInv'
  <2>1. PICK row \in handler[h].left :
          bq' = AddRow(row[2]) /\ handler' = [handler EXCEPT ![h].left = @ \ {row}]
    BY <1>8 DEF Row
  <2>2. handler[h] # Idle /\ done' = done /\ parcels' = parcels
    BY <1>8 DEF Row
  <2>3. handler[h] \in [pc: {"writing"}, parcels: SUBSET Nat, left: SUBSET (Nat \X pg)]
    BY <1>1, <2>2 DEF HandlerStates
  <2>4. /\ handler'[h].parcels = handler[h].parcels
        /\ handler'[h].left = handler[h].left \ {row}
    BY <1>1, <2>1, <2>3
  <2>5. row = <<row[1], row[2]>> /\ Had(row[2])'
    <3>1. row \in Nat \X pg
      BY <2>3
    <3>2. pg \subseteq Orders /\ bq \in [Orders -> Nat]
      BY <1>1 DEF NestInv, StoreTypes
    <3>3. QED
      BY <2>1, <3>1, <3>2 DEF AddRow, Had
  <2>6. ASSUME NEW n \in handler[h].parcels, NEW o \in parcels'[n]
        PROVE  <<n, o>> \in handler'[h].left \/ Had(o)'
    <3>1. <<n, o>> \in handler[h].left \/ Had(o)'
      BY <1>2, <1>3, <2>2, <2>6 DEF WrittenInv
    <3>2. CASE <<n, o>> = row
      BY <2>5, <3>2
    <3>3. CASE <<n, o>> # row
      BY <2>4, <3>1, <3>3
    <3>4. QED
      BY <3>2, <3>3
  <2>7. \A g \in Handlers \ {h} : handler'[g] = handler[g]
    BY <1>1, <2>1
  <2>8. QED
    BY <1>4, <1>5, <2>2, <2>4, <2>6, <2>7 DEF WrittenInv
<1>9. ASSUME NEW h \in Handlers, Answer(h) \/ AnswerError(h) PROVE WrittenInv'
  <2>1. /\ handler[h] # Idle /\ handler' = [handler EXCEPT ![h] = Idle] /\ parcels' = parcels
        /\ done' = done \/ (done' = done \cup handler[h].parcels /\ handler[h].left = {})
    BY <1>9 DEF Answer, AnswerError
  <2>2. \A g \in Handlers : handler'[g] # Idle => handler'[g] = handler[g]
    BY <1>1, <2>1
  <2>3. \A n \in done' : \A o \in parcels'[n] : Had(o)'
    <3>1. handler[h].left = {} =>
            \A n \in handler[h].parcels : \A o \in parcels'[n] : Had(o)'
      BY <1>2, <1>3, <2>1 DEF WrittenInv
    <3>2. QED
      BY <1>4, <2>1, <3>1
  <2>4. QED
    BY <1>5, <2>2, <2>3 DEF WrittenInv
<1>10. CASE simulateWriter \/ Publish \/ Republish \/ Kill \/ RestartBigQuery \/ Read \/ UNCHANGED vars
  BY <1>6, <1>10 DEF simulateWriter, Publish, Republish, Kill, RestartBigQuery, Read, vars, feed
<1>11. QED
  BY <1>7, <1>8, <1>9, <1>10 DEF Next

\* Each step of the stores and the feed is one of the mirror, or none.
LEMMA MirrorStep ==
  ASSUME WholeInv, WrittenInv, WrittenInv', [Next]_vars
  PROVE  [Mirrored!Next]_<<pg, bq, Answered \ lost>>
<1>1. NestInv /\ pg \subseteq Orders /\ done \subseteq DOMAIN parcels
  BY DEF WholeInv, NestInv, StoreTypes, TableInv
<1>2. done' = done => Answered' = Answered
  BY <1>1, StepsOfParcels DEF Answered
<1>3. CASE \E h \in Handlers : Answer(h)
  <2>1. PICK h \in Handlers : Answer(h)
    BY <1>3
  <2>2. /\ UNCHANGED <<pg, bq, lost, parcels>> /\ handler[h] # Idle
        /\ done' = done \cup handler[h].parcels
    BY <2>1 DEF Answer, stores
  <2>3. handler[h].parcels \subseteq DOMAIN parcels
    BY <1>1, <2>2 DEF NestInv, FeedInv, WholeInv, CopiesInv, HandInv
  <2>4. Answered' = Answered \cup UNION {parcels[n] : n \in handler[h].parcels}
    BY <2>2 DEF Answered
  <2>5. UNION {parcels[n] : n \in handler[h].parcels} \subseteq pg
    <3>1. parcels \in Seq(SUBSET pg)
      BY <1>1 DEF NestInv, FeedInv
    <3>2. \A n \in DOMAIN parcels : parcels[n] \subseteq pg
      BY <3>1, ElementOfSeq
    <3>3. QED
      BY <2>3, <3>2
  <2>6. \A o \in (UNION {parcels[n] : n \in handler[h].parcels}) \ lost : bq[o] > 0
    BY <2>2 DEF WrittenInv, Had
  <2>7. Mirrored!Tell((UNION {parcels[n] : n \in handler[h].parcels}) \ lost)
    BY <2>2, <2>4, <2>6 DEF Mirrored!Tell
  <2>8. QED
    BY <2>5, <2>7 DEF Mirrored!Next
<1>4. CASE RestartBigQuery
  <2>1. /\ pg' = pg /\ done' = done /\ bq' = [o \in Orders |-> 0]
        /\ lost' = lost \cup {o \in Orders : bq[o] > 0}
    BY <1>4 DEF RestartBigQuery, feed
  <2>2. \A o \in Answered : o \in Orders /\ Had(o)
    BY <1>1, StepsOfParcels DEF Answered, WrittenInv
  <2>3. (Answered \ lost)' = {}
    BY <1>2, <2>1, <2>2 DEF Had
  <2>4. Mirrored!Lose
    BY <2>1, <2>3 DEF Mirrored!Lose
  <2>5. QED
    BY <2>4 DEF Mirrored!Next
<1>5. CASE ~RestartBigQuery /\ ~\E h \in Handlers : Answer(h)
  <2>1. done' = done
    BY <1>5 DEF Next, simulateWriter, Publish, Republish, Deliver, Row, AnswerError, Kill, Read,
                vars, feed
  <2>2. (Answered \ lost)' = Answered \ lost
    BY <1>1, <1>2, <1>5, <2>1, StepsOfTables
  <2>3. pg' = pg \/ bq' = bq
    BY <1>5 DEF Next, simulateWriter, writePostgres, writeCockroach, writeCassandra, writeBigQuery,
           Publish, Republish, Deliver, Row, Answer, AnswerError, Kill, Read, vars, stores
  <2>4. CASE pg' # pg
    <3>1. PICK o \in Orders \ tried : pg' = pg \cup {o}
      BY <1>1, <2>4, StepsOfTables
    <3>2. Mirrored!Insert(o)
      BY <2>2, <2>3, <2>4, <3>1 DEF Mirrored!Insert
    <3>3. QED
      BY <3>1, <3>2 DEF Mirrored!Next
  <2>5. CASE pg' = pg /\ bq' # bq
    <3>1. PICK o \in pg : bq' = AddRow(o)
      BY <1>1, <1>5, <2>5, StepsOfTables
    <3>2. Mirrored!Copy(o)
      BY <2>2, <2>5, <3>1 DEF Mirrored!Copy, AddRow
    <3>3. QED
      BY <1>1, <3>2 DEF Mirrored!Next
  <2>6. QED
    BY <2>2, <2>4, <2>5
<1>6. QED
  BY <1>3, <1>4, <1>5

\* BigQuery mirrors the first store, for any orders, handlers, parcels and faults.
THEOREM Implements == Spec => ImplementsMirror
<1>1. Init => Mirrored!Init
  BY DEF Init, Mirrored!Init, Answered
<1>2. WholeInv /\ WrittenInv /\ [Next]_vars => WholeInv' /\ WrittenInv'
  BY NextWhole, NextWritten
<1>3. QED
  BY <1>1, <1>2, InitWhole, InitWritten, MirrorStep, PTL
     DEF Spec, ImplementsMirror, Mirrored!Spec
=============================================================================
