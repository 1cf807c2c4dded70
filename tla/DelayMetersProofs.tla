-------------------------- MODULE DelayMetersProofs --------------------------
(***************************************************************************)
(* Proofs about the delay meters: the rolling average is of the last       *)
(* inputs, for every period, and each program counts an event's delay as   *)
(* often as it says, for all events and consumers.                         *)
(***************************************************************************)
EXTENDS DelayMeters, SequenceTheorems, TLAPS

-----------------------------------------------------------------------------
(* The rolling average *)

\* Where each input is: those written since the place was last 0 come before it,
\* the ones they replaced would have been older by the period.
RingInv ==
  /\ taken \in Nat
  /\ i \in 0..(Period - 1)
  /\ storage \in Seq(Int)
  /\ sum \in [1..taken -> Int]
  /\ AverageIsOfTheLast
  /\ taken < Period => i = taken
  /\ \A p \in 1..Len(storage) :
       storage[p] = IF p <= i THEN taken - i + p ELSE taken - i + p - Period

\* The place after the last one is the first.
LEMMA NextPlace ==
  ASSUME NEW k \in 0..(Period - 1)
  PROVE  (k + 1) % Period = IF k + 1 = Period THEN 0 ELSE k + 1
  BY PeriodAssumption

LEMMA WindowInitRing == WindowInit => RingInv
  BY PeriodAssumption DEF WindowInit, RingInv, AverageIsOfTheLast

LEMMA AverageRing ==
  ASSUME RingInv, average
  PROVE  RingInv'
<1> DEFINE input == taken + 1
           ring == IF Len(storage) < Period THEN Append(storage, input) ELSE storage
<1> USE PeriodAssumption
<1>1. /\ taken' = input
      /\ i' = IF i + 1 = Period THEN 0 ELSE i + 1
      /\ storage' = [ring EXCEPT ![i + 1] = input]
      /\ sum' = [k \in 1..input |->
           (IF k \in 1..taken THEN sum[k] ELSE IF Len(storage) < Period THEN 1 ELSE 0)
             + One(k, input) - One(k, ring[i + 1])]
  BY NextPlace DEF average, RingInv
<1>a. DOMAIN sum' = 1..input /\ sum' = [k \in 1..input |-> sum'[k]]
  BY <1>1
<1>b. taken \in Nat /\ input \in Nat /\ input \in Int
  BY DEF RingInv
<1>2. CASE taken < Period
  <2>1. /\ Len(storage) = taken /\ i = taken
        /\ ring = Append(storage, input)
    BY <1>2 DEF RingInv, AverageIsOfTheLast
  <2>2. /\ ring \in Seq(Int) /\ Len(ring) = input /\ ring[input] = input
        /\ \A p \in 1..taken : ring[p] = p
    BY <2>1 DEF RingInv
  <2>3. /\ storage' \in Seq(Int) /\ Len(storage') = input
        /\ \A p \in 1..input : storage'[p] = p
    <3>1. storage' = [ring EXCEPT ![input] = input] /\ input \in 1..Len(ring)
      BY <1>1, <1>b, <2>1, <2>2
    <3> HIDE DEF ring
    <3>2. /\ [ring EXCEPT ![input] = input] \in Seq(Int)
          /\ Len([ring EXCEPT ![input] = input]) = Len(ring)
          /\ \A p \in 1..Len(ring) :
               [ring EXCEPT ![input] = input][p] = IF p = input THEN input ELSE ring[p]
      BY <1>b, <2>2, <3>1, ExceptSeq
    <3>3. \A p \in 1..input : storage'[p] = IF p = input THEN input ELSE ring[p]
      BY <2>2, <3>1, <3>2
    <3>4. \A p \in 1..input : p \in 1..taken \/ p = input
      BY <1>b DEF RingInv
    <3>5. QED
      BY <2>2, <3>1, <3>2, <3>3, <3>4
  <2>4. \A k \in 1..input : sum'[k] = 1
    <3>1. \A k \in 1..taken : sum[k] = 1
      BY <1>2 DEF RingInv, AverageIsOfTheLast
    <3>2. sum' = [k \in 1..input |->
            (IF k \in 1..taken THEN sum[k] ELSE 1) + One(k, input) - One(k, input)]
      BY <1>1, <1>2, <2>1, <2>2
    <3>3. QED
      BY <3>1, <3>2 DEF RingInv, One
  <2>5. sum' \in [1..input -> Int]
    BY <1>a, <2>4
  <2>6. AverageIsOfTheLast'
    BY <1>1, <1>2, <2>3, <2>4 DEF RingInv, AverageIsOfTheLast
  <2>7. /\ i' \in 0..(Period - 1)
        /\ input < Period => i' = input
        /\ input = Period => i' = 0
    BY <1>1, <1>2, <2>1 DEF RingInv
  <2>8. \A p \in 1..Len(storage') :
          storage'[p] = IF p <= i' THEN input - i' + p ELSE input - i' + p - Period
    <3> SUFFICES ASSUME NEW p \in 1..input
                 PROVE  p = IF p <= i' THEN input - i' + p ELSE input - i' + p - Period
      BY <2>3
    <3>1. input < Period \/ input = Period
      BY <1>b, <1>2 DEF RingInv
    <3>2. CASE input < Period
      BY <1>b, <2>7, <3>2
    <3>3. CASE input = Period
      BY <1>b, <2>7, <3>3
    <3>4. QED
      BY <3>1, <3>2, <3>3
  <2>9. QED
    BY <1>1, <1>b, <2>3, <2>5, <2>6, <2>7, <2>8 DEF RingInv
<1>3. CASE taken >= Period
  <2>1. /\ Len(storage) = Period /\ ring = storage
        /\ ring[i + 1] = input - Period
    BY <1>3 DEF RingInv, AverageIsOfTheLast
  <2>2. /\ storage' \in Seq(Int) /\ Len(storage') = Period
        /\ \A p \in 1..Period : storage'[p] = IF p = i + 1 THEN input ELSE storage[p]
    BY <1>1, <2>1, ExceptSeq DEF RingInv
  <2>3. \A k \in 1..input : sum'[k] = IF k > input - Period THEN 1 ELSE 0
    <3>1. \A k \in 1..taken : sum[k] = IF k > taken - Period THEN 1 ELSE 0
      BY DEF RingInv, AverageIsOfTheLast
    <3>2. sum' = [k \in 1..input |->
            (IF k \in 1..taken THEN sum[k] ELSE 0) + One(k, input) - One(k, input - Period)]
      BY <1>1, <2>1
    <3>3. QED
      BY <1>3, <3>1, <3>2 DEF RingInv, One
  <2>4. sum' \in [1..input -> Int]
    BY <1>a, <2>3
  <2>5. \A p \in 1..Period :
          storage'[p] = IF p <= i' THEN input - i' + p ELSE input - i' + p - Period
    <3> SUFFICES ASSUME NEW p \in 1..Period
                 PROVE  storage'[p] = IF p <= i' THEN input - i' + p ELSE input - i' + p - Period
      OBVIOUS
    <3>1. storage[p] = IF p <= i THEN taken - i + p ELSE taken - i + p - Period
      BY <2>1 DEF RingInv
    <3>2. storage'[p] = IF p = i + 1 THEN input ELSE storage[p]
      BY <2>2
    <3>3. i \in 0..(Period - 1) /\ i' = IF i + 1 = Period THEN 0 ELSE i + 1
      BY <1>1 DEF RingInv
    <3>4. QED
      BY <1>b, <3>1, <3>2, <3>3
  <2>6. AverageIsOfTheLast'
    BY <1>1, <1>3, <2>2, <2>3 DEF RingInv, AverageIsOfTheLast
  <2>7. i' \in 0..(Period - 1)
    BY <1>1 DEF RingInv
  <2>8. ~(input < Period)
    BY <1>b, <1>3
  <2>9. QED
    BY <1>1, <1>b, <2>2, <2>4, <2>5, <2>6, <2>7, <2>8 DEF RingInv
<1>4. QED
  BY <1>2, <1>3 DEF RingInv

LEMMA WindowRing ==
  ASSUME RingInv, [Next]_vars
  PROVE  RingInv'
<1>1. CASE average
  BY <1>1, AverageRing
<1>2. CASE UNCHANGED window
  BY <1>2 DEF window, RingInv, AverageIsOfTheLast
<1>3. average \/ UNCHANGED window
  BY DEF Next, vars, simulateProducer, Expire, Emit, Reemit, Publish, Query, QueryFails, Apply,
         applyPollLag, compareAndPrint, Join, Leave, ReadMessage, ReadMessageFails, Fetch
<1>4. QED
  BY <1>1, <1>2, <1>3

\* For every period and any sequence of inputs, the sum the average is taken of
\* holds the last inputs, each once, and no other.
THEOREM Averages == Spec => []AverageIsOfTheLast
<1>1. Init => RingInv
  BY WindowInitRing DEF Init
<1>2. RingInv /\ [Next]_vars => RingInv'
  BY WindowRing
<1>3. RingInv => AverageIsOfTheLast
  BY DEF RingInv
<1>4. QED
  BY <1>1, <1>2, <1>3, PTL DEF Spec

-----------------------------------------------------------------------------
(* Types *)

\* TypeOK but for the window, which RingInv has.
MeterTypes ==
  /\ program \in {"polling", "queue", "cdc"}
  /\ event \in [Events -> EventStates] /\ stopped \in BOOLEAN
  /\ rowsWritten \subseteq Events /\ ignored \subseteq Events
  /\ measured \in [Events -> Nat]
  /\ expired \subseteq Events
  /\ hand \in [Consumers -> HandStates]
  /\ queue \in [Events -> Nat] /\ emitted \subseteq Stored
  /\ joined \in BOOLEAN /\ committed \in BOOLEAN /\ dropped \subseteq Events
  /\ faults \in 0..MaxFaults

\* A consumer holds nothing, or one set of events.
LEMMA HandMembers ==
  /\ {} \in HandStates
  /\ \A ids \in SUBSET Events : {ids} \in HandStates
  /\ \A h \in HandStates : \A ids \in h : ids \subseteq Events
  BY DEF HandStates

LEMMA InitTypes == Init => MeterTypes
<1> SUFFICES ASSUME Init PROVE MeterTypes
  OBVIOUS
<1>1. hand \in [Consumers -> HandStates]
  BY HandMembers DEF Init
<1>2. event \in [Events -> EventStates]
  BY DEF Init, EventStates
<1>3. measured \in [Events -> Nat] /\ queue \in [Events -> Nat] /\ faults \in 0..MaxFaults
  BY MaxFaultsAssumption DEF Init
<1>4. /\ program \in {"polling", "queue", "cdc"} /\ stopped \in BOOLEAN /\ rowsWritten = {}
      /\ ignored = {} /\ expired = {} /\ emitted = {} /\ dropped = {}
      /\ joined \in BOOLEAN /\ committed \in BOOLEAN
  BY DEF Init
<1>5. QED
  BY <1>1, <1>2, <1>3, <1>4, Zenon DEF MeterTypes

\* What is in the table stays there.
LEMMA StoredStays ==
  ASSUME MeterTypes, [Next]_vars
  PROVE  Stored \subseteq Stored'
<1>1. CASE simulateProducer
  BY <1>1 DEF simulateProducer, Enter, Insert, Note, InsertFails, Idle, Stored, MeterTypes
<1>2. CASE ~simulateProducer
  BY <1>2 DEF Next, vars, producer, Expire, Emit, Reemit, Publish, Query, QueryFails, Apply,
              Join, Leave, ReadMessage, ReadMessageFails, Fetch, Stored
<1>3. QED
  BY <1>1, <1>2

LEMMA ProducerTypes ==
  ASSUME MeterTypes, simulateProducer, Stored \subseteq Stored'
  PROVE  MeterTypes'
<1>1. event' \in [Events -> EventStates] /\ stopped' \in BOOLEAN /\ rowsWritten' \subseteq Events
  BY DEF simulateProducer, Enter, Insert, Note, InsertFails, MeterTypes, EventStates
<1>2. QED
  BY <1>1 DEF simulateProducer, MeterTypes, topic, group

LEMMA PollTypes ==
  ASSUME MeterTypes, NEW c \in Consumers, Query(c) \/ QueryFails(c)
  PROVE  MeterTypes'
<1>1. hand' \in [Consumers -> HandStates]
  <2>1. \A h \in HandStates : [hand EXCEPT ![c] = h] \in [Consumers -> HandStates]
    BY DEF MeterTypes
  <2>2. Stored \ expired \in SUBSET Events
    BY DEF Stored
  <2>3. \A all \in hand[c] : SUBSET all \subseteq SUBSET Events
    BY HandMembers DEF MeterTypes
  <2>4. \E h \in HandStates : hand' = [hand EXCEPT ![c] = h]
    <3>1. CASE Query(c)
      BY <3>1, <2>2, HandMembers DEF Query
    <3>2. CASE QueryFails(c)
      BY <3>2, <2>3, HandMembers DEF QueryFails
    <3>3. QED
      BY <3>1, <3>2
  <2>5. QED
    BY <2>1, <2>4
<1>2. faults' \in 0..MaxFaults
  BY MaxFaultsAssumption DEF Query, QueryFails, MeterTypes
<1>3. QED
  BY <1>1, <1>2 DEF Query, QueryFails, MeterTypes, producer, topic, group, Stored

LEMMA TopicTypes ==
  ASSUME MeterTypes, NEW e \in Events, Expire(e) \/ Emit(e) \/ Reemit(e)
  PROVE  MeterTypes'
<1>1. CASE Expire(e)
  BY <1>1 DEF Expire, MeterTypes, producer, topic, group, Stored
<1>2. CASE Emit(e) \/ Reemit(e)
  <2>1. queue' \in [Events -> Nat] /\ emitted' \subseteq Stored
    BY <1>2 DEF Emit, Reemit, Publish, MeterTypes
  <2>2. faults' \in 0..MaxFaults
    BY <1>2, MaxFaultsAssumption DEF Emit, Reemit, MeterTypes
  <2>3. QED
    BY <1>2, <2>1, <2>2 DEF Emit, Reemit, Publish, MeterTypes, producer, group, Stored
<1>3. QED
  BY <1>1, <1>2

LEMMA ReaderTypes ==
  ASSUME MeterTypes,
         Join \/ Leave \/ \E c \in Consumers, e \in Events :
                            ReadMessage(c, e) \/ ReadMessageFails(c, e)
  PROVE  MeterTypes'
<1>1. CASE Join
  BY <1>1 DEF Join, MeterTypes, producer, Stored
<1>2. CASE Leave
  BY <1>2 DEF Leave, MeterTypes, producer, topic, Stored
<1>3. CASE \E c \in Consumers, e \in Events : ReadMessage(c, e) \/ ReadMessageFails(c, e)
  <2>1. PICK c \in Consumers, e \in Events : ReadMessage(c, e) \/ ReadMessageFails(c, e)
    BY <1>3
  <2>2. queue' \in [Events -> Nat]
    BY <2>1 DEF ReadMessage, ReadMessageFails, Fetch, MeterTypes
  <2>3. hand' \in [Consumers -> HandStates]
    <3>1. {{e}} \in HandStates
      BY HandMembers
    <3>2. QED
      BY <2>1, <3>1 DEF ReadMessage, ReadMessageFails, MeterTypes
  <2>4. QED
    BY <2>1, <2>2, <2>3 DEF ReadMessage, ReadMessageFails, Fetch, MeterTypes, producer, Stored
<1>4. QED
  BY <1>1, <1>2, <1>3

LEMMA ApplyTypes ==
  ASSUME MeterTypes, NEW c \in Consumers, Apply(c)
  PROVE  MeterTypes'
<1>1. PICK ids \in hand[c] : applyPollLag(ids) \/ compareAndPrint(ids)
  BY DEF Apply
<1>2. ids \subseteq Events
  BY <1>1, HandMembers DEF MeterTypes
<1>3. measured' \in [Events -> Nat] /\ rowsWritten' \subseteq Events /\ ignored' \subseteq Events
  BY <1>1, <1>2 DEF applyPollLag, compareAndPrint, Measure, MeterTypes
<1>4. hand' \in [Consumers -> HandStates]
  BY HandMembers DEF Apply, MeterTypes
<1>5. QED
  BY <1>3, <1>4 DEF Apply, MeterTypes, producer, topic, group, Stored

LEMMA NextTypes == MeterTypes /\ [Next]_vars => MeterTypes'
<1> SUFFICES ASSUME MeterTypes, [Next]_vars PROVE MeterTypes'
  OBVIOUS
<1>1. CASE simulateProducer
  BY <1>1, StoredStays, ProducerTypes
<1>2. CASE UNCHANGED vars
  BY <1>2 DEF vars, producer, topic, group, MeterTypes, Stored
<1>3. QED
  BY <1>1, <1>2, PollTypes, TopicTypes, ReaderTypes, ApplyTypes DEF Next

\* Type correctness of the producer, the map, the readers and the window: the
\* changefeed publishes only what is in the table.
THEOREM Typing == Spec => []TypeOK
<1>1. Init => RingInv /\ MeterTypes
  BY InitTypes, WindowInitRing DEF Init
<1>2. RingInv /\ MeterTypes /\ [Next]_vars => (RingInv /\ MeterTypes)'
  BY WindowRing, NextTypes
<1>3. RingInv /\ MeterTypes => TypeOK
  <2> SUFFICES ASSUME RingInv, MeterTypes PROVE TypeOK
    OBVIOUS
  <2>1. \A p \in 1..Len(storage) : storage[p] \in 1..taken
    BY PeriodAssumption DEF RingInv, AverageIsOfTheLast
  <2>2. storage \in Seq(1..taken)
    <3>1. storage \in Seq(Int)
      BY DEF RingInv
    <3>2. storage \in [1..Len(storage) -> 1..taken] /\ Len(storage) \in Nat
      BY <3>1, <2>1, LenProperties, Zenon
    <3>3. QED
      BY <3>2, SeqDef
  <2>3. QED
    BY <2>2 DEF RingInv, MeterTypes, TypeOK
<1>4. QED
  BY <1>1, <1>2, <1>3, PTL DEF Spec

-----------------------------------------------------------------------------
(* Each delay is counted once *)

\* What is published or read is in the table.
Seen ==
  /\ \A e \in Events : queue[e] > 0 => e \in Stored
  /\ \A c \in Consumers : \A ids \in hand[c] : ids \subseteq Stored

\* Where an event is tells what the map and the meters can have of it.
Placed ==
  \A e \in Events :
    IF program = "cdc"
    THEN event[e] # "inserted" /\ (measured[e] > 0 => e \in Stored)
    ELSE event[e] \notin {"entered", "failed"} /\ (e \in rowsWritten => event[e] = "noted")

OnceInv == MeterTypes /\ Seen /\ Placed /\ MeasuredOnce

LEMMA InitOnce == Init => OnceInv
<1> SUFFICES ASSUME Init PROVE OnceInv
  OBVIOUS
<1>1. Seen /\ Placed /\ MeasuredOnce
  BY DEF Init, Seen, Placed, MeasuredOnce
<1>2. QED
  BY <1>1, InitTypes DEF OnceInv

LEMMA NextSeen ==
  ASSUME OnceInv, [Next]_vars
  PROVE  Seen'
<1> USE DEF OnceInv
<1>1. Stored \subseteq Stored'
  BY StoredStays
<1>2. \A e \in Events : queue'[e] > 0 => queue[e] > 0 \/ e \in Stored
  <2>1. CASE \E e \in Events : Emit(e) \/ Reemit(e)
    BY <2>1 DEF Emit, Reemit, Publish, MeterTypes
  <2>2. CASE Join
    BY <2>2 DEF Join, MeterTypes
  <2>3. CASE \E c \in Consumers, e \in Events : ReadMessage(c, e) \/ ReadMessageFails(c, e)
    BY <2>3 DEF ReadMessage, ReadMessageFails, Fetch, MeterTypes
  <2>4. CASE UNCHANGED queue
    BY <2>4
  <2>5. QED
    BY <2>1, <2>2, <2>3, <2>4
       DEF Next, vars, topic, simulateProducer, Expire, Query, QueryFails, Apply, Leave
<1>3. \A c \in Consumers : \A ids \in hand'[c] : ids \subseteq Stored
  <2> SUFFICES ASSUME NEW c \in Consumers, NEW ids \in hand'[c] PROVE ids \subseteq Stored
    OBVIOUS
  <2>1. CASE \E d \in Consumers : Query(d)
    BY <2>1 DEF Query, MeterTypes, Seen
  <2>2. CASE \E d \in Consumers : QueryFails(d)
    BY <2>2 DEF QueryFails, MeterTypes, Seen
  <2>3. CASE \E d \in Consumers : Apply(d)
    BY <2>3 DEF Apply, MeterTypes, Seen
  <2>4. CASE \E d \in Consumers, e \in Events : ReadMessage(d, e) \/ ReadMessageFails(d, e)
    BY <2>4 DEF ReadMessage, ReadMessageFails, Fetch, MeterTypes, Seen
  <2>5. CASE UNCHANGED hand
    BY <2>5 DEF Seen
  <2>6. QED
    BY <2>1, <2>2, <2>3, <2>4, <2>5
       DEF Next, vars, simulateProducer, Expire, Emit, Reemit, Publish, Join, Leave
<1>4. QED
  BY <1>1, <1>2, <1>3 DEF Seen

LEMMA ProducerOnce ==
  ASSUME OnceInv, simulateProducer
  PROVE  Placed' /\ MeasuredOnce'
<1> USE DEF OnceInv, MeterTypes, Placed, MeasuredOnce, Stored
<1>1. program' = program /\ measured' = measured
  BY DEF simulateProducer
<1>2. PICK e \in Events : Enter(e) \/ Insert(e) \/ Note(e) \/ InsertFails(e)
  BY DEF simulateProducer
<1>3. CASE Enter(e)
  BY <1>1, <1>3 DEF Enter
<1>4. CASE Insert(e)
  BY <1>1, <1>4 DEF Insert
<1>5. CASE Note(e)
  BY <1>1, <1>5 DEF Note
<1>6. CASE InsertFails(e)
  BY <1>1, <1>6 DEF InsertFails
<1>7. QED
  BY <1>2, <1>3, <1>4, <1>5, <1>6

LEMMA ApplyOnce ==
  ASSUME OnceInv, NEW c \in Consumers, Apply(c)
  PROVE  Placed' /\ MeasuredOnce'
<1> USE DEF OnceInv, MeterTypes, Placed, MeasuredOnce, Stored
<1>1. PICK ids \in hand[c] : applyPollLag(ids) \/ compareAndPrint(ids)
  BY DEF Apply
<1>2. ids \subseteq Stored
  BY DEF Seen
<1>3. program' = program /\ event' = event
  BY DEF Apply, producer
<1>4. CASE applyPollLag(ids)
  BY <1>2, <1>3, <1>4 DEF applyPollLag, Measure
<1>5. CASE compareAndPrint(ids)
  BY <1>2, <1>3, <1>5 DEF compareAndPrint, Measure
<1>6. QED
  BY <1>1, <1>4, <1>5

LEMMA NextOnce ==
  ASSUME OnceInv, [Next]_vars
  PROVE  OnceInv'
<1>1. MeterTypes' /\ Seen'
  BY NextTypes, NextSeen DEF OnceInv
<1>2. Placed' /\ MeasuredOnce'
  <2>1. CASE UNCHANGED <<program, event, rowsWritten, measured>>
    BY <2>1 DEF OnceInv, Placed, MeasuredOnce, Stored
  <2>2. QED
    BY <2>1, ProducerOnce, ApplyOnce
       DEF Next, vars, producer, Expire, Emit, Reemit, Publish, Query, QueryFails, Join, Leave,
           ReadMessage, ReadMessageFails, Fetch
<1>3. QED
  BY <1>1, <1>2 DEF OnceInv

\* Whatever the interleaving of producer, changefeed and consumers, polling and
\* queue count a delay once, and cdc keeps its map in step with what it measured.
THEOREM CountedOnce == Spec => []MeasuredOnce
<1>1. OnceInv => MeasuredOnce
  BY DEF OnceInv
<1>2. QED
  BY <1>1, InitOnce, NextOnce, PTL DEF Spec
=============================================================================
