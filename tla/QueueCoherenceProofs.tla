------------------------ MODULE QueueCoherenceProofs ------------------------
(* Theorems about QueueCoherence, for any bounds. *)
EXTENDS QueueCoherence, TLAPS

\* The type invariant, in the parts that the actions change apart.
TableOK ==
  versions \in Seq(Nat) /\ Current >= 1 /\ emitted \in 0..Current /\ topic \in Seq(Versions)

ReaderOK ==
  0 <= committed /\ committed <= next /\ next <= Len(topic)

PlacesOK ==
  /\ committed \in Int /\ next \in Int /\ tick \in 0..MaxTicks
  /\ program \in {"before", "after"}

FlagsOK == missed \in BOOLEAN /\ publishing \in BOOLEAN

KnownOK ==
  polled \in 0..Current /\ dbQuantity \in 0..Current /\ queueQuantity \in 0..Current

CountsOK ==
  /\ errors \in 0..MaxErrors /\ reemits \in 0..MaxReemits
  /\ rejoins \in 0..MaxRejoins /\ kills \in 0..MaxKills

TypeInv == TableOK /\ ReaderOK /\ PlacesOK /\ FlagsOK /\ KnownOK /\ CountsOK

LEMMA Bounds ==
  /\ MaxTicks \in Nat /\ MaxErrors \in Nat /\ MaxReemits \in Nat
  /\ MaxRejoins \in Nat /\ MaxKills \in Nat /\ MaxCopies \in Nat
BY BoundsAssumption

LEMMA InitTyping == Init => TypeInv
<1> SUFFICES ASSUME Init PROVE TypeInv
  OBVIOUS
<1>1. TableOK
  BY DEF Init, TableOK, Current
<1>2. ReaderOK
  BY DEF Init, ReaderOK
<1>3. PlacesOK
  BY Bounds DEF Init, PlacesOK
<1>4. KnownOK /\ CountsOK
  BY Bounds DEF Init, KnownOK, CountsOK, Current
<1>5. FlagsOK
  BY DEF Init, FlagsOK
<1>6. QED
  BY <1>1, <1>2, <1>3, <1>4, <1>5 DEF TypeInv

LEMMA Lengths ==
  ASSUME TableOK
  PROVE  /\ Len(topic) \in Nat /\ Current \in Nat
         /\ \A i \in 1..Len(topic) : topic[i] \in 1..Current
BY DEF TableOK, Current, Versions

LEMMA Counting ==
  ASSUME CountsOK, UNCHANGED counts \/ Fails
  PROVE  CountsOK'
BY Bounds DEF CountsOK, Fails, counts

\* More versions, or more messages, leave what is known well typed.
LEMMA MoreVersions ==
  ASSUME TableOK, KnownOK, versions' \in {versions, Append(versions, tick')}, tick' \in Nat,
         UNCHANGED <<emitted, topic, poller, queueQuantity>>
  PROVE  TableOK' /\ KnownOK'
<1>1. versions' \in Seq(Nat) /\ Len(versions) \in Nat
      /\ Len(versions') \in {Len(versions), Len(versions) + 1}
  BY DEF TableOK
<1>2. topic' \in Seq(Versions')
  <2>1. 1..Current \subseteq 1..Current'
    BY <1>1 DEF Current
  <2>2. Versions \subseteq Versions'
    BY <2>1 DEF Versions
  <2>3. QED
    BY <2>2 DEF TableOK
<1>3. 0..Current \subseteq 0..Current' /\ Current' >= Current
  BY <1>1 DEF Current
<1>4. Current' >= 1
  BY <1>1, <1>3, Lengths DEF TableOK, Current
<1>5. QED
  BY <1>1, <1>2, <1>3, <1>4 DEF TableOK, KnownOK, poller

LEMMA MoreMessages ==
  ASSUME TableOK, ReaderOK, PlacesOK, NEW n \in Nat, topic' = topic \o Copies(n),
         UNCHANGED <<versions, emitted, next, committed>>
  PROVE  TableOK' /\ ReaderOK'
<1>1. Current \in Nat /\ Current' = Current /\ Versions' = Versions
  BY DEF TableOK, Current, Versions
<1>2. Copies(n) \in Seq(Versions) /\ Len(Copies(n)) = n
  BY <1>1 DEF Copies, Versions, TableOK
<1>3. topic \in Seq(Versions)
  BY DEF TableOK
<1>4. topic' \in Seq(Versions) /\ Len(topic') = Len(topic) + n
  BY <1>2, <1>3
<1>5. TableOK'
  BY <1>1, <1>4 DEF TableOK
<1>6. ReaderOK'
  BY <1>4, Lengths DEF ReaderOK, PlacesOK
<1>7. QED
  BY <1>5, <1>6

LEMMA TableKept ==
  ASSUME TableOK, UNCHANGED <<versions, emitted, topic>>
  PROVE  TableOK' /\ Current' = Current /\ Current \in Nat
BY DEF TableOK, Current, Versions

LEMMA NextTyping == TypeInv /\ [Next]_vars => TypeInv'
<1> SUFFICES ASSUME TableOK, ReaderOK, PlacesOK, FlagsOK, KnownOK, CountsOK, [Next]_vars
             PROVE  TypeInv'
  BY DEF TypeInv
<1> USE Bounds
<1>0. FlagsOK'
  BY DEF Next, simulateWrite, simulateWriteFails, WriteMessages, WriteMessagesFails, Emit, Reemit,
         simulateQueueConsumer, ReadMessageFails, Rejoin, readFromDB, set, Kill, vars,
         producer, reader, FlagsOK
<1>1. CASE simulateWrite \/ simulateWriteFails
  <2>1. /\ versions' \in {versions, Append(versions, tick')} /\ tick' \in 0..MaxTicks /\ tick' \in Nat
        /\ UNCHANGED <<program, emitted, topic, reader, poller>>
        /\ UNCHANGED counts \/ Fails
    <3>1. CASE simulateWrite
      BY <3>1 DEF simulateWrite, PlacesOK
    <3>2. CASE simulateWriteFails
      BY <3>2 DEF simulateWriteFails, PlacesOK
    <3>3. QED
      BY <1>1, <3>1, <3>2
  <2>2. TableOK' /\ KnownOK'
    BY <2>1, MoreVersions DEF reader
  <2>3. ReaderOK' /\ PlacesOK'
    BY <2>1 DEF reader, ReaderOK, PlacesOK
  <2>4. QED
    BY <1>0, <2>1, <2>2, <2>3, Counting DEF TypeInv
<1>2. CASE WriteMessages \/ WriteMessagesFails
  <2>1. /\ UNCHANGED <<program, versions, tick, emitted, reader, poller>>
        /\ UNCHANGED counts \/ Fails
        /\ publishing' = FALSE
        /\ \E n \in 0..MaxCopies : topic' = topic \o Copies(n)
    BY <1>2 DEF WriteMessages, WriteMessagesFails
  <2>2. TableOK' /\ ReaderOK'
    BY <2>1, MoreMessages DEF reader
  <2>3. PlacesOK' /\ KnownOK'
    BY <2>1 DEF PlacesOK, KnownOK, reader, poller, Current
  <2>4. QED
    BY <1>0, <2>1, <2>2, <2>3, Counting DEF TypeInv
<1>3. CASE Emit
  <2>1. /\ emitted < Current /\ emitted' = emitted + 1 /\ topic' = Append(topic, emitted')
        /\ UNCHANGED <<program, producer, reader, poller, counts>>
    BY <1>3 DEF Emit
  <2>2. Current \in Nat /\ Current' = Current /\ Versions' = Versions
    BY <2>1 DEF TableOK, Current, Versions, producer
  <2>3. emitted' \in Versions /\ emitted' \in 0..Current
    BY <2>1, <2>2 DEF TableOK, Versions
  <2>4. TableOK' /\ Len(topic') = Len(topic) + 1
    BY <2>1, <2>2, <2>3 DEF TableOK, producer
  <2>5. ReaderOK' /\ PlacesOK' /\ KnownOK'
    BY <2>1, <2>2, <2>4, Lengths
    DEF ReaderOK, PlacesOK, KnownOK, reader, producer, poller
  <2>6. QED
    BY <1>0, <2>1, <2>4, <2>5, Counting DEF TypeInv
<1>4. CASE Reemit
  <2>1. Current \in Nat /\ emitted' \in 0..Current /\ reemits' \in 0..MaxReemits
    BY <1>4 DEF Reemit, TableOK, CountsOK, Current
  <2>2. TableOK' /\ Current' = Current
    BY <1>4, <2>1 DEF Reemit, TableOK, producer, Current, Versions
  <2>3. ReaderOK' /\ PlacesOK' /\ KnownOK' /\ CountsOK'
    BY <1>4, <2>1, <2>2
    DEF Reemit, ReaderOK, PlacesOK, KnownOK, CountsOK, producer, reader, poller
  <2>4. QED
    BY <1>0, <2>2, <2>3 DEF TypeInv
<1>5. CASE simulateQueueConsumer
  <2>1. TableOK' /\ Current' = Current /\ Current \in Nat
    BY <1>5, TableKept DEF simulateQueueConsumer, producer
  <2>2. next + 1 \in 1..Len(topic) /\ topic[next + 1] \in 1..Current
    BY <1>5, Lengths DEF simulateQueueConsumer, ReaderOK, PlacesOK
  <2>3. ReaderOK' /\ PlacesOK'
    BY <1>5, <2>2, Lengths DEF simulateQueueConsumer, ReaderOK, PlacesOK, producer
  <2>4. KnownOK' /\ CountsOK'
    BY <1>5, <2>1, <2>2 DEF simulateQueueConsumer, KnownOK, CountsOK, poller, counts
  <2>5. QED
    BY <1>0, <2>1, <2>3, <2>4 DEF TypeInv
<1>6. CASE ReadMessageFails
  <2>1. TableOK' /\ Current' = Current /\ Current \in Nat
    BY <1>6, TableKept DEF ReadMessageFails, producer
  <2>2. next + 1 <= Len(topic) /\ Len(topic) \in Nat
    BY <1>6, Lengths DEF ReadMessageFails, ReaderOK, PlacesOK
  <2>3. ReaderOK' /\ PlacesOK'
    BY <1>6, <2>2 DEF ReadMessageFails, ReaderOK, PlacesOK, producer
  <2>4. KnownOK' /\ CountsOK'
    BY <1>6, <2>1, Counting DEF ReadMessageFails, KnownOK, poller
  <2>5. QED
    BY <1>0, <2>1, <2>3, <2>4 DEF TypeInv
<1>7. CASE Rejoin
  <2>1. TableOK' /\ Current' = Current /\ Current \in Nat
    BY <1>7, TableKept DEF Rejoin, producer
  <2>2. ReaderOK' /\ PlacesOK' /\ KnownOK' /\ CountsOK'
    BY <1>7, <2>1, Lengths DEF Rejoin, ReaderOK, PlacesOK, KnownOK, CountsOK, producer, poller
  <2>3. QED
    BY <1>0, <2>1, <2>2 DEF TypeInv
<1>8. CASE readFromDB \/ set
  <2>1. TableOK' /\ Current' = Current /\ Current \in Nat
    BY <1>8, TableKept DEF readFromDB, set, producer
  <2>2. ReaderOK' /\ PlacesOK' /\ CountsOK'
    BY <1>8 DEF readFromDB, set, ReaderOK, PlacesOK, CountsOK, producer, reader, counts
  <2>3. KnownOK'
    BY <1>8, <2>1 DEF readFromDB, set, KnownOK, reader
  <2>4. QED
    BY <1>0, <2>1, <2>2, <2>3 DEF TypeInv
<1>9. CASE Kill
  <2>1. TableOK' /\ Current' = Current /\ Current \in Nat
    BY <1>9, TableKept DEF Kill
  <2>2. ReaderOK' /\ PlacesOK'
    BY <1>9, Lengths DEF Kill, ReaderOK, PlacesOK
  <2>3. KnownOK' /\ CountsOK'
    BY <1>9, <2>1 DEF Kill, KnownOK, CountsOK
  <2>4. QED
    BY <1>0, <2>1, <2>2, <2>3 DEF TypeInv
<1>10. CASE UNCHANGED vars
  <2>1. TableOK' /\ Current' = Current
    BY <1>10, TableKept DEF vars, producer
  <2>2. QED
    BY <1>0, <1>10, <2>1
    DEF vars, TypeInv, ReaderOK, PlacesOK, KnownOK, CountsOK, producer, reader, poller, counts
<1>11. QED
  BY <1>1, <1>2, <1>3, <1>4, <1>5, <1>6, <1>7, <1>8, <1>9, <1>10 DEF Next

LEMMA TypeInvariance == Spec => []TypeInv
BY InitTyping, NextTyping, PTL DEF Spec

\* Type correctness: messages and what the consumers know are versions of the
\* row, and a group commits no more than its reader has fetched.
THEOREM Typing == Spec => []TypeOK
<1>1. TypeInv => TypeOK
  BY DEF TypeInv, TypeOK, TableOK, ReaderOK, PlacesOK, FlagsOK, KnownOK, CountsOK
<1>2. QED
  BY <1>1, TypeInvariance, PTL

-----------------------------------------------------------------------------
(* The order of the topic *)

\* Until the changefeed goes back, messages are in the order of the versions, and
\* the consumer knows none newer than those its group has not committed.
ForwardInv ==
  reemits = 0 =>
    /\ \A i, j \in 1..Len(topic) : i <= j => topic[i] <= topic[j]
    /\ \A i \in 1..Len(topic) : i > committed => queueQuantity <= topic[i]
    /\ program = "after" =>
         queueQuantity <= emitted /\ \A i \in 1..Len(topic) : topic[i] <= emitted

\* Only the program without a changefeed writes the topic itself.
PublishingInv == publishing => program = "before"

LEMMA InitForward == Init => ForwardInv
BY DEF Init, ForwardInv

LEMMA Publishing == Init => PublishingInv
BY DEF Init, PublishingInv

LEMMA NextPublishing == PublishingInv /\ [Next]_vars => PublishingInv'
BY DEF Next, simulateWrite, simulateWriteFails, WriteMessages, WriteMessagesFails, Emit, Reemit,
       simulateQueueConsumer, ReadMessageFails, Rejoin, readFromDB, set, Kill, vars,
       producer, PublishingInv

\* Appending a version that is not older than any before.
LEMMA ForwardAppend ==
  ASSUME TypeInv, ForwardInv, NEW n \in Nat, NEW v \in Nat,
         Len(topic') = Len(topic) + n,
         \A i \in 1..Len(topic') : topic'[i] = IF i <= Len(topic) THEN topic[i] ELSE v,
         UNCHANGED <<program, committed, queueQuantity, reemits>>,
         queueQuantity <= v, \A i \in 1..Len(topic) : topic[i] <= v,
         program = "after" => emitted' = v
  PROVE  ForwardInv'
<1>1. /\ Len(topic) \in Nat /\ \A i \in 1..Len(topic) : topic[i] \in Nat
      /\ queueQuantity \in Nat /\ committed \in Int
  BY Lengths DEF TypeInv, KnownOK, PlacesOK
<1> SUFFICES ASSUME reemits = 0
             PROVE  /\ \A i, j \in 1..Len(topic') : i <= j => topic'[i] <= topic'[j]
                    /\ \A i \in 1..Len(topic') : i > committed => queueQuantity <= topic'[i]
                    /\ program = "after" =>
                         queueQuantity <= v /\ \A i \in 1..Len(topic') : topic'[i] <= v
  BY DEF ForwardInv
<1>2. /\ \A i, j \in 1..Len(topic) : i <= j => topic[i] <= topic[j]
      /\ \A i \in 1..Len(topic) : i > committed => queueQuantity <= topic[i]
  BY DEF ForwardInv
<1>3. \A i \in 1..Len(topic') : topic'[i] <= v
  BY <1>1
<1>4. ASSUME NEW i \in 1..Len(topic'), NEW j \in 1..Len(topic'), i <= j
      PROVE  topic'[i] <= topic'[j]
  BY <1>1, <1>2, <1>3, <1>4
<1>5. ASSUME NEW i \in 1..Len(topic'), i > committed PROVE queueQuantity <= topic'[i]
  BY <1>1, <1>2, <1>5
<1>6. QED
  BY <1>3, <1>4, <1>5

LEMMA NextForward == TypeInv /\ PublishingInv /\ ForwardInv /\ [Next]_vars => ForwardInv'
<1> SUFFICES ASSUME TypeInv, PublishingInv, ForwardInv, [Next]_vars PROVE ForwardInv'
  OBVIOUS
<1>1. /\ Len(topic) \in Nat /\ Current \in Nat
      /\ \A i \in 1..Len(topic) : topic[i] \in 1..Current
  BY Lengths DEF TypeInv
<1>2. /\ committed \in Nat /\ next \in Nat /\ committed <= next
      /\ queueQuantity \in 0..Current /\ emitted \in 0..Current /\ reemits \in Nat
  BY Bounds DEF TypeInv, TableOK, PlacesOK, ReaderOK, KnownOK, CountsOK
<1>3. CASE UNCHANGED <<program, emitted, topic, committed, queueQuantity, reemits>>
  BY <1>3 DEF ForwardInv
<1>4. CASE WriteMessages \/ WriteMessagesFails
  <2>1. PICK n \in 0..MaxCopies : topic' = topic \o Copies(n)
    BY <1>4 DEF WriteMessages, WriteMessagesFails
  <2>2. UNCHANGED <<program, emitted, committed, queueQuantity, reemits>>
    BY <1>4 DEF WriteMessages, WriteMessagesFails, Fails, reader, counts
  <2>3. program # "after"
    BY <1>4 DEF WriteMessages, WriteMessagesFails, PublishingInv
  <2>4. /\ n \in Nat /\ Len(topic') = Len(topic) + n
        /\ \A i \in 1..Len(topic') :
             topic'[i] = IF i <= Len(topic) THEN topic[i] ELSE Current
    <3>1. n \in Nat /\ Copies(n) \in Seq({Current}) /\ Len(Copies(n)) = n
      BY Bounds DEF Copies
    <3>2. \A i \in 1..n : Copies(n)[i] = Current
      BY <3>1 DEF Copies
    <3>3. topic \in Seq(Versions)
      BY DEF TypeInv, TableOK
    <3>4. \A i \in 1..(Len(topic) + n) :
            (topic \o Copies(n))[i] =
              IF i <= Len(topic) THEN topic[i] ELSE Copies(n)[i - Len(topic)]
      BY <3>1, <3>3
    <3>5. Len(topic \o Copies(n)) = Len(topic) + n
      BY <3>1, <3>3
    <3>6. \A i \in 1..(Len(topic) + n) : i <= Len(topic) \/ i - Len(topic) \in 1..n
      BY <1>1, <3>1
    <3>7. QED
      BY <2>1, <3>1, <3>2, <3>4, <3>5, <3>6
  <2>5. queueQuantity <= Current /\ \A i \in 1..Len(topic) : topic[i] <= Current
    BY <1>1, <1>2
  <2>6. QED
    BY <1>1, <2>2, <2>3, <2>4, <2>5, ForwardAppend
<1>5. CASE Emit
  <2>1. /\ emitted' = emitted + 1 /\ topic' = Append(topic, emitted')
        /\ program = "after"
        /\ UNCHANGED <<program, committed, queueQuantity, reemits>>
    BY <1>5 DEF Emit, reader, counts
  <2>2. CASE reemits = 0
    <3>1. queueQuantity <= emitted /\ \A i \in 1..Len(topic) : topic[i] <= emitted
      BY <2>1, <2>2 DEF ForwardInv
    <3>2. /\ Len(topic') = Len(topic) + 1
          /\ \A i \in 1..Len(topic') :
               topic'[i] = IF i <= Len(topic) THEN topic[i] ELSE emitted'
      <4>1. topic \in Seq(Versions)
        BY DEF TypeInv, TableOK
      <4>2. QED
        BY <2>1, <4>1
    <3>3. /\ emitted' \in Nat /\ queueQuantity <= emitted'
          /\ \A i \in 1..Len(topic) : topic[i] <= emitted'
      BY <1>1, <1>2, <2>1, <3>1
    <3>4. QED
      BY <2>1, <3>2, <3>3, ForwardAppend
  <2>3. CASE reemits # 0
    BY <2>1, <2>3 DEF ForwardInv
  <2>4. QED
    BY <2>2, <2>3
<1>6. CASE Reemit
  BY <1>2, <1>6 DEF Reemit, ForwardInv
<1>7. CASE simulateQueueConsumer
  <2>1. /\ next < Len(topic) /\ committed' = next + 1 /\ queueQuantity' = topic[next + 1]
        /\ UNCHANGED <<program, emitted, topic, reemits>>
    BY <1>7 DEF simulateQueueConsumer, counts
  <2>2. QED
    BY <1>1, <1>2, <2>1 DEF ForwardInv
<1>8. CASE ReadMessageFails
  <2>1. /\ committed' \in {committed, next + 1}
        /\ UNCHANGED <<program, emitted, topic, queueQuantity, reemits>>
    BY <1>8 DEF ReadMessageFails, Fails
  <2>2. QED
    BY <1>1, <1>2, <2>1 DEF ForwardInv
<1>9. CASE Kill
  <2>1. /\ queueQuantity' = 0 /\ UNCHANGED <<program, emitted, topic, reemits>>
    BY <1>9 DEF Kill
  <2>2. QED
    BY <1>1, <1>2, <2>1 DEF ForwardInv
<1>10. QED
  BY <1>3, <1>4, <1>5, <1>6, <1>7, <1>8, <1>9
  DEF Next, vars, simulateWrite, simulateWriteFails, Rejoin, readFromDB, set, Fails,
      reader, counts

LEMMA ForwardInvariance == Spec => [](TypeInv /\ PublishingInv /\ ForwardInv)
BY InitTyping, NextTyping, Publishing, NextPublishing, InitForward, NextForward, PTL DEF Spec

\* However messages are repeated, missed or read again, the queue consumer never
\* goes back to an earlier version, unless the changefeed published it again.
THEOREM Forward == Spec => OnlyForward
<1>1. ASSUME TypeInv, ForwardInv, TypeInv', [Next]_vars
      PROVE  queueQuantity' \in {0} \cup queueQuantity..Current' \/ reemits > 0
  <2>1. /\ queueQuantity \in 0..Current /\ queueQuantity' \in 0..Current'
        /\ Current \in Nat /\ Current' \in Nat /\ reemits \in Nat
    <3>1. versions \in Seq(Nat) /\ versions' \in Seq(Nat)
      BY <1>1 DEF TypeInv, TableOK
    <3>2. Current \in Nat /\ Current' \in Nat
      BY <3>1 DEF Current
    <3>3. QED
      BY <1>1, <3>2, Bounds DEF TypeInv, KnownOK, CountsOK
  <2>2. CASE queueQuantity' = queueQuantity \/ queueQuantity' = 0
    BY <2>1, <2>2
  <2>3. CASE simulateQueueConsumer
    <3>1. next + 1 \in 1..Len(topic) /\ next + 1 > committed
          /\ queueQuantity' = topic[next + 1]
      BY <1>1, <2>3, Lengths DEF simulateQueueConsumer, TypeInv, PlacesOK, ReaderOK
    <3>2. CASE reemits = 0
      <4>1. queueQuantity <= queueQuantity'
        BY <1>1, <3>1, <3>2 DEF ForwardInv
      <4>2. QED
        BY <2>1, <4>1
    <3>3. QED
      BY <2>1, <3>2
  <2>4. QED
    BY <1>1, <2>2, <2>3
    DEF Next, vars, simulateWrite, simulateWriteFails, WriteMessages, WriteMessagesFails, Emit,
        Reemit, ReadMessageFails, Rejoin, readFromDB, set, Kill, reader
<1>2. /\ TypeInv /\ ForwardInv /\ TypeInv' /\ [Next]_vars
      => [queueQuantity' \in {0} \cup queueQuantity..Current' \/ reemits > 0]_vars
  BY <1>1
<1>3. QED
  BY <1>2, ForwardInvariance, PTL DEF Spec, OnlyForward

-----------------------------------------------------------------------------
(* What the topic and the consumer know in the end *)

\* The changefeed's last message is the current version once it has caught up;
\* and a consumer that has not missed its last message knows that message,
\* unless it was killed since and its group had committed it.
KnowsInv ==
  /\ program = "after" /\ emitted = Current =>
       topic # <<>> /\ topic[Len(topic)] = Current
  /\ ~missed =>
       /\ committed = next
       /\ \/ next = 0
          \/ next > 0 /\ queueQuantity = topic[next]
          \/ program = "before" /\ queueQuantity = 0 /\ kills > 0

LEMMA InitKnows == Init => KnowsInv
BY DEF Init, KnowsInv, Current

LEMMA NextKnows == TypeInv /\ PublishingInv /\ KnowsInv /\ [Next]_vars => KnowsInv'
<1> SUFFICES ASSUME TypeInv, PublishingInv, KnowsInv, [Next]_vars PROVE KnowsInv'
  OBVIOUS
<1> DEFINE FeedPart == program = "after" /\ emitted = Current =>
                         topic # <<>> /\ topic[Len(topic)] = Current
           ReaderPart == ~missed =>
             /\ committed = next
             /\ \/ next = 0
                \/ next > 0 /\ queueQuantity = topic[next]
                \/ program = "before" /\ queueQuantity = 0 /\ kills > 0
<1>1. /\ Len(topic) \in Nat /\ Current \in Nat /\ emitted \in 0..Current
      /\ topic \in Seq(Versions) /\ versions \in Seq(Nat)
      /\ committed \in Nat /\ next \in Nat /\ next <= Len(topic) /\ kills \in Nat
  BY Lengths, Bounds DEF TypeInv, TableOK, PlacesOK, ReaderOK, CountsOK
<1>2. FeedPart'
  <2>1. CASE UNCHANGED <<program, versions, emitted, topic>>
    BY <2>1 DEF KnowsInv, Current
  <2>2. CASE simulateWrite \/ simulateWriteFails
    <3>1. /\ versions' \in {versions, Append(versions, tick')}
          /\ UNCHANGED <<program, emitted, topic>>
      BY <2>2 DEF simulateWrite, simulateWriteFails
    <3>2. versions' = versions \/ Len(versions') = Len(versions) + 1
      BY <1>1, <3>1
    <3>3. QED
      BY <1>1, <3>1, <3>2 DEF KnowsInv, Current
  <2>3. CASE WriteMessages \/ WriteMessagesFails
    BY <2>3 DEF WriteMessages, WriteMessagesFails, PublishingInv
  <2>4. CASE Emit
    <3>1. /\ emitted' = emitted + 1 /\ topic' = Append(topic, emitted') /\ versions' = versions
      BY <2>4 DEF Emit, producer
    <3>2. topic' # <<>> /\ topic'[Len(topic')] = emitted'
      BY <1>1, <3>1
    <3>3. QED
      BY <3>1, <3>2 DEF Current
  <2>5. CASE Reemit
    BY <1>1, <2>5 DEF Reemit, producer, Current
  <2>6. QED
    BY <2>1, <2>2, <2>3, <2>4, <2>5
    DEF Next, vars, simulateQueueConsumer, ReadMessageFails, Rejoin, readFromDB, set, Kill,
        producer
<1>3. ReaderPart'
  <2>1. ASSUME UNCHANGED <<program, reader, kills>>,
               Len(topic') >= Len(topic) /\ \A i \in 1..Len(topic) : topic'[i] = topic[i]
        PROVE  ReaderPart'
    BY <1>1, <2>1 DEF KnowsInv, reader
  <2>2. CASE simulateWrite \/ simulateWriteFails \/ Reemit \/ readFromDB \/ set \/ UNCHANGED vars
    <3>1. UNCHANGED <<program, reader, kills, topic>>
      BY <2>2 DEF simulateWrite, simulateWriteFails, Reemit, readFromDB, set, vars, Fails,
                  reader, counts
    <3>2. QED
      BY <1>1, <2>1, <3>1
  <2>3. CASE WriteMessages \/ WriteMessagesFails
    <3>1. PICK n \in 0..MaxCopies : topic' = topic \o Copies(n)
      BY <2>3 DEF WriteMessages, WriteMessagesFails
    <3>2. UNCHANGED <<program, reader, kills>>
      BY <2>3 DEF WriteMessages, WriteMessagesFails, Fails, counts
    <3>3. n \in Nat /\ Copies(n) \in Seq({Current}) /\ Len(Copies(n)) = n
      BY Bounds DEF Copies
    <3>4. Len(topic') >= Len(topic) /\ \A i \in 1..Len(topic) : topic'[i] = topic[i]
      BY <1>1, <3>1, <3>3
    <3>5. QED
      BY <2>1, <3>2, <3>4
  <2>4. CASE Emit
    <3>1. topic' = Append(topic, emitted') /\ UNCHANGED <<program, reader, kills>>
      BY <2>4 DEF Emit, counts
    <3>2. Len(topic') >= Len(topic) /\ \A i \in 1..Len(topic) : topic'[i] = topic[i]
      BY <1>1, <3>1
    <3>3. QED
      BY <2>1, <3>1, <3>2
  <2>5. CASE simulateQueueConsumer
    BY <1>1, <2>5 DEF simulateQueueConsumer
  <2>6. CASE ReadMessageFails
    BY <2>6 DEF ReadMessageFails
  <2>7. CASE Rejoin
    BY <1>1, <2>7 DEF Rejoin, KnowsInv
  <2>8. CASE Kill
    <3>1. /\ committed' = (IF program = "before" THEN committed ELSE 0) /\ next' = committed'
          /\ queueQuantity' = 0 /\ kills' > 0 /\ program' = program
      BY <1>1, <2>8 DEF Kill
    <3>2. program = "before" \/ next' = 0
      BY <3>1
    <3>3. QED
      BY <3>1, <3>2
  <2>9. QED
    BY <2>2, <2>3, <2>4, <2>5, <2>6, <2>7, <2>8 DEF Next
<1>4. QED
  BY <1>2, <1>3 DEF KnowsInv

\* When the topic is drained the queue consumer knows the row that the table has,
\* unless the program that writes the topic itself failed to, or the reader
\* missed its last message.
THEOREM Explained == Spec => []DifferenceIsExplained
<1>1. TypeInv /\ KnowsInv => DifferenceIsExplained
  <2> SUFFICES ASSUME TypeInv, KnowsInv, Drained, ~Excused PROVE queueQuantity = Current
    BY DEF DifferenceIsExplained
  <2>1. Len(topic) \in Nat /\ next = Len(topic) /\ ~missed
    BY Lengths DEF Drained, Excused, TypeInv
  <2>2. topic # <<>> /\ topic[Len(topic)] = Current
    BY DEF KnowsInv, Drained, Excused, TypeInv, PlacesOK
  <2>3. next # 0
    BY <2>1, <2>2 DEF TypeInv, TableOK
  <2>4. QED
    BY <2>1, <2>2, <2>3 DEF KnowsInv, Excused
<1>2. QED
  BY <1>1, ForwardInvariance, InitKnows, NextKnows, PTL DEF Spec
=============================================================================
