--------------------------- MODULE QueueCoherence ---------------------------
(***************************************************************************)
(* 001_fragile_data_integrations/queue_coherence: one consumer polls the   *)
(* quantity of a product from the table stock, another is told of it by a  *)
(* Kafka topic, and a print loop compares what the two know.  In the       *)
(* program "before" the producer writes the table and then the topic; in   *)
(* "after" a changefeed on the table feeds the topic.                      *)
(*                                                                         *)
(* The table is the sequence of versions its one row has had.  A message,  *)
(* or what a consumer knows, is the number of a version; 0 is nothing yet, *)
(* which a Go map reads as the quantity 0.                                 *)
(***************************************************************************)
EXTENDS Integers, Sequences

CONSTANTS MaxTicks,     \* bound: ticks of the producer, per process
          MaxErrors,    \* bound: calls to the database or to Kafka that fail
          MaxCopies,    \* bound: copies of a message that one write leaves
          MaxReemits,   \* bound: times the changefeed goes back
          MaxRejoins,   \* bound: times the reader loses its session
          MaxKills      \* bound: times the process is killed and run again

ASSUME BoundsAssumption ==
  /\ MaxTicks \in 0..999
  /\ {MaxErrors, MaxReemits, MaxRejoins, MaxKills} \subseteq Nat
  /\ MaxCopies \in Nat \ {0}

VARIABLES
  program,    \* the program that runs
  versions,   \* quantities the row has had, the current one last
  tick,       \* the producer's counter i
  publishing, \* the producer is between the table and the topic
  emitted,    \* versions the changefeed has published
  topic,      \* messages on the topic
  next,       \* messages the reader has fetched
  committed,  \* messages the group has committed
  missed,     \* history: the message fetched last was not handed over
  polled,     \* version the poller has read and not yet set, or 0
  dbQuantity,    \* dbQuantities[productID]
  queueQuantity, \* queueQuantities[productID]
  errors, reemits, rejoins, kills

producer == <<versions, tick, publishing>>
reader == <<next, committed, missed, queueQuantity>>
poller == <<polled, dbQuantity>>
counts == <<errors, reemits, rejoins, kills>>
vars == <<program, producer, emitted, topic, reader, poller, counts>>

Current == Len(versions)
Quantity(v) == IF v = 0 THEN 0 ELSE versions[v]

Init ==
  /\ program \in {"before", "after"}
  /\ versions = <<1000>>
  /\ tick = 0 /\ publishing = FALSE
  /\ emitted = 0
  /\ topic = <<>>
  /\ next = 0 /\ committed = 0 /\ missed = FALSE
  /\ polled = 0
  /\ dbQuantity = 0 /\ queueQuantity = 0
   /\ errors = 0 /\ reemits = 0 /\ rejoins = 0 /\ kills = 0

Fails ==
  /\ errors < MaxErrors
  /\ errors' = errors + 1
  /\ UNCHANGED <<reemits, rejoins, kills>>

-----------------------------------------------------------------------------
(* The producer.  An UPDATE that returns an error may have committed. *)

simulateWrite ==
  /\ tick < MaxTicks /\ ~publishing
  /\ tick' = tick + 1
  /\ versions' = Append(versions, tick')
  /\ publishing' = (program = "before")
  /\ UNCHANGED <<program, emitted, topic, reader, poller, counts>>

simulateWriteFails ==
  /\ tick < MaxTicks /\ ~publishing
  /\ tick' = tick + 1
  /\ versions' \in {versions, Append(versions, tick')}
  /\ Fails
  /\ UNCHANGED <<program, publishing, emitted, topic, reader, poller>>

Copies(n) == [i \in 1..n |-> Current]

\* The writer repeats a message the broker did not acknowledge.
WriteMessages ==
  /\ publishing
  /\ publishing' = FALSE
  /\ \E n \in 1..MaxCopies : topic' = topic \o Copies(n)
  /\ UNCHANGED <<program, versions, tick, emitted, reader, poller, counts>>

WriteMessagesFails ==
  /\ publishing
  /\ publishing' = FALSE
  /\ \E n \in 0..MaxCopies : topic' = topic \o Copies(n)
  /\ Fails
  /\ UNCHANGED <<program, versions, tick, emitted, reader, poller>>

-----------------------------------------------------------------------------
(* The changefeed: every version in order, again from an earlier one after *)
(* it restarts.                                                            *)

\* Wrong on purpose, to try the properties: the changefeed runs ahead of the table.
Emit_Ahead ==
  /\ program = "after"
  /\ emitted <= Current
  /\ emitted' = emitted + 1
  /\ topic' = Append(topic, emitted')
  /\ UNCHANGED <<program, producer, reader, poller, counts>>

Emit ==
  /\ program = "after"
  /\ emitted < Current
  /\ emitted' = emitted + 1
  /\ topic' = Append(topic, emitted')
  /\ UNCHANGED <<program, producer, reader, poller, counts>>

Reemit ==
  /\ reemits < MaxReemits
  /\ \E n \in 0..(emitted - 1) : emitted' = n
  /\ reemits' = reemits + 1
  /\ UNCHANGED <<program, producer, topic, reader, poller, errors, rejoins, kills>>

-----------------------------------------------------------------------------
(* The consumers.  ReadMessage commits a message before it returns it; when *)
(* the commit fails it returns the error alone, whether or not the broker   *)
(* has it.  (In "before" the consumer then sets the quantity of product "", *)
(* which nobody reads.)                                                     *)

\* Wrong on purpose, to try the properties: the reader fetches and does not commit.
simulateQueueConsumer_NoCommit ==
  /\ next < Len(topic)
  /\ next' = next + 1
  /\ missed' = FALSE
  /\ queueQuantity' = topic[next']
  /\ UNCHANGED <<program, producer, emitted, topic, committed, poller, counts>>

simulateQueueConsumer ==
  /\ next < Len(topic)
  /\ next' = next + 1
  /\ committed' = next'
  /\ missed' = FALSE
  /\ queueQuantity' = topic[next']
  /\ UNCHANGED <<program, producer, emitted, topic, poller, counts>>

ReadMessageFails ==
  /\ next < Len(topic)
  /\ next' = next + 1
  /\ committed' \in {committed, next'}
  /\ missed' = TRUE
  /\ Fails
  /\ UNCHANGED <<program, producer, emitted, topic, queueQuantity, poller>>

Rejoin ==
  /\ rejoins < MaxRejoins
  /\ next' = committed
  /\ rejoins' = rejoins + 1
  /\ UNCHANGED <<program, producer, emitted, topic, committed, missed, queueQuantity,
                 poller, errors, reemits, kills>>

\* Wrong on purpose, to try the properties: the poller stops after its first read.
readFromDB_Once ==
  /\ polled = 0 /\ dbQuantity = 0
  /\ polled' = Current
  /\ UNCHANGED <<program, producer, emitted, topic, reader, dbQuantity, counts>>

readFromDB ==
  /\ polled = 0
  /\ polled' = Current
  /\ UNCHANGED <<program, producer, emitted, topic, reader, dbQuantity, counts>>

set ==
  /\ polled # 0
  /\ dbQuantity' = polled
  /\ polled' = 0
  /\ UNCHANGED <<program, producer, emitted, topic, reader, counts>>

\* The verdict of the print loop, which holds both read locks and looks only
\* at a product that was polled.
Matches == dbQuantity = 0 \/ Quantity(queueQuantity) = Quantity(dbQuantity)

-----------------------------------------------------------------------------
\* Wrong on purpose, to try the properties: the new group starts at the end of the topic.
Kill_LastOffset ==
  /\ kills < MaxKills
  /\ kills' = kills + 1
  /\ tick' = 0 /\ publishing' = FALSE
  /\ polled' = 0 /\ dbQuantity' = 0 /\ queueQuantity' = 0
  /\ committed' = (IF program = "before" THEN committed ELSE Len(topic))
  /\ next' = committed'
  /\ missed' = FALSE
  /\ UNCHANGED <<program, versions, emitted, topic, errors, reemits, rejoins>>

\* The process is killed and run again.  "before" joins the group it was in,
\* "after" joins a new one, which starts at the first message.
Kill ==
  /\ kills < MaxKills
  /\ kills' = kills + 1
  /\ tick' = 0 /\ publishing' = FALSE
  /\ polled' = 0 /\ dbQuantity' = 0 /\ queueQuantity' = 0
  /\ committed' = (IF program = "before" THEN committed ELSE 0)
  /\ next' = committed'
  /\ missed' = FALSE
  /\ UNCHANGED <<program, versions, emitted, topic, errors, reemits, rejoins>>

Next ==
  \/ simulateWrite \/ simulateWriteFails
  \/ WriteMessages \/ WriteMessagesFails
  \/ Emit \/ Reemit
  \/ simulateQueueConsumer \/ ReadMessageFails \/ Rejoin
  \/ readFromDB \/ set
  \/ Kill

\* The tickers fire, the changefeed runs and the reader reads.
Fairness ==
  /\ WF_vars(WriteMessages)
  /\ WF_vars(Emit)
  /\ WF_vars(simulateQueueConsumer)
  /\ WF_vars(readFromDB) /\ WF_vars(set)

Spec == Init /\ [][Next]_vars

FairSpec == Spec /\ Fairness

-----------------------------------------------------------------------------
Versions == 1..Current

TypeOK ==
  /\ program \in {"before", "after"}
  /\ versions \in Seq(Nat) /\ Current >= 1
  /\ tick \in 0..MaxTicks /\ publishing \in BOOLEAN
  /\ emitted \in 0..Current
  /\ topic \in Seq(Versions)
  /\ 0 <= committed /\ committed <= next /\ next <= Len(topic)
  /\ missed \in BOOLEAN
  /\ {polled, dbQuantity, queueQuantity} \subseteq 0..Current
  /\ errors \in 0..MaxErrors /\ reemits \in 0..MaxReemits
  /\ rejoins \in 0..MaxRejoins /\ kills \in 0..MaxKills

\* When the topic is drained and nothing is on its way to it, what the queue
\* consumer knows is the table's row, except for the updates the topic never
\* got, which only the program that writes it itself can lose, and the last
\* message, which the reader can lose in either (steps.md:120).
Drained ==
  /\ ~publishing
  /\ next = Len(topic)
  /\ program = "after" => emitted = Current

Excused ==
  \/ program = "before" /\ (topic = <<>> \/ topic[Len(topic)] # Current)
  \/ program = "before" /\ queueQuantity = 0 /\ kills > 0
  \/ missed

DifferenceIsExplained == Drained => queueQuantity = Current \/ Excused

\* What the queue consumer knows never goes back to an earlier version, unless
\* the changefeed published that one again (steps.md:116).
OnlyForward ==
  [][queueQuantity' \in {0} \cup queueQuantity..Current' \/ reemits > 0]_vars

\* However the steps interleave, the print loop's verdict ends as a match,
\* unless one of those losses keeps it from it.
Converges == <>[](Matches \/ Excused)
=============================================================================
