----------------------------- MODULE DelayMeters -----------------------------
(***************************************************************************)
(* Three programs of 001_fragile_data_integrations that measure how long   *)
(* an event takes from a producer to a consumer.  The producer inserts a   *)
(* row and notes it in a map; who consumes the event looks it up there.    *)
(*                                                                         *)
(*   polling  polling_clients/before: the INSERT, then the map; consumers  *)
(*            query, again and again, the rows of the last ten seconds.    *)
(*   queue    polling_clients/after: the same producer; consumers that     *)
(*            share a reader take each message of a changefeed once.       *)
(*   cdc      cdc/main.go: the map, then the INSERT, under one mutex; one  *)
(*            consumer, which measures what it reads, in the map or not.   *)
(***************************************************************************)
EXTENDS RollingAverage, FiniteSets

CONSTANTS Events,      \* event ids
          Consumers,   \* goroutines that consume
          MaxFaults    \* bound: messages published again, and query results cut short

ASSUME MaxFaultsAssumption == MaxFaults \in Nat

VARIABLES
  program,
  event,        \* where each event is
  stopped,      \* the producer's goroutine has returned
  rowsWritten,  \* the keys of the map (payments, in cdc)
  measured,     \* history: how often the delay of each event was measured
  ignored,      \* history: events a consumer found missing from the map
  expired,      \* polling: events older than ten seconds
  hand,         \* {the events each consumer has read}, until it applies them
  queue,        \* messages of each event on the topic, still to be fetched
  emitted,      \* events the changefeed has published
  joined,       \* the reader has joined its group
  committed,    \* the group has a committed offset
  dropped,      \* history: events of which the reader skipped or lost a message
  faults

producer == <<event, stopped>>
topic == <<queue, emitted>>
group == <<joined, committed, dropped>>
vars == <<program, producer, rowsWritten, measured, ignored, window, expired, hand, topic, group,
          faults>>

Init ==
  /\ program \in {"polling", "queue", "cdc"}
  /\ event = [e \in Events |-> "unsent"]
  /\ stopped = FALSE
  /\ rowsWritten = {}
  /\ measured = [e \in Events |-> 0]
  /\ ignored = {}
  /\ WindowInit
  /\ expired = {}
  /\ hand = [c \in Consumers |-> {}]
  /\ queue = [e \in Events |-> 0]
  /\ emitted = {}
  /\ joined = FALSE
  /\ committed = FALSE
  /\ dropped = {}
  /\ faults = 0

-----------------------------------------------------------------------------
(* The producer.  An event is "entered" when it is in the map before the     *)
(* INSERT, "inserted" when it is in the table before the map, "lost" when    *)
(* its INSERT took effect but reported an error, and "failed" without effect. *)

Stored == {e \in Events : event[e] \in {"inserted", "noted", "lost"}}

\* insertPayment holds paymentsMu from the entry to the end of the INSERT.
Entering == \E e \in Events : event[e] = "entered"
Idle == ~stopped /\ ~Entering /\ \A e \in Events : event[e] # "inserted"

Enter(e) ==
  /\ program = "cdc"
  /\ Idle
  /\ event[e] = "unsent"
  /\ event' = [event EXCEPT ![e] = "entered"]
  /\ rowsWritten' = rowsWritten \cup {e}
  /\ UNCHANGED stopped

\* The INSERT commits: consumers can see the row before the producer goes on.
Insert(e) ==
  /\ \/ /\ program # "cdc" /\ Idle /\ event[e] = "unsent"
        /\ event' = [event EXCEPT ![e] = "inserted"]
     \/ /\ event[e] = "entered"
        /\ event' = [event EXCEPT ![e] = "noted"]
  /\ UNCHANGED <<stopped, rowsWritten>>

Note(e) ==
  /\ event[e] = "inserted"
  /\ event' = [event EXCEPT ![e] = "noted"]
  /\ rowsWritten' = rowsWritten \cup {e}
  /\ UNCHANGED stopped

\* An INSERT fails, with or without effect: polling and queue end their producer
\* for good, cdc goes on and leaves the entry in its map.
InsertFails(e) ==
  /\ \/ /\ program # "cdc" /\ Idle /\ event[e] = "unsent"
        /\ event' \in {event, [event EXCEPT ![e] = "lost"]}
        /\ stopped' = TRUE
     \/ /\ event[e] = "entered"
        /\ event' \in {[event EXCEPT ![e] = s] : s \in {"failed", "lost"}}
        /\ UNCHANGED stopped
  /\ UNCHANGED rowsWritten

simulateProducer ==
  /\ \E e \in Events : Enter(e) \/ Insert(e) \/ Note(e) \/ InsertFails(e)
  /\ UNCHANGED <<program, measured, ignored, window, expired, hand, topic, group, faults>>

-----------------------------------------------------------------------------
(* polling: what a consumer's query returns *)

Expire(e) ==
  /\ program = "polling"
  /\ e \in Stored \ expired
  /\ expired' = expired \cup {e}
  /\ UNCHANGED <<program, producer, rowsWritten, measured, ignored, window, hand, topic, group,
                 faults>>

\* Wrong on purpose, to try the properties: new events only.
Query_NewOnly(c) ==
  /\ program = "polling"
  /\ hand[c] = {}
  /\ hand' = [hand EXCEPT ![c] = {Stored \ (expired \cup ignored)}]
  /\ UNCHANGED <<program, producer, rowsWritten, measured, ignored, window, expired, topic, group,
                 faults>>

Query(c) ==
  /\ program = "polling"
  /\ hand[c] = {}
  /\ hand' = [hand EXCEPT ![c] = {Stored \ expired}]
  /\ UNCHANGED <<program, producer, rowsWritten, measured, ignored, window, expired, topic, group,
                 faults>>

\* The query or the scan of a row fails, and nothing is applied; or the
\* connection breaks while the rows are read: rows.Err is not looked at, so the
\* rows read before pass for the result.
QueryFails(c) ==
  /\ program = "polling"
  /\ \/ /\ hand[c] # {}
        /\ hand' = [hand EXCEPT ![c] = {}]
        /\ UNCHANGED faults
     \/ /\ faults < MaxFaults
        /\ \E all \in hand[c] : \E ids \in SUBSET all : hand' = [hand EXCEPT ![c] = {ids}]
        /\ faults' = faults + 1
  /\ UNCHANGED <<program, producer, rowsWritten, measured, ignored, window, expired, topic, group>>

-----------------------------------------------------------------------------
(* queue and cdc: the topic and the group's reader *)

Publish(e) ==
  /\ program # "polling"
  /\ queue' = [queue EXCEPT ![e] = @ + 1]
  /\ emitted' = emitted \cup {e}
  /\ UNCHANGED <<program, producer, rowsWritten, measured, ignored, window, expired, hand, group>>

\* Wrong on purpose, to try the properties: the row is published before it is stored.
Emit_Ahead(e) == e \notin emitted /\ Publish(e) /\ UNCHANGED faults

Emit(e) == e \in Stored \ emitted /\ Publish(e) /\ UNCHANGED faults

\* The changefeed delivers at least once.
Reemit(e) == e \in emitted /\ faults < MaxFaults /\ Publish(e) /\ faults' = faults + 1

\* StartOffset LastOffset: without a committed offset, reading starts at the
\* end of the topic.
Join ==
  /\ program # "polling"
  /\ ~joined
  /\ joined' = TRUE
  /\ IF committed THEN UNCHANGED <<queue, dropped>>
     ELSE /\ queue' = [e \in Events |-> 0]
          /\ dropped' = dropped \cup {e \in Events : queue[e] > 0}
  /\ UNCHANGED <<program, producer, rowsWritten, measured, ignored, window, expired, hand, emitted,
                 committed, faults>>

Leave ==
  /\ joined
  /\ joined' = FALSE
  /\ UNCHANGED <<program, producer, rowsWritten, measured, ignored, window, expired, hand, topic,
                 committed, dropped, faults>>

\* The one goroutine of cdc reads when it has applied what it read before.
Fetch(c, e) ==
  /\ joined /\ queue[e] > 0
  /\ hand[c] = {} /\ (program = "cdc" => \A d \in Consumers : hand[d] = {})
  /\ queue' = [queue EXCEPT ![e] = @ - 1]
  /\ UNCHANGED <<program, producer, rowsWritten, measured, ignored, window, expired, emitted,
                 joined, faults>>

\* ReadMessage fetches a message and commits it before it returns it ...
ReadMessage(c, e) ==
  /\ Fetch(c, e)
  /\ committed' = TRUE
  /\ hand' = [hand EXCEPT ![c] = {{e}}]
  /\ UNCHANGED dropped

\* ... and when the commit fails it returns the error without the message.
ReadMessageFails(c, e) ==
  /\ Fetch(c, e)
  /\ dropped' = dropped \cup {e}
  /\ UNCHANGED <<committed, hand>>

-----------------------------------------------------------------------------
(* The meters *)

Measure(ids) == measured' = [e \in Events |-> measured[e] + IF e \in ids THEN 1 ELSE 0]

\* Wrong on purpose, to try the properties: the event stays in the map.
applyPollLag_Keeps(ids) ==
  /\ program # "cdc"
  /\ Measure(ids \cap rowsWritten)
  /\ ignored' = ignored \cup (ids \ rowsWritten)
  /\ UNCHANGED rowsWritten
  /\ IF program = "queue" /\ ids \subseteq rowsWritten THEN average ELSE UNCHANGED window

\* A consumer measures, and takes off the map, those of the events ids that it
\* finds there, and passes over the others.
applyPollLag(ids) ==
  /\ program # "cdc"
  /\ Measure(ids \cap rowsWritten)
  /\ ignored' = ignored \cup (ids \ rowsWritten)
  /\ rowsWritten' = rowsWritten \ ids
  /\ IF program = "queue" /\ ids \subseteq rowsWritten THEN average ELSE UNCHANGED window

\* cdc takes the time from the message, so whether the map has it does not matter.
compareAndPrint(ids) ==
  /\ program = "cdc"
  /\ ~Entering
  /\ Measure(ids)
  /\ rowsWritten' = rowsWritten \ ids
  /\ average
  /\ UNCHANGED ignored

Apply(c) ==
  /\ \E ids \in hand[c] : applyPollLag(ids) \/ compareAndPrint(ids)
  /\ hand' = [hand EXCEPT ![c] = {}]
  /\ UNCHANGED <<program, producer, expired, topic, group, faults>>

Next ==
  \/ simulateProducer
  \/ \E e \in Events : Expire(e) \/ Emit(e) \/ Reemit(e)
  \/ \E c \in Consumers : Query(c) \/ QueryFails(c) \/ Apply(c)
  \/ Join \/ Leave
  \/ \E c \in Consumers, e \in Events : ReadMessage(c, e) \/ ReadMessageFails(c, e)

\* Each poller's ticker keeps ticking, and a consumer whose queries succeed
\* again and again applies some of them; the INSERT under way ends; the
\* changefeed and the readers keep running, and the reader is in its group often
\* enough.
Fairness ==
  /\ \A c \in Consumers : WF_vars(Query(c)) /\ SF_vars(Apply(c))
  /\ \A e \in Events : /\ WF_vars(event[e] = "entered" /\ simulateProducer)
                       /\ WF_vars(Emit(e))
                       /\ SF_vars(\E c \in Consumers : ReadMessage(c, e))
  /\ WF_vars(Join)

Spec == Init /\ [][Next]_vars

FairSpec == Spec /\ Fairness

-----------------------------------------------------------------------------
EventStates == {"unsent", "entered", "inserted", "noted", "lost", "failed"}

HandStates == {{}} \cup {{ids} : ids \in SUBSET Events}

TypeOK ==
  /\ program \in {"polling", "queue", "cdc"}
  /\ event \in [Events -> EventStates] /\ stopped \in BOOLEAN
  /\ rowsWritten \subseteq Events /\ ignored \subseteq Events
  /\ measured \in [Events -> Nat]
  /\ storage \in Seq(1..taken) /\ i \in 0..(Period - 1) /\ sum \in [1..taken -> Int]
  /\ taken \in Nat
  /\ expired \subseteq Events
  /\ hand \in [Consumers -> HandStates]
  /\ queue \in [Events -> Nat] /\ emitted \subseteq Stored
  /\ joined \in BOOLEAN /\ committed \in BOOLEAN /\ dropped \subseteq Events
  /\ faults \in 0..MaxFaults

\* Whichever consumers see an event, and however often, polling and queue count
\* its delay once: it is waiting in the map or it has been measured, never both.
\* cdc counts it once for each message, and the map has it until the first, or
\* for good when the INSERT failed.
MeasuredOnce ==
  \A e \in Events :
    IF program = "cdc"
    THEN /\ e \in rowsWritten <=> event[e] # "unsent" /\ measured[e] = 0
         /\ event[e] = "failed" => e \in rowsWritten
    ELSE measured[e] = IF event[e] = "noted" /\ e \notin rowsWritten THEN 1 ELSE 0

\* Polling repairs what a poll comes too early for: an event noted after a
\* consumer has passed over it is measured by a later poll, unless it is ten
\* seconds old before that.  With a queue each message is looked at once, so an
\* event is measured unless a message of it was lost by the reader or came before
\* the producer had noted the event; in cdc, which notes first, unless a message
\* was lost or the INSERT failed.
NotedIsMeasured ==
  \A e \in Events : e \in rowsWritten ~>
    \/ measured[e] > 0
    \/ program = "polling" /\ e \in expired
    \/ program = "queue" /\ e \in dropped \cup ignored
    \/ program = "cdc" /\ (e \in dropped \/ event[e] = "failed")

\* The comment in applyPollLag: an event whose id is not in the map has been
\* processed before, so the map never holds one that was passed over.
IgnoredIsProcessed == program = "queue" => ignored \cap rowsWritten = {}
=============================================================================
