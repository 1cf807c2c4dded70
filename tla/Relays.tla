------------------------------- MODULE Relays -------------------------------
(***************************************************************************)
(* Programs that hand on what a table's changes say, through Kafka.        *)
(*                                                                         *)
(*   etl        001_fragile_data_integrations/etl/before: a changefeed     *)
(*              writes the topic raw; the ETL reads it and writes the      *)
(*              topic transformed; a consumer reads that.                  *)
(*   etl_after  etl/after: the changefeed transforms the rows itself, and  *)
(*              the consumer reads its topic.                              *)
(*   indexer    002_hyper_specialized_dbs/data_fragmentation: Debezium     *)
(*              writes the topic, and the indexer upserts the index.       *)
(*                                                                         *)
(* A stage is a process with a reader of the topic of the same number.  A  *)
(* message is known by its place on the first topic, all the way.          *)
(***************************************************************************)
EXTENDS Integers, Sequences, FiniteSets, Functions

CONSTANTS MaxRows,    \* bound: rows inserted
          MaxFaults   \* bound: calls that fail, writes repeated, processes killed

ASSUME BoundsAssumption == MaxRows \in Nat /\ MaxFaults \in Nat

VARIABLES
  program,
  rows,       \* rows inserted
  stopped,    \* the producer's goroutine has returned
  log,        \* the messages of each topic
  joined,     \* the reader has joined its group
  pos,        \* messages the reader of each stage has gone past
  committed,  \* messages its group has committed, 0 when it has no offset
  hand,       \* {the message each stage has read}, until it is done with it
  shown,      \* what the last stage has printed, or upserted, in order
  warm,       \* history: stages whose process has read a message
  sure,       \* history: messages published when all stages were warm
  struck,     \* history: messages a fault may have cost
  faults

reader == <<joined, pos, committed>>
vars == <<program, rows, stopped, log, reader, hand, shown, warm, sure, struck, faults>>

Last == IF program = "etl" THEN 2 ELSE 1
Stages == 1..Last
Sent == 1..Len(log[1])

Init ==
  /\ program \in {"etl", "etl_after", "indexer"}
  /\ rows = 0
  /\ stopped = FALSE
  /\ log = [s \in Stages |-> <<>>]
  /\ joined = [s \in Stages |-> FALSE]
  /\ pos = [s \in Stages |-> 0]
  /\ committed = [s \in Stages |-> 0]
  /\ hand = [s \in Stages |-> {}]
  /\ shown = <<>>
  /\ warm = {}
  /\ sure = {}
  /\ struck = {}
  /\ faults = 0

Fault == faults < MaxFaults /\ faults' = faults + 1

-----------------------------------------------------------------------------
(* The producer and the changefeed *)

Insert ==
  /\ ~stopped
  /\ rows < MaxRows
  /\ rows' = rows + 1
  /\ UNCHANGED <<program, stopped, log, reader, hand, shown, warm, sure, struck, faults>>

\* With or without effect.  The loader goes on; simulateProducer returns the
\* error to nobody, and the process runs on without its producer.
InsertFails ==
  /\ ~stopped
  /\ rows < MaxRows
  /\ Fault
  /\ rows' \in {rows, rows + 1}
  /\ stopped' = (program # "indexer")
  /\ UNCHANGED <<program, log, reader, hand, shown, warm, sure, struck>>

\* A row published again would be one more message, like any other.
Publish ==
  /\ Len(log[1]) < rows
  /\ log' = [log EXCEPT ![1] = Append(@, Len(@) + 1)]
  /\ sure' = IF Stages \subseteq warm THEN sure \cup {Len(log'[1])} ELSE sure
  /\ UNCHANGED <<program, rows, stopped, reader, hand, shown, warm, struck, faults>>

-----------------------------------------------------------------------------
(* The reader of a stage, in a group of its own, new with each process *)

\* Wrong on purpose, to try the properties: without StartOffset, a reader begins
\* at the start of the topic.
Join_FromFirst(s) ==
  /\ ~joined[s]
  /\ joined' = [joined EXCEPT ![s] = TRUE]
  /\ pos' = [pos EXCEPT ![s] = committed[s]]
  /\ UNCHANGED <<program, rows, stopped, log, committed, hand, shown, warm, sure, struck, faults>>

\* StartOffset LastOffset: without a committed offset, reading starts at the end.
Join(s) ==
  /\ ~joined[s]
  /\ joined' = [joined EXCEPT ![s] = TRUE]
  /\ pos' = [pos EXCEPT ![s] = IF committed[s] = 0 THEN Len(log[s]) ELSE committed[s]]
  /\ UNCHANGED <<program, rows, stopped, log, committed, hand, shown, warm, sure, struck, faults>>

Leave(s) ==
  /\ joined[s]
  /\ joined' = [joined EXCEPT ![s] = FALSE]
  /\ UNCHANGED <<program, rows, stopped, log, pos, committed, hand, shown, warm, sure, struck,
                 faults>>

Fetch(s) ==
  /\ joined[s]
  /\ hand[s] = {}
  /\ pos[s] < Len(log[s])
  /\ pos' = [pos EXCEPT ![s] = @ + 1]
  /\ UNCHANGED <<program, rows, stopped, log, joined, shown, sure>>

\* Wrong on purpose, to try the properties: the offset committed is that of the
\* message after the next one.
ReadMessage_Ahead(s) ==
  /\ Fetch(s)
  /\ committed' = [committed EXCEPT ![s] = pos'[s] + 1]
  /\ hand' = [hand EXCEPT ![s] = {log[s][pos'[s]]}]
  /\ warm' = warm \cup {s}
  /\ UNCHANGED <<struck, faults>>

\* Wrong on purpose, to try the properties: nothing is committed.
ReadMessage_Uncommitted(s) ==
  /\ Fetch(s)
  /\ hand' = [hand EXCEPT ![s] = {log[s][pos'[s]]}]
  /\ warm' = warm \cup {s}
  /\ UNCHANGED <<committed, struck, faults>>

\* ReadMessage fetches a message and commits it before it returns it ...
ReadMessage(s) ==
  /\ Fetch(s)
  /\ committed' = [committed EXCEPT ![s] = pos'[s]]
  /\ hand' = [hand EXCEPT ![s] = {log[s][pos'[s]]}]
  /\ warm' = warm \cup {s}
  /\ UNCHANGED <<struck, faults>>

\* ... and when the commit fails, or its answer is lost, it returns the error
\* without the message.
ReadMessageFails(s) ==
  /\ Fetch(s)
  /\ Fault
  /\ committed' \in {committed, [committed EXCEPT ![s] = pos'[s]]}
  /\ struck' = struck \cup {log[s][pos'[s]]}
  /\ UNCHANGED <<hand, warm>>

-----------------------------------------------------------------------------
(* What a stage does with a message *)

\* RequiredAcks is RequireNone unless it is set: a write may be lost without an
\* error; and one that is tried again may be there twice.  An error is logged.
simulateETL(s) ==
  /\ s < Last
  /\ \E k \in hand[s], copies \in 0..2 :
       /\ log' = [log EXCEPT ![s + 1] = @ \o [c \in 1..copies |-> k]]
       /\ IF copies = 1 THEN UNCHANGED faults ELSE Fault
       /\ struck' = IF copies = 0 THEN struck \cup {k} ELSE struck
  /\ UNCHANGED shown

\* The consumer prints the message; updateIndex upserts the product, or fails,
\* with or without effect; either goes on.
simulateConsumer(s) ==
  /\ s = Last
  /\ \E k \in hand[s] :
       \/ shown' = Append(shown, k) /\ UNCHANGED <<struck, faults>>
       \/ Fault /\ struck' = struck \cup {k} /\ UNCHANGED shown
  /\ UNCHANGED log

Handle(s) ==
  /\ simulateETL(s) \/ simulateConsumer(s)
  /\ hand' = [hand EXCEPT ![s] = {}]
  /\ UNCHANGED <<program, rows, stopped, reader, warm, sure>>

\* A process is killed and run again: its group, a new UUID, has no offset.  The
\* producer is a goroutine of the ETL, and of the consumer in etl_after.
Kill(s) ==
  /\ Fault
  /\ struck' = struck \cup (Sent \ Range(IF s < Last THEN log[s + 1] ELSE shown))
  /\ joined' = [joined EXCEPT ![s] = FALSE]
  /\ committed' = [committed EXCEPT ![s] = 0]
  /\ hand' = [hand EXCEPT ![s] = {}]
  /\ warm' = warm \ {s}
  /\ stopped' = (stopped /\ s # 1)
  /\ UNCHANGED <<program, rows, log, pos, shown, sure>>

Next ==
  \/ Insert \/ InsertFails \/ Publish
  \/ \E s \in Stages : \/ Join(s) \/ Leave(s)
                       \/ ReadMessage(s) \/ ReadMessageFails(s)
                       \/ Handle(s) \/ Kill(s)

\* The processes run, and the reader is in its group often enough.
Fairness ==
  \A s \in 1..2 : /\ WF_vars(s \in Stages /\ Join(s))
                  /\ SF_vars(s \in Stages /\ ReadMessage(s))
                  /\ WF_vars(s \in Stages /\ Handle(s))

Spec == Init /\ [][Next]_vars

FairSpec == Spec /\ Fairness

-----------------------------------------------------------------------------
\* A group has committed no more than its reader has gone past, on topics of
\* messages that were sent.
TypeOK ==
  /\ program \in {"etl", "etl_after", "indexer"}
  /\ rows \in 0..MaxRows /\ stopped \in BOOLEAN /\ faults \in 0..MaxFaults
  /\ log \in [Stages -> Seq(Sent)]
  /\ joined \in [Stages -> BOOLEAN]
  /\ pos \in [Stages -> Nat] /\ committed \in [Stages -> Nat]
  /\ \A s \in Stages : committed[s] <= pos[s] /\ pos[s] <= Len(log[s])
  /\ hand \in [Stages -> {{}} \cup {{k} : k \in Sent}]
  /\ shown \in Seq(Sent)
  /\ warm \subseteq Stages
  /\ sure \subseteq Sent /\ struck \subseteq Sent

\* However often a reader loses its session, a process is killed or a write is
\* repeated, what the last stage prints or upserts is never older than what it did
\* before; and a message is passed over only if a fault struck it, or it was
\* published before all stages had read their first message.
Promised == INSTANCE LossyQueue WITH
  sent <- Len(log[1]), received <- shown, lost <- struck \cup (Sent \ sure)
ImplementsLossyQueue == Promised!Spec

\* From when all stages have read their first message, each message published
\* gets through to the last one, but for those a fault struck: sessions that are
\* lost cost nothing.
Arrives ==
  \A k \in 1..MaxRows : k \in sure ~> k \in Range(shown) \cup struck
=============================================================================
