------------------------------ MODULE DualWrite ------------------------------
(***************************************************************************)
(* Orders kept in several stores, and a reader that compares their sums.   *)
(*                                                                         *)
(*   before   002_hyper_specialized_dbs/dual_write/before: one goroutine   *)
(*            writes each order to Postgres, Cassandra and BigQuery.       *)
(*   webhook  dual_write/after (and triplicating_data/after): a changefeed *)
(*            posts the rows of CockroachDB to an adapter, which writes    *)
(*            them to BigQuery.                                            *)
(*   s3       triplicating_data/before: a changefeed writes files to S3,   *)
(*            a queue tells a function of them, which writes their rows.   *)
(*                                                                         *)
(* dual_write/eod sums up each store, one after the other.  Each order     *)
(* counts for one.                                                         *)
(***************************************************************************)
EXTENDS Naturals, Sequences, FiniteSets

CONSTANTS Orders,
          Handlers,     \* requests to the adapter, or runs of the function, at a time
          MaxFaults     \* bound: writes that fail, processes killed, rows published again

ASSUME MaxFaultsAssumption == MaxFaults \in Nat

VARIABLES
  program,
  tried,    \* orders the writer has begun with
  pg,       \* the table of the first store: Postgres or CockroachDB
  cs,       \* the table of Cassandra
  bq,       \* BigQuery: how many rows of each order; nothing keeps it from two
  lost,     \* orders of which BigQuery had rows when it was stopped
  writer,   \* the store the writer is to write next, with the order, or Idle
  parcels,  \* what the changefeed has made, in order: sets of orders
  done,     \* the parcels answered without an error, by number
  handler,  \* the parcels each handler has, with the rows it has left, or Idle
  eod,      \* the sums read so far
  faults

stores == <<pg, cs, bq, lost>>
feed == <<parcels, done, handler>>
vars == <<program, tried, stores, writer, feed, eod, faults>>

Idle == [pc |-> "idle"]
NoSums == [store \in {} |-> 0]

Init ==
  /\ program \in {"before", "webhook", "s3"}
  /\ tried = {}
  /\ pg = {}
  /\ cs = {}
  /\ bq = [o \in Orders |-> 0]
  /\ lost = {}
  /\ writer = Idle
  /\ parcels = <<>>
  /\ done = {}
  /\ handler = [h \in Handlers |-> Idle]
  /\ eod = NoSums
  /\ faults = 0

AddRow(o) == [bq EXCEPT ![o] = @ + 1]

Fault == faults < MaxFaults /\ faults' = faults + 1

-----------------------------------------------------------------------------
(* The writer.  An error, simulated or not, and even of a write that took    *)
(* effect, makes it go on to the next order.                                 *)

Begin(o) == o \in Orders \ tried /\ tried' = tried \cup {o}

\* Wrong on purpose, to try the properties: the next order does not wait.
writePostgres_Unwaiting(o) ==
  /\ program = "before"
  /\ Begin(o)
  /\ \/ pg' = pg \cup {o} /\ writer' = [pc |-> "cassandra", order |-> o] /\ UNCHANGED faults
     \/ Fault /\ pg' \in {pg, pg \cup {o}} /\ UNCHANGED writer
  /\ UNCHANGED <<cs, bq>>

writePostgres(o) ==
  /\ program = "before" /\ writer = Idle
  /\ Begin(o)
  /\ \/ pg' = pg \cup {o} /\ writer' = [pc |-> "cassandra", order |-> o] /\ UNCHANGED faults
     \/ Fault /\ pg' \in {pg, pg \cup {o}} /\ UNCHANGED writer
  /\ UNCHANGED <<cs, bq>>

\* Wrong on purpose, to try the properties: an error is logged, and no more.
writeCassandra_GoesOn ==
  /\ writer.pc = "cassandra"
  /\ \/ cs' = cs \cup {writer.order} /\ UNCHANGED faults
     \/ Fault /\ cs' \in {cs, cs \cup {writer.order}}
  /\ writer' = [writer EXCEPT !.pc = "bigquery"]
  /\ UNCHANGED <<tried, pg, bq>>

writeCassandra ==
  /\ writer.pc = "cassandra"
  /\ \/ /\ cs' = cs \cup {writer.order}
        /\ writer' = [writer EXCEPT !.pc = "bigquery"]
        /\ UNCHANGED faults
     \/ /\ Fault
        /\ cs' \in {cs, cs \cup {writer.order}}
        /\ writer' = Idle
  /\ UNCHANGED <<tried, pg, bq>>

writeBigQuery ==
  /\ writer.pc = "bigquery"
  /\ \/ bq' = AddRow(writer.order) /\ UNCHANGED faults
     \/ Fault /\ bq' \in {bq, AddRow(writer.order)}
  /\ writer' = Idle
  /\ UNCHANGED <<tried, pg, cs>>

\* The changefeed does the rest; in triplicating_data rows are inserted by hand.
writeCockroach(o) ==
  /\ program # "before"
  /\ Begin(o)
  /\ \/ pg' = pg \cup {o} /\ UNCHANGED faults
     \/ Fault /\ pg' \in {pg, pg \cup {o}}
  /\ UNCHANGED <<cs, bq, writer>>

simulateWriter ==
  /\ (\E o \in Orders : writePostgres(o) \/ writeCockroach(o)) \/ writeCassandra \/ writeBigQuery
  /\ UNCHANGED <<program, lost, feed, eod>>

-----------------------------------------------------------------------------
(* The changefeed.  A parcel is what it posts at once, or puts in a file.    *)

Published == UNION {parcels[n] : n \in DOMAIN parcels}

\* Wrong on purpose, to try the properties: rows that are not committed, too.
Publish_Ahead ==
  /\ program # "before"
  /\ \E rows \in SUBSET (tried \ Published) \ {{}} : parcels' = Append(parcels, rows)
  /\ UNCHANGED <<program, tried, stores, writer, done, handler, eod, faults>>

Publish ==
  /\ program # "before"
  /\ \E rows \in SUBSET (pg \ Published) \ {{}} : parcels' = Append(parcels, rows)
  /\ UNCHANGED <<program, tried, stores, writer, done, handler, eod, faults>>

\* The changefeed delivers at least once.
Republish ==
  /\ Fault
  /\ \E o \in Published : parcels' = Append(parcels, {o})
  /\ UNCHANGED <<program, tried, stores, writer, done, handler, eod>>

Waiting ==
  (DOMAIN parcels \ done) \
    UNION {handler[h].parcels : h \in {g \in Handlers : handler[g] # Idle}}

Rows(some) == UNION {{n} \X parcels[n] : n \in some}

\* The sink posts a parcel and waits; the queue's messages come several at a time.
Deliver(h, some) ==
  /\ handler[h] = Idle
  /\ some \subseteq Waiting /\ some # {}
  /\ program = "webhook" => Cardinality(some) = 1
  /\ handler' = [handler EXCEPT ![h] =
       [pc |-> "writing", parcels |-> some, left |-> Rows(some)]]
  /\ UNCHANGED <<program, tried, stores, writer, parcels, done, eod, faults>>

Row(h) ==
  /\ handler[h] # Idle
  /\ \E row \in handler[h].left :
       /\ bq' = AddRow(row[2])
       /\ handler' = [handler EXCEPT ![h].left = @ \ {row}]
  /\ UNCHANGED <<program, tried, pg, cs, lost, writer, parcels, done, eod, faults>>

\* All rows are written: the request is answered, the messages are deleted.
Answer(h) ==
  /\ handler[h] # Idle
  /\ handler[h].left = {}
  /\ done' = done \cup handler[h].parcels
  /\ handler' = [handler EXCEPT ![h] = Idle]
  /\ UNCHANGED <<program, tried, stores, writer, parcels, eod, faults>>

\* Wrong on purpose, to try the properties: the error is not answered, or the
\* rows that were written are not told of.
AnswerError_None(h) ==
  /\ handler[h] # Idle
  /\ Fault
  /\ bq' \in {bq} \cup {AddRow(row[2]) : row \in handler[h].left}
  /\ handler' = [handler EXCEPT ![h] = Idle]
  /\ done' = done \cup handler[h].parcels
  /\ UNCHANGED <<program, tried, pg, cs, lost, writer, parcels, eod>>

\* A row fails, with or without effect, or the handler is killed or cut off, be
\* it after the last row: what it had is delivered again.
AnswerError(h) ==
  /\ handler[h] # Idle
  /\ Fault
  /\ bq' \in {bq} \cup {AddRow(row[2]) : row \in handler[h].left}
  /\ handler' = [handler EXCEPT ![h] = Idle]
  /\ UNCHANGED <<program, tried, pg, cs, lost, writer, parcels, done, eod>>

\* The writer's process is killed: the order it was writing stays as it is.
Kill ==
  /\ writer # Idle
  /\ Fault
  /\ writer' = Idle
  /\ UNCHANGED <<program, tried, stores, feed, eod>>

\* The emulator is stopped and started: its rows are gone, and its table, until it
\* is created again as it was at first; writes fail while there is none.
RestartBigQuery ==
  /\ Fault
  /\ bq' = [o \in Orders |-> 0]
  /\ lost' = lost \cup {o \in Orders : bq[o] > 0}
  /\ UNCHANGED <<program, tried, pg, cs, writer, feed, eod>>

-----------------------------------------------------------------------------
(* The sums of the end of the day *)

\* Wrong on purpose, to try the properties: from the last store to the first.
readOrder_Reversed == IF program = "before" THEN <<"bq", "cs", "pg">> ELSE <<"bq", "pg">>

readOrder == IF program = "before" THEN <<"pg", "cs", "bq">> ELSE <<"pg", "bq">>

Complete(sums) == DOMAIN sums = {readOrder[k] : k \in DOMAIN readOrder}

\* A comparison that is complete is printed, and the next one begins.
Sums == IF Complete(eod) THEN NoSums ELSE eod
Due(store) == store = readOrder[Cardinality(DOMAIN Sums) + 1]
Sum(store, n) ==
  eod' = [s \in DOMAIN Sums \cup {store} |-> IF s = store THEN n ELSE Sums[s]]

\* An error is taken for a sum of 0 ...
readPostgres == Due("pg") /\ (Sum("pg", Cardinality(pg)) \/ Sum("pg", 0))

\* ... and with the other stores ends the comparison.
readCassandra == Due("cs") /\ (Sum("cs", Cardinality(cs)) \/ eod' = NoSums)

\* The table BigQuery sums up, each copy of an order by its number.
Copies == UNION {{o} \X (1..bq[o]) : o \in Orders}

readBigQuery == Due("bq") /\ (Sum("bq", Cardinality(Copies)) \/ eod' = NoSums)

Read ==
  /\ readPostgres \/ readCassandra \/ readBigQuery
  /\ UNCHANGED <<program, tried, stores, writer, feed, faults>>

Next ==
  \/ simulateWriter
  \/ Publish \/ Republish
  \/ \E h \in Handlers : \/ \E some \in SUBSET Waiting : Deliver(h, some)
                         \/ Row(h) \/ Answer(h) \/ AnswerError(h)
  \/ Kill
  \/ RestartBigQuery
  \/ Read

\* The changefeed and the queue deliver what is not answered for again and again.
Fairness ==
  /\ WF_vars(Publish)
  /\ \A n \in 1..(Cardinality(Orders) + MaxFaults) :
       WF_vars(\E h \in Handlers, some \in SUBSET Waiting : n \in some /\ Deliver(h, some))
  /\ \A h \in Handlers : WF_vars(Row(h)) /\ WF_vars(Answer(h))

Spec == Init /\ [][Next]_vars

FairSpec == Spec /\ Fairness

-----------------------------------------------------------------------------
TypeOK ==
  /\ program \in {"before", "webhook", "s3"}
  /\ pg \subseteq tried /\ cs \subseteq tried /\ tried \subseteq Orders
  /\ bq \in [Orders -> Nat]
  /\ lost \subseteq pg
  /\ writer \in {Idle} \cup [pc: {"cassandra", "bigquery"}, order: tried]
  /\ parcels \in Seq(SUBSET pg)
  /\ done \subseteq DOMAIN parcels
  /\ \A h \in Handlers :
       \/ handler[h] = Idle
       \/ handler[h] \in [pc: {"writing"}, parcels: SUBSET (DOMAIN parcels \ done),
                          left: SUBSET ((DOMAIN parcels) \X Orders)]
  /\ DOMAIN eod \subseteq {"pg", "cs", "bq"} /\ \A s \in DOMAIN eod : eod[s] \in Nat
  /\ faults \in 0..MaxFaults

Missing == {o \in pg : bq[o] = 0}

\* An order is in a store only if it is in each store before it, whatever the
\* calls report and wherever the process dies.
StoresNest ==
  \A o \in Orders :
    /\ bq[o] > 0 => o \in pg
    /\ program = "before" => (bq[o] > 0 => o \in cs) /\ (o \in cs => o \in pg)

\* What the stores differ by is paid for: with dual writes each order that never
\* came to BigQuery, but for the one under way, cost an error or a crash, and none
\* is there twice; with a changefeed each parcel that has an order is written once
\* and once more for each delivery that failed: copies multiply, when parcels that
\* share an order are delivered together.
FaultsPayForDifferences ==
  IF program = "before"
  THEN /\ Cardinality(Missing \ lost) <= faults + (IF writer = Idle THEN 0 ELSE 1)
       /\ \A o \in Orders : bq[o] <= 1
  ELSE \A o \in Published :
         LET times == Cardinality({n \in DOMAIN parcels : o \in parcels[n]})
         IN  bq[o] <= times * (1 + faults - (times - 1))

\* The comparison is no snapshot, yet a shortfall of BigQuery it shows is real:
\* when the sum of another store is above its sum an order is missing there at
\* that moment, even though orders were written between the reads and copies may
\* make up for some.
ShortfallIsReal ==
  [][eod' # eod /\ Complete(eod') =>
       \A s \in DOMAIN eod' : eod'[s] > eod'["bq"] => Missing # {}]_vars

\* BigQuery is a mirror of the first store: it is given committed orders only,
\* row by row, and with a changefeed no parcel counts as answered while one of
\* its orders is not there, whichever handler failed, died or was handed it again,
\* unless it was there when BigQuery was stopped.
Answered == UNION {parcels[n] : n \in done}

Mirrored == INSTANCE Mirror WITH source <- pg, copies <- bq, told <- Answered \ lost

ImplementsMirror == Mirrored!Spec

\* With a changefeed BigQuery catches up, once the faults end, with what it has
\* not had yet.  What it had before it was stopped it may not get back: what was
\* answered is not sent again (dual_write/steps.md notes that stopping it and
\* starting it again, "to show everything continues (and catches up)", is "NOT
\* WORKING YET").
CatchesUp ==
  program # "before" => \A o \in Orders : o \in pg ~> bq[o] > 0 \/ o \in lost
=============================================================================
