# A TLA+ model of architectural-simplification

The repository is a collection of small Go programs, each shown twice: *before*
(several stores, the application keeps them in step) and *after* (CockroachDB
and its changefeeds do). What is hard about them is the same everywhere: two
stores without a common transaction, messages delivered at least or at most
once, goroutines that share a map, a channel or a lock. This directory models
those programs, checks them with TLC on small instances, and proves the most
important properties with TLAPS for every value of the constants.

`PROJECT.json` lists the runs, the source lines each definition translates,
the hazards and the theorems. Paths below are relative to `src/`.

## 1. Inventory

| Component | State | Operations | What is hard |
|---|---|---|---|
| **Order saga** `001_…/business_transactions/after` | tables sagas, orders, payments, reservations, shipments; topic; consumer group | `createSaga` (HTTP), changefeed, `handleSagaMessages` and eight step transactions | redelivery, errors that skip a message, crashes with a new group, stale messages |
| **Order workflow** `001_…/business_transactions/before` | the four tables | `handleCreateOrder`: create calls in turn, unwound on failure | concurrent requests, ambiguous commits, crash half way, a cancel that fails |
| **Load balancer** `003_…/database_migration/after/lb.go` | server list, mutex, one-slot channel, connections | accept, pick, dial, terminate, add, remove | a send under a lock, one signal per removal, an empty list |
| **Read performance** `004_…/read_performance/before` | table stock, Redis | handler (get, read, set), writer (update, del) | fills that overtake a delete |
| **Cache coherence** `004_…/cache_coherence/before` | the same, and `globalMU` | reader, writer that skips 1% of deletes, checker | two stores compared one after the other |
| **Polling clients** `001_…/polling_clients/before` | table of events, map `rowsWritten` | producer, polling consumers | insert visible before the map entry; consumers that read the same rows |
| **Queue clients** `001_…/polling_clients/after` | the same, a topic, a group | producer, changefeed, consumers | commit before use, late joining, early messages |
| **Queue coherence** `001_…/queue_coherence` | table stock, topic, two maps | producer, poller, queue consumer, print loop | dual writes; replay; copies taken at different times |
| **CDC delay meter** `001_…/cdc` | map of payments, a group | producer that notes before it inserts, one consumer | entry kept when the insert fails; an insert that fails and takes effect |
| **Rolling average** (four copies) | ring of samples and their sum | one closure | the first round, the index that wraps |
| **Dual write** `002_…/dual_write` | PostgreSQL, Cassandra, BigQuery | writer, webhook adapter, end-of-day sums | prefix of the stores written; batches retried; sums that are no snapshot; a BigQuery that loses its rows |
| **S3 to BigQuery** `005_…/triplicating_data` | BigQuery, files, a queue | copy an event's rows | partial failure, then the event again |
| **Indexer and loader** `002_…/data_fragmentation` | topic, group, search index | insert, consume and upsert | commit before the upsert |
| **ETL** `001_…/etl` | topics raw, transformed; two groups | insert, transform, consume | commit before the write; writes without acknowledgement; readers that start at the end |
| Purging `001_…/purging_data`, reads without a cache `004_…/after`, probes `003_…`, analytics `005_…`, multi-instance services `006_…`, `pkg/connect`, tools | one table or none | one statement each | see `PROJECT.json`, why each is left out |

How they interact: the programs do not call each other. Inside each, goroutines
meet in a mutex-protected map or list, in a channel, or in an outside store
(CockroachDB or PostgreSQL, Redis, a Kafka topic). The outside parts are modelled
by what the code relies on: a transaction is one atomic step that may fail, be
refused by a key, or commit and report an error; a changefeed publishes every
version of a row in order, at least once; a reader resumes from the offset its
group committed.

## 2. Modules

```
OrderTables ──┬── Saga ──────────── MCSaga           RollingAverage ── DelayMeters
              └── OrderWorkflow ─── MCOrderWorkflow  LossyQueue (what Relays promises) ── Relays
OrderOutcome  (what both promise)                    CacheAside
LoadBalancer ─── MCLoadBalancer                      Mirror (what DualWrite promises) ── DualWrite
                                                     QueueCoherence
SagaProofs  OrderWorkflowProofs  LoadBalancerProofs  CacheAsideProofs
DelayMetersProofs  DualWriteProofs  QueueCoherenceProofs  RelaysProofs
```

Modules for several programs that differ in a few steps have a variable that
names the program (`program`, `locked`): it is chosen at the start and never
changes, so that one run checks them all.

* **OrderOutcome** is the abstract specification: an order is open for a while,
  during which parts of it may be held, and ends once, with everything it asked
  for or with nothing. `Saga` and `OrderWorkflow` are both shown to implement it.
* **OrderTables** has the four tables and their statements with their keys:
  `orders` by order, `reservations` by order and product, `shipments` by order,
  and `payments` by a generated id, which is why a payment can be taken twice.
* **Saga**: one action per database function of the source, under its name.
  `versions[o]` is every version the row of order `o` has had, a message is an
  order and a version number, `inflight` is where `handleSagaMessages` is with
  its message, and `position` and `committed` are the reader's and the group's
  offsets. `Skips` is the two `continue`s before the dispatch; `Refused` and
  `TransientError` the one after it; `Rebalance` and `Crash` start a new session,
  the latter in a new group that begins at the end of the topic. `Stranded` are
  the orders nothing is to come for: not at an end, and their newest version
  neither to be published, nor ahead of the reader, nor in hand. Two kinds stop
  by design and are not counted: bodies that can never be handled (`Servable`),
  and orders the first reader began behind (`Missed`).
* **OrderWorkflow**: each client is one request and one handler;
  `functions` is the table of creates and the cancels that undo them,
  `Create`/`Unwind`/`Cancel` the loop, and the `…Ambiguous` actions are calls
  that commit and return an error. `doubtful` remembers those.
* **LoadBalancer**: `client[c]` moves from the backlog through the one accept
  loop (`accept`, `nextServer`) to its own handler (`handleClient`,
  `terminate`); `admin[a]` is an HTTP request and is `"sending"` while it holds
  `serversMu` over the channel. `selectedServerIndex` is taken modulo the length
  and never advanced, as in the code. Any waiting handler may take a signal
  (Go's runtime serves them in order; the model allows more).
  A client that hangs up makes no difference to its handler, which goes on
  waiting. Connection counts and debug output are left out.
* **CacheAside** holds table, cache and the steps of readers, writer and checker,
  with `globalMU` (`locked`: the coherence checker) or without (the HTTP reader).
  A reader is `Miss`, `readFromDB`, `Fill`; the one writer `Update`, `Invalidate`;
  `fetchAndCheck` is its two queries. The n-th write writes the number n, so that
  two quantities are equal only if they are of the same write. A kill resets the
  goroutines and leaves the stores. The checker's query may return a part of
  the table, since `rows.Err` is not looked at.
* **RollingAverage** is the closure. The sum is kept as a linear form (how often
  it holds each input), so that what is said of it is true of inputs of any
  value; floating-point rounding is not modelled.
* **DelayMeters** is the two clients and the cdc program: `event[e]` is where an
  event is between map and table, `hand[c]` what a consumer has read and not yet
  applied (a query's rows, or one message), `dropped` the events of which the
  reader lost a message or which it started behind. `average` is taken with each
  measurement, as in `applyPollLag` of the queue version and in `compareAndPrint`.
* **DualWrite**: `writer` is the store `simulateWriter` is to write next;
  `parcels` are what the changefeed posts at once or puts in a file, and
  `handler[h]` a request of the adapter or a run of the function with the rows it
  has left. `AnswerError` is a row that fails (with or without effect), a
  time-out or a killed function: everything the handler had is due again.
  `Read` is one query of `eod`. Each order counts for one, and BigQuery keeps
  every row it is given: the row id of `Save` lets it drop copies, but only by best effort;
  what its sum counts is `Copies`, each order with the number of the copy.
  `RestartBigQuery` is the last experiment of `dual_write/steps.md` (183-196), which
  the file marks "NOT WORKING YET": the emulator is stopped and started, and comes
  back with neither rows nor table (its command in `compose.yaml` names no file to
  keep them in). `lost` has
  the orders it had rows of by then. While there is no table writes fail, each
  at a fault; the model takes it that someone creates the table again.
* **Mirror** is the abstract specification `DualWrite` is shown to implement, a
  table and its copy: only what the source has is copied, row by row, perhaps
  again, and an order is told to have arrived only when it has, until the copy
  is lost as a whole. `Answered`, the orders of the parcels answered without an
  error, is what the changefeed and the queue are told, and deliver no more.
* **LossyQueue** is the abstract specification of a chain of at-most-once
  relays: a queue that may lose messages and repeat one at once, but hands on
  nothing older than what it did and passes over nothing it has not written off.
  **Relays** is shown to implement it. A stage is a process with a reader of the
  topic of its number (the ETL has two, the others one); a message is known all
  the way by its place on the first topic. `struck` has the messages a fault may
  have cost, `sure` those published when every stage had read its first message.
* **QueueCoherence** runs either program (`program` is chosen at the start and
  stays). A message names the version of the row it was made from; the verdict
  compares quantities, in which an unknown product reads 0 and the row starts
  with 1000, as in the code.

Operators whose comment begins "Wrong on purpose" are variants of the
definition below them with a plausible mistake; no specification uses them.
Substituting one for its original makes TLC find the property it is paired with
violated (`mutants` in `PROJECT.json`).

## 3. Runs

| Run | Instance | Shows |
|---|---|---|
| `saga_once` | 2 orders, 1 product, one transient error, one failed commit, one crash | `RowTellsHoldings`: the row tells exactly what the tables hold. `StrandedIsPaidFor`: a saga comes to a halt by an error or a crash, one at a time, or behind a new group. `ImplementsOutcome`. `Settles`: a saga whose message is still due ends |
| `saga_redelivery` | 1 order, 2 products, eight kinds of body, one re-emission, one rebalance, one failed commit | `ShippedIsWhole`, `ChargesBounded`, `FailedComesToNothing` and, before a rebalance, `FailedHoldsNothing` (a failing saga of which nothing is left to come holds nothing; one whose body does not parse never does) under at-least-once delivery |
| `saga_retry` | 2 orders, one transient error | violation, see section 6 |
| `order_workflow` | 2 clients post one order, one failing call, one ambiguous call, one crash | `ChargedOnce`, `ReplyTellsTruth`, `AbandonedIsExplained`, `ImplementsOutcome` |
| `load_balancer` | 2 servers, 2 connections, 3 requests | `SignalsAccounted`, `ListingsAccounted`, when it stalls and that it stays stalled, and that otherwise everybody is served |
| `load_balancer_migration` | 3 connections, add one server, remove the other | violation, see section 6 |
| `cache_aside` | 2 products, 2 readers, 3 writes, with and without the lock | `StaleIsExplained`: two causes of staleness, one of them under the lock. `VerdictsAreTrue`: the checker is exact |
| `delay_meters` | 2 events, 2 consumers, 2 faults, a ring of 2 | `MeasuredOnce`, `NotedIsMeasured`, `AverageIsOfTheLast` |
| `delay_meters_early` | as above, nothing published again, no message lost | violation, see section 6 |
| `dual_write` | 2 orders, 2 handlers, 2 faults | `StoresNest`, `FaultsPayForDifferences`, `ShortfallIsReal`, `ImplementsMirror`, `CatchesUp` |
| `relays` | 3 rows, 2 faults | `ImplementsLossyQueue`; `Arrives` |
| `queue_coherence` | 2 ticks per process, 2 errors, 2 copies, 1 each of re-emission, lost session, restart | `DifferenceIsExplained`, `OnlyForward`, `Converges` |

### Bounds, and why they are enough

* Faults have budgets (`MaxErrors`, `MaxCrashes`, `MaxRebalances`, …). One of each
  kind already meets every other step; the saga's two runs share the kinds
  between them so that each run keeps two kinds that interact. In
  `saga_redelivery` the payment of one order is taken four times with one
  re-emission, one rebalance and one failed commit: the bound of
  `ChargesBounded` is met exactly.
* `saga_redelivery` has `MaxErrors = 0` for a reason: with a transient error *and*
  redelivery, a stale message can move a cancelled saga back into progress and
  the error can then lose the message that would have unwound it, so
  `FailedComesToNothing` does not hold there.
* The two orders of `saga_once` are, in one start or another, healthy, failing at
  a step, listing a product twice, or not to be parsed. Two are enough: one consumer handles one message at a time,
  and the only coupling of orders is the offset they share. One order with two
  clients is enough for the workflow, whose handlers meet only in an order's rows.
* Two connections against three requests reach the stall (two removals more than
  connections ended), the panic on an empty list, and a list that fills again.
* Caches: an entry's fate involves one reader, one write before it and one after
  it; three writes and two products leave room for a repair.
* Delay meters: a ring of 2 is filled, wraps and starts over within the
  measurements two events, published twice, give. Counting twice and passing over take
  one event and two consumers.
* Dual write: two orders make parcels that share an order, two handlers hold
  parcels at the same time, and two faults let a delivery fail after one that
  was itself a repetition, or BigQuery lose its rows before or after one: the
  bound of `FaultsPayForDifferences` is met.
* Relays: three rows give one before the readers have joined, one that a fault
  strikes and one after it; with four (138 s) the run passes as well.
* The saga, the workflow and the balancer run out of requests and then stop, so
  their runs do not check for deadlock; the balancer's real one is `Stalled`, which is a
  property of its own. In `relays` the rows run out and all may be read. All other
  runs check for deadlock.

### Fairness

* Weak fairness of the consumer loop, the tickers and the changefeed: each is a
  goroutine or a job that runs for good, and Go schedules every goroutine that
  stays runnable. Clients, faults and errors have none.
* Strong fairness of the two steps of the balancer that take `serversMu`
  (Go's mutex hands itself over to a waiter that has starved for 1 ms), of
  `ReadMessage` in `DelayMeters` and `Relays` (a reader that is in its group again
  and again does get a message), and of `Apply` in `DelayMeters` (a consumer
  whose queries succeed again and again hands on the rows of some).
* `DualWrite`: the changefeed and the queue deliver each parcel that is not
  answered for again and again (that is what an error answer asks for), and a
  handler goes on while it is not killed. The writer has no fairness.
* `Settles` and `FailedComesToNothing` start when the faults are used up: no
  program can promise an end while errors go on.

## 4. Proofs

TLAPS checks every step of these from the definitions TLC runs; the only
assumptions are the named ones on the constants.

* **SagaProofs** — `Typing`, and `ShippedWhole` for any redelivery.
  `ShippedIsWhole` is not inductive: a replayed message might undo a step after
  the shipment. `WholeInv` says of every row an order has *ever* had (any of them
  may be delivered again) that it only went past steps that are not to fail, and
  that, if no step is to fail, it is in progress or finished and still true of
  the tables. A shipped order has no failing step, so a stale message of it can
  only repeat a step, never undo one.
  Its second part is `RowTells` and `Implements`, assuming no redelivery
  (`NoRedelivery`: `MaxReemits = 0` and `MaxRebalances = 0`; errors, failed commits and crashes
  remain). `OnceInv` says why that is enough: at most one message of an order is
  due (in hand or ahead of the reader), and it carries the newest version of the
  row, so a transaction always starts from the row the order has now. `TellInv`
  is `RowTellsHoldings` with the rows a saga goes through and the steps that
  cannot be failing by then. The refinement has one step per database function:
  each is `Work`, `Complete` or `Cancel` of `OrderOutcome`, `createSaga` is
  `Submit`, and everything else is a stutter. Its third part is `Bounded` (of
  `ChargesBounded`, with every fault allowed). `ChargeInv` has the two factors of
  the bound. A row comes to payment once, because `createOrder` writes that
  version together with the order's row, whose key is unique; so the topic has
  one copy of the message for each time the changefeed went back, and one if it
  passed the version since. And the charges, with the copies in hand and ahead of
  the consumer counted as if they had been made, are at most one for each copy
  and reading, where a rebalance that the consumer has still to come back from
  (`Again`) is not counted yet: that is what pays for the copies it goes back to.
  Its fourth part is `StrandedPaid`, again without redelivery. An order is
  `Excused` while there is a reason that nothing is to come for it, and no step
  takes the last reason away but a transient error or a crash, from the order of
  the message in hand alone (`ExcusedFault`), and the new group of a process that
  has crashed. Two steps make that hard: a message the database refuses is
  lost without an error, but then, by `TellInv`, its order could not be served
  (`RefusedUnservable`); and the first reader, which joins at the end of the topic,
  passes over what is on it, which by `HaltInv` is first rows only (`Missed`).
  Its fifth part is `FailedHeal` (of `FailedHoldsNothing`), with any number of
  re-emissions and failed commits. `HealInv` says that whatever a failing saga
  still holds, a row that undoes it (one of `Underway`) is ahead of the consumer
  or in hand. A transaction takes one such row and puts the next; a reservation
  the database refuses because it is there needs the case where the shipment's
  row, which undoes it, is still to come. It is said of behaviours without an
  error, a crash or a rebalance so far: a reader that joins again before its
  first commit begins at the end of the topic, and passes over rows it had yet
  to undo. `UnparsedInv`, for the other half and with every fault allowed: a message
  whose body does not parse is never in hand, so its saga stays as it began.
* **LoadBalancerProofs** — `Typing`, `Signals` (a count over finite sets: each
  action moves one element of `Closed` or `Signalled`), `StallNeeds` from it, and
  `StallForever`: with `serversMu` held by a sender and the channel full, no
  action of `Next` changes the four conjuncts of `Stalled`. `Listed`, about
  `removeElement`'s shift of the tail: an injection from the places of a server
  after a removal to its places before, and one back from all but the foremost
  place of the server that is removed, bound how many listings a removal takes.
* **CacheAsideProofs** — typing of both stores; `Explained` from `FreshInv` (what
  a reader has read is the stock's quantity unless it was overtaken) and, under
  the lock, from `LockInv` (while a reader is under way neither writer nor
  checker is) and `CoherenceInv`; `TrueVerdicts` from the same and the
  fact that what the checker fetched is still what the table holds.
* **DelayMetersProofs** — `Averages` for every period: `AverageIsOfTheLast` says
  nothing of the ring, so `RingInv` adds which input each place holds (place p has the
  last input whose number is p modulo the period), from which the
  entry overwritten is the one that leaves the window. `CountedOnce`: `Seen` (what is
  published or read is in the table) and `Placed` (where an event is tells what the
  map and the meters can have of it) make `MeasuredOnce` inductive.
  `Typing` combines `MeterTypes` with the ring.
* **OrderWorkflowProofs** — `Typing`, `Charged`, `RepliesTrue`, `Abandonment` and
  the refinement `Implements`. All rest on `RowInv`: an order belongs to one
  handler at most, and where that handler is, or how it ended, tells what the
  four tables hold for the order, up to the steps that are `doubtful` (an error
  was reported, and the step may have taken effect). Without it nothing rules out a
  second handler that charges the order again or undoes what the first is told
  stands. The refinement needs `BarsInv` besides: what the abstract order has is
  what the rows hold for certain.
* **DualWriteProofs** — `Nesting`, `Paid`, `Typing`, `Shortfalls` and `Implements`. `NestInv` adds to `StoresNest` that the
  writer's place tells which stores have its order, and that every row on its way to
  BigQuery (in a parcel, or left to a handler) is in the table; with dual writes
  there is none on the way. `Paid` (of `FaultsPayForDifferences`) has an argument
  for each kind of program. With dual writes, `PaidInv`: the orders that never came
  to BigQuery (`Absent`), other than the one under way, are no more than the faults. With a changefeed the rows written have no inductive bound of their own,
  and `CopyInv` counts the parcels a row is still *owed* by as if they had
  written it: a row that is written was owed, and a fault, which may make every
  parcel of the order owe its row again, or add a parcel, makes room for as many.
  `HandInv` is needed besides: no parcel is in two handlers' hands.
  `Shortfalls` (and with it the types of the sums) has `SumsInv`: tables only
  grow, so a sum of another store is at most the size of the first store's table
  now. Were no order missing, that table would map into `Copies` by an injection
  and BigQuery's sum be at least as large; a smaller one shows that an order is
  missing. `Implements` needs `WrittenInv`: of what a handler was given, each row
  is left to it, or in BigQuery, or was there when it was stopped, and so is
  what is answered; no other step takes a row away again (`CopiesStay`).
* **QueueCoherenceProofs** — `Typing`; `Forward` from `ForwardInv`: until the
  changefeed goes back, the topic is ascending and the consumer knows nothing
  newer than what its group has not committed, so that reading again what was
  not committed takes it nowhere back; `Explained` from `KnowsInv`: a changefeed
  that has caught up has the row as its last message, and a consumer that missed
  nothing knows the last message it read, unless it was killed after the commit.
* **RelaysProofs** — `Typing`, and `Implements`: the chain of topics is a
  `LossyQueue`. `RelayInv` says it stage by stage: topics are ascending and pass
  over no message that is not written off; what is behind a stage's reader, or
  its group's offset, is handed on, written off or in hand, and what is ahead
  is not before what was handed on. The hard case is a group without an
  offset, which begins at the end of its topic: it owes nothing, since its
  stage was not warm, or was killed and struck what it had not handed on.

Only model-checked: the seven properties that need fairness (`Settles`,
`FailedComesToNothing`, `ServedUnlessStalled`, `NotedIsMeasured`,
`CatchesUp`, `Arrives`, `Converges`), which are out of the prover's reach. Of
`Settles` the part that is not about time is proved (`StrandedPaid`): nothing but
an error, a crash or a new group leaves a saga with nothing to come. So is that of
`FailedComesToNothing` (`FailedHeal`): when nothing is to come for a saga that
fails, nothing is left to undo (before any rebalance).

## 5. What is left out

Data: names, amounts, JSON and timing. Bodies are a list of products, the steps
they ask to fail, and whether they parse. Durations appear only where they
decide something (an event older than ten seconds is no longer polled).
Programs without state of their own, or whose concurrency is inside the
database, are listed in `PROJECT.json` with the reason. The prices the ETL computes differ between its two
programs (one truncates, `etl/before/services/etl/main.go:111`, the other casts in
SQL), which no property is about; so is the back-off loop around the connection
to Cassandra. All stores but BigQuery are durable. A request of the webhook adapter
that timed out may go on writing beside its redelivery, which the model ends at
the time-out. Kafka topics have one
partition, as the `steps.md` files create them; with more, `queue_coherence`'s
writer, which has no Balancer, would spread one product over several.

## 6. Where code and comments differ

* `business_transactions/after/main.go:228-229` (and 249-250, 270-271, 291-292,
  312-313, 335-336, 356-357, 377-378 of other statements): "Insert order (if it fails, don't
  update saga just yet, we might be able to try again when CockroachDB
  republishes the unacked message)." It only says "might", but it relies on the
  message of a failed step to stay unacknowledged. The reader goes on to the next
  message, and the commit of that one covers the failed one (`saga_retry`: the
  other order's); the changefeed, which has published it, does not look at
  acknowledgements. The saga stays where it is, unless the group happens to
  rebalance before a later commit, or the changefeed to publish the row again.
* `database_migration/after/lb.go:124-125`: "Wait for server to change and allow
  function to complete (and connection to close) when it does." One removal
  sends one signal, so one connection closes, of whichever server
  (`load_balancer_migration`).
* `polling_clients/after/main.go:94-95`: "If rowsWritten contains the id, we've
  not tested it yet. If it doesn't, we've already processed and can ignore." The
  id can be missing because the producer has not noted it yet: `delay_meters_early`
  shows an INSERT that succeeds, its message ignored, and then the note, which
  waits for a message that does not come unless the changefeed publishes it
  again. The polling version has the same window, and the same comment, but polls
  again.
* No finding, since the file says it itself: the heading of
  `dual_write/steps.md:183` wants BigQuery to catch up after a stop, and line 185
  says "NOT WORKING YET". `CatchesUp` says what is left of it: what BigQuery had
  not had by then arrives; what it had may not come back.

## 7. Not modelled, and the plan

Every program of the repository with steps that can interleave or fail half way is
modelled, but for `queue_coherence/before/errors`, which counts updates and
messages. The rest are: `purging_data` (one DELETE with a limit, once a minute, and
a writer: a rate); the probes of `003_…` (one statement in a loop, timed);
`006_…` (one statement a request); `cache_coherence/after`, which reads and
writes one table; `analytics_in_cockroachdb` and `read_performance/after`, whose
statements fail, since `MustDatatabaseWithConfig` closes the pool it returns
(`pkg/connect/db.go:45`); scripts and tools.

Every safety property, action property and refinement the passing runs check is
proved for every value of the constants; what remains with TLC is liveness
(section 4).
