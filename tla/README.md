# Verification of the blockscout-rs indexers

TLA+ models, TLC runs and TLAPS proofs for the services of this repository that
keep state of their own and change it concurrently. The modules are written from
the Rust sources; `PROJECT.json` maps every definition to the lines it models.

## 1. The system

The repository is a collection of services around the Blockscout explorer. Most
are stateless front ends. The ones with a protocol are the indexers: long-running
processes that follow a remote source, divide it into jobs, run the jobs on a
bounded pool, and keep in PostgreSQL what is needed to go on after a restart.

### Inventory

| Component | State | Operations | What is hard | Correct when |
|---|---|---|---|---|
| TAC operation lifecycle, intervals (`tac-operation-lifecycle-logic/src/indexer.rs`, `database.rs`, `client/mod.rs`) | tables `interval` and `watermark`; in memory `realtime_boundary`, the realtime thread's boundary, stream buffers, jobs | generate chunks of rows at start, reset rows, realtime poll/insert/advance, four claiming streams, fetch/insert/complete/fail a row | rows are written by two producers and claimed by four streams; crash between any two statements; errors that are dropped; half-open windows | rows partition the time line, nothing behind the watermark is lost, rows are owned once and completed in the end |
| TAC operation lifecycle, operations (same files, `client/models/profiling.rs`) | table `operation` with its stages, transactions and meta info; jobs | insert, three claiming streams, fetch stages, store in a transaction, fail, reset | stale answers, retries, types that choose the next query, the forever-pending rule | stages move only forward, no answer is stored over a later one, every operation is settled in the end |
| Paged lists: TAC operations API (`database.rs`) and user operations API (`repository/*.rs`) | the tables, written by the indexers between pages; the token the client holds | first page, next page, last page | equal keys at the edge of a page; rows that move or vanish between pages; sort order and continuation differ | rows that stayed are shown exactly once and the walk ends |
| DA indexer, pool and Celestia (`da-indexer-logic/src/indexer.rs`, `celestia/`) | table `celestia_blocks`; `last_known_height`, `catch_up_completed`, `failed_jobs`, stream buffers, pool | poll, gap scan in several statements, drain of failed jobs, three attempts, save | scan and saves interleave; only the table survives a crash | every polled height is saved or held; catch up leaves no gap; every block is saved in the end |
| DA indexer, EigenDA (`eigenda/`, `common/eth_provider.rs`) | tables `eigenda_batches` and `eigenda_blobs`; `last_known_block`, `unprocessed_gaps`, `failed_jobs`, stream buffers, pool | search for gaps at start, poll for logs, catch up batch by batch, fetch blobs, save them in pieces, save the row, retry | an empty answer ends the catch up; blobs before the batch row; an unsigned age; gaps that share their edge blocks with saved batches | no batch without its blobs, no batch dropped, every batch saved in the end |
| User operations indexer (`user-ops-indexer-logic/src/indexer`, server `indexer.rs`) | table `user_operations`; position of the poller, LRU cache, handlers, status | start, three streams, deduplication, retrying handler, end of streams, restart | re-orgs against cache, overlap and handlers under way; finished messages before the handlers end; lost connection | every inclusion of an operation is handled, when the status says that past indexing is finished, what Blockscout and the node showed of the past is stored or being handled, the row shows the latest block |
| Stats, update side (`stats/src/update_group.rs`, `stats-server/src/update_service.rs`, `update_tracker.rs`, `blockscout_waiter.rs`) | chart tables with `last_updated_at`, a mutex per chart, the tracker, the watched indexing status, the request channel | initial update of each group, schedule, on-demand requests, set-back of a chart, status checks | groups share dependencies; reads and writes of one update are apart; waiting for status, permit and mutexes one after the other | no circular wait, no lost set-back, nothing computed too early, initial updates complete |
| Service launcher (`libs/blockscout-service-launcher`) | shutdown token, task tracker | launch, graceful shutdown | order of cancellation | every task ends |
| Multichain aggregator and search, ENS, bytecode database and its extractors, verifiers, signature provider, visualizer, shared libraries | databases behind request handlers, or nothing | requests | mostly external compilers, SQL and formats | see `components` in `PROJECT.json` for why each is left out for now |

How they interact: the TAC indexer and its API share only the database; the
interval side feeds the operation side through table `operation`; inside each
indexer the streams, the pool and the threads share the database connection and a
few atomics. The indexers do not call each other. Stats asks Blockscout and the
user operations indexer for their indexing status (`StatsUpdate` has it as the
environment action `Index`), and the paged lists read what the indexers write
(`Pagination` has that as `Change`).

## 2. Modules

| Module | Models | Used by |
|---|---|---|
| `TacIntervals` | interval generation, watermark, realtime thread, interval streams and jobs, start, crash | `MCTacIntervals`, `TacIntervalsProofs` |
| `TacOperations` | life of an operation row | `MCTacOperations`, `TacOperationsProofs` |
| `TacLifecycle` | abstract promise to readers: shown stages move forward, settled is final | instantiated by `TacOperations` (`Promise`) |
| `TacSystem` | the two sides of the TAC indexer over one operation table, one pool and one process | `MCTacSystem`, `TacSystemProofs` |
| `JobPool` | abstract promise of a DA indexer: between two starts a job it holds is let go only by saving it, nothing saved is lost | instantiated by `DaCelestia` and `DaEigenDa` (`Pool`) |
| `DaCelestia` | generic DA indexer with the Celestia back end | `MCDaCelestia`, `DaCelestiaProofs` |
| `DaEigenDa` | the same pool with the EigenDA back end, the L1 chain and the disperser | `MCDaEigenDa`, `DaEigenDaProofs` |
| `UserOpsIndexer` | one entry point version of the user operations indexer, with a chain that re-orgs | `MCUserOpsIndexer`, `UserOpsIndexerProofs` |
| `StatsUpdate` | the update service of stats | `MCStatsUpdate`, `StatsUpdateProofs` |
| `Pagination` | the paged lists of two services | `MCPagination`, `PaginationProofs` |
| `MC*` | small instances for TLC | the `.cfg` files |
| `*Proofs` | theorems and lemmas | tlapm |

`Defect_*` operators are wrong variants of a definition, used only to show that
a property would notice such a mistake.

### TacIntervals

A row is `[start, finish, status, next_retry]` of table `interval`, in the order
of its serial id; it stands for the window `(start, finish]` because
`fetch_historical_operations` asks for `start + 1 .. finish`.

* `Boot` is `Indexer::new` and the beginning of `start()`: the boundary is
  `now - lag`, or the newest stored operation if that is later.
* `GenerateChunk` is one transaction of `generate_pending_intervals`. Its second
  disjunct is the case in which `set_watermark_internal` fails: the error is
  dropped, the commit rolls back, the loop goes on with the next chunk.
* `ResetAndRun` is the reset of `processing` rows and the start of streams and
  realtime thread. `StartFails` is `start()` returning `Err`: the task panics and
  the process lives on without an indexer (`phase = "dead"`).
* `RealtimePoll`, `RealtimeInsert`, `RealtimeAdvance` are the three awaits of the
  realtime thread's loop; a crash may fall between them.
* `Claim(s)` is one iteration of stream `s`: `SELECT ... LIMIT ... FOR UPDATE SKIP
  LOCKED` and the update to `processing`. A stream queries again only when its
  buffer is empty.
* `FetchInterval`, `StoreInterval`, `CompleteInterval`, `FailInterval` are the
  awaits of an interval job on the pool of `Concurrency` slots.

`faults` logs how many faults happened and of which kinds, so that a property can
say which of them it tolerates. `"silent"`, `"empty"` and `"partial"` are the three
the code takes for success; the state predicate `Truthful` says that none of them
has happened.

### TacOperations and TacLifecycle

`Life[o]` is the sequence of operation types the remote service shows; a version
number stands for everything `set_operation_data` writes. The forever-pending rule
is the set `old`. `FetchStages` fixes the new status from the answer, and
`SetOperationData` writes it later, as the code does. `DropOperation` is the error
path that only logs: the row stays `processing` until the next `start()`.
`InsertOperations(S)` is one `insert_pending_operations`: rows that exist already are
left as they are. `StartFails` is `start()` returning `Err` behind the reset (fault
`"start"`).

`Attended` says who will see to a row: a job that holds it, a stream whose `WHERE`
clause it meets, or its retry time. `NoOblivion`, here and in `TacIntervals`, says that
no unfinished row of a running indexer is unattended, with the exceptions the code
has: a row whose type was stored as `UNKNOWN`, and the one pending interval around the
boundary (`Straddles`), which the two findings are about.

`KeepsPromise` is `TacLifecycle!Spec` under the mapping *shown* := stored version,
*settled* := status is completed.

### TacSystem

The composition of what `start()` puts together. `Intervals` and `Operations` are the
two modules, instantiated over shared state: what the interval side calls `stored` is
the set of operations with a row in `table`, and `running` of the operation side is
`phase = "running"`. Each action of the system is an action of one side, or of both
where one statement of the code is an event of both:

* `Start` and `StartFails`: `reset_processing_operations` resets both tables, the
  intervals first; a start may fail before, between or behind the two statements;
* `Crash`: one process dies, and both sides lose their jobs;
* `RealtimeInsert` and the storing step of `IntervalJob`: `insert_pending_operations`
  makes pending rows (`Inserted`) of operations the interval side has learnt of;
* `HasRoom`: `for_each_concurrent` has `Concurrency` slots for jobs of both kinds. Each
  side keeps its own bound as well, which the shared one implies.

It instantiates the proof modules, so that their theorems can be cited of the two
instances.

### DaCelestia

`PollForNewJobs` is `new_jobs`. `unprocessed_jobs` takes three steps, because jobs
run between its statements: `LoadLastKnown`, `FindGaps` (the gaps between rows) and
`CatchUp` (the gap behind the largest row, and `catch_up_completed`). The streams
are polled only while the pool has a free slot and the poller of new heights goes
first (`select_with_strategy` with `PollNext::Left`); the model keeps both. A job
has three attempts (`vec![5, 20]`), then the height waits in `failed_jobs` for
`RetryFailedJobs`. Heights above the head always fail. `early` is a history
variable: a poll has found heights before the gap scan was done. With the default
delays (`catchup_interval` 0, `polling_interval` 12 seconds) this takes a slow or
failed first scan.

### DaEigenDa

`Boot` is `EigenDA::new`: `start_from`, `last_known_block` one below it, and the
gaps of the table of batches (`FirstGap`, `InnerGaps`, `LastGap` are the queries of
`find_gaps`). `PollForNewJobs` is `new_jobs`. `CatchUp` is one call of
`unprocessed_jobs`: the gaps are searched in order, each from its start on in
pieces of `batch_size + 1` blocks up to the first piece with logs (`SoftLogs`);
saved batches on an edge are skipped (`OnEdge`); the search stops at the first
block with an unprocessed batch and cuts the gap behind it (`Rest`). An empty
answer ends the catch up (`catchDone`, the `take_while` of `indexer.rs`).
`RetrieveBlob`, `EndOfBlobs` and `SaveBatch` are the awaits of `process_job`, which
a failure or a crash may separate; `FailJob` is an attempt that fails, for a fault or
because nothing was found of a recent batch.

Two weaknesses of the code are in the model and named in the properties:
* `last_known_block - job.block_number` is a `u64` difference. For a batch newer
  than `last_known_block` (the gaps reach one block past it, and an answer of a node
  that lags moves it back) it wraps, the batch passes for old and is saved with no
  blobs. `wrapped` records it, and `CountIsWhole` excepts those batches.
* The catch up stops at an empty answer although gaps remain, if a gap begins with
  a saved batch and a stretch without batches that is longer than a request.
  `CatchUpComplete` has the premise `Dense`, and `EveryBatchIndexed` excepts
  batches in a gap that was left so.

### UserOpsIndexer

`inc` and `ver` are the block a transaction is in and how often it was included;
the latter stands for the block hash. `GetBlockNumber`, `Subscribe` and `Launch` are
the awaits of `start()`; blocks in between reach neither stream (`slipped`). The
database stream of `Launch` reads the tables `logs` and `blocks`, which Blockscout
fills at its own pace: `BlockscoutViews` are the states they may be in, from not
showing a transaction to showing it in a block that is gone. What the stream does not
find is not looked for before the next `start()` (`slipped` too). `Poll` is
one step of `poll_for_realtime_jobs` (`PollFrom`, `PollTo`: the overlap and the
largest range); it asks for a block only when there is another one behind it.
`TakeJob` is the cache: `Put` evicts any other job, the least recently used one
among them, and a hit may count as expired. `FetchTx` and `UpsertMany` are the two
halves of `handle_tx`; a re-org may come between them, and a handler may store
an older inclusion over a newer one (`raced`). `FailTx` repeats three times, then
skips (`gaveUp`). `PastDbFinished` and `PastRpcFinished` send the status messages,
which happens when a stream is used up, not when its jobs are done.
`finished_past_indexing` is what the API makes of the flags. They outlive `start()`: when
the loop starts the indexer again, they are set although the past streams are open
anew. `stale` records the flags that were set before, and `PastCovered` excepts only
what waits in a stream with such a flag. `StreamsEnd`,
`BackendGone` and `StartFails` return to the server's loop, `Crash` kills the process.

### StatsUpdate

A task is a group or the on-demand executor. `Begin` fixes what an update locks
(`ToLock`: the members and all they depend on) and `Lock` takes one mutex at a
time in the order of the ids (`lock_in_order`). `ReadChart` and `WriteChart` are the
two halves of the update of one chart, so that others may run in between.
`StartGroup`, `QueueGroup`, `RunInitialUpdate` and `RunCron` are
`wait_for_start_condition`, `run_initial_update` and `run_cron`; `tracker` is `InitialUpdateTracker`.
`HandleUpdateRequest`, `ReceiveRequest`, `NextGroup`, `SetNextUpdateFrom` and
`RequestDone` are the on-demand path. `CheckBlockscoutStatus`, `CheckUserOpsStatus`
and `CheckFails` are the status aggregator, which ends the service after
`RETRIES` errors. The data of a chart is the version of Blockscout's data it was
computed from; a set-back (`dirty`) makes the next update recompute it.

What the code does and a reader might not expect: an initial update counts as
completed even if it failed; an error ends the rest of the group's update;
requests in the channel are lost when the process ends; on-demand updates are
not held back by the start condition, so `ComputedWhenIndexed` is about the tasks
of groups.

### Pagination

One client walks one list. `NextPage` and `LastPage` are the two answers of
`LIMIT page_size + 1`; `FromToken` and `NextToken` differ from list to list as the
queries do. `Change` is a write of the indexer between two pages. The exceptions
in `Reliable` and `Orderly` are what the queries cannot promise:
* TAC operations continue strictly below the last timestamp, so operations that
  share it are skipped when a page ends between them (`tied`);
* `list_bundlers` sorts by `total_bundles` but continues by `total_ops`. With A (1
  bundle, 3 operations), B (2 bundles, 2 operations) and pages of one, the first
  page is B and its token, A's count, gives B again for ever (`crossed`);
* the outer `SELECT` of `list_accounts` is not sorted: accounts may be repeated
  and the walk need not end, but none is skipped.

### Abstractions

* Time is whole seconds; a retry delay is `none`, `future` or `past`.
* Transactions are single steps; `SKIP LOCKED` claims are serialised.
* A block with its blobs, and an operation with its stages, transactions and meta
  info, are single elements: each is written in one transaction.
* Interval jobs and operation jobs share one pool in the code. Each module has a
  pool of its own; `TacSystem` has the one they share.
* A paged list of the remote service is answered from one state of it.
* Priorities between the TAC streams (`prio_left`) are left open: every order the
  code can take is among the modelled ones. The price is that a liveness property
  relies on the fairness below.
* EigenDA: `unprocessed_jobs` is one step, since it holds the mutex of the gaps
  throughout and a batch saved meanwhile is at most processed twice; failed requests of the streams
  change nothing and are stuttering steps; the L1 chain does not re-org and its logs
  can be parsed; `start_block` is not above the head.
* User operations: the operations of a transaction are one row; a transaction that
  cannot be parsed is not retried and not modelled; removed logs and an overflow of
  the subscription's buffer are left out; all three streams are enabled; the status
  channel is part of the send. Blockscout's tables may show a transaction that was
  re-orged in any block, which includes the ones it was in; a row the query loses to
  an error (logged and dropped) counts as not shown.
* Stats: the values of a chart and its `last_updated_at` are stored in one step. The
  code stores batch after batch and moves `last_updated_at` to the end of each
  (`BatchUpdate`), so that after a crash the next update goes on from the last batch
  stored; here the chart is as old as before until the last batch. What Blockscout has
  indexed only grows (`Index`): its ratio falling back after a re-index is left out. The set-back date is not later than
  `last_updated_at`; all conditional-start checks are enabled;
  `force_update_on_start` is `Some(_)`, as by default.

## 3. Runs

| Run | Properties | Shows |
|---|---|---|
| `tac_intervals` | `TypeOK`, `RowsDisjoint`, `WatermarkIsLastFinish`, `NoOperationLost`, `SingleOwner`, `NoOblivion`, `CompletedIsFinal` | the interval table stays a partition of the time line under every fault; nothing is lost while no fault has passed for a success |
| `tac_system` | `EveryOperationFollowed`, `HistorySettled` | the whole TAC indexer: an operation shown in time is never out of sight, from interval to settled row; and the history is settled in the end although both kinds of job compete for one slot |
| `tac_last_interval` (violation) | `EveryIntervalCompleted` | the last generated row ends at the boundary, and neither `finish < boundary` nor `start >= boundary` selects it |
| `tac_late_operation` (violation) | `NoLateOperationSkipped` | an operation shown late is passed over by the realtime boundary |
| `tac_operations` | `TypeOK`, `SingleOwner`, `NoStaleAnswer`, `CompletedIsSettled`, `NoOblivion`, `KeepsPromise`, `SettledUnlessDropped` | the life of an operation under every fault, the refinement, and that it ends settled |
| `tac_unknown_type` (violation) | `EventuallySettled` | a type answered as `UNKNOWN` is never looked at again |
| `da_celestia` | `TypeOK`, `NewHeightsAccounted`, `CatchUpCovers`, `EveryBlockIndexed` | no polled height is dropped, an undisturbed catch up is complete, every block is saved |
| `da_celestia_race` (violation) | `CatchUpMissesNothing` | a block saved between the two statements of `find_gaps` hides the gap below it |
| `da_eigen` | `TypeOK`, `BatchHasBlobs`, `CountIsWhole`, `BatchesAccounted`, `CatchUpComplete`, `EveryBatchIndexed` | rows come after all their blobs; counts are whole; no batch is dropped by polls, gaps, failures or restarts; each is saved in the end |
| `user_ops` | `TypeOK`, `PollerCovers`, `NoJobDropped`, `PastCovered`, `EveryOpIndexed` | overlap, cache, handlers and restarts lose no operation to a re-org; `finished_past_indexing` is not said too early |
| `stats_update` | `TypeOK`, `NoCircularWait`, `SetBackNotLost`, `ComputedWhenIndexed`, `NeverOlder`, `InitialUpdatesComplete`, `SetBackRecomputed` | the lock order works, updates do not overwrite each other, groups wait for what they need, and everything asked for is done |
| `pagination` | `EachRowOnce`, `WalkEnds` | following the tokens shows each row that stayed once, while rows are written |

A *violation* run is one where the code does something else than a comment or the
documentation says; `findings` in `PROJECT.json` quotes the line.

### Bounds, and why they are enough

* Intervals: three operations, at seconds 2, 4 and 6: one in the history, one
  inside the realtime lag, one in the future of the first deployment (`InitTime`
  4, lag 1). With `Period` 2 and `DbBatchSize` 1 the first start writes two rows
  in two transactions, the second cut at the boundary, and a restart writes more.
  `QueryBatch` 2 and `Concurrency` 2 let jobs of two streams run at once. Two
  faults are enough for a fault, a crash, and a recovery that meets the next one;
  all eleven kinds may occur, and one operation may be shown late.
* Operations: two rows, one passing through `UNKNOWN`, one through a pending and a
  final type; two faults of six kinds; pool and batch of two.
* TAC system: one operation in second 4, which by the clock at the start falls to an
  interval of the history, the row around the boundary or the realtime thread; it is
  answered as pending, then as rolled back. The pool has one slot, so interval and
  operation jobs really compete; one fault on each side, of six and three kinds. Two
  operations meet only in the pool and in the batches of a claim, which the runs of
  the two sides have.
* Celestia: `start_height` 4 above a first head of 2, so the gap scan hands out
  heights that do not exist yet; head up to 5; two slots; four faults, which
  exhaust the three attempts of a job and leave one for a crash. The race needs
  neither faults nor more than three heights, and starts from the local head.
* EigenDA: two chains of three batches: one with a stretch longer than a request
  reaches (the empty answer), one dense with two batches in a block (the edges).
  One batch is served late, one may be pruned; two blobs in pieces of two; two
  faults of three kinds.
* User operations: one transaction, since jobs of different transactions meet only in
  cache and pool: one inclusion at each side of a re-org, copies in three streams,
  two handlers, a cache of one. `InitHead` 2 gives the database stream a block of its
  own at the first start. With heads up to 4, two re-orgs pass as well (1.9 million
  states), and with heads up to 3 the invariants for two transactions (4.3 million).
* Stats: a chart that depends on one of another group, each with its own requirement, one
  permit, one request out of three kinds, one fault. A version with three charts
  passes the invariants and `NeverOlder` (5.1 million states).
* Pagination: every table of up to three rows and three keys, all four kinds of
  lists, pages of one, one write. Two writes (1.1 million states) and four rows with pages of
  two pass as well.
* Deadlock is checked except where the system really stops: in `tac_intervals` and `tac_system` an
  indexer whose `start()` failed, in `user_ops` one that has exited because realtime is
  off, in `pagination` a walk that is done.

### Fairness

Weak fairness on every step a live runtime takes by itself: polling of streams,
jobs and the realtime thread, timers, the clock, and the start of a process that
died (the server loop or the orchestrator restarts it). Each TAC stream sleeps
after a batch, so `prio_left` cannot starve the lower ones for ever. No fairness
on faults, on the remote service's progress through a lifecycle, or on a restart
after `start()` returned `Err`. In `da_celestia` the chain grows (up to its
bound), because a height above the head can only be saved once it exists.

Strong fairness is used where a step is enabled again and again but not all the
time. In `tac_system`: the jobs of each side, which need a slot of the shared pool
before they begin; every stream sleeps after each of its batches, so the streams
`prio_left` puts first leave the pool to the others again and again. In `da_eigen`: `PollForNewJobs` and `CatchUp`, which need a free slot; a job
that fails holds it for its backoff only and then waits for `retry_interval`. In
`stats_update`: `Lock` and `RunInitialUpdate`, as tokio's mutex and semaphore serve
waiters in order. A confirmed batch is served by the disperser in the end, and
Blockscout finishes indexing.

## 4. Proofs

All theorems hold for every value of the constants allowed by the modules'
`ConstantsAssumption`; no bound of a run is used.

*TacIntervalsProofs.* `TypeCorrect` needs `RealtimeLag <= now` besides the types,
since the boundary is a difference. `RowsDisjoint` is not inductive: a new row is
disjoint from the old ones only because it starts at or behind the watermark and
the watermark ends all rows. `Timeline` adds that (`watermark <= genFrom` while
generating, `watermark <= realtimeBnd` while running) and gives
`RowsNeverOverlap`, `WatermarkEndsRows` and `WatermarkNeverBack`; the arithmetic
of a chunk is in `StepMonotone`, `StepCover` and the chunk lemmas. `Ownership`
(jobs hold `processing` rows, one each; no jobs unless running) gives
`RowsHaveOneOwner` and `CompletedRowsFinal`. `NothingLost` is the main result:
`Coverage` says what clock, tables, answers held in memory and jobs know of the
remote service, and the inductive invariant is
`TypeInv /\ Timeline /\ Ownership /\ (Truthful => Coverage)`. The log of faults
only grows, so a state reached truthfully has truthful predecessors.
`NoRowForgotten` proves `NoOblivion`: a claimed row has its job (`Ownership` and its
converse), a failed one its retry time, a pending one ends before the boundary,
starts behind it or straddles it, and since rows are disjoint only one straddles.

*TacOperationsProofs.* The invariant joins `TypeOK`, `SingleOwner`,
`VersionsOrdered` (table <= answer of a job <= remote service, and a job about to
complete an operation has a reason) and `CompletedIsSettled`. From it follow the
invariants, among them `AnswersNotStale` (a job holds its row alone, so nobody stores
later stages between its request and its transaction), and `KeepsThePromise`,
`Spec => KeepsPromise`: initial states map to initial states and every step to
`Show` or a stutter. Without single ownership a job with an old answer could move
the shown stages back. `NoRowForgotten` is `NoOblivion`: besides the converse of single
ownership it needs that a pending row has no type, type `PENDING` or type `UNKNOWN`, as
those are the three the `WHERE` clauses tell apart.

*TacSystemProofs.* `ImplementsOperations` and `ImplementsIntervals`: every step of the
system is a step or a stutter of either side. The first is proved first, because the
second needs what the operation side knows: `stored` is read off `table`, and only
insertions change which rows are absent. With them every safety theorem about a side
holds of the system. `NothingForgotten` is the result neither side has alone: an operation
shown in time is stored or owed (`NothingLost`, `Accounted`); if owed, the interval
that owes it is attended (`NoRowForgotten` of intervals), and if stored, its row is
(`NoRowForgotten` of operations). It excepts what `Recoverable` excludes, the faults
the code drops with a log line or takes for success.

*DaCelestiaProofs.* `PolledHeightsKept`: streams and pool only pass heights on
(`NothingDropped`), and the gap scan has queued nothing before it is done, so it
overwrites nothing. `CatchUpComplete`: while no poll came early, nothing is
processed during the scan (`ScanUndisturbed`), so its statements see one table,
and each height without a row lies between the genesis row and the largest one, or
behind the latter (`GapsComplete`). `ImplementsJobPool` is the refinement of `JobPool`: a
step begins or ends a run of the process, offers jobs, saves one that is held, or
moves jobs between streams, pool and `failed_jobs` without losing any (`Quiet`).

*DaEigenDaProofs.* `TypeCorrect` needs `lastKnown <= head` and that a job holds no
more unsaved blobs than it counted. `RowAfterBlobs` adds `JobsSaved`: what a job
has counted is in the table or among the blobs it holds, and everything is in the
table before the row. `CountsAreWhole` adds `JobsWhole`: while the disperser does not
serve a batch nothing of it was counted, so a job can end short only behind the
pruning, or with nothing. `NoBatchDropped` is the main result. `GapsCover`: a batch
without a row lies before the first row, between two neighbours, or behind the last one
of the rows, and a gap covers each case. `SearchKeeps`: since a request takes
earlier blocks first (`SoftFirst`, by monotony of the quotient), what a search passes
over is saved. `StaysOnTheWay`: queues, pool and `failed_jobs` hand batches on. The
premise `LaterStart` excludes `start_block` 0 for a contract that is there in
block 0: then `last_known_block`, a saturating difference, already covers block 0.
`CatchUpLeavesNothing` is `CatchUpComplete`, from `BatchesAccounted`: an empty answer of a
search leaves no gap with an unsaved batch, because the gap begins at a saved batch or
before the first one, and on a dense chain (`Dense`: neighbours lie no further apart than
a request reaches) the next batch is in the first piece asked for. Without `Dense` it is
false, which is the second weakness of section 2. `ImplementsJobPool` is the refinement
Celestia has too, through the common lemmas `HeldStays` and `SavesBatch`.

*UserOpsIndexerProofs.* `Known` bounds what rows, jobs and handlers have seen by the
inclusions there are. `PollerMissesNothing` adds `Behind`: the poller is not ahead of the
chain, so a re-org, which is no deeper than the overlap (`SmallReorgs`), brings
transactions only to blocks the poller reads again. `CacheDropsNoWork` is not inductive: `Offers` says of each job
that went through the cache that the row is as new, or a handler that has fetched
nothing older is at it, or it was given up or lost a race. `PastIsCovered` assumes `WholePast`,
that the range of the database stream begins at block 1 and meets the blocks read
again; `WholePastMet` shows that `start_block` 1 with `end_block` 0 does. `PastHeld`: what
the past streams were made to find is seen to or in one of them, and a stream at its
end is empty. `FlagsMean`: a flag that this `start()` has set belongs to a stream at its
end.

*StatsUpdateProofs.* `NeverDeadlocked`: a task holds only mutexes below those it
still waits for (`Locking`), so of the finitely many mutexes waited for in a circle the
greatest has an owner who would wait for a greater one. `SomeTaskGoesOn` follows: while
a task waits, some task is updating or the next mutex of a waiting one is free. `SetBackKept` and
`ChartsNeverOlder` rest on `UnderLock`: a task reads, writes and sets back only charts it
has locked; `Versions` adds that a chart is no newer than what it is computed from.
`GroupsStartInTime` rests on `Started`: a group past its start condition has all
requirements met, and what is indexed stays so.

*PaginationProofs.* `EachRowOnceHolds`: rows shown lie before the token and reliable
rows not shown do not (`Between`); it holds for any page size and any number of
writes. `Histories` says what `stayed`, `tied` and `crossed` record.

Only model-checked: the liveness properties (`HistorySettled`,
`SettledUnlessDropped`, `EveryBlockIndexed`, `EveryBatchIndexed`, `EveryOpIndexed`,
`InitialUpdatesComplete`, `SetBackRecomputed`, `WalkEnds`), which rest on fairness,
out of the prover's reach. Every invariant and action property of a passing run is a
theorem. `WatermarkMonotone`, both refinements of `JobPool` and those of `TacSystem` are
theorems only: they have no run of their own.

## 5. Plan

Done, in this order:

1. `TacIntervals`, `TacOperations` with `TacLifecycle`, `DaCelestia`; their proofs.
2. `DaEigenDa`, `UserOpsIndexer`, `StatsUpdate`, `Pagination`; their proofs.
3. Proofs of both `NoOblivion` and of `CatchUpComplete`; `JobPool` and its two
   refinements.
4. `TacSystem`: the composition, its run and its proofs.

Left:

5. An abstract specification for `UserOpsIndexer` and `StatsUpdate` as `JobPool` is for
   the DA indexers, with the refinement proved.
6. The safety half of the liveness properties, where it is not a theorem yet: that a
   state in which no job can proceed is one where nothing is left to do.

## 6. Not modelled

Most of the repository keeps no state between requests, and is left out for that
reason rather than for lack of a model:

* the verifiers (Solidity, Vyper, Stylus, Fluent, proxy) and the visualizer run external
  compilers or tools on one request; what they compute is bytes and text;
* the bytecode database, ENS, multichain aggregator and search, and the signature
  provider are SQL queries, views and formats behind request handlers, each request
  one transaction of PostgreSQL or a merge of remote answers;
* the charts of stats are some two hundred SQL queries; the machinery that decides when
  they run is `StatsUpdate`, what they compute is not modelled;
* the L2 router, configuration, tracing, environment collection, the launcher and the
  shared libraries are glue; entities, protobuf code and migrations are generated or
  declarative.

Within the modelled services: L1 re-orgs in EigenDA, parsing of blobs, calldata
and traces, the statistics of the TAC API, look-ups by hash or address, and the
text form of page tokens.

`components` in `PROJECT.json` lists each part with its reason, and `hazards`
lists what in this code is hard to test, with the property that watches it or the
reason why none does.
