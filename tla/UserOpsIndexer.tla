---------------------------- MODULE UserOpsIndexer ----------------------------
(***************************************************************************)
(* The user operations indexer of one entry point version                  *)
(* (user-ops-indexer-logic/src/indexer/base_indexer.rs, status.rs, and the *)
(* restart loop of user-ops-indexer-server/src/indexer.rs).  Transactions  *)
(* that hold user operations come from three streams: new logs (a ws       *)
(* subscription, or a poller that reads overlapping block ranges), logs    *)
(* that Blockscout's database has without operations, and the logs of the  *)
(* last blocks.  A cache drops jobs seen before; up to `concurrency`       *)
(* handlers fetch a transaction and upsert its operations.  Re-orgs move   *)
(* transactions to other blocks while all this goes on.                    *)
(***************************************************************************)
EXTENDS Integers, FiniteSets

CONSTANTS
    Txs,               \* transactions with user operations
    Slots,             \* the pool of try_for_each_concurrent
    Transports,        \* the kinds of realtime stream considered
    PollingBlockRange, \* settings.realtime.polling_block_range
    MaxBlockRange,     \* settings.realtime.max_block_range
    RpcBlockRange,     \* settings.past_rpc_logs_indexer.block_range
    DbStart, DbEnd,    \* settings.past_db_logs_indexer.start_block, end_block
    CacheSize,         \* settings.deduplication_cache_size, at least 1
    InitHead,          \* the head of the chain when the service is first deployed
    MaxHead,           \* bound: the chain stops here
    ReorgDepth,        \* a re-org replaces at most so many blocks
    MaxReorgs,         \* bound: how many re-orgs may happen
    FaultKinds,        \* the faults that may happen
    MaxFaults          \* bound: how many faults may happen in all

AllFaults ==
    {"start",    \* a request or statement of start() fails
     "handle",   \* a request or statement of handle_tx fails
     "gone",     \* the ws connection is lost: BackendGone, or the subscription ends
     "crash"}    \* the process dies

NoTx == "none"

ASSUME ConstantsAssumption ==
    /\ NoTx \notin Txs
    /\ Transports \subseteq {"ws", "http", "off"}
    /\ PollingBlockRange \in Nat /\ MaxBlockRange \in Nat
    /\ PollingBlockRange <= MaxBlockRange
    /\ RpcBlockRange \in Nat /\ DbStart \in Int /\ DbEnd \in Int
    /\ CacheSize \in Nat \ {0}
    /\ InitHead \in Nat \ {0} /\ MaxHead \in Nat
    /\ ReorgDepth \in Nat /\ MaxReorgs \in Nat
    /\ FaultKinds \subseteq AllFaults /\ MaxFaults \in Nat

(* The overlap is there "to recover from small re-orgs". *)
ASSUME SmallReorgs == ReorgDepth <= PollingBlockRange

VARIABLES
    head,       \* the head of the chain
    inc,        \* inc[t]: the block that includes t, 0 while none does
    ver,        \* ver[t]: how often t was included; stands for the hash of its block
    reorgs,     \* re-orgs so far
    rows,       \* rows[t]: the inclusion of t the table user_operations shows, 0 for none
    transport,  \* the realtime stream: "ws", "http" or "off" (fixed)
    pc,         \* of start(): "down", "starting", "subscribed", "running"; or "exited"
    startBlock, \* block_number of start()
    from, current,   \* the state of poll_for_realtime_jobs
    rtQ,        \* jobs of the realtime stream that wait to be taken
    rtOpen,     \* the realtime stream has not ended
    dbQ, dbOpen,     \* the stream of logs from the database
    rpcQ, rpcOpen,   \* the stream of logs from the last blocks
    cache,      \* the jobs in the deduplication cache
    running,    \* running[s]: the job in slot s
    status,     \* EntryPointIndexerStatus
    offered,    \* history: jobs that went through the cache since start()
    past,       \* history: the transactions the past streams were made to find
    stale,      \* history: flags of status that an earlier start() has set
    gaveUp,     \* history: transactions skipped after the last attempt since start()
    raced,      \* history: transactions whose row an older answer overwrote since start()
    slipped,    \* history: transactions no stream was open for or found
    faults      \* faults that have happened

chainVars  == <<head, inc, ver, reorgs>>
pollVars   == <<startBlock, from, current>>
streamVars == <<rtQ, rtOpen, dbQ, dbOpen, rpcQ, rpcOpen, cache>>
histVars   == <<offered, past, stale, gaveUp, raced>>
vars == <<chainVars, rows, transport, pc, pollVars, streamVars, running, status, histVars,
          slipped, faults>>

Backoff == 3                     \* vec![5, 20, 120]: three more attempts
Idle == [tx |-> NoTx, tries |-> 0, seen |-> 0]

(* A job: a transaction and the block hash of its log; the database stream  *)
(* has none.                                                                *)
NoHash == 0
Jobs == Txs \X Nat
Flags == {"live", "past_db_logs_indexing_finished", "past_rpc_logs_indexing_finished"}

TypeOK ==
    /\ head \in Nat /\ inc \in [Txs -> Nat] /\ ver \in [Txs -> Nat] /\ reorgs \in 0..MaxReorgs
    /\ rows \in [Txs -> Nat]
    /\ \A t \in Txs : rows[t] <= ver[t]
    /\ transport \in {"ws", "http", "off"}
    /\ pc \in {"down", "starting", "subscribed", "running", "exited"}
    /\ startBlock \in Nat /\ from \in Nat /\ current \in Nat
    /\ rtQ \subseteq Jobs /\ dbQ \subseteq Jobs /\ rpcQ \subseteq Jobs /\ cache \subseteq Jobs
    /\ rtOpen \in BOOLEAN /\ dbOpen \in BOOLEAN /\ rpcOpen \in BOOLEAN
    /\ running \in [Slots -> [tx : Txs, tries : 0..Backoff, seen : Nat] \cup {Idle}]
    /\ status \in [Flags -> BOOLEAN]
    /\ offered \subseteq Jobs /\ stale \subseteq Flags
    /\ past \subseteq Txs /\ gaveUp \subseteq Txs /\ raced \subseteq Txs /\ slipped \subseteq Txs
    /\ faults \in 0..MaxFaults

-----------------------------------------------------------------------------
Fault(kind) ==
    /\ kind \in FaultKinds
    /\ faults < MaxFaults
    /\ faults' = faults + 1

Init ==
    /\ head = InitHead
    /\ inc \in [Txs -> 0..InitHead] /\ ver = [t \in Txs |-> IF inc[t] = 0 THEN 0 ELSE 1]
    /\ reorgs = 0
    /\ rows = [t \in Txs |-> 0]
    /\ transport \in Transports
    /\ pc = "down"
    /\ startBlock = 0 /\ from = 0 /\ current = 0
    /\ rtQ = {} /\ dbQ = {} /\ rpcQ = {} /\ cache = {}
    /\ rtOpen = FALSE /\ dbOpen = FALSE /\ rpcOpen = FALSE
    /\ running = [s \in Slots |-> Idle]
    /\ status = [f \in Flags |-> FALSE]
    /\ offered = {} /\ past = {} /\ stale = {} /\ gaveUp = {} /\ raced = {} /\ slipped = {}
    /\ faults = 0

-----------------------------------------------------------------------------
(* The chain *)

(* The logs of transactions S, included just now, reach the ws subscription *)
(* if there is one.  Before subscribe_logs they reach nobody.               *)
Announce(S) ==
    /\ rtQ' = IF transport = "ws" /\ rtOpen THEN rtQ \cup {<<t, ver'[t]>> : t \in S} ELSE rtQ
    /\ slipped' = IF transport = "ws" /\ pc = "starting" THEN slipped \cup S ELSE slipped

Include(S, low) ==
    /\ inc' \in {f \in [Txs -> 0..head'] :
                    \A t \in Txs : IF t \in S THEN f[t] = 0 \/ f[t] >= low ELSE f[t] = inc[t]}
    /\ ver' = [t \in Txs |-> IF t \in S /\ inc'[t] # 0 THEN ver[t] + 1 ELSE ver[t]]
    /\ Announce({t \in S : inc'[t] # 0})
    /\ UNCHANGED <<rows, transport, pc, pollVars, rtOpen, dbQ, dbOpen, rpcQ, rpcOpen, cache,
                   running, status, histVars, faults>>

(* Any transactions that wait may be in a new block. *)
NewBlock ==
    /\ head < MaxHead
    /\ head' = head + 1
    /\ Include({t \in Txs : inc[t] = 0}, head + 1)
    /\ UNCHANGED reorgs

(* The blocks from `low` on are replaced: their transactions are in other   *)
(* blocks now, or wait again.                                               *)
Reorg ==
    /\ reorgs < MaxReorgs
    /\ reorgs' = reorgs + 1
    /\ UNCHANGED head
    /\ \E low \in {h \in 1..head : h > head - ReorgDepth} :
          Include({t \in Txs : inc[t] >= low}, low)

-----------------------------------------------------------------------------
(* start() *)

Monus(a, b) == IF a >= b THEN a - b ELSE 0                \* saturating_sub

Refetch(n) == Monus(n, RpcBlockRange)                     \* rpc_refetch_block_number

(* A positive number is a block, the others count back from Refetch. *)
DbBound(n, setting) == IF setting > 0 THEN setting ELSE Monus(Refetch(n), -setting)

Between(a, b) == {t \in Txs : inc[t] # 0 /\ a <= inc[t] /\ inc[t] <= b}

(* get_logs: the jobs of a range of blocks. *)
FetchJobs(a, b) == {<<t, ver[t]>> : t \in Between(a, b)}

RpcJobs(n) == FetchJobs(Refetch(n) + 1, n)

(* Where the tables logs and blocks, which Blockscout fills at its own pace, *)
(* show the transactions: not yet (or the query loses the row to an error), *)
(* in the right block, or still in a block that a re-org has replaced.      *)
BlockscoutViews ==
    {f \in [Txs -> 0..head] :
        \A t \in Txs : \/ f[t] \in {0, inc[t]}
                       \/ ver[t] > IF inc[t] = 0 THEN 0 ELSE 1}

(* stream_unprocessed_logs_tx_hashes: transactions without operations in    *)
(* what Blockscout shows when the statement is executed.                    *)
DbJobs(n, view) ==
    {<<t, NoHash>> : t \in {u \in Txs : /\ view[u] # 0 /\ rows[u] = 0
                                       /\ DbBound(n, DbStart) <= view[u]
                                       /\ view[u] <= DbBound(n, DbEnd)}}

(* get_block_number.  A row of an earlier inclusion is found only if the    *)
(* last blocks are read again.                                              *)
GetBlockNumber ==
    /\ pc = "down"
    /\ pc' = "starting"
    /\ startBlock' = head
    /\ slipped' = slipped \cup {t \in Txs : rows[t] \notin {0, ver[t]} /\ inc[t] <= Refetch(head)}
    /\ UNCHANGED <<chainVars, rows, transport, from, current, streamVars, running, status,
                   histVars, faults>>

(* subscribe_logs, or the poller; or realtime is not enabled. *)
Subscribe ==
    /\ pc = "starting"
    /\ pc' = "subscribed"
    /\ rtOpen' = (transport # "off")
    /\ from' = startBlock /\ current' = startBlock
    /\ UNCHANGED <<chainVars, rows, transport, startBlock, rtQ, dbQ, dbOpen, rpcQ, rpcOpen,
                   cache, running, status, histVars, slipped, faults>>

(* The two past streams are made, the cache is empty, IndexerStarted is     *)
(* sent.  The database stream is to find what Blockscout shows in its       *)
(* block; what neither stream finds slips through.                          *)
Launch ==
    /\ pc = "subscribed"
    /\ pc' = "running"
    /\ \E view \in BlockscoutViews :
         /\ dbQ' = DbJobs(startBlock, view)
         /\ past' = {t \in Between(1, startBlock) :
                        inc[t] <= Refetch(startBlock) => view[t] = inc[t]}
    /\ dbOpen' = TRUE
    /\ rpcQ' = RpcJobs(startBlock) /\ rpcOpen' = TRUE
    /\ slipped' = slipped \cup {t \in Between(1, startBlock) :
                                  rows[t] = 0 /\ \A j \in dbQ' \cup rpcQ' : j[1] # t}
    /\ cache' = {} /\ offered' = {} /\ gaveUp' = {} /\ raced' = {}
    /\ stale' = {f \in Flags : status[f]}
    /\ status' = [status EXCEPT !["live"] = TRUE]
    /\ UNCHANGED <<chainVars, rows, transport, pollVars, rtQ, rtOpen, running, faults>>

(* start() returns: what it holds in memory is gone.  The loop around it    *)
(* makes a new indexer, or exits if realtime is not enabled and there was   *)
(* no error.  The status stays as it is.                                    *)
Return(next) ==
    /\ pc' = next
    /\ rtQ' = {} /\ dbQ' = {} /\ rpcQ' = {} /\ cache' = {}
    /\ rtOpen' = FALSE /\ dbOpen' = FALSE /\ rpcOpen' = FALSE
    /\ running' = [s \in Slots |-> Idle]
    /\ UNCHANGED <<chainVars, rows, transport, pollVars, histVars, slipped>>

StartFails ==
    /\ pc \in {"starting", "subscribed"}
    /\ Fault("start")
    /\ Return("down")
    /\ UNCHANGED status

Crash ==
    /\ pc \notin {"down", "exited"}
    /\ Fault("crash")
    /\ Return("down")
    /\ status' = [f \in Flags |-> FALSE]

-----------------------------------------------------------------------------
(* The streams are polled only while the pool has a free slot. *)

Polled == pc = "running" /\ \E s \in Slots : running[s] = Idle

Defect_NoOverlap == from

PollFrom == Monus(from, PollingBlockRange)

Defect_ShortRange ==
    LET to == PollFrom + MaxBlockRange - 1 IN IF to < current THEN to ELSE current

PollTo == LET to == PollFrom + MaxBlockRange IN IF to < current THEN to ELSE current

(* poll_for_realtime_jobs: one step of unfold, when the jobs of the last    *)
(* one are used up.  A request that fails changes nothing.                  *)
Poll ==
    /\ Polled /\ transport = "http" /\ rtQ = {}
    /\ \/ /\ current <= from
          /\ current' = head
          /\ UNCHANGED <<from, rtQ>>
       \/ /\ current > from
          /\ rtQ' = FetchJobs(PollFrom, PollTo)
          /\ from' = PollTo + 1
          /\ UNCHANGED current
    /\ UNCHANGED <<chainVars, rows, transport, pc, startBlock, rtOpen, dbQ, dbOpen, rpcQ, rpcOpen,
                   cache, running, status, histVars, slipped, faults>>

(* do_after: a past stream has ended, its status message is sent. *)
PastDbFinished ==
    /\ Polled /\ dbOpen /\ dbQ = {}
    /\ dbOpen' = FALSE
    /\ status' = [status EXCEPT !["past_db_logs_indexing_finished"] = TRUE]
    /\ UNCHANGED <<chainVars, rows, transport, pc, pollVars, rtQ, rtOpen, dbQ, rpcQ, rpcOpen,
                   cache, running, histVars, slipped, faults>>

Defect_FinishedEarly ==
    /\ Polled /\ rpcOpen
    /\ status' = [status EXCEPT !["past_rpc_logs_indexing_finished"] = TRUE]
    /\ UNCHANGED <<chainVars, rows, transport, pc, pollVars, streamVars, running, histVars,
                   slipped, faults>>

PastRpcFinished ==
    /\ Polled /\ rpcOpen /\ rpcQ = {}
    /\ rpcOpen' = FALSE
    /\ status' = [status EXCEPT !["past_rpc_logs_indexing_finished"] = TRUE]
    /\ UNCHANGED <<chainVars, rows, transport, pc, pollVars, rtQ, rtOpen, dbQ, dbOpen, rpcQ,
                   cache, running, histVars, slipped, faults>>

(* What the API tells of the past streams, as the messages have left it. *)
finished_past_indexing ==
    status["past_db_logs_indexing_finished"] /\ status["past_rpc_logs_indexing_finished"]

(* The ws connection is lost: the subscription ends after what it holds. *)
Disconnect ==
    /\ pc = "running" /\ transport = "ws" /\ rtOpen
    /\ Fault("gone")
    /\ rtOpen' = FALSE
    /\ UNCHANGED <<chainVars, rows, transport, pc, pollVars, rtQ, dbQ, dbOpen, rpcQ, rpcOpen,
                   cache, running, status, histVars, slipped>>

(* SelectAll has ended and so have the handlers. *)
StreamsEnd ==
    /\ pc = "running" /\ ~rtOpen /\ ~dbOpen /\ ~rpcOpen
    /\ rtQ = {} /\ running = [s \in Slots |-> Idle]
    /\ Return(IF transport = "off" THEN "exited" ELSE "down")
    /\ UNCHANGED <<status, faults>>

-----------------------------------------------------------------------------
(* The cache and the handlers *)

Defect_KeyIsTx(j) == \E k \in cache : k[1] = j[1]

(* The cache has seen j, which is its transaction and its block hash. *)
InCache(j) == j \in cache

(* cache.put: j is in, and if there are too many, one other is out.  (Which *)
(* one is the least recently used is left open.)                            *)
Put(j) ==
    IF Cardinality(cache \cup {j}) <= CacheSize THEN cache' = cache \cup {j}
    ELSE \E k \in cache \ {j} : cache' = (cache \ {k}) \cup {j}

Pop(j) ==
    \/ j \in rtQ  /\ rtQ' = rtQ \ {j}   /\ UNCHANGED <<dbQ, rpcQ>>
    \/ j \in dbQ  /\ dbQ' = dbQ \ {j}   /\ UNCHANGED <<rtQ, rpcQ>>
    \/ j \in rpcQ /\ rpcQ' = rpcQ \ {j} /\ UNCHANGED <<rtQ, dbQ>>

(* A job is taken from one of the streams.  If the cache has seen it less   *)
(* than deduplication_interval ago it is dropped, otherwise handled.        *)
TakeJob(s, j) ==
    /\ pc = "running" /\ running[s] = Idle
    /\ Pop(j)
    /\ Put(j)
    /\ offered' = offered \cup {j}
    /\ \/ InCache(j) /\ UNCHANGED running
       \/ running' = [running EXCEPT ![s] = [tx |-> j[1], tries |-> 0, seen |-> 0]]
    /\ UNCHANGED <<chainVars, rows, transport, pc, pollVars, rtOpen, dbOpen, rpcOpen, status,
                   past, stale, gaveUp, raced, slipped, faults>>

(* handle_tx: the transaction and its receipt as the node knows them now. *)
FetchTx(s) ==
    /\ running[s] # Idle /\ running[s].seen = 0
    /\ inc[running[s].tx] # 0
    /\ running' = [running EXCEPT ![s].seen = ver[running[s].tx]]
    /\ UNCHANGED <<chainVars, rows, transport, pc, pollVars, streamVars, status, histVars,
                   slipped, faults>>

(* upsert_many: the row shows what this handler fetched. *)
UpsertMany(s) ==
    LET t == running[s].tx
    IN  /\ running[s] # Idle /\ running[s].seen # 0
        /\ rows' = [rows EXCEPT ![t] = running[s].seen]
        /\ raced' = IF running[s].seen < rows[t] THEN raced \cup {t} ELSE raced
        /\ running' = [running EXCEPT ![s] = Idle]
        /\ UNCHANGED <<chainVars, transport, pc, pollVars, streamVars, status, offered, past,
                       stale, gaveUp, slipped, faults>>

Defect_ExtraAttempt(job) == job.tries <= Backoff

MoreAttempts(job) == job.tries < Backoff

(* An attempt fails: a request or statement fails, or the node has no       *)
(* receipt.  It is repeated, at last "skipping".                            *)
FailTx(s) ==
    LET job == running[s]
    IN  /\ job # Idle
        /\ \/ Fault("handle")
           \/ job.seen = 0 /\ inc[job.tx] = 0 /\ UNCHANGED faults
        /\ \/ /\ MoreAttempts(job)
              /\ running' = [running EXCEPT ![s].tries = @ + 1, ![s].seen = 0]
              /\ UNCHANGED gaveUp
           \/ /\ ~MoreAttempts(job)
              /\ running' = [running EXCEPT ![s] = Idle]
              /\ gaveUp' = gaveUp \cup {job.tx}
        /\ UNCHANGED <<chainVars, rows, transport, pc, pollVars, streamVars, status, offered,
                       past, stale, raced, slipped>>

(* BackendGone: try_for_each_concurrent returns the error at once. *)
BackendGone(s) ==
    /\ running[s] # Idle /\ transport = "ws"
    /\ Fault("gone")
    /\ Return("down")
    /\ UNCHANGED status

-----------------------------------------------------------------------------
Next ==
    \/ NewBlock \/ Reorg
    \/ GetBlockNumber \/ Subscribe \/ Launch \/ StartFails \/ Crash
    \/ Poll \/ PastDbFinished \/ PastRpcFinished \/ Disconnect \/ StreamsEnd
    \/ \E s \in Slots, j \in rtQ \cup dbQ \cup rpcQ : TakeJob(s, j)
    \/ \E s \in Slots : FetchTx(s) \/ UpsertMany(s) \/ FailTx(s) \/ BackendGone(s)

Spec == Init /\ [][Next]_vars

(* The runtime polls streams and handlers, the chain grows up to its bound, *)
(* and the server starts the indexer again when it has returned.            *)
Fairness ==
    /\ WF_vars(NewBlock)
    /\ WF_vars(GetBlockNumber) /\ WF_vars(Subscribe) /\ WF_vars(Launch)
    /\ WF_vars(Poll) /\ WF_vars(PastDbFinished) /\ WF_vars(PastRpcFinished)
    /\ WF_vars(StreamsEnd)
    /\ WF_vars(\E s \in Slots, j \in rtQ \cup dbQ \cup rpcQ : TakeJob(s, j))
    /\ \A s \in Slots : WF_vars(FetchTx(s) \/ UpsertMany(s) \/ FailTx(s))

FairSpec == Spec /\ Fairness

-----------------------------------------------------------------------------
(* Safety *)

Handled(t) == \E s \in Slots : running[s].tx = t

(* The poller misses nothing: a transaction more than polling_block_range   *)
(* blocks behind it went through the cache, or waits to, with the block it  *)
(* is in now, however the ranges overlap and re-orgs move transactions.     *)
PollerCovers ==
    pc = "running" /\ transport = "http" =>
        \A t \in Txs : inc[t] # 0 /\ startBlock <= inc[t] /\ inc[t] + PollingBlockRange < from
                          => <<t, ver[t]>> \in offered \cup rtQ

(* The cache drops only work that is done or under way: after a job went    *)
(* through it, the row shows that block or a later one, a handler is at it, *)
(* or all attempts failed.  The exception is a handler that fetched before  *)
(* a re-org and stores after the one that fetched behind it.                *)
NoJobDropped ==
    pc = "running" =>
        \A j \in offered :
            \/ rows[j[1]] # 0 /\ rows[j[1]] >= j[2]
            \/ Handled(j[1]) \/ j[1] \in gaveUp \cup raced

(* A past stream that an earlier start() of the process has reported as     *)
(* finished is open again, and t waits in it.                               *)
WaitsAnew(t) ==
    \/ "past_db_logs_indexing_finished" \in stale /\ \E j \in dbQ : j[1] = t
    \/ "past_rpc_logs_indexing_finished" \in stale /\ \E j \in rpcQ : j[1] = t

(* When the status says finished_past_indexing, the past streams' range, the *)
(* last blocks and the cache have left nothing out: every transaction up to *)
(* the block where start() began that the node has in the last blocks or    *)
(* Blockscout showed below them is saved, in a handler or given up.  (The   *)
(* flags outlive start(): after the indexer was started again in the same   *)
(* process they speak of the streams of the earlier start().)               *)
PastCovered ==
    pc = "running" /\ finished_past_indexing =>
        \A t \in past : rows[t] # 0 \/ Handled(t) \/ t \in gaveUp \/ WaitsAnew(t)

-----------------------------------------------------------------------------
(* Liveness *)

(* In the end each transaction below the last block is shown with the block *)
(* it is in, through re-orgs, failures and restarts, unless its handler     *)
(* gave up, lost the race with an older one, or no stream was open for it   *)
(* or found it.                                                             *)
(* (The poller asks for a block only when there is another one behind it.)  *)
EveryOpIndexed ==
    \A t \in Txs :
        <>[](inc[t] \in 1..(MaxHead - 1) =>
                \/ rows[t] = ver[t]
                \/ t \in gaveUp \cup raced \cup slipped
                \/ pc = "exited")
=============================================================================
