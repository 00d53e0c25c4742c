------------------------ MODULE UserOpsIndexerProofs ------------------------
(***************************************************************************)
(* The poller, the cache and the past streams of the user operations       *)
(* indexer leave no transaction out, for any chain, any re-orgs up to      *)
(* polling_block_range, any faults, pool and cache.                        *)
(***************************************************************************)
EXTENDS UserOpsIndexer, TLAPS

(* TypeOK without the order of inclusions. *)
ChainType ==
    head \in Nat /\ inc \in [Txs -> Nat] /\ ver \in [Txs -> Nat] /\ reorgs \in 0..MaxReorgs

TableType == rows \in [Txs -> Nat]

StartType ==
    /\ transport \in {"ws", "http", "off"}
    /\ pc \in {"down", "starting", "subscribed", "running", "exited"}
    /\ startBlock \in Nat /\ from \in Nat /\ current \in Nat
    /\ rtOpen \in BOOLEAN /\ dbOpen \in BOOLEAN /\ rpcOpen \in BOOLEAN
    /\ status \in [Flags -> BOOLEAN]
    /\ faults \in 0..MaxFaults

JobType ==
    /\ rtQ \subseteq Jobs /\ dbQ \subseteq Jobs /\ rpcQ \subseteq Jobs /\ cache \subseteq Jobs
    /\ offered \subseteq Jobs /\ stale \subseteq Flags
    /\ past \subseteq Txs /\ gaveUp \subseteq Txs /\ raced \subseteq Txs /\ slipped \subseteq Txs

PoolType == running \in [Slots -> [tx : Txs, tries : 0..Backoff, seen : Nat] \cup {Idle}]

Types == ChainType /\ TableType /\ StartType /\ JobType /\ PoolType

(* Nothing is newer than the chain; what the cache has seen was offered. *)
Known ==
    /\ \A t \in Txs : rows[t] <= ver[t]
    /\ \A j \in rtQ \cup dbQ \cup rpcQ \cup offered : j[2] <= ver[j[1]]
    /\ \A s \in Slots : running[s] # Idle => running[s].seen <= ver[running[s].tx]
    /\ cache \subseteq offered

(* The poller is not ahead of the chain. *)
Behind ==
    /\ startBlock <= head /\ current <= head /\ from <= head + 1
    /\ pc = "subscribed" => from = startBlock

(* A job that went through the cache is done, given up, or a handler is at  *)
(* it that has fetched nothing older.                                       *)
Settled(j) ==
    \/ rows[j[1]] # 0 /\ rows[j[1]] >= j[2]
    \/ \E s \in Slots : running[s].tx = j[1] /\ (running[s].seen = 0 \/ running[s].seen >= j[2])
    \/ j[1] \in gaveUp \cup raced

Offers == pc = "running" => \A j \in offered : Settled(j)

(* The past streams hold what has not been seen to yet. *)
PastHeld ==
    /\ \A t \in raced : rows[t] # 0
    /\ ~dbOpen => dbQ = {}
    /\ ~rpcOpen => rpcQ = {}
    /\ pc = "running" =>
         \A t \in past : \/ rows[t] # 0 \/ Handled(t) \/ t \in gaveUp
                         \/ \E j \in dbQ \cup rpcQ : j[1] = t

(* A past stream whose message this start() has sent is at its end. *)
FlagsMean ==
    pc = "running" =>
        /\ status["past_db_logs_indexing_finished"] =>
             ~dbOpen \/ "past_db_logs_indexing_finished" \in stale
        /\ status["past_rpc_logs_indexing_finished"] =>
             ~rpcOpen \/ "past_rpc_logs_indexing_finished" \in stale

(* The database is searched from the first block to the one before those    *)
(* that are read again.                                                     *)
WholePast == \A n \in Nat : DbBound(n, DbStart) <= 1 /\ DbBound(n, DbEnd) >= Refetch(n)

LEMMA Constants ==
    /\ NoTx \notin Txs
    /\ PollingBlockRange \in Nat /\ MaxBlockRange \in Nat /\ PollingBlockRange <= MaxBlockRange
    /\ RpcBlockRange \in Nat /\ InitHead \in Nat /\ InitHead > 0
    /\ ReorgDepth \in Nat /\ ReorgDepth <= PollingBlockRange
    /\ MaxReorgs \in Nat /\ MaxFaults \in Nat
BY ConstantsAssumption, SmallReorgs

LEMMA FaultType ==
    ASSUME faults \in 0..MaxFaults, NEW k, Fault(k)
    PROVE  faults' \in 0..MaxFaults
BY Constants DEF Fault

-----------------------------------------------------------------------------
(* Types *)

LEMMA FetchType ==
    ASSUME ChainType, NEW a, NEW b
    PROVE  /\ FetchJobs(a, b) \subseteq Jobs
           /\ \A j \in FetchJobs(a, b) : j[2] <= ver[j[1]]
<1>1. Between(a, b) \subseteq Txs
  BY DEF Between
<1>2. \A t \in Txs : ver[t] \in Nat /\ ver[t] <= ver[t]
  <2> TAKE t \in Txs
  <2>1. ver[t] \in Nat
    BY DEF ChainType
  <2> QED BY <2>1
<1>3. \A j \in FetchJobs(a, b) : \E t \in Txs : j = <<t, ver[t]>>
  BY <1>1 DEF FetchJobs
<1> QED BY <1>2, <1>3 DEF Jobs

LEMMA DbType ==
    ASSUME ChainType, NEW n, NEW view
    PROVE  /\ DbJobs(n, view) \subseteq Jobs
           /\ \A j \in DbJobs(n, view) : j[2] <= ver[j[1]]
<1>1. \A j \in DbJobs(n, view) : \E t \in Txs : j = <<t, NoHash>>
  BY DEF DbJobs
<1>2. \A t \in Txs : ver[t] \in Nat /\ 0 <= ver[t]
  <2> TAKE t \in Txs
  <2>1. ver[t] \in Nat
    BY DEF ChainType
  <2> QED BY <2>1
<1> QED BY <1>1, <1>2 DEF Jobs, NoHash

LEMMA IncludeType ==
    ASSUME Types, NEW S \in SUBSET Txs, NEW low, head' \in Nat, Include(S, low)
    PROVE  /\ inc' \in [Txs -> Nat] /\ ver' \in [Txs -> Nat]
           /\ \A t \in Txs : ver'[t] >= ver[t]
           /\ \A t \in Txs : ver'[t] = ver[t] \/ (t \in S /\ inc'[t] # 0)
           /\ rtQ' \subseteq Jobs /\ slipped' \subseteq Txs
           /\ \A j \in rtQ' \ rtQ : j[2] <= ver'[j[1]]
           /\ transport # "ws" => rtQ' = rtQ
<1>1. inc' \in [Txs -> Nat]
  BY DEF Include
<1>2. \A t \in Txs : ver[t] \in Nat /\ ver'[t] = IF t \in S /\ inc'[t] # 0 THEN ver[t] + 1 ELSE ver[t]
  BY DEF Include, Types, ChainType
<1>3. ver' \in [Txs -> Nat]
  <2>1. \A t \in Txs : ver'[t] \in Nat
    BY <1>2
  <2>2. ver' = [t \in Txs |-> ver'[t]]
    BY DEF Include
  <2> QED BY <2>1, <2>2
<1>4. \A t \in Txs : ver'[t] >= ver[t] /\ ver'[t] <= ver'[t] /\ ver'[t] \in Nat
  BY <1>2
<1>5. rtQ' \subseteq rtQ \cup {<<t, ver'[t]>> : t \in S}
  BY DEF Include, Announce
<1>6. \A j \in rtQ' \ rtQ : \E t \in Txs : j = <<t, ver'[t]>>
  BY <1>5
<1>7. slipped' \subseteq Txs
  BY DEF Include, Announce, Types, JobType
<1>8. rtQ' \subseteq Jobs
  BY <1>4, <1>6 DEF Types, JobType, Jobs
<1>9. transport # "ws" => rtQ' = rtQ
  BY DEF Include, Announce
<1> QED BY <1>1, <1>2, <1>3, <1>4, <1>6, <1>7, <1>8, <1>9

LEMMA MonusType ==
    ASSUME NEW a \in Nat, NEW b \in Nat
    PROVE  Monus(a, b) \in Nat /\ Monus(a, b) <= a
BY DEF Monus

LEMMA PollType ==
    ASSUME Types
    PROVE  PollFrom \in Nat /\ PollTo \in Nat /\ PollTo <= current
<1>1. PollFrom \in Nat
  BY MonusType, Constants DEF PollFrom, Types, StartType
<1> QED BY <1>1, Constants DEF PollTo, Types, StartType

LEMMA InitTypes == Init => Types /\ Known /\ Behind
<1> SUFFICES ASSUME Init PROVE Types /\ Known /\ Behind
  OBVIOUS
<1>1. ChainType
  BY Constants DEF Init, ChainType
<1>2. TableType /\ StartType /\ JobType /\ PoolType
  <2>1. TableType /\ JobType /\ PoolType
    BY DEF Init, TableType, JobType, PoolType
  <2>2. transport \in {"ws", "http", "off"}
    BY ConstantsAssumption DEF Init
  <2>3. StartType
    <3>1. startBlock \in Nat /\ from \in Nat /\ current \in Nat /\ faults \in 0..MaxFaults
      BY Constants DEF Init
    <3>2. rtOpen \in BOOLEAN /\ dbOpen \in BOOLEAN /\ rpcOpen \in BOOLEAN /\ status \in [Flags -> BOOLEAN]
      BY DEF Init
    <3>3. pc = "down"
      BY DEF Init
    <3> QED BY <2>2, <3>1, <3>2, <3>3 DEF StartType
  <2> QED BY <2>1, <2>3
<1>3. Known
  <2>1. \A t \in Txs : rows[t] = 0 /\ ver[t] \in Nat
    BY <1>1 DEF Init, ChainType
  <2>2. \A n \in Nat : 0 <= n
    OBVIOUS
  <2>3. \A s \in Slots : running[s] = Idle
    BY DEF Init
  <2>4. rtQ \cup dbQ \cup rpcQ \cup offered = {} /\ cache = {}
    BY DEF Init
  <2> QED BY <2>1, <2>2, <2>3, <2>4 DEF Known
<1>4. Behind
  <2>1. startBlock = 0 /\ current = 0 /\ from = 0 /\ head \in Nat
    BY Constants DEF Init
  <2> QED BY <2>1 DEF Behind
<1> QED BY <1>1, <1>2, <1>3, <1>4 DEF Types

(* What start() forgets when it returns. *)
LEMMA ReturnType ==
    ASSUME Types, Known, NEW next \in {"down", "exited"}, Return(next), Behind,
           status' \in [Flags -> BOOLEAN], faults' \in 0..MaxFaults
    PROVE  Types' /\ Known' /\ Behind' /\ pc' # "running"
<1> USE DEF chainVars, pollVars, histVars
<1>1. Types'
  BY DEF Return, Types, ChainType, TableType, StartType, JobType, PoolType
<1>2. Known'
  BY DEF Return, Known
<1>3. Behind'
  BY DEF Return, Behind
<1> QED BY <1>1, <1>2, <1>3 DEF Return

LEMMA TypeStep ==
    ASSUME Types, Known, Behind, [Next]_vars
    PROVE  Types' /\ Known' /\ Behind'
<1> USE DEF chainVars, pollVars, streamVars, histVars
<1>0. /\ head \in Nat /\ faults \in 0..MaxFaults
      /\ \A t \in Txs : ver[t] \in Nat /\ rows[t] \in Nat
  BY DEF Types, ChainType, TableType, StartType
<1>1. CASE UNCHANGED vars
  BY <1>1 DEF vars, Types, ChainType, TableType, StartType, JobType, PoolType, Known, Behind
<1>2. CASE NewBlock \/ Reorg
  <2>1. /\ head' \in Nat /\ head' >= head /\ reorgs' \in 0..MaxReorgs
        /\ \E S \in SUBSET Txs : \E low : Include(S, low)
    <3>1. CASE NewBlock
      <4>1. head' = head + 1 /\ reorgs' = reorgs /\ Include({t \in Txs : inc[t] = 0}, head + 1)
        BY <3>1 DEF NewBlock
      <4>2. head' \in Nat /\ head' >= head
        BY <1>0, <4>1
      <4> QED BY <4>1, <4>2 DEF Types, ChainType
    <3>2. CASE Reorg
      <4>1. head' = head /\ reorgs < MaxReorgs /\ reorgs' = reorgs + 1 /\ reorgs \in 0..MaxReorgs
        BY <3>2 DEF Reorg, Types, ChainType
      <4>2. \E low : Include({t \in Txs : inc[t] >= low}, low)
        BY <3>2 DEF Reorg
      <4>3. head' >= head /\ reorgs' \in 0..MaxReorgs
        BY <1>0, <4>1, Constants
      <4> QED BY <1>0, <4>1, <4>2, <4>3
    <3> QED BY <1>2, <3>1, <3>2
  <2>2. /\ inc' \in [Txs -> Nat] /\ ver' \in [Txs -> Nat]
        /\ \A t \in Txs : ver'[t] >= ver[t]
        /\ rtQ' \subseteq Jobs /\ slipped' \subseteq Txs
        /\ \A j \in rtQ' \ rtQ : j[2] <= ver'[j[1]]
    BY <2>1, IncludeType
  <2>3. UNCHANGED <<rows, transport, pc, pollVars, rtOpen, dbQ, dbOpen, rpcQ, rpcOpen, cache,
                    running, status, histVars, faults>>
    BY <2>1 DEF Include
  <2>4. Types'
    BY <2>1, <2>2, <2>3 DEF Types, ChainType, TableType, StartType, JobType, PoolType
  <2>5. \A t \in Txs : \A n \in Nat : n <= ver[t] => n <= ver'[t]
    BY <1>0, <2>2
  <2>6. \A j \in rtQ \cup dbQ \cup rpcQ \cup offered : j[1] \in Txs /\ j[2] \in Nat
    BY DEF Types, JobType, Jobs
  <2>7. \A j \in rtQ' \cup dbQ' \cup rpcQ' \cup offered' : j[2] <= ver'[j[1]]
    BY <2>2, <2>3, <2>5, <2>6 DEF Known
  <2>8. \A s \in Slots : running[s] # Idle => running[s].tx \in Txs /\ running[s].seen \in Nat
    BY DEF Types, PoolType
  <2>9. Known'
    BY <1>0, <2>3, <2>5, <2>7, <2>8 DEF Known
  <2>10. Behind'
    <3>1. startBlock \in Nat /\ current \in Nat /\ from \in Nat
      BY DEF Types, StartType
    <3>2. head \in Nat /\ head' \in Nat /\ head' >= head
      BY <1>0, <2>1
    <3>3. startBlock <= head /\ current <= head /\ from <= head + 1
      BY DEF Behind
    <3>4. startBlock <= head' /\ current <= head' /\ from <= head' + 1
      <4>1. \A a, h, k \in Nat : (a <= h /\ k >= h => a <= k) /\ (a <= h + 1 /\ k >= h => a <= k + 1)
        OBVIOUS
      <4> QED BY <3>1, <3>2, <3>3, <4>1
    <3> QED BY <2>3, <3>4 DEF Behind
  <2> QED BY <2>4, <2>9, <2>10
<1>3. CASE GetBlockNumber
  <2>1. Types'
    BY <1>3 DEF GetBlockNumber, Types, ChainType, TableType, StartType, JobType, PoolType
  <2>2. Known'
    BY <1>3 DEF GetBlockNumber, Known
  <2>3. Behind'
    <3>1. head <= head
      BY <1>0
    <3> QED BY <1>3, <3>1 DEF GetBlockNumber, Behind
  <2> QED BY <2>1, <2>2, <2>3
<1>4. CASE Subscribe
  <2>1. Types'
    BY <1>4 DEF Subscribe, Types, ChainType, TableType, StartType, JobType, PoolType
  <2>2. Known'
    BY <1>4 DEF Subscribe, Known
  <2>3. Behind'
    <3>1. startBlock \in Nat /\ startBlock <= head
      BY DEF Types, StartType, Behind
    <3>2. startBlock <= head + 1
      BY <1>0, <3>1
    <3> QED BY <1>4, <3>1, <3>2 DEF Subscribe, Behind
  <2> QED BY <2>1, <2>2, <2>3
<1>5. CASE Launch
  <2>0. PICK view : dbQ' = DbJobs(startBlock, view)
    BY <1>5 DEF Launch
  <2>1. /\ dbQ' \subseteq Jobs /\ rpcQ' \subseteq Jobs
        /\ \A j \in dbQ' \cup rpcQ' : j[2] <= ver[j[1]]
    BY <1>5, <2>0, FetchType, DbType DEF Launch, RpcJobs, Types
  <2>2. past' \subseteq Txs /\ slipped' \subseteq Txs /\ stale' \subseteq Flags
    BY <1>5 DEF Launch, Between, Types, JobType
  <2>3. Types'
    BY <1>5, <2>1, <2>2 DEF Launch, Types, ChainType, TableType, StartType, JobType, PoolType
  <2>4. Known'
    BY <1>5, <2>1 DEF Launch, Known
  <2>5. Behind'
    BY <1>5 DEF Launch, Behind
  <2> QED BY <2>3, <2>4, <2>5
<1>6. CASE StartFails \/ Crash \/ StreamsEnd \/ \E s \in Slots : BackendGone(s)
  <2>1. status \in [Flags -> BOOLEAN]
    BY DEF Types, StartType
  <2>2. PICK next \in {"down", "exited"} : Return(next)
    BY <1>6 DEF StartFails, Crash, StreamsEnd, BackendGone
  <2>3. status' \in [Flags -> BOOLEAN]
    BY <1>6, <2>1 DEF StartFails, Crash, StreamsEnd, BackendGone
  <2>4. faults' \in 0..MaxFaults
    BY <1>0, <1>6, FaultType DEF StartFails, Crash, StreamsEnd, BackendGone
  <2> QED BY <2>2, <2>3, <2>4, ReturnType
<1>7. CASE Poll
  <2>1. PollFrom \in Nat /\ PollTo \in Nat /\ PollTo <= current
    BY PollType
  <2>2. /\ FetchJobs(PollFrom, PollTo) \subseteq Jobs
        /\ \A j \in FetchJobs(PollFrom, PollTo) : j[2] <= ver[j[1]]
    BY FetchType DEF Types
  <2>3. /\ from' \in Nat /\ current' \in Nat /\ rtQ' \subseteq Jobs
        /\ \A j \in rtQ' : j \in rtQ \/ j \in FetchJobs(PollFrom, PollTo)
        /\ from' <= head' + 1 /\ current' <= head' /\ head' = head
    <3>1. /\ from \in Nat /\ current \in Nat /\ from <= head + 1 /\ current <= head
          /\ rtQ \subseteq Jobs /\ head <= head
      BY <1>0 DEF Types, StartType, JobType, Behind
    <3>2. PollTo + 1 <= head + 1
      BY <1>0, <2>1, <3>1
    <3> QED BY <1>0, <1>7, <2>1, <2>2, <3>1, <3>2 DEF Poll
  <2>4. UNCHANGED <<chainVars, rows, transport, pc, startBlock, rtOpen, dbQ, dbOpen, rpcQ, rpcOpen,
                    cache, running, status, histVars, slipped, faults>>
    BY <1>7 DEF Poll
  <2>5. Types'
    BY <2>3, <2>4 DEF Types, ChainType, TableType, StartType, JobType, PoolType
  <2>6. Known'
    BY <2>2, <2>3, <2>4 DEF Known
  <2>7. pc # "subscribed"
    BY <1>7 DEF Poll, Polled
  <2> QED BY <2>3, <2>4, <2>5, <2>6, <2>7 DEF Behind
<1>8. CASE PastDbFinished \/ PastRpcFinished \/ Disconnect
  <2>1. faults' \in 0..MaxFaults
    BY <1>0, <1>8, FaultType DEF PastDbFinished, PastRpcFinished, Disconnect
  <2>2. status' \in [Flags -> BOOLEAN]
    BY <1>8 DEF PastDbFinished, PastRpcFinished, Disconnect, Types, StartType
  <2>3. Types'
    BY <1>8, <2>1, <2>2 DEF PastDbFinished, PastRpcFinished, Disconnect, Types, ChainType, TableType,
                            StartType, JobType, PoolType
  <2>4. Known' /\ Behind'
    BY <1>8 DEF PastDbFinished, PastRpcFinished, Disconnect, Known, Behind
  <2> QED BY <2>3, <2>4
<1>9. ASSUME NEW s \in Slots, NEW j \in rtQ \cup dbQ \cup rpcQ, TakeJob(s, j)
      PROVE  Types' /\ Known' /\ Behind'
  <2>1. j \in Jobs /\ j[1] \in Txs /\ j[2] \in Nat /\ j[2] <= ver[j[1]]
    BY DEF Types, JobType, Jobs, Known
  <2>2. /\ rtQ' \subseteq rtQ /\ dbQ' \subseteq dbQ /\ rpcQ' \subseteq rpcQ
        /\ offered' = offered \cup {j}
    BY <1>9 DEF TakeJob, Pop
  <2>3. cache' \subseteq cache \cup {j}
    BY <1>9 DEF TakeJob, Put
  <2>4. UNCHANGED <<chainVars, rows, transport, pc, pollVars, rtOpen, dbOpen, rpcOpen, status,
                    past, stale, gaveUp, raced, slipped, faults>>
    BY <1>9 DEF TakeJob
  <2>5. JobType'
    BY <2>1, <2>2, <2>3, <2>4 DEF Types, JobType
  <2>6. \A r \in Slots : running'[r] = running[r]
                         \/ running'[r] = [tx |-> j[1], tries |-> 0, seen |-> 0]
    BY <1>9 DEF TakeJob, Types, PoolType
  <2>7. PoolType'
    BY <1>9, <2>1 DEF TakeJob, Types, PoolType, Backoff
  <2>8. Types'
    BY <2>4, <2>5, <2>7 DEF Types, ChainType, TableType, StartType
  <2>9. 0 <= ver[j[1]]
    BY <1>0, <2>1
  <2>10. \A r \in Slots : running'[r] # Idle => running'[r].seen <= ver'[running'[r].tx]
    BY <2>4, <2>6, <2>9 DEF Known
  <2>11. Known'
    BY <2>1, <2>2, <2>3, <2>4, <2>10 DEF Known
  <2>12. Behind'
    BY <2>4 DEF Behind
  <2> QED BY <2>8, <2>11, <2>12
<1>10. ASSUME NEW s \in Slots, FetchTx(s)
       PROVE  Types' /\ Known' /\ Behind'
  <2>1. /\ running[s] \in [tx : Txs, tries : 0..Backoff, seen : Nat]
        /\ ver[running[s].tx] \in Nat /\ ver[running[s].tx] <= ver[running[s].tx]
    BY <1>0, <1>10 DEF FetchTx, Types, PoolType
  <2>2. PoolType'
    BY <1>10, <2>1 DEF FetchTx, Types, PoolType
  <2>3. Types'
    BY <1>10, <2>2 DEF FetchTx, Types, ChainType, TableType, StartType, JobType
  <2>4. \A r \in Slots :
          \/ running'[r] = running[r]
          \/ running'[r].tx = running[s].tx /\ running'[r].seen = ver[running[s].tx]
    <3>1. running' = [running EXCEPT ![s].seen = ver[running[s].tx]]
      BY <1>10 DEF FetchTx
    <3>2. \A r \in Slots : r # s => running'[r] = running[r]
      BY <3>1 DEF Types, PoolType
    <3>3. running'[s] = [running[s] EXCEPT !.seen = ver[running[s].tx]]
      BY <3>1 DEF Types, PoolType
    <3>4. running'[s].tx = running[s].tx /\ running'[s].seen = ver[running[s].tx]
      BY <2>1, <3>3
    <3> TAKE r \in Slots
    <3>5. CASE r = s
      BY <3>4, <3>5
    <3>6. CASE r # s
      BY <3>2, <3>6
    <3> QED BY <3>5, <3>6
  <2>5. Known'
    BY <1>10, <2>1, <2>4 DEF FetchTx, Known
  <2>6. Behind'
    BY <1>10 DEF FetchTx, Behind
  <2> QED BY <2>3, <2>5, <2>6
<1>11. ASSUME NEW s \in Slots, UpsertMany(s)
       PROVE  Types' /\ Known' /\ Behind'
  <2>1. /\ running[s].tx \in Txs /\ running[s].seen \in Nat
        /\ running[s].seen <= ver[running[s].tx]
    BY <1>11 DEF UpsertMany, Types, PoolType, Known
  <2>2. PoolType' /\ \A r \in Slots : running'[r] = running[r] \/ running'[r] = Idle
    BY <1>11 DEF UpsertMany, Types, PoolType
  <2>3. TableType' /\ \A t \in Txs : rows'[t] = rows[t]
                                     \/ (t = running[s].tx /\ rows'[t] = running[s].seen)
    BY <1>11, <2>1 DEF UpsertMany, Types, TableType
  <2>4. raced' \subseteq Txs
    BY <1>11, <2>1 DEF UpsertMany, Types, JobType
  <2>5. Types'
    BY <1>11, <2>2, <2>3, <2>4 DEF UpsertMany, Types, ChainType, StartType, JobType
  <2>6. Known'
    BY <1>11, <2>1, <2>2, <2>3 DEF UpsertMany, Known
  <2>7. Behind'
    BY <1>11 DEF UpsertMany, Behind
  <2> QED BY <2>5, <2>6, <2>7
<1>12. ASSUME NEW s \in Slots, FailTx(s)
       PROVE  Types' /\ Known' /\ Behind'
  <2>1. running[s] \in [tx : Txs, tries : 0..Backoff, seen : Nat]
    BY <1>12 DEF FailTx, Types, PoolType
  <2>2. PoolType'
    BY <1>12, <2>1 DEF FailTx, MoreAttempts, Backoff, Types, PoolType
  <2>3. gaveUp' \subseteq Txs
    BY <1>12, <2>1 DEF FailTx, Types, JobType
  <2>4. faults' \in 0..MaxFaults
    BY <1>0, <1>12, FaultType DEF FailTx
  <2>5. Types'
    BY <1>12, <2>2, <2>3, <2>4 DEF FailTx, Types, ChainType, TableType, StartType, JobType
  <2>6. \A r \in Slots : \/ running'[r] = running[r] \/ running'[r] = Idle
                         \/ running'[r].tx \in Txs /\ running'[r].seen = 0
    BY <1>12, <2>1 DEF FailTx, Types, PoolType
  <2>7. \A t \in Txs : 0 <= ver[t]
    BY <1>0
  <2>8. Known'
    BY <1>12, <2>6, <2>7 DEF FailTx, Known
  <2>9. Behind'
    BY <1>12 DEF FailTx, Behind
  <2> QED BY <2>5, <2>8, <2>9
<1> QED
  BY <1>1, <1>2, <1>3, <1>4, <1>5, <1>6, <1>7, <1>8, <1>9, <1>10, <1>11, <1>12 DEF Next

LEMMA TypesImply == Types /\ Known => TypeOK
BY DEF Types, ChainType, TableType, StartType, JobType, PoolType, Known, TypeOK

(* Every variable keeps its type, and no row shows an inclusion that is not *)
(* yet there: a handler stores what the chain had when it fetched.          *)
THEOREM TypeCorrect == Spec => []TypeOK
BY InitTypes, TypeStep, TypesImply, PTL DEF Spec

-----------------------------------------------------------------------------
(* The poller *)

LEMMA PollerStep ==
    ASSUME Types, Behind, PollerCovers, [Next]_vars
    PROVE  PollerCovers'
<1> USE DEF chainVars, pollVars, streamVars, histVars
<1> DEFINE Passed(t) == inc[t] # 0 /\ startBlock <= inc[t] /\ inc[t] + PollingBlockRange < from
<1>0. /\ head \in Nat /\ startBlock \in Nat /\ from \in Nat /\ current \in Nat
      /\ from <= head + 1 /\ \A t \in Txs : inc[t] \in Nat
  BY DEF Types, ChainType, StartType, Behind
<1>1. CASE pc' # "running" \/ transport' # "http"
  BY <1>1 DEF PollerCovers
<1>2. CASE NewBlock \/ Reorg
  <2> SUFFICES ASSUME pc = "running", transport = "http", NEW t \in Txs, Passed(t)'
               PROVE  <<t, ver'[t]>> \in offered' \cup rtQ'
    BY <1>2 DEF PollerCovers, NewBlock, Reorg, Include
  <2>1. PICK S \in SUBSET Txs, low \in Nat :
          Include(S, low) /\ head' \in Nat /\ low + PollingBlockRange >= head + 1
    <3>1. CASE NewBlock
      <4>1. head + 1 \in Nat /\ (head + 1) + PollingBlockRange >= head + 1
        BY <1>0, Constants
      <4> QED BY <3>1, <4>1 DEF NewBlock
    <3>2. CASE Reorg
      <4>1. PICK low \in 1..head : low > head - ReorgDepth /\ Include({u \in Txs : inc[u] >= low}, low)
        BY <3>2 DEF Reorg
      <4>2. low \in Nat /\ low + PollingBlockRange >= head + 1
        BY <1>0, <4>1, Constants
      <4> QED BY <1>0, <3>2, <4>1, <4>2 DEF Reorg
    <3> QED BY <1>2, <3>1, <3>2
  <2>2. /\ ver'[t] = ver[t] \/ (t \in S /\ inc'[t] # 0)
        /\ rtQ' = rtQ /\ inc'[t] \in Nat
    BY <2>1, IncludeType
  <2>3. UNCHANGED <<offered, from, startBlock>>
    BY <2>1 DEF Include
  <2>4. IF t \in S THEN inc'[t] = 0 \/ inc'[t] >= low ELSE inc'[t] = inc[t]
    BY <2>1 DEF Include
  <2>5. t \notin S
    <3> SUFFICES ASSUME t \in S PROVE FALSE
      OBVIOUS
    <3>1. inc'[t] >= low /\ inc'[t] + PollingBlockRange < from
      BY <2>3, <2>4
    <3> QED BY <1>0, <2>1, <2>2, <3>1, Constants
  <2>6. Passed(t) /\ ver'[t] = ver[t]
    BY <2>2, <2>3, <2>4, <2>5
  <2> QED BY <2>2, <2>3, <2>6 DEF PollerCovers
<1>3. CASE Launch
  <2>1. from = startBlock /\ UNCHANGED <<from, startBlock, inc>>
    BY <1>3 DEF Launch, Behind
  <2>2. \A t \in Txs : ~Passed(t)'
    <3> TAKE t \in Txs
    <3>1. inc[t] \in Nat
      BY <1>0
    <3>2. ~(startBlock <= inc[t] /\ inc[t] + PollingBlockRange < startBlock)
      BY <1>0, <3>1, Constants
    <3> QED BY <2>1, <3>2
  <2> QED BY <2>2 DEF PollerCovers
<1>4. CASE Poll
  <2> SUFFICES ASSUME pc = "running", transport = "http", NEW t \in Txs, Passed(t)'
               PROVE  <<t, ver'[t]>> \in offered' \cup rtQ'
    BY <1>4 DEF PollerCovers, Poll
  <2>1. rtQ = {} /\ UNCHANGED <<offered, inc, ver, startBlock>>
    BY <1>4 DEF Poll
  <2>2. CASE UNCHANGED <<from, rtQ>>
    BY <2>1, <2>2 DEF PollerCovers
  <2>3. CASE rtQ' = FetchJobs(PollFrom, PollTo) /\ from' = PollTo + 1
    <3>1. CASE inc[t] + PollingBlockRange < from
      BY <2>1, <3>1 DEF PollerCovers
    <3>2. CASE ~(inc[t] + PollingBlockRange < from)
      <4>1. inc[t] \in Nat /\ inc[t] # 0 /\ inc[t] + PollingBlockRange < PollTo + 1
        BY <1>0, <2>1, <2>3
      <4>2. PollTo \in Nat
        BY PollType
      <4>3. inc[t] <= PollTo
        BY <4>1, <4>2, Constants
      <4>4. PollFrom <= inc[t]
        BY <1>0, <3>2, <4>1, Constants DEF PollFrom, Monus
      <4>5. t \in Between(PollFrom, PollTo)
        BY <4>1, <4>3, <4>4 DEF Between
      <4> QED BY <2>1, <2>3, <4>5 DEF FetchJobs
    <3> QED BY <3>1, <3>2
  <2> QED BY <1>4, <2>2, <2>3 DEF Poll
<1>5. ASSUME NEW s \in Slots, NEW j \in rtQ \cup dbQ \cup rpcQ, TakeJob(s, j)
      PROVE  PollerCovers'
  <2>1. rtQ \subseteq rtQ' \cup {j} /\ offered' = offered \cup {j}
    BY <1>5 DEF TakeJob, Pop
  <2>2. UNCHANGED <<pc, transport, inc, ver, startBlock, from>>
    BY <1>5 DEF TakeJob
  <2> QED BY <2>1, <2>2 DEF PollerCovers
<1>6. CASE UNCHANGED <<pc, transport, inc, ver, startBlock, from, offered, rtQ>>
  BY <1>6 DEF PollerCovers
<1>7. CASE \E s \in Slots : FetchTx(s) \/ UpsertMany(s) \/ FailTx(s)
  BY <1>6, <1>7 DEF FetchTx, UpsertMany, FailTx
<1>8. CASE StartFails \/ Crash \/ StreamsEnd \/ \E s \in Slots : BackendGone(s)
  BY <1>1, <1>8 DEF StartFails, Crash, StreamsEnd, BackendGone, Return
<1>9. CASE GetBlockNumber \/ Subscribe
  BY <1>1, <1>9 DEF GetBlockNumber, Subscribe
<1>10. CASE PastDbFinished \/ PastRpcFinished \/ Disconnect
  BY <1>6, <1>10 DEF PastDbFinished, PastRpcFinished, Disconnect
<1>11. CASE UNCHANGED vars
  BY <1>6, <1>11 DEF vars
<1> QED BY <1>2, <1>3, <1>4, <1>5, <1>7, <1>8, <1>9, <1>10, <1>11 DEF Next

(* The poller misses no transaction, with any ranges, as long as re-orgs    *)
(* are not deeper than the overlap: what a re-org brings to blocks already  *)
(* read is within polling_block_range of where the poller goes on.          *)
THEOREM PollerMissesNothing == Spec => []PollerCovers
<1> DEFINE I == Types /\ Known /\ Behind /\ PollerCovers
<1>1. Init => I
  <2>1. Init => PollerCovers
    BY DEF Init, PollerCovers
  <2> QED BY <2>1, InitTypes
<1>2. I /\ [Next]_vars => I'
  BY TypeStep, PollerStep
<1>3. I => PollerCovers
  OBVIOUS
<1> QED BY <1>1, <1>2, <1>3, PTL DEF Spec

-----------------------------------------------------------------------------
(* The cache and the handlers *)

LEMMA SlotFacts ==
    ASSUME Types, NEW s \in Slots, NEW t \in Txs
    PROVE  running[s] = Idle => running[s].tx # t
BY Constants DEF Idle

LEMMA OffersStep ==
    ASSUME Types, Known, Offers, [Next]_vars
    PROVE  Offers'
<1> USE DEF chainVars, pollVars, streamVars, histVars
<1>0. \A j \in offered : j[1] \in Txs /\ j[2] \in Nat /\ j[2] <= ver[j[1]] /\ ver[j[1]] \in Nat
  BY DEF Types, ChainType, JobType, Jobs, Known
<1>1. CASE pc' # "running" \/ offered' = {}
  BY <1>1 DEF Offers
<1>2. CASE UNCHANGED <<pc, rows, running, gaveUp, raced, offered>>
  BY <1>2 DEF Offers, Settled
<1>3. ASSUME NEW s \in Slots, NEW j \in rtQ \cup dbQ \cup rpcQ, TakeJob(s, j)
      PROVE  Offers'
  <2> SUFFICES ASSUME NEW i \in offered' PROVE Settled(i)'
    BY DEF Offers
  <2>1. /\ pc = "running" /\ running[s] = Idle /\ offered' = offered \cup {j}
        /\ UNCHANGED <<rows, gaveUp, raced>>
        /\ \/ InCache(j) /\ UNCHANGED running
           \/ running' = [running EXCEPT ![s] = [tx |-> j[1], tries |-> 0, seen |-> 0]]
    BY <1>3 DEF TakeJob
  <2>2. CASE i \in offered
    <3>1. Settled(i) /\ i[1] \in Txs
      BY <1>0, <2>1, <2>2 DEF Offers
    <3>2. \A r \in Slots : running[r].tx = i[1] => running'[r] = running[r]
      BY <2>1, <3>1, SlotFacts DEF Types, PoolType
    <3> QED BY <2>1, <3>1, <3>2 DEF Settled
  <2>3. CASE i \notin offered
    <3>1. i = j /\ ~InCache(j)
      BY <2>1, <2>3 DEF InCache, Known
    <3>2. running'[s].tx = i[1] /\ running'[s].seen = 0
      BY <2>1, <3>1 DEF Types, PoolType
    <3> QED BY <3>2 DEF Settled
  <2> QED BY <2>2, <2>3
<1>4. ASSUME NEW s \in Slots, FetchTx(s)
      PROVE  Offers'
  <2> SUFFICES ASSUME pc = "running", NEW i \in offered PROVE Settled(i)'
    BY <1>4 DEF Offers, FetchTx
  <2>1. Settled(i) /\ UNCHANGED <<rows, gaveUp, raced>>
    BY <1>4 DEF Offers, FetchTx
  <2>2. running[s] \in [tx : Txs, tries : 0..Backoff, seen : Nat]
    BY <1>4 DEF FetchTx, Types, PoolType
  <2>3. \A r \in Slots : r # s => running'[r] = running[r]
    BY <1>4 DEF FetchTx, Types, PoolType
  <2>4. running'[s] = [running[s] EXCEPT !.seen = ver[running[s].tx]]
    BY <1>4 DEF FetchTx, Types, PoolType
  <2>5. running'[s].tx = running[s].tx /\ running'[s].seen = ver[running[s].tx]
    BY <2>2, <2>4
  <2>6. running[s].tx = i[1] => running'[s].seen >= i[2]
    BY <1>0, <2>5
  <2> QED BY <2>1, <2>3, <2>5, <2>6 DEF Settled
<1>5. ASSUME NEW s \in Slots, UpsertMany(s)
      PROVE  Offers'
  <2> DEFINE t == running[s].tx
             v == running[s].seen
  <2> SUFFICES ASSUME pc = "running", NEW i \in offered PROVE Settled(i)'
    BY <1>5 DEF Offers, UpsertMany
  <2>1. Settled(i) /\ UNCHANGED gaveUp
    BY <1>5 DEF Offers, UpsertMany
  <2>2. t \in Txs /\ v \in Nat /\ v # 0 /\ rows[t] \in Nat /\ i[1] \in Txs /\ i[2] \in Nat
    BY <1>0, <1>5 DEF UpsertMany, Types, PoolType, TableType
  <2>3. \A r \in Slots : r # s => running'[r] = running[r]
    BY <1>5 DEF UpsertMany, Types, PoolType
  <2>4. \A u \in Txs : rows'[u] = IF u = t THEN v ELSE rows[u]
    BY <1>5 DEF UpsertMany, Types, TableType
  <2>5. raced' = IF v < rows[t] THEN raced \cup {t} ELSE raced
    BY <1>5 DEF UpsertMany
  <2> HIDE DEF t, v
  <2>6. CASE rows[i[1]] # 0 /\ rows[i[1]] >= i[2]
    <3>1. CASE i[1] = t /\ v < rows[t]
      BY <2>5, <3>1 DEF Settled
    <3>2. CASE i[1] = t /\ ~(v < rows[t])
      <4>1. rows'[i[1]] = v /\ v >= i[2]
        BY <2>2, <2>4, <2>6, <3>2
      <4> QED BY <2>2, <4>1 DEF Settled
    <3>3. CASE i[1] # t
      BY <2>2, <2>4, <2>6, <3>3 DEF Settled
    <3> QED BY <3>1, <3>2, <3>3
  <2>7. ASSUME NEW r \in Slots, running[r].tx = i[1], running[r].seen = 0 \/ running[r].seen >= i[2]
        PROVE  Settled(i)'
    <3>1. CASE r = s
      <4>1. i[1] = t /\ v >= i[2]
        BY <2>2, <2>7, <3>1 DEF t, v
      <4>2. rows'[i[1]] = v
        BY <2>2, <2>4, <4>1
      <4> QED BY <2>2, <4>1, <4>2 DEF Settled
    <3>2. CASE r # s
      BY <2>3, <2>7, <3>2 DEF Settled
    <3> QED BY <3>1, <3>2
  <2>8. CASE i[1] \in gaveUp \cup raced
    BY <2>1, <2>5, <2>8 DEF Settled
  <2> QED BY <2>1, <2>6, <2>7, <2>8 DEF Settled
<1>6. ASSUME NEW s \in Slots, FailTx(s)
      PROVE  Offers'
  <2> SUFFICES ASSUME pc = "running", NEW i \in offered PROVE Settled(i)'
    BY <1>6 DEF Offers, FailTx
  <2>1. Settled(i) /\ UNCHANGED <<rows, raced>> /\ gaveUp \subseteq gaveUp'
    BY <1>6 DEF Offers, FailTx
  <2>2. running[s] \in [tx : Txs, tries : 0..Backoff, seen : Nat]
    BY <1>6 DEF FailTx, Types, PoolType
  <2>3. \A r \in Slots : r # s => running'[r] = running[r]
    BY <1>6 DEF FailTx, Types, PoolType
  <2>4. \/ running'[s] = [running[s] EXCEPT !.tries = running[s].tries + 1, !.seen = 0]
        \/ running[s].tx \in gaveUp'
    BY <1>6 DEF FailTx, Types, PoolType
  <2>5. (running'[s].tx = running[s].tx /\ running'[s].seen = 0) \/ running[s].tx \in gaveUp'
    BY <2>2, <2>4
  <2> QED BY <2>1, <2>3, <2>5 DEF Settled
<1>7. CASE NewBlock \/ Reorg
  BY <1>2, <1>7 DEF NewBlock, Reorg, Include
<1>8. CASE StartFails \/ Crash \/ StreamsEnd \/ \E s \in Slots : BackendGone(s)
  BY <1>1, <1>8 DEF StartFails, Crash, StreamsEnd, BackendGone, Return
<1>9. CASE GetBlockNumber \/ Subscribe \/ Launch
  BY <1>1, <1>9 DEF GetBlockNumber, Subscribe, Launch
<1>10. CASE Poll \/ PastDbFinished \/ PastRpcFinished \/ Disconnect
  BY <1>2, <1>10 DEF Poll, PastDbFinished, PastRpcFinished, Disconnect
<1>11. CASE UNCHANGED vars
  BY <1>2, <1>11 DEF vars
<1> QED BY <1>3, <1>4, <1>5, <1>6, <1>7, <1>8, <1>9, <1>10, <1>11 DEF Next

LEMMA OffersImply == Offers => NoJobDropped
BY DEF Offers, Settled, NoJobDropped, Handled

(* The cache drops only work that is done or under way.  The invariant says *)
(* more: a handler at the job has fetched nothing older than the job, so    *)
(* that its row will be as new.                                             *)
THEOREM CacheDropsNoWork == Spec => []NoJobDropped
<1> DEFINE I == Types /\ Known /\ Behind /\ Offers
<1>1. Init => I
  <2>1. Init => Offers
    BY DEF Init, Offers
  <2> QED BY <2>1, InitTypes
<1>2. I /\ [Next]_vars => I'
  BY TypeStep, OffersStep
<1>3. I => NoJobDropped
  BY OffersImply
<1> QED BY <1>1, <1>2, <1>3, PTL DEF Spec

-----------------------------------------------------------------------------
(* The past streams *)

LEMMA WholePastMet == DbStart = 1 /\ DbEnd = 0 => WholePast
<1> SUFFICES ASSUME DbStart = 1, DbEnd = 0, NEW n \in Nat
             PROVE  DbBound(n, DbStart) <= 1 /\ DbBound(n, DbEnd) >= Refetch(n)
  BY DEF WholePast
<1>1. Refetch(n) \in Nat
  BY MonusType, Constants DEF Refetch
<1>2. DbBound(n, DbEnd) = Refetch(n) /\ DbBound(n, DbStart) = 1
  BY <1>1 DEF DbBound, Monus
<1> QED BY <1>1, <1>2

(* Database, last blocks and table have all transactions up to the block    *)
(* where start() began, but those that Blockscout does not show.            *)
LEMMA PastSplit ==
    ASSUME Types, WholePast, NEW view, NEW t \in Between(1, startBlock),
           inc[t] <= Refetch(startBlock) => view[t] = inc[t]
    PROVE  \/ rows[t] # 0
           \/ \E j \in DbJobs(startBlock, view) \cup RpcJobs(startBlock) : j[1] = t
<1> DEFINE n == startBlock
<1>1. n \in Nat /\ t \in Txs /\ inc[t] \in Nat /\ inc[t] # 0 /\ inc[t] <= n
  BY DEF Types, StartType, ChainType, Between
<1>2. Refetch(n) \in Nat
  BY <1>1, MonusType, Constants DEF Refetch
<1>3. CASE inc[t] <= Refetch(n)
  <2>1. DbBound(n, DbStart) <= 1 /\ DbBound(n, DbEnd) >= Refetch(n)
    BY <1>1 DEF WholePast
  <2>2. DbBound(n, DbStart) \in Int /\ DbBound(n, DbEnd) \in Int
    <3>1. DbStart \in Int /\ DbEnd \in Int
      BY ConstantsAssumption
    <3> HIDE DEF n
    <3> QED BY <1>2, <3>1 DEF DbBound, Monus
  <2>3. DbBound(n, DbStart) <= inc[t] /\ inc[t] <= DbBound(n, DbEnd)
    <3> HIDE DEF n
    <3> QED BY <1>1, <1>2, <1>3, <2>1, <2>2
  <2>4. view[t] = inc[t]
    BY <1>3
  <2>5. rows[t] = 0 => <<t, NoHash>> \in DbJobs(n, view)
    BY <1>1, <2>3, <2>4 DEF DbJobs
  <2> QED BY <2>5
<1>4. CASE ~(inc[t] <= Refetch(n))
  <2>1. Refetch(n) + 1 <= inc[t]
    <3> HIDE DEF n
    <3> QED BY <1>1, <1>2, <1>4
  <2>2. <<t, ver[t]>> \in RpcJobs(n)
    BY <1>1, <2>1 DEF RpcJobs, FetchJobs, Between
  <2> QED BY <2>2
<1> QED BY <1>3, <1>4

LEMMA PastStep ==
    ASSUME Types, Known, Offers, PastHeld, WholePast, [Next]_vars
    PROVE  PastHeld'
<1> USE DEF chainVars, pollVars, streamVars, histVars
<1> DEFINE Seen(t) == rows[t] # 0 \/ Handled(t) \/ t \in gaveUp
<1>1. CASE UNCHANGED <<pc, rows, running, gaveUp, raced, past, dbQ, dbOpen, rpcQ, rpcOpen>>
  BY <1>1 DEF PastHeld, Handled
<1>2. CASE pc' # "running" /\ UNCHANGED <<rows, raced, dbQ, dbOpen, rpcQ, rpcOpen>>
  BY <1>2 DEF PastHeld
<1>3. CASE StartFails \/ Crash \/ StreamsEnd \/ \E s \in Slots : BackendGone(s)
  BY <1>3 DEF StartFails, Crash, StreamsEnd, BackendGone, Return, PastHeld
<1>4. CASE Launch
  <2>0. PICK view :
          /\ dbQ' = DbJobs(startBlock, view)
          /\ past' = {t \in Between(1, startBlock) :
                        inc[t] <= Refetch(startBlock) => view[t] = inc[t]}
    BY <1>4 DEF Launch
  <2>1. /\ UNCHANGED rows /\ raced' = {} /\ rpcQ' = RpcJobs(startBlock) /\ dbOpen' /\ rpcOpen'
    BY <1>4 DEF Launch
  <2>2. \A t \in past' : rows'[t] # 0 \/ \E j \in dbQ' \cup rpcQ' : j[1] = t
    BY <2>0, <2>1, PastSplit
  <2> QED BY <2>1, <2>2 DEF PastHeld
<1>5. ASSUME NEW s \in Slots, NEW j \in rtQ \cup dbQ \cup rpcQ, TakeJob(s, j)
      PROVE  PastHeld'
  <2>1. /\ pc = "running" /\ running[s] = Idle
        /\ UNCHANGED <<pc, rows, gaveUp, raced, past, dbOpen, rpcOpen>>
        /\ \/ InCache(j) /\ UNCHANGED running
           \/ running' = [running EXCEPT ![s] = [tx |-> j[1], tries |-> 0, seen |-> 0]]
    BY <1>5 DEF TakeJob
  <2>2. /\ dbQ' \subseteq dbQ /\ rpcQ' \subseteq rpcQ
        /\ dbQ \cup rpcQ \subseteq dbQ' \cup rpcQ' \cup {j}
    BY <1>5 DEF TakeJob, Pop
  <2>3. \A t \in Txs : \A r \in Slots : running[r].tx = t => running'[r] = running[r]
    BY <2>1, SlotFacts DEF Types, PoolType
  <2>4. j[1] \in Txs
    BY DEF Types, JobType, Jobs
  <2>5. rows'[j[1]] # 0 \/ Handled(j[1])' \/ j[1] \in gaveUp'
    <3>1. CASE InCache(j)
      <4>1. Settled(j)
        BY <2>1, <3>1 DEF InCache, Known, Offers
      <4> QED BY <2>1, <2>3, <2>4, <4>1 DEF Settled, Handled, PastHeld
    <3>2. CASE running' = [running EXCEPT ![s] = [tx |-> j[1], tries |-> 0, seen |-> 0]]
      <4>1. running'[s].tx = j[1]
        BY <3>2 DEF Types, PoolType
      <4> QED BY <4>1 DEF Handled
    <3> QED BY <2>1, <3>1, <3>2
  <2>6. ASSUME NEW t \in past
        PROVE  rows'[t] # 0 \/ Handled(t)' \/ t \in gaveUp' \/ \E i \in dbQ' \cup rpcQ' : i[1] = t
    <3>1. t \in Txs
      BY DEF Types, JobType
    <3>2. CASE Seen(t)
      BY <2>1, <2>3, <3>1, <3>2 DEF Handled
    <3>3. ASSUME NEW i \in dbQ \cup rpcQ, i[1] = t
          PROVE  Handled(t)' \/ rows'[t] # 0 \/ t \in gaveUp' \/ i \in dbQ' \cup rpcQ'
      BY <2>2, <2>5, <3>3
    <3>4. Seen(t) \/ \E i \in dbQ \cup rpcQ : i[1] = t
      BY <2>1 DEF PastHeld
    <3> QED BY <3>2, <3>3, <3>4
  <2> QED BY <2>1, <2>2, <2>6 DEF PastHeld
<1>6. ASSUME NEW s \in Slots, FetchTx(s) \/ UpsertMany(s) \/ FailTx(s)
      PROVE  PastHeld'
  <2>1. UNCHANGED <<pc, past, dbQ, dbOpen, rpcQ, rpcOpen>>
    BY <1>6 DEF FetchTx, UpsertMany, FailTx
  <2>2. running[s] \in [tx : Txs, tries : 0..Backoff, seen : Nat]
    BY <1>6 DEF FetchTx, UpsertMany, FailTx, Types, PoolType
  <2>3. \A r \in Slots : r # s => running'[r] = running[r]
    BY <1>6 DEF FetchTx, UpsertMany, FailTx, Types, PoolType
  <2>4. \A t \in Txs : rows[t] # 0 => rows'[t] # 0
    BY <1>6 DEF FetchTx, UpsertMany, FailTx, Types, TableType
  <2>5. /\ gaveUp \subseteq gaveUp'
        /\ running'[s].tx = running[s].tx \/ rows'[running[s].tx] # 0 \/ running[s].tx \in gaveUp'
    <3>1. CASE FetchTx(s)
      <4>1. running'[s] = [running[s] EXCEPT !.seen = ver[running[s].tx]] /\ gaveUp' = gaveUp
        BY <3>1 DEF FetchTx, Types, PoolType
      <4> QED BY <2>2, <4>1
    <3>2. CASE UpsertMany(s)
      BY <2>2, <3>2 DEF UpsertMany, Types, TableType
    <3>3. CASE FailTx(s)
      <4>1. \/ /\ running'[s] = [running[s] EXCEPT !.tries = running[s].tries + 1, !.seen = 0]
               /\ gaveUp' = gaveUp
            \/ gaveUp' = gaveUp \cup {running[s].tx}
        BY <3>3 DEF FailTx, Types, PoolType
      <4> QED BY <2>2, <4>1
    <3> QED BY <1>6, <3>1, <3>2, <3>3
  <2>6. \A t \in Txs : Seen(t) => Seen(t)'
    BY <2>3, <2>4, <2>5 DEF Handled
  <2>7. \A t \in raced' : rows'[t] # 0
    <3>1. raced \subseteq Txs
      BY DEF Types, JobType
    <3>2. CASE UNCHANGED raced
      BY <2>4, <3>1, <3>2 DEF PastHeld
    <3>3. CASE UpsertMany(s)
      <4>1. rows'[running[s].tx] # 0 /\ raced' \subseteq raced \cup {running[s].tx}
        BY <2>2, <3>3 DEF UpsertMany, Types, TableType
      <4> QED BY <2>4, <3>1, <4>1 DEF PastHeld
    <3> QED BY <1>6, <3>2, <3>3 DEF FetchTx, FailTx
  <2>8. \A t \in past : t \in Txs
    BY DEF Types, JobType
  <2> QED BY <2>1, <2>6, <2>7, <2>8 DEF PastHeld
<1>7. CASE PastDbFinished \/ PastRpcFinished
  <2>1. /\ UNCHANGED <<pc, rows, running, gaveUp, raced, past, dbQ, rpcQ>>
        /\ (dbQ = {} /\ rpcOpen' = rpcOpen) \/ (rpcQ = {} /\ dbOpen' = dbOpen)
    BY <1>7 DEF PastDbFinished, PastRpcFinished
  <2> QED BY <2>1 DEF PastHeld, Handled
<1>8. CASE NewBlock \/ Reorg \/ Poll \/ Disconnect
  BY <1>1, <1>8 DEF NewBlock, Reorg, Include, Poll, Disconnect
<1>9. CASE GetBlockNumber \/ Subscribe
  BY <1>2, <1>9 DEF GetBlockNumber, Subscribe
<1>10. CASE UNCHANGED vars
  BY <1>1, <1>10 DEF vars
<1> QED BY <1>3, <1>4, <1>5, <1>6, <1>7, <1>8, <1>9, <1>10 DEF Next

(* The messages of this start() follow the ends of its streams. *)
LEMMA FlagsStep ==
    ASSUME Types, FlagsMean, [Next]_vars
    PROVE  FlagsMean'
<1> USE DEF chainVars, pollVars, streamVars, histVars
<1>0. status \in [Flags -> BOOLEAN]
  BY DEF Types, StartType
<1>1. CASE UNCHANGED <<pc, status, dbOpen, rpcOpen, stale>>
  BY <1>1 DEF FlagsMean
<1>2. CASE pc' # "running"
  BY <1>2 DEF FlagsMean
<1>3. CASE StartFails \/ Crash \/ StreamsEnd \/ \E s \in Slots : BackendGone(s)
  BY <1>2, <1>3 DEF StartFails, Crash, StreamsEnd, BackendGone, Return
<1>4. CASE Launch
  <2>1. stale' = {f \in Flags : status[f]} /\ status' = [status EXCEPT !["live"] = TRUE]
    BY <1>4 DEF Launch
  <2>2. \A f \in Flags \ {"live"} : status'[f] => f \in stale'
    BY <1>0, <2>1
  <2> QED BY <2>2 DEF FlagsMean, Flags
<1>5. CASE PastDbFinished \/ PastRpcFinished
  <2>1. CASE PastDbFinished
    <3>1. /\ UNCHANGED <<pc, rpcOpen, stale>> /\ ~dbOpen'
          /\ status' = [status EXCEPT !["past_db_logs_indexing_finished"] = TRUE]
      BY <2>1 DEF PastDbFinished
    <3>2. status'["past_rpc_logs_indexing_finished"] = status["past_rpc_logs_indexing_finished"]
      BY <1>0, <3>1 DEF Flags
    <3> QED BY <3>1, <3>2 DEF FlagsMean
  <2>2. CASE PastRpcFinished
    <3>1. /\ UNCHANGED <<pc, dbOpen, stale>> /\ ~rpcOpen'
          /\ status' = [status EXCEPT !["past_rpc_logs_indexing_finished"] = TRUE]
      BY <2>2 DEF PastRpcFinished
    <3>2. status'["past_db_logs_indexing_finished"] = status["past_db_logs_indexing_finished"]
      BY <1>0, <3>1 DEF Flags
    <3> QED BY <3>1, <3>2 DEF FlagsMean
  <2> QED BY <1>5, <2>1, <2>2
<1>6. CASE NewBlock \/ Reorg \/ Poll \/ Disconnect
  BY <1>1, <1>6 DEF NewBlock, Reorg, Include, Poll, Disconnect
<1>7. CASE GetBlockNumber \/ Subscribe
  BY <1>2, <1>7 DEF GetBlockNumber, Subscribe
<1>8. ASSUME NEW s \in Slots, NEW j \in rtQ \cup dbQ \cup rpcQ, TakeJob(s, j)
      PROVE  FlagsMean'
  BY <1>1, <1>8 DEF TakeJob
<1>9. CASE \E s \in Slots : FetchTx(s) \/ UpsertMany(s) \/ FailTx(s)
  BY <1>1, <1>9 DEF FetchTx, UpsertMany, FailTx
<1>10. CASE UNCHANGED vars
  BY <1>1, <1>10 DEF vars
<1> QED BY <1>3, <1>4, <1>5, <1>6, <1>7, <1>8, <1>9, <1>10 DEF Next

(* What is in neither stream has been seen to; what is in one waits in an   *)
(* open stream, so its flag is of an earlier start().                       *)
LEMMA PastHeldImplies == PastHeld /\ FlagsMean => PastCovered
<1> SUFFICES ASSUME PastHeld, FlagsMean, pc = "running", finished_past_indexing, NEW t \in past
             PROVE  rows[t] # 0 \/ Handled(t) \/ t \in gaveUp \/ WaitsAnew(t)
  BY DEF PastCovered
<1>1. CASE rows[t] # 0 \/ Handled(t) \/ t \in gaveUp
  BY <1>1
<1>2. ASSUME NEW j \in dbQ, j[1] = t PROVE WaitsAnew(t)
  BY <1>2 DEF PastHeld, FlagsMean, finished_past_indexing, WaitsAnew
<1>3. ASSUME NEW j \in rpcQ, j[1] = t PROVE WaitsAnew(t)
  BY <1>3 DEF PastHeld, FlagsMean, finished_past_indexing, WaitsAnew
<1> QED BY <1>1, <1>2, <1>3 DEF PastHeld

(* When the status says finished_past_indexing, every transaction up to the *)
(* block where start() began that the node has in the last blocks or        *)
(* Blockscout showed below them is saved, in a handler or given up, or      *)
(* waits in a stream that an earlier start() has reported; if the settings  *)
(* make the database's range meet the blocks that are read again.           *)
THEOREM PastIsCovered ==
    ASSUME WholePast
    PROVE  Spec => []PastCovered
<1> DEFINE I == Types /\ Known /\ Behind /\ Offers /\ PastHeld /\ FlagsMean
<1>1. Init => I
  <2>1. Init => Offers /\ PastHeld /\ FlagsMean
    BY DEF Init, Offers, PastHeld, FlagsMean
  <2> QED BY <2>1, InitTypes
<1>2. I /\ [Next]_vars => I'
  BY TypeStep, OffersStep, PastStep, FlagsStep
<1>3. I => PastCovered
  BY PastHeldImplies
<1> QED BY <1>1, <1>2, <1>3, PTL DEF Spec
=============================================================================
