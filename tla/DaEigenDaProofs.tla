--------------------------- MODULE DaEigenDaProofs ---------------------------
(***************************************************************************)
(* The EigenDA indexer drops no batch and stores no batch without its      *)
(* blobs, for any chain of confirmations, any sizes of requests and        *)
(* pieces, any pool and any faults.                                        *)
(***************************************************************************)
EXTENDS DaEigenDa, WellFoundedInduction, TLAPS

(* The chain only grows, and nobody knows a later head. *)
Heads == head >= InitHead /\ lastKnown <= head

(* What a job has counted is in the table, or among the blobs it holds. *)
JobSaved(j, saved) ==
    /\ j.unsaved <= j.index
    /\ j.pc = "blobs" => 0..(j.index - j.unsaved - 1) \subseteq saved
    /\ j.pc = "row"   => 0..(j.index - 1) \subseteq saved

JobsSaved ==
    \A s \in Slots : running[s] # Idle => JobSaved(running[s], blobs[running[s].batch])

LEMMA Constants ==
    /\ Batches \subseteq Nat /\ NoBatch \notin Batches
    /\ CreationBlock \in Nat /\ (StartBlock \in Nat \/ StartBlock = LatestBlock)
    /\ StartBlock <= InitHead /\ InitHead \in Nat /\ InitHead > 0
    /\ RpcBatchSize \in Nat /\ SaveBatchSize \in Nat /\ SaveBatchSize > 0
    /\ PruningThreshold \in Nat /\ BlobsPerBatch \in Nat /\ BlobsPerBatch > 0
    /\ U64 \in Nat /\ U64 > 0
    /\ MaxFaults \in Nat
<1>1. MaxHead + PruningThreshold \in Nat /\ U64 > MaxHead + PruningThreshold /\ U64 \in Nat
  BY ConstantsAssumption
<1>2. U64 > 0
  BY <1>1
<1> QED BY <1>2, ConstantsAssumption DEF NoBatch

LEMMA FaultType ==
    ASSUME faults \in 0..MaxFaults, NEW k, Fault(k)
    PROVE  faults' \in 0..MaxFaults
BY Constants DEF Fault

ChainType ==
    /\ at \in [Batches -> Nat] /\ head \in Nat
    /\ disperser \in [Batches -> {"unready", "served", "pruned"}]

TableType ==
    /\ rows \in [Batches -> 0..BlobsPerBatch \cup {NoRow}]
    /\ blobs \in [Batches -> SUBSET (0..(BlobsPerBatch - 1))]

MemType ==
    /\ up \in BOOLEAN /\ startFrom \in Nat /\ lastKnown \in Nat
    /\ gaps \subseteq Gap /\ catchDone \in BOOLEAN
    /\ newQ \subseteq Batches /\ catchQ \subseteq Batches /\ retryQ \subseteq Batches
    /\ failed \subseteq Batches /\ wrapped \subseteq Batches
    /\ faults \in 0..MaxFaults

PoolType == running \in [Slots -> Job \cup {Idle}]

LEMMA Parts == TypeOK <=> ChainType /\ TableType /\ MemType /\ PoolType
BY DEF TypeOK, ChainType, TableType, MemType, PoolType

LEMMA IdleIsNoJob == Idle \notin Job
BY Constants DEF Idle, Job

LEMMA JobRow ==
    ASSUME NEW job \in Job
    PROVE  /\ [job EXCEPT !.pc = "row", !.unsaved = 0] \in Job
           /\ [job EXCEPT !.pc = "row", !.unsaved = 0].index = job.index
           /\ [job EXCEPT !.pc = "row", !.unsaved = 0].unsaved = 0
           /\ [job EXCEPT !.pc = "row", !.unsaved = 0].pc = "row"
           /\ [job EXCEPT !.pc = "row", !.unsaved = 0].batch = job.batch
<1>1. 0 \in 0..BlobsPerBatch
  BY Constants
<1> QED BY <1>1 DEF Job

LEMMA JobNew ==
    ASSUME NEW b \in Batches, NEW n \in 0..Backoff
    PROVE  /\ [Idle EXCEPT !.batch = b, !.tries = n] \in Job
           /\ [Idle EXCEPT !.batch = b, !.tries = n].index = 0
           /\ [Idle EXCEPT !.batch = b, !.tries = n].unsaved = 0
           /\ [Idle EXCEPT !.batch = b, !.tries = n].pc = "blobs"
<1>1. 0 \in 0..BlobsPerBatch
  BY Constants
<1> QED BY <1>1 DEF Idle, Job

LEMMA JobTaken ==
    ASSUME NEW b \in Batches
    PROVE  /\ [Idle EXCEPT !.batch = b] \in Job
           /\ [Idle EXCEPT !.batch = b].index = 0
           /\ [Idle EXCEPT !.batch = b].unsaved = 0
           /\ [Idle EXCEPT !.batch = b].pc = "blobs"
<1>1. 0 \in 0..BlobsPerBatch /\ 0 \in 0..Backoff
  BY Constants DEF Backoff
<1> QED BY <1>1 DEF Idle, Job

LEMMA JobFacts ==
    ASSUME TypeOK, NEW s \in Slots, running[s] # Idle
    PROVE  /\ running[s] \in Job /\ running[s].batch \in Batches
           /\ running[s].tries \in 0..Backoff
           /\ running[s].index \in 0..BlobsPerBatch /\ running[s].unsaved \in 0..BlobsPerBatch
           /\ running[s].pc \in {"blobs", "row"}
BY DEF TypeOK, Job

-----------------------------------------------------------------------------
LEMMA GapTypes ==
    ASSUME ChainType, NEW to \in Nat
    PROVE  FirstGap(to) \cup InnerGaps(to) \cup LastGap(to) \subseteq Gap
<1>1. Saved \subseteq Batches /\ \A b \in Batches : at[b] \in Nat /\ b \in Int
  BY Constants DEF Saved, ChainType
<1>2. FirstGap(to) \subseteq Gap
  BY <1>1, Constants DEF FirstGap, Gap, Minima, NoBatch
<1>3. InnerGaps(to) \subseteq Gap
  <2> SUFFICES ASSUME NEW g \in InnerGaps(to) PROVE g \in Gap
    OBVIOUS
  <2>1. PICK p \in Saved \X Saved : g = [after |-> p[1], start |-> at[p[1]], end |-> at[p[2]]]
    BY DEF InnerGaps
  <2>2. p[1] \in Batches /\ p[2] \in Batches
    BY <1>1
  <2> QED BY <1>1, <2>1, <2>2 DEF Gap
<1>4. LastGap(to) \subseteq Gap
  BY <1>1 DEF LastGap, Gap, Maxima
<1> QED BY <1>2, <1>3, <1>4

LEMMA SoftType ==
    ASSUME ChainType, NEW g \in Gap
    PROVE  /\ Unprocessed(g) \subseteq SoftLogs(g.start, g.end)
           /\ SoftLogs(g.start, g.end) \subseteq Batches
           /\ EndBlock(g) \subseteq Nat
           /\ Rest(g) \subseteq Gap
<1>1. SoftLogs(g.start, g.end) \subseteq Batches
  BY DEF SoftLogs, Logs
<1>2. Unprocessed(g) \subseteq SoftLogs(g.start, g.end)
  BY DEF Unprocessed
<1>3. EndBlock(g) \subseteq Nat
  BY <1>1, <1>2 DEF EndBlock, Earliest, Maxima, ChainType
<1>4. Rest(g) \subseteq Gap
  BY <1>3 DEF Rest, Gap
<1> QED BY <1>1, <1>2, <1>3, <1>4

LEMMA InitType == Init => TypeOK /\ Heads /\ JobsSaved
<1> SUFFICES ASSUME Init PROVE TypeOK /\ Heads /\ JobsSaved
  OBVIOUS
<1>1. ChainType
  BY ConstantsAssumption DEF Init, ChainType
<1>2. TableType
  BY Constants DEF Init, TableType
<1>3. MemType
  <2>1. startFrom \in Nat /\ lastKnown \in Nat /\ faults \in 0..MaxFaults
    BY Constants DEF Init
  <2>2. up \in BOOLEAN /\ catchDone \in BOOLEAN
    BY DEF Init
  <2>3. /\ gaps = {} /\ newQ = {} /\ catchQ = {} /\ retryQ = {} /\ failed = {} /\ wrapped = {}
    BY DEF Init
  <2> QED BY <2>1, <2>2, <2>3 DEF MemType
<1>4. PoolType /\ JobsSaved
  BY DEF Init, PoolType, JobsSaved
<1>5. Heads
  BY Constants DEF Init, Heads
<1> QED BY <1>1, <1>2, <1>3, <1>4, <1>5, Parts

LEMMA FreshType ==
    ASSUME Fresh
    PROVE  /\ newQ' = {} /\ catchQ' = {} /\ retryQ' = {} /\ failed' = {} /\ catchDone' \in BOOLEAN
           /\ PoolType' /\ JobsSaved'
BY DEF Fresh, PoolType, JobsSaved

(* A slot changes and its job, if there is one, has saved what it counted. *)
LEMMA SlotStep ==
    ASSUME TypeOK, JobsSaved, NEW s \in Slots, NEW j \in Job \cup {Idle},
           running' = [running EXCEPT ![s] = j], j # Idle => JobSaved(j, blobs'[j.batch]),
           \A b \in Batches : blobs[b] \subseteq blobs'[b]
    PROVE  PoolType' /\ JobsSaved'
<1>1. PoolType'
  BY DEF TypeOK, PoolType
<1>2. ASSUME NEW r \in Slots, running'[r] # Idle
      PROVE  JobSaved(running'[r], blobs'[running'[r].batch])
  <2>1. CASE r = s
    BY <1>2, <2>1 DEF TypeOK
  <2>2. CASE r # s
    <3>1. running'[r] = running[r] /\ running[r] # Idle
      BY <1>2, <2>2 DEF TypeOK
    <3>2. JobSaved(running[r], blobs[running[r].batch]) /\ running[r].batch \in Batches
      BY <3>1, JobFacts DEF JobsSaved
    <3> QED BY <3>1, <3>2 DEF JobSaved
  <2> QED BY <2>1, <2>2
<1> QED BY <1>1, <1>2 DEF JobsSaved

LEMMA SaveType ==
    ASSUME TypeOK, NEW b \in Batches, NEW i \in 0..BlobsPerBatch, NEW n \in 0..i, SaveBlobs(b, i, n)
    PROVE  /\ blobs' \in [Batches -> SUBSET (0..(BlobsPerBatch - 1))]
           /\ \A c \in Batches : blobs[c] \subseteq blobs'[c]
           /\ 0..(i - n - 1) \subseteq blobs[b] => 0..(i - 1) \subseteq blobs'[b]
<1>1. blobs' = [blobs EXCEPT ![b] = blobs[b] \cup (i - n)..(i - 1)]
  BY DEF SaveBlobs
<1>2. (i - n)..(i - 1) \subseteq 0..(BlobsPerBatch - 1)
  BY Constants
<1>3. blobs'[b] = blobs[b] \cup (i - n)..(i - 1) /\ \A c \in Batches : c # b => blobs'[c] = blobs[c]
  BY <1>1 DEF TypeOK
<1>4. blobs' \in [Batches -> SUBSET (0..(BlobsPerBatch - 1))]
  BY <1>1, <1>2 DEF TypeOK
<1>5. 0..(i - 1) \subseteq 0..(i - n - 1) \cup (i - n)..(i - 1)
  BY Constants
<1> QED BY <1>3, <1>4, <1>5

LEMMA TypeStep ==
    ASSUME TypeOK, Heads, JobsSaved, [Next]_vars
    PROVE  TypeOK' /\ Heads' /\ JobsSaved'
<1> USE DEF chainVars, dbVars, queueVars
<1>0. ChainType /\ TableType /\ MemType /\ PoolType /\ head \in Nat /\ faults \in 0..MaxFaults
  BY Parts DEF ChainType, MemType
<1> DEFINE PoolKept == PoolType' /\ JobsSaved'
<1>1. ASSUME UNCHANGED <<running, blobs>>
      PROVE  PoolKept
  BY <1>0, <1>1 DEF PoolType, JobsSaved, JobSaved
<1>2. ASSUME ChainType', TableType', MemType', PoolKept
      PROVE  TypeOK' /\ JobsSaved'
  BY <1>2 DEF TypeOK, ChainType, TableType, MemType, PoolType
<1>3. CASE UNCHANGED vars
  BY <1>0, <1>1, <1>2, <1>3 DEF vars, memVars, ChainType, TableType, MemType, Heads
<1>4. CASE NewBlock \/ \E b \in Batches : Serve(b) \/ Prune(b)
  <2>1. UNCHANGED <<dbVars, memVars, wrapped, faults>>
    BY <1>4 DEF NewBlock, Serve, Prune
  <2>2. /\ head' \in Nat /\ head' >= head /\ at' = at
        /\ disperser' \in [Batches -> {"unready", "served", "pruned"}]
    <3>1. head + 1 \in Nat /\ head + 1 >= head /\ head >= head
      BY <1>0
    <3> QED BY <1>0, <1>4, <3>1 DEF NewBlock, Serve, Prune, ChainType
  <2>3. ChainType' /\ TableType' /\ MemType'
    BY <1>0, <2>1, <2>2 DEF ChainType, TableType, MemType, memVars
  <2>4. Heads'
    <3>1. lastKnown \in Nat /\ lastKnown' = lastKnown /\ head \in Nat /\ head' \in Nat /\ head' >= head
      BY <1>0, <2>1, <2>2 DEF MemType, memVars
    <3>2. lastKnown <= head /\ head >= InitHead /\ InitHead \in Nat
      BY Constants DEF Heads
    <3>3. \A a, h, k \in Nat : (a <= h /\ k >= h => a <= k) /\ (h >= a /\ k >= h => k >= a)
      OBVIOUS
    <3>4. lastKnown <= head' /\ head' >= InitHead
      BY <3>1, <3>2, <3>3
    <3> QED BY <3>1, <3>4 DEF Heads
  <2> QED BY <1>1, <1>2, <2>1, <2>3, <2>4 DEF memVars
<1>5. CASE Boot
  <2>1. startFrom' \in Nat /\ startFrom' <= head
    <3>1. CASE StartBlock = LatestBlock
      BY <1>0, <1>5, <3>1 DEF Boot
    <3>2. CASE StartBlock # LatestBlock
      <4>1. startFrom' = StartBlock /\ StartBlock \in Nat
        BY <1>5, <3>2, Constants DEF Boot
      <4>2. StartBlock <= InitHead /\ InitHead \in Nat /\ head >= InitHead
        BY Constants DEF Heads
      <4> QED BY <1>0, <4>1, <4>2
    <3> QED BY <3>1, <3>2
  <2>2. lastKnown' \in Nat /\ lastKnown' <= head
    <3>1. lastKnown' = IF startFrom' = 0 THEN 0 ELSE startFrom' - 1
      BY <1>5 DEF Boot
    <3>2. \A a, h \in Nat : a <= h /\ a # 0 => a - 1 \in Nat /\ a - 1 <= h
      OBVIOUS
    <3>3. 0 <= head /\ head \in Nat
      BY <1>0
    <3>4. CASE startFrom' = 0
      BY <3>1, <3>3, <3>4
    <3>5. CASE startFrom' # 0
      BY <2>1, <3>1, <3>2, <3>3, <3>5
    <3> QED BY <3>4, <3>5
  <2>3. gaps' \subseteq Gap
    <3>1. gaps' = FirstGap(startFrom') \cup InnerGaps(startFrom') \cup LastGap(startFrom')
      BY <1>5 DEF Boot
    <3> QED BY <1>0, <2>1, <3>1, GapTypes
  <2>4. Fresh /\ up' = TRUE /\ UNCHANGED <<chainVars, dbVars, wrapped, faults>>
    BY <1>5 DEF Boot
  <2>5. MemType'
    BY <1>0, <2>1, <2>2, <2>3, <2>4, FreshType DEF MemType
  <2>6. ChainType' /\ TableType' /\ Heads'
    BY <1>0, <2>2, <2>4 DEF ChainType, TableType, Heads
  <2> QED BY <1>2, <2>4, <2>5, <2>6, FreshType
<1>6. CASE Crash
  <2>1. /\ Fresh /\ up' = FALSE /\ startFrom' = 0 /\ lastKnown' = 0 /\ gaps' = {}
        /\ UNCHANGED <<chainVars, dbVars, wrapped>> /\ faults' \in 0..MaxFaults
    BY <1>0, <1>6, FaultType DEF Crash
  <2>2. MemType'
    BY <1>0, <2>1, FreshType DEF MemType
  <2>3. ChainType' /\ TableType' /\ Heads'
    BY <1>0, <2>1 DEF ChainType, TableType, Heads
  <2> QED BY <1>2, <2>1, <2>2, <2>3, FreshType
<1>7. CASE PollForNewJobs
  <2>1. PICK to \in {head, head - 1} :
          /\ UNCHANGED faults \/ Fault("lag")
          /\ newQ' = NewBatches(to) /\ lastKnown' = to
    BY <1>7 DEF PollForNewJobs
  <2>2. to \in Nat /\ to <= head
    <3>1. head > 0
      BY <1>0, Constants DEF Heads
    <3> QED BY <1>0, <2>1, <3>1
  <2>3. newQ' \subseteq Batches /\ faults' \in 0..MaxFaults
    BY <1>0, <2>1, FaultType DEF NewBatches, Logs
  <2>4. UNCHANGED <<chainVars, dbVars, up, startFrom, gaps, catchDone, catchQ, retryQ, failed,
                    running, wrapped>>
    BY <1>7 DEF PollForNewJobs
  <2>5. ChainType' /\ TableType' /\ MemType'
    BY <1>0, <2>1, <2>2, <2>3, <2>4 DEF ChainType, TableType, MemType
  <2>6. Heads'
    BY <2>1, <2>2, <2>4 DEF Heads
  <2> QED BY <1>1, <1>2, <2>4, <2>5, <2>6
<1>8. CASE CatchUp
  <2>1. /\ catchQ' = UNION {Earliest(Unprocessed(g)) : g \in SearchedGaps}
        /\ gaps' = (gaps \ SearchedGaps) \cup UNION {Rest(g) : g \in SearchedGaps}
        /\ catchDone' = (catchQ' = {})
        /\ UNCHANGED <<chainVars, dbVars, up, startFrom, lastKnown, newQ, retryQ, failed, running,
                       wrapped, faults>>
    BY <1>8 DEF CatchUp
  <2>2. SearchedGaps \subseteq gaps /\ gaps \subseteq Gap
    BY <1>0 DEF SearchedGaps, MemType
  <2>3. catchQ' \subseteq Batches
    <3>1. \A g \in Gap : Earliest(Unprocessed(g)) \subseteq Batches
      BY <1>0, SoftType DEF Earliest
    <3> QED BY <2>1, <2>2, <3>1
  <2>4. gaps' \subseteq Gap
    <3>1. \A g \in Gap : Rest(g) \subseteq Gap
      BY <1>0, SoftType
    <3> QED BY <2>1, <2>2, <3>1
  <2>5. catchDone' \in BOOLEAN
    BY <2>1
  <2>6. ChainType' /\ TableType' /\ MemType'
    BY <1>0, <2>1, <2>3, <2>4, <2>5 DEF ChainType, TableType, MemType
  <2>7. Heads'
    BY <2>1 DEF Heads
  <2> QED BY <1>1, <1>2, <2>1, <2>6, <2>7
<1>9. CASE RetryFailedJobs
  BY <1>0, <1>1, <1>2, <1>9 DEF RetryFailedJobs, ChainType, TableType, MemType, Heads
<1>10. ASSUME NEW s \in Slots, Take(s)
       PROVE  TypeOK' /\ Heads' /\ JobsSaved'
  <2>1. PICK b \in newQ \cup catchQ \cup retryQ :
          running' = [running EXCEPT ![s] = [Idle EXCEPT !.batch = b]]
    BY <1>10 DEF Take
  <2>2. newQ' \subseteq newQ /\ catchQ' \subseteq catchQ /\ retryQ' \subseteq retryQ
    BY <1>10 DEF Take
  <2>3. UNCHANGED <<chainVars, dbVars, up, startFrom, lastKnown, gaps, catchDone, failed, wrapped,
                    faults>>
    BY <1>10 DEF Take
  <2>4. ChainType' /\ TableType' /\ MemType' /\ Heads'
    BY <1>0, <2>2, <2>3 DEF ChainType, TableType, MemType, Heads
  <2> DEFINE j == [Idle EXCEPT !.batch = b]
  <2>5. b \in Batches
    BY <1>0 DEF MemType
  <2>6. j \in Job /\ j.index = 0 /\ j.unsaved = 0 /\ j.pc = "blobs"
    BY <2>5, JobTaken
  <2>7. JobSaved(j, blobs'[j.batch])
    <3> HIDE DEF j
    <3> QED BY <2>6 DEF JobSaved
  <2> HIDE DEF j
  <2>8. PoolKept
    BY <2>1, <2>3, <2>6, <2>7, SlotStep DEF j
  <2> QED BY <1>2, <2>4, <2>8
<1>11. ASSUME NEW s \in Slots, RetrieveBlob(s)
       PROVE  TypeOK' /\ Heads' /\ JobsSaved'
  <2> DEFINE job == running[s]
             j == [job EXCEPT !.index = job.index + 1, !.unsaved = 0]
             k == [job EXCEPT !.index = job.index + 1, !.unsaved = job.unsaved + 1]
  <2>1. /\ job # Idle /\ job.pc = "blobs" /\ job.index < BlobsPerBatch
        /\ UNCHANGED <<chainVars, rows, up, startFrom, lastKnown, gaps, catchDone, queueVars,
                       wrapped, faults>>
    BY <1>11 DEF RetrieveBlob
  <2>2. /\ job \in Job /\ job.batch \in Batches /\ job.index \in 0..BlobsPerBatch
        /\ job.unsaved \in 0..BlobsPerBatch /\ JobSaved(job, blobs[job.batch])
    BY <2>1, JobFacts DEF JobsSaved
  <2>3. /\ job.unsaved <= job.index /\ job.index \in Nat /\ job.unsaved \in Nat
        /\ 0..(job.index - job.unsaved - 1) \subseteq blobs[job.batch]
    BY <2>1, <2>2, Constants DEF JobSaved
  <2>4. job.index + 1 \in 0..BlobsPerBatch /\ job.unsaved + 1 \in 0..(job.index + 1)
    BY <2>1, <2>3, Constants
  <2>5. CASE /\ job.unsaved + 1 = SaveBatchSize
             /\ SaveBlobs(job.batch, job.index + 1, SaveBatchSize)
             /\ running' = [running EXCEPT ![s].index = @ + 1, ![s].unsaved = 0]
    <3>1. running' = [running EXCEPT ![s] = j]
      BY <2>5 DEF TypeOK
    <3>2. /\ j \in Job /\ j.index = job.index + 1 /\ j.unsaved = 0 /\ j.pc = "blobs"
          /\ j.batch = job.batch
      <4>1. 0 \in 0..BlobsPerBatch
        BY Constants
      <4> HIDE DEF job
      <4> QED BY <2>1, <2>2, <2>4, <4>1 DEF Job
    <3>3. (job.index + 1) - SaveBatchSize - 1 = job.index - job.unsaved - 1
      BY <2>3, <2>5
    <3>4. /\ blobs' \in [Batches -> SUBSET (0..(BlobsPerBatch - 1))]
          /\ \A c \in Batches : blobs[c] \subseteq blobs'[c]
          /\ 0..((job.index + 1) - 1) \subseteq blobs'[job.batch]
      <4> HIDE DEF job
      <4>1. SaveBatchSize \in 0..(job.index + 1)
        BY <2>4, <2>5
      <4> QED BY <2>2, <2>3, <2>4, <2>5, <3>3, <4>1, SaveType
    <3>5. JobSaved(j, blobs'[j.batch])
      <4>1. j.index - j.unsaved - 1 = (job.index + 1) - 1 /\ 0 <= j.index
        BY <2>3, <3>2
      <4> HIDE DEF j, job
      <4> QED BY <3>2, <3>4, <4>1 DEF JobSaved
    <3> HIDE DEF j, job
    <3>6. PoolKept
      BY <3>1, <3>2, <3>4, <3>5, SlotStep
    <3>7. ChainType' /\ TableType' /\ MemType' /\ Heads'
      BY <1>0, <2>1, <3>4 DEF ChainType, TableType, MemType, Heads
    <3> QED BY <1>2, <3>6, <3>7
  <2>6. CASE /\ running' = [running EXCEPT ![s].index = @ + 1, ![s].unsaved = @ + 1]
             /\ UNCHANGED blobs
    <3>1. running' = [running EXCEPT ![s] = k]
      BY <2>6 DEF TypeOK
    <3>2. /\ k \in Job /\ k.index = job.index + 1 /\ k.unsaved = job.unsaved + 1 /\ k.pc = "blobs"
          /\ k.batch = job.batch
      <4>1. job.unsaved + 1 \in 0..BlobsPerBatch
        BY <2>4, Constants
      <4> HIDE DEF job
      <4> QED BY <2>1, <2>2, <2>4, <4>1 DEF Job
    <3>3. JobSaved(k, blobs'[k.batch])
      <4>1. k.index - k.unsaved - 1 = job.index - job.unsaved - 1 /\ k.unsaved <= k.index
        BY <2>3, <3>2
      <4> HIDE DEF k, job
      <4> QED BY <2>3, <2>6, <3>2, <4>1 DEF JobSaved
    <3> HIDE DEF k, job
    <3>4. PoolKept
      BY <2>6, <3>1, <3>2, <3>3, SlotStep
    <3>5. ChainType' /\ TableType' /\ MemType' /\ Heads'
      BY <1>0, <2>1, <2>6 DEF ChainType, TableType, MemType, Heads
    <3> QED BY <1>2, <3>4, <3>5
  <2> QED BY <1>11, <2>5, <2>6 DEF RetrieveBlob
<1>12. ASSUME NEW s \in Slots, EndOfBlobs(s)
       PROVE  TypeOK' /\ Heads' /\ JobsSaved'
  <2> DEFINE job == running[s]
             j == [job EXCEPT !.pc = "row", !.unsaved = 0]
  <2>1. /\ job # Idle /\ job.pc = "blobs" /\ SaveBlobs(job.batch, job.index, job.unsaved)
        /\ running' = [running EXCEPT ![s].pc = "row", ![s].unsaved = 0]
        /\ wrapped' \subseteq wrapped \cup {job.batch}
        /\ UNCHANGED <<chainVars, rows, up, startFrom, lastKnown, gaps, catchDone, queueVars,
                       faults>>
    BY <1>12 DEF EndOfBlobs, SaveRest
  <2>2. /\ job \in Job /\ job.batch \in Batches /\ job.index \in 0..BlobsPerBatch
        /\ job.unsaved \in 0..BlobsPerBatch /\ JobSaved(job, blobs[job.batch])
    BY <2>1, JobFacts DEF JobsSaved
  <2>3. /\ job.unsaved \in 0..job.index /\ job.index \in Nat
        /\ 0..(job.index - job.unsaved - 1) \subseteq blobs[job.batch]
    BY <2>1, <2>2, Constants DEF JobSaved
  <2>4. running' = [running EXCEPT ![s] = j]
    BY <2>1 DEF TypeOK
  <2>5. j \in Job /\ j.index = job.index /\ j.unsaved = 0 /\ j.pc = "row" /\ j.batch = job.batch
    BY <2>2, JobRow
  <2>6. /\ blobs' \in [Batches -> SUBSET (0..(BlobsPerBatch - 1))]
        /\ \A c \in Batches : blobs[c] \subseteq blobs'[c]
        /\ 0..(job.index - 1) \subseteq blobs'[job.batch]
    <3> HIDE DEF job
    <3> QED BY <2>1, <2>2, <2>3, SaveType
  <2>7. JobSaved(j, blobs'[j.batch])
    <3>1. 0 <= job.index
      BY <2>3
    <3> HIDE DEF j, job
    <3> QED BY <2>5, <2>6, <3>1 DEF JobSaved
  <2> HIDE DEF j, job
  <2>8. PoolKept
    BY <2>4, <2>5, <2>6, <2>7, SlotStep
  <2>9. ChainType' /\ TableType' /\ MemType' /\ Heads'
    BY <1>0, <2>1, <2>2, <2>6 DEF ChainType, TableType, MemType, Heads
  <2> QED BY <1>2, <2>8, <2>9
<1>13. ASSUME NEW s \in Slots, SaveBatch(s)
       PROVE  TypeOK' /\ Heads' /\ JobsSaved'
  <2>1. /\ running' = [running EXCEPT ![s] = Idle]
        /\ UNCHANGED <<chainVars, blobs, up, startFrom, lastKnown, gaps, catchDone, queueVars,
                       wrapped, faults>>
    BY <1>13 DEF SaveBatch
  <2>2. rows' \in [Batches -> 0..BlobsPerBatch \cup {NoRow}]
    <3>1. running[s].index \in 0..BlobsPerBatch
      BY <1>13, JobFacts DEF SaveBatch
    <3> QED BY <1>0, <1>13, <3>1 DEF SaveBatch, TableType
  <2>3. PoolKept
    BY <2>1, SlotStep
  <2>4. ChainType' /\ TableType' /\ MemType' /\ Heads'
    BY <1>0, <2>1, <2>2 DEF ChainType, TableType, MemType, Heads
  <2> QED BY <1>2, <2>3, <2>4
<1>14. ASSUME NEW s \in Slots, FailJob(s)
       PROVE  TypeOK' /\ Heads' /\ JobsSaved'
  <2> DEFINE job == running[s]
             j == [Idle EXCEPT !.batch = job.batch, !.tries = job.tries + 1]
  <2>1. /\ job # Idle
        /\ UNCHANGED <<chainVars, dbVars, up, startFrom, lastKnown, gaps, catchDone, newQ, catchQ,
                       retryQ, wrapped>>
        /\ \/ job.tries < Backoff /\ running' = [running EXCEPT ![s] = j] /\ UNCHANGED failed
           \/ running' = [running EXCEPT ![s] = Idle] /\ failed' = failed \cup {job.batch}
    BY <1>14 DEF FailJob, KeepForLater
  <2>2. job \in Job /\ job.batch \in Batches /\ job.tries \in 0..Backoff
    BY <2>1, JobFacts
  <2>3. faults' \in 0..MaxFaults
    BY <1>0, <1>14, FaultType DEF FailJob
  <2>4. ChainType' /\ TableType' /\ MemType' /\ Heads'
    BY <1>0, <2>1, <2>2, <2>3 DEF ChainType, TableType, MemType, Heads
  <2>5. job.tries < Backoff => j \in Job /\ j.index = 0 /\ j.unsaved = 0 /\ j.pc = "blobs"
    <3>1. job.tries < Backoff => job.tries + 1 \in 0..Backoff
      BY <2>2 DEF Backoff
    <3> QED BY <2>2, <3>1, JobNew
  <2>6. job.tries < Backoff => JobSaved(j, blobs'[j.batch])
    <3> HIDE DEF j
    <3> QED BY <2>5 DEF JobSaved
  <2> HIDE DEF j, job
  <2>7. PoolKept
    BY <2>1, <2>5, <2>6, SlotStep
  <2> QED BY <1>2, <2>4, <2>7
<1> QED
  BY <1>3, <1>4, <1>5, <1>6, <1>7, <1>8, <1>9, <1>10, <1>11, <1>12, <1>13, <1>14 DEF Next

(* Every variable keeps its type: last_known_block stays below the head,    *)
(* and the pieces in which blobs are saved stay within the batch.           *)
THEOREM TypeCorrect == Spec => []TypeOK
BY InitType, TypeStep, PTL DEF Spec

-----------------------------------------------------------------------------
(* The row of a batch is written by SaveBatch alone, from a job whose blobs *)
(* are all in the table, and rows of blobs are never removed.               *)

LEMMA BlobsGrow ==
    ASSUME TypeOK, JobsSaved, [Next]_vars
    PROVE  \A b \in Batches : blobs[b] \subseteq blobs'[b]
<1>1. CASE blobs' = blobs
  BY <1>1
<1>2. ASSUME NEW s \in Slots, RetrieveBlob(s), blobs' # blobs
      PROVE  \A b \in Batches : blobs[b] \subseteq blobs'[b]
  <2>1. PICK i, n : SaveBlobs(running[s].batch, i, n)
    BY <1>2 DEF RetrieveBlob
  <2> QED BY <2>1 DEF SaveBlobs, TypeOK
<1>3. ASSUME NEW s \in Slots, EndOfBlobs(s)
      PROVE  \A b \in Batches : blobs[b] \subseteq blobs'[b]
  BY <1>3 DEF EndOfBlobs, SaveRest, SaveBlobs, TypeOK
<1>4. blobs' = blobs \/ \E s \in Slots : RetrieveBlob(s) \/ EndOfBlobs(s)
  BY DEF Next, vars, dbVars, NewBlock, Boot, Crash, Serve, Prune, PollForNewJobs, CatchUp,
         RetryFailedJobs, Take, SaveBatch, FailJob
<1> QED BY <1>1, <1>2, <1>3, <1>4

LEMMA RowsFromJobs ==
    ASSUME [Next]_vars
    PROVE  rows' = rows \/ \E s \in Slots : SaveBatch(s)
BY DEF Next, vars, dbVars, NewBlock, Boot, Crash, Serve, Prune, PollForNewJobs, CatchUp,
       RetryFailedJobs, Take, RetrieveBlob, EndOfBlobs, FailJob

LEMMA BlobsStep ==
    ASSUME TypeOK, JobsSaved, BatchHasBlobs, [Next]_vars
    PROVE  BatchHasBlobs'
<1> SUFFICES ASSUME NEW b \in Batches, rows'[b] # NoRow
             PROVE  0..(rows'[b] - 1) \subseteq blobs'[b]
  BY DEF BatchHasBlobs, Saved
<1>1. CASE rows' = rows
  BY <1>1, BlobsGrow DEF BatchHasBlobs, Saved
<1>2. ASSUME NEW s \in Slots, SaveBatch(s)
      PROVE  0..(rows'[b] - 1) \subseteq blobs'[b]
  <2>1. CASE b # running[s].batch
    <3>1. rows'[b] = rows[b]
      BY <1>2, <2>1 DEF SaveBatch, TypeOK
    <3> QED BY <3>1, BlobsGrow DEF BatchHasBlobs, Saved
  <2>2. CASE b = running[s].batch
    <3>1. rows'[b] = running[s].index /\ blobs' = blobs
      BY <1>2, <2>2 DEF SaveBatch, TypeOK
    <3>2. JobSaved(running[s], blobs[b]) /\ running[s].pc = "row"
      BY <1>2, <2>2 DEF SaveBatch, JobsSaved
    <3> QED BY <3>1, <3>2 DEF JobSaved
  <2> QED BY <2>1, <2>2
<1> QED BY <1>1, <1>2, RowsFromJobs

(* A batch in the table has its blobs: whatever fails or dies between the   *)
(* pieces of process_job, and whoever repeats it, the row of a batch comes  *)
(* after the upserts of all the blobs it counts.                            *)
THEOREM RowAfterBlobs == Spec => []BatchHasBlobs
<1>1. Init => BatchHasBlobs
  BY DEF Init, BatchHasBlobs, Saved
<1> QED BY <1>1, InitType, TypeStep, BlobsStep, PTL DEF Spec

-----------------------------------------------------------------------------
(* A count is the whole batch.  While the disperser does not serve a batch  *)
(* nothing of it has been counted, so a job stops short of the whole batch  *)
(* only behind the pruning, or with nothing, when the batch was old enough. *)

Whole(b, n) ==
    \/ n = BlobsPerBatch
    \/ disperser[b] = "pruned"
    \/ n = 0 /\ (at[b] + PruningThreshold <= head \/ b \in wrapped)

JobWhole(j) ==
    /\ disperser[j.batch] = "unready" => j.index = 0
    /\ j.pc = "row" => Whole(j.batch, j.index)

JobsWhole == \A s \in Slots : running[s] # Idle => JobWhole(running[s])

LEMMA Remainder ==
    ASSUME NEW x \in Nat, NEW n \in Nat, n > 0
    PROVE  x % n <= x
BY Z3

LEMMA WorldStep ==
    ASSUME TypeOK, [Next]_vars
    PROVE  /\ at' = at /\ head' >= head /\ head' \in Nat /\ wrapped \subseteq wrapped'
           /\ \A b \in Batches : disperser[b] = "pruned" => disperser'[b] = "pruned"
           /\ \A b \in Batches : disperser'[b] = "unready" => disperser[b] = "unready"
<1>1. head \in Nat /\ head >= head /\ head + 1 >= head /\ head + 1 \in Nat
  BY DEF TypeOK
<1>2. CASE NewBlock \/ UNCHANGED <<chainVars, wrapped>>
  BY <1>1, <1>2 DEF NewBlock, chainVars
<1>3. ASSUME NEW b \in Batches, Serve(b) \/ Prune(b)
      PROVE  /\ at' = at /\ head' = head /\ wrapped' = wrapped
             /\ \A c \in Batches : disperser[c] = "pruned" => disperser'[c] = "pruned"
             /\ \A c \in Batches : disperser'[c] = "unready" => disperser[c] = "unready"
  BY <1>3 DEF Serve, Prune, TypeOK
<1>4. ASSUME NEW s \in Slots, EndOfBlobs(s)
      PROVE  UNCHANGED chainVars /\ wrapped \subseteq wrapped'
  BY <1>4 DEF EndOfBlobs
<1>5. \/ NewBlock \/ UNCHANGED <<chainVars, wrapped>>
      \/ \E b \in Batches : Serve(b) \/ Prune(b)
      \/ \E s \in Slots : EndOfBlobs(s)
  BY DEF Next, vars, chainVars, Boot, Crash, PollForNewJobs, CatchUp, RetryFailedJobs, Take,
         RetrieveBlob, SaveBatch, FailJob
<1>6. CASE \E s \in Slots : EndOfBlobs(s)
  BY <1>1, <1>4, <1>6 DEF chainVars
<1>7. CASE \E b \in Batches : Serve(b) \/ Prune(b)
  BY <1>1, <1>3, <1>7
<1> QED BY <1>2, <1>5, <1>6, <1>7

LEMMA WholeStays ==
    ASSUME TypeOK, [Next]_vars, NEW b \in Batches, NEW n, Whole(b, n)
    PROVE  Whole(b, n)'
<1>1. at[b] \in Nat /\ head \in Nat /\ PruningThreshold \in Nat
  BY Constants DEF TypeOK
<1>2. at' = at /\ head' >= head /\ head' \in Nat
  BY WorldStep
<1>3. at[b] + PruningThreshold <= head => at'[b] + PruningThreshold <= head'
  BY <1>1, <1>2
<1> QED BY <1>3, WorldStep DEF Whole

LEMMA JobWholeStays ==
    ASSUME TypeOK, [Next]_vars, NEW j \in Job, JobWhole(j)
    PROVE  /\ disperser'[j.batch] = "unready" => j.index = 0
           /\ j.pc = "row" => Whole(j.batch, j.index)'
<1>1. j.batch \in Batches
  BY DEF Job
<1> QED BY <1>1, WorldStep, WholeStays DEF JobWhole

(* A slot changes, and its job, if there is one, keeps to JobWhole. *)
LEMMA SlotWhole ==
    ASSUME TypeOK, JobsWhole, [Next]_vars, NEW s \in Slots,
           \A r \in Slots : r # s => running'[r] = running[r],
           running'[s] # Idle => JobWhole(running[s])'
    PROVE  JobsWhole'
<1> SUFFICES ASSUME NEW r \in Slots, running'[r] # Idle
             PROVE  JobWhole(running[r])'
  BY DEF JobsWhole
<1>1. CASE r # s
  <2>1. running'[r] = running[r] /\ running[r] # Idle /\ running[r] \in Job
    BY <1>1, JobFacts
  <2>2. JobWhole(running[r])
    BY <2>1 DEF JobsWhole
  <2>3. \A j \in Job : JobWhole(j) =>
          /\ disperser'[j.batch] = "unready" => j.index = 0
          /\ j.pc = "row" => Whole(j.batch, j.index)'
    BY JobWholeStays
  <2> QED BY <2>1, <2>2, <2>3 DEF JobWhole, Whole
<1> QED BY <1>1

LEMMA CountStep ==
    ASSUME TypeOK, TypeOK', Heads, JobsWhole, CountIsWhole, [Next]_vars
    PROVE  JobsWhole' /\ CountIsWhole'
<1>1. ASSUME NEW s \in Slots, EndOfBlobs(s)
      PROVE  JobsWhole'
  <2> DEFINE job == running[s]
  <2>1. /\ job \in Job /\ job.batch \in Batches /\ job.index \in Nat /\ JobWhole(job)
    <3>1. job # Idle
      BY <1>1 DEF EndOfBlobs
    <3> QED BY <3>1, JobFacts DEF JobsWhole
  <2>2. /\ running'[s] = [job EXCEPT !.pc = "row", !.unsaved = 0]
        /\ \A r \in Slots : r # s => running'[r] = running[r]
    BY <1>1 DEF EndOfBlobs, TypeOK
  <2>3. /\ running'[s].index = job.index /\ running'[s].batch = job.batch
        /\ running'[s].pc = "row"
    BY <2>1, <2>2, JobRow
  <2>4. /\ NotFound(job) /\ ~(job.index = 0 /\ Recent(job.batch))
        /\ wrapped' = wrapped \cup {b \in {job.batch} : job.index = 0 /\ at[b] > lastKnown}
        /\ UNCHANGED chainVars
    BY <1>1 DEF EndOfBlobs
  <2>5. at[job.batch] \in Nat /\ lastKnown \in Nat /\ head \in Nat /\ lastKnown <= head
    BY <2>1 DEF TypeOK, Heads
  <2>6. CASE job.index = BlobsPerBatch \/ disperser[job.batch] = "pruned"
    <3>1. JobWhole(running[s])'
      BY <2>1, <2>3, <2>4, <2>6 DEF JobWhole, Whole, chainVars
    <3> QED BY <2>2, <3>1, SlotWhole
  <2>7. CASE disperser[job.batch] = "unready" /\ job.index = 0
    <3>1. ~Recent(job.batch)
      BY <2>4, <2>7
    <3>2. at[job.batch] > lastKnown => job.batch \in wrapped'
      BY <2>4, <2>7
    <3>3. at[job.batch] <= lastKnown => at[job.batch] + PruningThreshold <= head
      <4> SUFFICES ASSUME at[job.batch] <= lastKnown
                   PROVE  at[job.batch] + PruningThreshold <= head
        OBVIOUS
      <4>1. lastKnown - at[job.batch] \in Nat
        BY <2>5
      <4>2. (lastKnown - at[job.batch]) % U64 <= lastKnown - at[job.batch]
        BY <4>1, Constants, Remainder
      <4>3. (lastKnown - at[job.batch]) % U64 \in Int
        BY <4>1, Constants
      <4>4. ~((lastKnown - at[job.batch]) % U64 < PruningThreshold)
        BY <3>1 DEF Recent, Age
      <4> HIDE DEF job
      <4> QED BY <2>5, <4>2, <4>3, <4>4, Constants
    <3>4. at[job.batch] + PruningThreshold <= head \/ job.batch \in wrapped'
      BY <2>5, <3>2, <3>3
    <3>5. JobWhole(running[s])'
      BY <2>3, <2>4, <2>7, <3>4 DEF JobWhole, Whole, chainVars
    <3> QED BY <2>2, <3>5, SlotWhole
  <2>8. disperser[job.batch] \in {"unready", "served", "pruned"}
    BY <2>1 DEF TypeOK
  <2> QED BY <2>1, <2>4, <2>6, <2>7, <2>8 DEF NotFound, JobWhole
<1>2. ASSUME NEW s \in Slots, RetrieveBlob(s)
      PROVE  JobsWhole'
  <2>1. /\ running[s] # Idle /\ running[s].pc = "blobs" /\ disperser[running[s].batch] = "served"
        /\ disperser' = disperser
    BY <1>2 DEF RetrieveBlob, chainVars
  <2>2. running[s] \in Job
    BY <2>1, JobFacts
  <2>3. \E i, u : running' = [running EXCEPT ![s] = [running[s] EXCEPT !.index = i, !.unsaved = u]]
    BY <1>2 DEF RetrieveBlob, TypeOK
  <2>4. running'[s].batch = running[s].batch /\ running'[s].pc = "blobs"
    BY <2>1, <2>2, <2>3 DEF Job, TypeOK
  <2>5. \A r \in Slots : r # s => running'[r] = running[r]
    BY <2>3 DEF TypeOK
  <2>6. JobWhole(running[s])'
    BY <2>1, <2>4 DEF JobWhole
  <2> QED BY <2>5, <2>6, SlotWhole
<1>3. ASSUME NEW s \in Slots, Take(s) \/ FailJob(s) \/ SaveBatch(s)
      PROVE  JobsWhole'
  <2>1. \/ running' = [running EXCEPT ![s] = Idle]
        \/ \E b, n : running' = [running EXCEPT ![s] = [Idle EXCEPT !.batch = b, !.tries = n]]
        \/ \E b : running' = [running EXCEPT ![s] = [Idle EXCEPT !.batch = b]]
    BY <1>3 DEF Take, FailJob, SaveBatch
  <2>2. \A r \in Slots : r # s => running'[r] = running[r]
    BY <2>1 DEF TypeOK
  <2>3. running'[s] # Idle => running'[s].index = 0 /\ running'[s].pc = "blobs"
    BY <2>1 DEF TypeOK, Idle
  <2>4. running'[s] # Idle => JobWhole(running[s])'
    BY <2>3 DEF JobWhole
  <2> QED BY <2>2, <2>4, SlotWhole
<1>4. ASSUME running' = running
      PROVE  JobsWhole'
  <2>1. PICK s : s \in Slots
    BY ConstantsAssumption
  <2>2. running[s] # Idle => JobWhole(running[s])'
    <3> SUFFICES ASSUME running[s] # Idle PROVE JobWhole(running[s])'
      OBVIOUS
    <3>1. running[s] \in Job /\ JobWhole(running[s])
      BY <2>1, JobFacts DEF JobsWhole
    <3>2. \A j \in Job : JobWhole(j) =>
            /\ disperser'[j.batch] = "unready" => j.index = 0
            /\ j.pc = "row" => Whole(j.batch, j.index)'
      BY JobWholeStays
    <3> QED BY <1>4, <3>1, <3>2 DEF JobWhole, Whole
  <2> QED BY <1>4, <2>1, <2>2, SlotWhole
<1>5. ASSUME Boot \/ Crash
      PROVE  JobsWhole'
  BY <1>5 DEF Boot, Crash, Fresh, JobsWhole
<1>6. JobsWhole'
  <2>1. \/ running' = running \/ Boot \/ Crash
        \/ \E s \in Slots : Take(s) \/ RetrieveBlob(s) \/ EndOfBlobs(s) \/ SaveBatch(s) \/ FailJob(s)
    BY DEF Next, vars, memVars, NewBlock, Serve, Prune, PollForNewJobs, CatchUp, RetryFailedJobs
  <2> QED BY <1>1, <1>2, <1>3, <1>4, <1>5, <2>1
<1>7. CountIsWhole'
  <2> SUFFICES ASSUME NEW b \in Batches, rows'[b] # NoRow
               PROVE  \/ rows'[b] = BlobsPerBatch \/ disperser'[b] = "pruned"
                      \/ rows'[b] = 0 /\ (at'[b] + PruningThreshold <= head' \/ b \in wrapped')
    BY DEF CountIsWhole, Saved
  <2>1. \A n \in 0..BlobsPerBatch : Whole(b, n) => Whole(b, n)'
    BY WholeStays
  <2>2. Whole(b, rows'[b])
    <3>1. CASE rows'[b] = rows[b]
      BY <3>1 DEF CountIsWhole, Saved, Whole
    <3>2. CASE rows'[b] # rows[b]
      <4>1. PICK s \in Slots : SaveBatch(s)
        BY <3>2, RowsFromJobs
      <4>2. rows'[b] = running[s].index /\ running[s].batch = b
        BY <3>2, <4>1 DEF SaveBatch, TypeOK
      <4> QED BY <4>1, <4>2 DEF SaveBatch, JobsWhole, JobWhole, Whole
    <3> QED BY <3>1, <3>2
  <2>3. rows'[b] \in 0..BlobsPerBatch
    BY DEF TypeOK
  <2> QED BY <2>1, <2>2, <2>3 DEF Whole
<1> QED BY <1>6, <1>7

(* blobs_count is the whole batch, unless the disperser had pruned it, or   *)
(* nothing was found of a batch that is past the pruning threshold, or the  *)
(* age of the batch wrapped around: the retries of process_job save no      *)
(* other short count.                                                       *)
THEOREM CountsAreWhole == Spec => []CountIsWhole
<1>1. Init => JobsWhole /\ CountIsWhole
  BY DEF Init, CountIsWhole, Saved, JobsWhole
<1> QED BY <1>1, InitType, TypeStep, CountStep, PTL DEF Spec

-----------------------------------------------------------------------------
(* No batch is dropped.  A set of blocks or of ids has a least element, and *)
(* a greatest one below any bound.                                          *)

LEMMA Least ==
    ASSUME NEW S \in SUBSET Nat, S # {}
    PROVE  \E m \in S : \A n \in S : m <= n
<1>1. IsWellFoundedOn(OpToRel(<, Nat), Nat)
  BY NatLessThanWellFounded
<1>2. PICK m \in S : \A n \in S : ~(<<n, m>> \in OpToRel(<, Nat))
  BY <1>1, WFMin
<1>3. \A n \in S : ~(n < m)
  BY <1>2 DEF OpToRel
<1>4. \A n \in S : m <= n
  BY <1>3
<1> QED BY <1>4

LEMMA Greatest ==
    ASSUME NEW S \in SUBSET Nat, S # {}, NEW top \in Nat, \A n \in S : n <= top
    PROVE  \E m \in S : \A n \in S : n <= m
<1> DEFINE U == {u \in Nat : \A n \in S : n <= u}
<1>1. top \in U /\ U \in SUBSET Nat
  OBVIOUS
<1>2. PICK m \in U : \A u \in U : m <= u
  <2> HIDE DEF U
  <2> QED BY <1>1, Least
<1>3. m \in S
  <2> SUFFICES ASSUME m \notin S PROVE FALSE
    OBVIOUS
  <2>1. \A n \in S : n \in Nat /\ n <= m /\ n # m
    OBVIOUS
  <2>2. \A n \in S : n <= m - 1
    <3> TAKE n \in S
    <3>1. n \in Nat /\ n <= m /\ n # m /\ m \in Nat
      BY <2>1
    <3> QED BY <3>1
  <2>3. m - 1 \in Nat
    <3>1. PICK n \in S : n \in Nat /\ n <= m /\ n # m
      BY <2>1
    <3> QED BY <3>1
  <2>4. m - 1 \in U
    BY <2>2, <2>3
  <2> QED BY <1>2, <2>4
<1> QED BY <1>3

LEMMA Quotients ==
    ASSUME NEW n \in Nat, n > 0, NEW x \in Nat, NEW y \in Nat, x <= y
    PROVE  x \div n \in Nat /\ y \div n \in Nat /\ x \div n <= y \div n
<1> DEFINE q == x \div n
           r == y \div n
<1>1. q \in Int /\ r \in Int /\ q >= 0 /\ r >= 0
  BY Z3
<1>2. n * q <= x /\ y < n * r + n
  BY Z3
<1> HIDE DEF q, r
<1>3. q <= r
  BY <1>1, <1>2, Z3
<1> QED BY <1>1, <1>3 DEF q, r

(* The blocks of the chain are in the order of the batches. *)
OnChain == at \in Chains

LEMMA ChainOrder ==
    ASSUME OnChain
    PROVE  /\ \A b, c \in Batches : b < c => at[b] <= at[c]
           /\ \A b \in Batches : CreationBlock <= at[b]
           /\ \A b \in Batches : b \in Nat
BY ConstantsAssumption DEF OnChain

(* find_gaps leaves no batch before the block it searches to out. *)
LEMMA GapsCover ==
    ASSUME TypeOK, OnChain, NEW to \in Nat, NEW b \in Batches \ Saved, at[b] < to
    PROVE  \E g \in FirstGap(to) \cup InnerGaps(to) \cup LastGap(to) :
              g.start <= at[b] /\ at[b] <= g.end
<1> DEFINE low   == {a \in Saved : at[a] <= to}
           below == {a \in low : a < b}
           above == {a \in low : b < a}
<1>0. /\ Saved \subseteq Batches /\ b \in Nat /\ CreationBlock <= at[b]
      /\ \A a \in Batches : a \in Nat /\ at[a] \in Nat
      /\ \A a, c \in Batches : a < c => at[a] <= at[c]
  BY ChainOrder DEF Saved, TypeOK
<1>1. CASE Saved = {}
  <2>1. [after |-> NoBatch, start |-> CreationBlock, end |-> to] \in FirstGap(to)
    BY <1>1 DEF FirstGap
  <2> QED BY <1>0, <2>1
<1>2. CASE Saved # {} /\ \A a \in Saved : ~(a < b)
  <2>1. PICK m \in Saved : \A n \in Saved : m <= n
    BY <1>0, <1>2, Least
  <2>2. b < m /\ m # 0 /\ m \in Nat
    BY <1>0, <1>2, <2>1
  <2>3. m \in Minima(Saved) \ {0}
    BY <2>1, <2>2 DEF Minima
  <2>4. [after |-> NoBatch, start |-> CreationBlock, end |-> at[m]] \in FirstGap(to)
    BY <1>2, <2>3 DEF FirstGap
  <2>5. at[b] <= at[m]
    BY <1>0, <2>2
  <2> QED BY <1>0, <2>4, <2>5
<1>3. CASE \E a \in Saved : a < b
  <2>1. PICK a0 \in Saved : a0 < b
    BY <1>3
  <2>2. at[a0] <= to
    <3>1. at[a0] <= at[b] /\ at[a0] \in Nat /\ at[b] \in Nat
      BY <1>0, <2>1
    <3> QED BY <3>1
  <2>3. PICK a \in below : \A n \in below : n <= a
    <3>1. a0 \in below /\ below \in SUBSET Nat
      BY <1>0, <2>1, <2>2
    <3>2. \A n \in below : n <= b
      <4>1. \A n \in below : n \in Nat /\ n < b
        BY <1>0
      <4> QED BY <1>0, <4>1
    <3> HIDE DEF below
    <3> QED BY <1>0, <3>1, <3>2, Greatest
  <2>4. a \in low /\ a \in Batches /\ a < b /\ at[a] <= at[b]
    BY <1>0, <2>3
  <2>5. CASE above # {}
    <3>1. PICK c \in above : \A n \in above : c <= n
      <4>1. above \in SUBSET Nat
        BY <1>0
      <4> HIDE DEF above
      <4> QED BY <2>5, <4>1, Least
    <3>2. c \in low /\ c \in Batches /\ b < c /\ at[b] <= at[c]
      BY <1>0, <3>1
    <3>3. Next2(low, a, c) /\ a + 1 # c
      <4>1. a < c /\ a + 1 # c
        <5>1. a \in Nat /\ b \in Nat /\ c \in Nat /\ a < b /\ b < c
          BY <1>0, <2>4, <3>2
        <5> QED BY <5>1
      <4>2. \A n \in low : n <= a \/ c <= n
        <5> TAKE n \in low
        <5>1. n # b /\ n \in Nat
          BY <1>0
        <5>2. CASE n < b
          BY <2>3, <5>2
        <5>3. CASE b < n
          BY <3>1, <5>3
        <5> QED BY <1>0, <5>1, <5>2, <5>3
      <4> QED BY <4>1, <4>2 DEF Next2
    <3>4. [after |-> a, start |-> at[a], end |-> at[c]] \in InnerGaps(to)
      <4>1. <<a, c>> \in {q \in low \X low : Next2(low, q[1], q[2]) /\ q[1] + 1 # q[2]}
        BY <2>4, <3>2, <3>3
      <4>2. [after |-> <<a, c>>[1], start |-> at[<<a, c>>[1]], end |-> at[<<a, c>>[2]]] \in InnerGaps(to)
        BY <4>1 DEF InnerGaps
      <4> QED BY <4>2
    <3> QED BY <2>4, <3>2, <3>4
  <2>6. CASE above = {}
    <3>1. a \in Maxima(low)
      <4>1. \A n \in low : n <= a
        <5> TAKE n \in low
        <5>1. n # b /\ n \in Nat /\ ~(b < n)
          BY <1>0, <2>6
        <5>2. n < b
          BY <1>0, <5>1
        <5> QED BY <2>3, <5>2
      <4> QED BY <2>4, <4>1 DEF Maxima
    <3>2. at[a] < to
      <4>1. at[a] \in Nat /\ at[b] \in Nat /\ at[a] <= at[b] /\ CreationBlock <= at[b]
        BY <1>0, <2>4
      <4> QED BY <4>1
    <3>3. [after |-> a, start |-> at[a], end |-> to] \in LastGap(to)
      BY <3>1, <3>2 DEF LastGap
    <3>4. at[b] <= to
      BY <1>0
    <3> QED BY <2>4, <3>3, <3>4
  <2> QED BY <2>5, <2>6
<1> QED BY <1>1, <1>2, <1>3

(* get_logs takes the earlier blocks first. *)
LEMMA SoftFirst ==
    ASSUME TypeOK, NEW g \in Gap, NEW b \in Logs(g.start, g.end),
           NEW c \in SoftLogs(g.start, g.end), at[b] <= at[c]
    PROVE  b \in SoftLogs(g.start, g.end)
<1>1. /\ g.start \in Nat /\ b \in Batches /\ c \in Batches /\ g.start <= at[b]
      /\ \A d \in Batches : at[d] \in Nat
  BY DEF Gap, Logs, SoftLogs, TypeOK
<1>2. RpcBatchSize + 1 \in Nat /\ RpcBatchSize + 1 > 0
  BY Constants
<1>3. at[b] - g.start \in Nat /\ at[c] - g.start \in Nat /\ at[b] - g.start <= at[c] - g.start
  BY <1>1
<1>4. Piece(g.start, b) \in Nat /\ Piece(g.start, c) \in Nat /\ Piece(g.start, b) <= Piece(g.start, c)
  BY <1>2, <1>3, Quotients DEF Piece
<1>5. \A d \in Logs(g.start, g.end) : Piece(g.start, c) <= Piece(g.start, d) /\ Piece(g.start, d) \in Nat
  <2> TAKE d \in Logs(g.start, g.end)
  <2>1. Piece(g.start, c) <= Piece(g.start, d)
    BY DEF SoftLogs
  <2>2. at[d] - g.start \in Nat
    BY <1>1 DEF Logs
  <2> QED BY <1>2, <2>1, <2>2, Quotients DEF Piece
<1>6. \A d \in Logs(g.start, g.end) : Piece(g.start, b) <= Piece(g.start, d)
  BY <1>4, <1>5
<1> QED BY <1>6 DEF SoftLogs

LEMMA SoftNotEmpty ==
    ASSUME TypeOK, NEW g \in Gap, Logs(g.start, g.end) # {}
    PROVE  SoftLogs(g.start, g.end) # {}
<1> DEFINE L == Logs(g.start, g.end)
           S == {Piece(g.start, b) : b \in L}
<1>1. \A b \in L : Piece(g.start, b) \in Nat
  <2> TAKE b \in L
  <2>1. at[b] - g.start \in Nat /\ RpcBatchSize + 1 \in Nat /\ RpcBatchSize + 1 > 0
    BY Constants DEF Logs, Gap, TypeOK
  <2>2. at[b] - g.start <= at[b] - g.start
    BY <2>1
  <2> QED BY <2>1, <2>2, Quotients DEF Piece
<1>2. S \in SUBSET Nat /\ S # {}
  BY <1>1
<1>3. PICK m \in S : \A n \in S : m <= n
  <2> HIDE DEF S
  <2> QED BY <1>2, Least
<1>4. PICK b \in L : m = Piece(g.start, b)
  OBVIOUS
<1>5. b \in SoftLogs(g.start, g.end)
  BY <1>3, <1>4 DEF SoftLogs
<1> QED BY <1>5

(* A batch of a gap that is searched is saved already, in the answer, or in *)
(* the rest of the gap.                                                     *)
LEMMA SearchKeeps ==
    ASSUME TypeOK, NEW g \in Gap, NEW b \in Batches, g.start <= at[b], at[b] <= g.end
    PROVE  \/ b \in Saved
           \/ b \in Earliest(Unprocessed(g))
           \/ \E h \in Rest(g) : h.start <= at[b] /\ at[b] <= h.end
<1> SUFFICES ASSUME b \notin Saved
             PROVE  \/ b \in Earliest(Unprocessed(g))
                    \/ \E h \in Rest(g) : h.start <= at[b] /\ at[b] <= h.end
  OBVIOUS
<1>0. /\ b \in Logs(g.start, g.end) /\ g.end \in Nat /\ g.start \in Nat
      /\ \A d \in Batches : at[d] \in Nat
      /\ SoftLogs(g.start, g.end) \subseteq Logs(g.start, g.end)
      /\ Logs(g.start, g.end) \subseteq Batches
      /\ \A d \in Logs(g.start, g.end) : at[d] <= g.end
      /\ Unprocessed(g) \subseteq SoftLogs(g.start, g.end)
      /\ ~OnEdge(g, b)
  BY DEF Logs, SoftLogs, Gap, TypeOK, Unprocessed, OnEdge
<1>1. ASSUME NEW e \in EndBlock(g), e \in Nat, e < at[b]
      PROVE  \E h \in Rest(g) : h.start <= at[b] /\ at[b] <= h.end
  <2>1. e < g.end /\ e + 1 <= at[b]
    BY <1>0, <1>1
  <2>2. [g EXCEPT !.start = e + 1] \in Rest(g)
    BY <1>1, <2>1 DEF Rest
  <2>3. [g EXCEPT !.start = e + 1].start = e + 1 /\ [g EXCEPT !.start = e + 1].end = g.end
    BY DEF Gap
  <2> QED BY <2>1, <2>2, <2>3
<1>2. CASE Unprocessed(g) # {}
  <2> DEFINE U == {at[d] : d \in Unprocessed(g)}
  <2>1. PICK m \in U : \A n \in U : m <= n
    <3>1. U \in SUBSET Nat /\ U # {}
      BY <1>0, <1>2
    <3> HIDE DEF U
    <3> QED BY <3>1, Least
  <2>2. PICK c \in Unprocessed(g) : m = at[c]
    OBVIOUS
  <2>3. c \in Earliest(Unprocessed(g)) /\ c \in SoftLogs(g.start, g.end) /\ at[c] \in Nat
    BY <1>0, <2>1, <2>2 DEF Earliest
  <2>4. CASE at[c] < at[b]
    <3>1. at[c] \in EndBlock(g)
      BY <1>2, <2>3 DEF EndBlock
    <3> QED BY <1>1, <2>3, <2>4, <3>1
  <2>5. CASE ~(at[c] < at[b])
    <3>1. at[b] <= at[c] /\ at[b] \in Nat
      BY <1>0, <2>3, <2>5
    <3>2. b \in Unprocessed(g)
      BY <1>0, <2>3, <3>1, SoftFirst DEF Unprocessed
    <3>3. \A d \in Unprocessed(g) : at[b] <= at[d]
      <4> TAKE d \in Unprocessed(g)
      <4>1. at[c] <= at[d] /\ at[d] \in Nat
        BY <1>0, <2>1, <2>2
      <4> QED BY <2>3, <3>1, <4>1
    <3> QED BY <3>2, <3>3 DEF Earliest
  <2> QED BY <2>4, <2>5
<1>3. CASE Unprocessed(g) = {}
  <2> DEFINE U == {at[d] : d \in SoftLogs(g.start, g.end)}
  <2>1. PICK m \in U : \A n \in U : n <= m
    <3>1. U \in SUBSET Nat /\ U # {} /\ \A n \in U : n <= g.end
      BY <1>0, SoftNotEmpty
    <3> HIDE DEF U
    <3> QED BY <1>0, <3>1, Greatest
  <2>2. PICK c \in SoftLogs(g.start, g.end) : m = at[c]
    OBVIOUS
  <2>3. at[c] \in EndBlock(g) /\ at[c] \in Nat
    BY <1>0, <1>3, <2>1, <2>2 DEF EndBlock, Maxima
  <2>4. CASE at[c] < at[b]
    BY <1>1, <2>3, <2>4
  <2>5. CASE ~(at[c] < at[b])
    <3>1. at[b] <= at[c]
      BY <1>0, <2>3, <2>5
    <3>2. b \in Unprocessed(g)
      BY <1>0, <3>1, SoftFirst DEF Unprocessed
    <3> QED BY <1>3, <3>2
  <2> QED BY <2>4, <2>5
<1> QED BY <1>2, <1>3

(* The block before the first one searched for is a block, so that batches  *)
(* of the very first block are not taken for known.                         *)
LaterStart == StartBlock # 0 \/ CreationBlock > 0

(* Nothing takes the row of a batch away. *)
LEMMA SavedStays ==
    ASSUME TypeOK, [Next]_vars, NEW b \in Saved
    PROVE  b \in Saved'
<1>1. CASE rows' = rows
  BY <1>1 DEF Saved
<1>2. ASSUME NEW s \in Slots, SaveBatch(s)
      PROVE  rows'[b] # NoRow
  <2>1. running[s].index \in 0..BlobsPerBatch
    BY <1>2, JobFacts DEF SaveBatch
  <2>2. running[s].index # NoRow
    BY <2>1, Constants DEF NoRow
  <2> QED BY <1>2, <2>2 DEF SaveBatch, TypeOK, Saved
<1> QED BY <1>1, <1>2, RowsFromJobs DEF Saved

(* What is held is handed on by every step that is neither a crash nor a    *)
(* start, unless the step saves it.                                         *)
LEMMA HeldStays ==
    ASSUME TypeOK, [Next]_vars, ~Boot, ~Crash, NEW b \in Batches, Held(b)
    PROVE  Held(b)' \/ \E s \in Slots : SaveBatch(s) /\ running[s].batch = b
<1>1. CASE b \in newQ \cup catchQ \cup retryQ \cup failed
  <2>1. CASE UNCHANGED queueVars
    BY <1>1, <2>1 DEF Held, queueVars
  <2>2. CASE PollForNewJobs \/ CatchUp \/ RetryFailedJobs
    BY <1>1, <2>2 DEF PollForNewJobs, CatchUp, RetryFailedJobs, Held
  <2>3. ASSUME NEW s \in Slots, Take(s)
        PROVE  Held(b)'
    <3>1. PICK c \in newQ \cup catchQ \cup retryQ :
            /\ newQ \subseteq newQ' \cup {c} /\ catchQ \subseteq catchQ' \cup {c}
            /\ retryQ \subseteq retryQ' \cup {c} /\ failed' = failed
            /\ running' = [running EXCEPT ![s] = [Idle EXCEPT !.batch = c]]
      BY <2>3 DEF Take
    <3>2. running'[s].batch = c
      BY <3>1 DEF TypeOK, Idle
    <3> QED BY <1>1, <3>1, <3>2 DEF Held
  <2>4. ASSUME NEW s \in Slots, FailJob(s)
        PROVE  Held(b)'
    BY <1>1, <2>4 DEF FailJob, KeepForLater, Held
  <2>5. \/ UNCHANGED queueVars \/ PollForNewJobs \/ CatchUp \/ RetryFailedJobs
        \/ \E s \in Slots : Take(s) \/ FailJob(s)
    BY DEF Next, vars, memVars, queueVars, NewBlock, Serve, Prune, RetrieveBlob, EndOfBlobs, SaveBatch
  <2> QED BY <2>1, <2>2, <2>3, <2>4, <2>5
<1>2. ASSUME NEW r \in Slots, running[r].batch = b
      PROVE  Held(b)' \/ \E s \in Slots : SaveBatch(s) /\ running[s].batch = b
  <2>0. running[r] # Idle
    BY <1>2, Constants DEF Idle
  <2>1. running[r] \in Job
    BY <2>0, JobFacts
  <2>2. CASE running'[r] = running[r]
    BY <1>2, <2>2 DEF Held
  <2>3. ASSUME NEW s \in Slots, SaveBatch(s), running'[r] # running[r]
        PROVE  running[s].batch = b
    BY <1>2, <2>3 DEF SaveBatch, TypeOK
  <2>4. ASSUME NEW s \in Slots, FailJob(s), running'[r] # running[r]
        PROVE  Held(b)'
    <3>1. r = s
      BY <2>4 DEF FailJob, TypeOK
    <3>2. \/ running' = [running EXCEPT
                           ![s] = [Idle EXCEPT !.batch = running[s].batch,
                                               !.tries = running[s].tries + 1]]
          \/ failed' = failed \cup {b}
      BY <1>2, <2>4, <3>1 DEF FailJob, KeepForLater
    <3>3. running'[r].batch = b \/ b \in failed'
      BY <1>2, <3>1, <3>2 DEF TypeOK, Idle
    <3> QED BY <3>3 DEF Held
  <2>5. ASSUME NEW s \in Slots, Take(s)
        PROVE  running'[r] = running[r]
    BY <2>0, <2>5 DEF Take, TypeOK
  <2>6. ASSUME NEW s \in Slots, RetrieveBlob(s) \/ EndOfBlobs(s), running'[r] # running[r]
        PROVE  Held(b)'
    <3> DEFINE job == running[s]
    <3>1. job \in Job
      BY <2>6, JobFacts DEF RetrieveBlob, EndOfBlobs
    <3>2. CASE RetrieveBlob(s)
      <4>1. PICK i, u : running' = [running EXCEPT ![s] = [job EXCEPT !.index = i, !.unsaved = u]]
        <5>1. \/ running' = [running EXCEPT ![s] = [job EXCEPT !.index = job.index + 1, !.unsaved = 0]]
              \/ running' = [running EXCEPT ![s] = [job EXCEPT !.index = job.index + 1,
                                                               !.unsaved = job.unsaved + 1]]
          BY <3>2 DEF RetrieveBlob, TypeOK
        <5> QED BY <5>1
      <4>2. r = s /\ running'[r] = [job EXCEPT !.index = i, !.unsaved = u]
        BY <2>6, <4>1 DEF TypeOK
      <4> HIDE DEF job
      <4>3. running'[r].batch = job.batch
        BY <3>1, <4>2 DEF Job
      <4> QED BY <1>2, <4>2, <4>3 DEF Held, job
    <3>3. CASE EndOfBlobs(s)
      <4>1. running' = [running EXCEPT ![s] = [job EXCEPT !.pc = "row", !.unsaved = 0]]
        BY <3>3 DEF EndOfBlobs, TypeOK
      <4>2. r = s /\ running'[r] = [job EXCEPT !.pc = "row", !.unsaved = 0]
        BY <2>6, <4>1 DEF TypeOK
      <4>3. running'[r].batch = job.batch
        BY <3>1, <4>2, JobRow
      <4> QED BY <1>2, <4>2, <4>3 DEF Held
    <3> QED BY <2>6, <3>2, <3>3
  <2>7. \/ running' = running
        \/ \E s \in Slots : Take(s) \/ RetrieveBlob(s) \/ EndOfBlobs(s) \/ SaveBatch(s) \/ FailJob(s)
    BY DEF Next, vars, memVars, NewBlock, Serve, Prune, PollForNewJobs, CatchUp, RetryFailedJobs
  <2> QED BY <2>2, <2>3, <2>4, <2>5, <2>6, <2>7
<1> QED BY <1>1, <1>2 DEF Held

(* The batch of a job that ends well is in the table. *)
LEMMA SavesBatch ==
    ASSUME TypeOK, NEW s \in Slots, SaveBatch(s)
    PROVE  /\ running[s].batch \in Batches
           /\ Saved' = Saved \cup {running[s].batch}
<1>1. running[s].batch \in Batches /\ running[s].index \in 0..BlobsPerBatch
  BY JobFacts DEF SaveBatch
<1>2. running[s].index # NoRow
  BY <1>1, Constants DEF NoRow
<1> QED BY <1>1, <1>2 DEF SaveBatch, Saved, TypeOK

(* A batch that is on the way stays so, or is saved, by every step that is  *)
(* neither a crash nor a start.                                             *)
LEMMA StaysOnTheWay ==
    ASSUME TypeOK, [Next]_vars, ~Boot, ~Crash, NEW b \in Batches,
           b \in Saved \/ Held(b) \/ InGap(b)
    PROVE  (b \in Saved \/ Held(b) \/ InGap(b))'
<1>0. at' = at /\ at[b] \in Nat
  BY WorldStep DEF TypeOK
<1>1. CASE b \in Saved
  BY <1>1, SavedStays
<1>2. CASE InGap(b)
  <2>1. CASE gaps' = gaps
    BY <1>0, <1>2, <2>1 DEF InGap
  <2>2. CASE CatchUp
    <3>1. PICK g \in gaps : g.start <= at[b] /\ at[b] <= g.end
      BY <1>2 DEF InGap
    <3>2. g \in Gap
      BY DEF TypeOK
    <3>3. /\ catchQ' = UNION {Earliest(Unprocessed(h)) : h \in SearchedGaps}
          /\ gaps' = (gaps \ SearchedGaps) \cup UNION {Rest(h) : h \in SearchedGaps}
          /\ rows' = rows
      BY <2>2 DEF CatchUp, dbVars
    <3>4. CASE g \notin SearchedGaps
      BY <1>0, <3>1, <3>3, <3>4 DEF InGap
    <3>5. CASE g \in SearchedGaps
      <4>1. CASE b \in Saved
        BY <1>1, <4>1
      <4>2. CASE b \in Earliest(Unprocessed(g))
        <5>1. b \in catchQ'
          BY <3>3, <3>5, <4>2
        <5> QED BY <5>1 DEF Held
      <4>3. CASE \E h \in Rest(g) : h.start <= at[b] /\ at[b] <= h.end
        <5>1. PICK h \in Rest(g) : h.start <= at[b] /\ at[b] <= h.end
          BY <4>3
        <5>2. h \in gaps'
          BY <3>3, <3>5
        <5> QED BY <1>0, <5>1, <5>2 DEF InGap
      <4> QED BY <3>1, <3>2, <4>1, <4>2, <4>3, SearchKeeps
    <3> QED BY <3>4, <3>5
  <2>3. gaps' = gaps \/ CatchUp
    BY DEF Next, vars, memVars, queueVars, NewBlock, Serve, Prune, PollForNewJobs, RetryFailedJobs,
           Take, RetrieveBlob, EndOfBlobs, SaveBatch, FailJob
  <2> QED BY <2>1, <2>2, <2>3
<1>3. CASE Held(b)
  BY <1>3, HeldStays, SavesBatch
<1> QED BY <1>1, <1>2, <1>3

LEMMA AccountedStep ==
    ASSUME LaterStart, TypeOK, Heads, TypeOK', OnChain, BatchesAccounted, [Next]_vars
    PROVE  OnChain' /\ BatchesAccounted'
<1>0. at' = at /\ \A b \in Batches : at[b] \in Nat
  BY WorldStep DEF TypeOK
<1>1. OnChain'
  BY <1>0 DEF OnChain
<1>2. ASSUME NEW b \in Batches, up', at'[b] <= lastKnown'
      PROVE  (b \in Saved \/ Held(b) \/ InGap(b))'
  <2>1. CASE Boot
    <3>1. /\ lastKnown' = IF startFrom' = 0 THEN 0 ELSE startFrom' - 1
          /\ gaps' = FirstGap(startFrom') \cup InnerGaps(startFrom') \cup LastGap(startFrom')
          /\ rows' = rows /\ startFrom' \in Nat
          /\ startFrom' = IF StartBlock = LatestBlock THEN head ELSE StartBlock
      BY <2>1 DEF Boot, dbVars, TypeOK
    <3>2. CASE b \in Saved
      BY <3>1, <3>2 DEF Saved
    <3>3. CASE b \notin Saved
      <4>1. at[b] < startFrom'
        <5>1. startFrom' # 0 \/ CreationBlock > 0
          BY <3>1, Constants DEF LaterStart, Heads, TypeOK
        <5>2. CreationBlock <= at[b] /\ at[b] <= lastKnown' /\ at[b] \in Nat /\ CreationBlock \in Nat
          BY <1>0, <1>2, ChainOrder, Constants
        <5> QED BY <3>1, <5>1, <5>2
      <4>2. PICK g \in gaps' : g.start <= at[b] /\ at[b] <= g.end
        BY <3>1, <3>3, <4>1, GapsCover
      <4> QED BY <1>0, <4>2 DEF InGap
    <3> QED BY <3>2, <3>3
  <2>2. CASE ~Boot
    <3>1. ~Crash
      BY <1>2 DEF Crash
    <3>2. CASE PollForNewJobs /\ ~(at[b] <= lastKnown)
      <4>1. PICK to \in {head, head - 1} : newQ' = NewBatches(to) /\ lastKnown' = to
        BY <3>2 DEF PollForNewJobs
      <4>2. lastKnown + 1 <= at[b] /\ at[b] <= to
        <5>1. lastKnown \in Nat
          BY DEF TypeOK
        <5> QED BY <1>0, <1>2, <3>2, <4>1, <5>1
      <4>3. b \in newQ'
        BY <4>1, <4>2 DEF NewBatches, Logs
      <4> QED BY <4>3 DEF Held
    <3>3. CASE at[b] <= lastKnown
      <4>1. up
        BY <1>2, <2>2, <3>1 DEF Next, vars, memVars, NewBlock, Serve, Prune, PollForNewJobs,
              CatchUp, RetryFailedJobs, Take, RetrieveBlob, EndOfBlobs, SaveBatch, FailJob
      <4>2. b \in Saved \/ Held(b) \/ InGap(b)
        BY <3>3, <4>1 DEF BatchesAccounted
      <4> QED BY <2>2, <3>1, <4>2, StaysOnTheWay
    <3>4. PollForNewJobs \/ lastKnown' = lastKnown
      BY <2>2, <3>1 DEF Next, vars, memVars, NewBlock, Serve, Prune,
            CatchUp, RetryFailedJobs, Take, RetrieveBlob, EndOfBlobs, SaveBatch, FailJob
    <3> QED BY <1>0, <1>2, <3>2, <3>3, <3>4
  <2> QED BY <2>1, <2>2
<1> QED BY <1>1, <1>2 DEF BatchesAccounted

(* No batch is dropped: each one up to last_known_block is saved, held by a *)
(* stream, a job or failed_jobs, or in a gap that is still to be searched;  *)
(* provided the indexer does not start at block 0 of a contract that is     *)
(* there already in block 0.                                                *)
THEOREM NoBatchDropped ==
    ASSUME LaterStart
    PROVE  Spec => []BatchesAccounted
<1>1. Init => OnChain /\ BatchesAccounted
  BY DEF Init, OnChain, BatchesAccounted
<1>2. LaterStart
  OBVIOUS
<1> QED BY <1>1, <1>2, InitType, TypeStep, AccountedStep, PTL DEF Spec

-----------------------------------------------------------------------------
(* The promise of JobPool *)

HeldBatches == {b \in Batches : Held(b)}

(* Without an indexer nobody holds anything. *)
Quiet ==
    ~up => /\ newQ = {} /\ catchQ = {} /\ retryQ = {} /\ failed = {}
           /\ \A s \in Slots : running[s] = Idle

LEMMA QuietNext == TypeOK /\ Quiet /\ [Next]_vars => Quiet'
<1> SUFFICES ASSUME TypeOK, Quiet, [Next]_vars PROVE Quiet'
  OBVIOUS
<1>1. CASE Boot \/ Crash
  BY <1>1 DEF Boot, Crash, Fresh, Quiet
<1>2. CASE PollForNewJobs \/ CatchUp \/ RetryFailedJobs
  BY <1>2 DEF PollForNewJobs, CatchUp, RetryFailedJobs, Polled, Quiet
<1>3. ASSUME NEW s \in Slots,
             Take(s) \/ RetrieveBlob(s) \/ EndOfBlobs(s) \/ SaveBatch(s) \/ FailJob(s)
      PROVE  Quiet'
  <2>1. up
    BY <1>3 DEF Take, RetrieveBlob, EndOfBlobs, SaveBatch, FailJob, Quiet
  <2> QED BY <1>3, <2>1 DEF Take, RetrieveBlob, EndOfBlobs, SaveBatch, FailJob, Quiet
<1>4. CASE NewBlock \/ (\E b \in Batches : Serve(b) \/ Prune(b)) \/ UNCHANGED vars
  BY <1>4 DEF NewBlock, Serve, Prune, vars, memVars, queueVars, Quiet
<1> QED BY <1>1, <1>2, <1>3, <1>4 DEF Next

(* Idle slots and empty queues hold no batch. *)
LEMMA NothingHeld ==
    ASSUME NEW b \in Batches, Held(b),
           newQ = {}, catchQ = {}, retryQ = {}, failed = {}, \A s \in Slots : running[s] = Idle
    PROVE  FALSE
BY Constants DEF Held, Idle

(* Save of JobPool: a job's batch leaves the memory with its row. *)
LEMMA SaveStep ==
    ASSUME TypeOK, Quiet, [Next]_vars, NEW s \in Slots, SaveBatch(s)
    PROVE  Pool!Next
<1>0. PICK c : c = running[s].batch
  OBVIOUS
<1>1. up /\ up' = up
  BY DEF SaveBatch, Quiet
<1>2. c \in Batches /\ Saved' = Saved \cup {c}
  BY <1>0, SavesBatch
<1>3. c \in HeldBatches
  BY <1>0, <1>2 DEF HeldBatches, Held
<1>4. /\ running' = [running EXCEPT ![s] = Idle]
      /\ UNCHANGED <<newQ, catchQ, retryQ, failed>>
  BY DEF SaveBatch, queueVars
<1>5. running'[s] = Idle /\ \A t \in Slots : t # s => running'[t] = running[t]
  BY <1>4 DEF TypeOK
<1>6. ASSUME NEW b \in Batches, b # c
      PROVE  Held(b)' <=> Held(b)
  <2>1. running'[s].batch # b /\ running[s].batch # b
    BY <1>0, <1>5, <1>6, Constants DEF Idle
  <2> QED BY <1>4, <1>5, <2>1 DEF Held
<1>7. HeldBatches' = {b \in Batches : Held(b)'}
  BY DEF HeldBatches
<1>8. HeldBatches' \in {HeldBatches, HeldBatches \ {c}}
  <2>1. CASE Held(c)'
    BY <1>3, <1>6, <1>7, <2>1 DEF HeldBatches
  <2>2. CASE ~Held(c)'
    <3>1. ASSUME NEW b \in Batches PROVE Held(b)' <=> Held(b) /\ b # c
      BY <1>6, <2>2
    <3>2. HeldBatches' = HeldBatches \ {c}
      BY <1>7, <3>1 DEF HeldBatches
    <3> QED BY <3>2
  <2> QED BY <2>1, <2>2
<1>9. Pool!Save(c)
  BY <1>1, <1>2, <1>8 DEF Pool!Save, HeldBatches
<1> QED BY <1>3, <1>9 DEF Pool!Next, HeldBatches

(* Every step of the indexer is one of JobPool, or changes nothing there. *)
LEMMA PoolStep ==
    ASSUME TypeOK, Quiet, [Next]_vars
    PROVE  Pool!Next \/ UNCHANGED Pool!vars
<1>0. HeldBatches' = {b \in Batches : Held(b)'}
  BY DEF HeldBatches
<1>1. CASE Boot
  <2>1. ASSUME NEW b \in Batches PROVE ~Held(b) /\ ~Held(b)'
    <3>0. newQ = {} /\ catchQ = {} /\ retryQ = {} /\ failed = {} /\ \A s \in Slots : running[s] = Idle
      BY <1>1 DEF Boot, Quiet
    <3>1. ~Held(b)
      BY <3>0, NothingHeld
    <3>2. \A s \in Slots : running'[s] = Idle
      BY <1>1 DEF Boot, Fresh
    <3>3. ~Held(b)'
      BY <1>1, <3>2, Constants DEF Boot, Fresh, Held, Idle
    <3> QED BY <3>1, <3>3
  <2>2. HeldBatches' = HeldBatches /\ Saved' = Saved
    BY <1>0, <1>1, <2>1 DEF HeldBatches, Boot, dbVars, Saved
  <2> QED BY <1>1, <2>2 DEF Boot, HeldBatches, Pool!Next, Pool!Begin
<1>2. CASE Crash
  <2>1. ASSUME NEW b \in Batches PROVE ~Held(b)'
    <3>1. \A s \in Slots : running'[s] = Idle
      BY <1>2 DEF Crash, Fresh
    <3> QED BY <1>2, <3>1, Constants DEF Crash, Fresh, Held, Idle
  <2>2. HeldBatches' = {} /\ Saved' = Saved
    BY <1>0, <1>2, <2>1 DEF Crash, dbVars, Saved
  <2> QED BY <1>2, <2>2 DEF Crash, HeldBatches, Pool!Next, Pool!End
<1>3. ASSUME NEW s \in Slots, SaveBatch(s) PROVE Pool!Next
  BY <1>3, SaveStep
<1>4. ASSUME NewBlock \/ (\E b \in Batches : Serve(b) \/ Prune(b)) \/ UNCHANGED vars
      PROVE  UNCHANGED Pool!vars
  <2>1. UNCHANGED <<up, rows, newQ, catchQ, retryQ, failed, running>>
    BY <1>4 DEF NewBlock, Serve, Prune, vars, memVars, dbVars, queueVars
  <2>2. HeldBatches' = HeldBatches /\ Saved' = Saved
    BY <2>1 DEF HeldBatches, Held, Saved
  <2> QED BY <2>1, <2>2 DEF HeldBatches, Pool!vars
<1>5. ASSUME \/ PollForNewJobs \/ CatchUp \/ RetryFailedJobs
             \/ \E s \in Slots : Take(s) \/ RetrieveBlob(s) \/ EndOfBlobs(s) \/ FailJob(s),
             ~Boot, ~Crash, ~\E s \in Slots : SaveBatch(s)
      PROVE  Pool!Offer
  <2>1. up /\ up' = up /\ Saved' = Saved
    BY <1>5 DEF PollForNewJobs, CatchUp, Polled, RetryFailedJobs, Take, RetrieveBlob, EndOfBlobs,
                FailJob, Quiet, dbVars, Saved
  <2>2. \A b \in Batches : Held(b) => Held(b)'
    BY <1>5, HeldStays
  <2>3. HeldBatches \subseteq HeldBatches' /\ HeldBatches' \subseteq Batches
    BY <1>0, <2>2 DEF HeldBatches
  <2> QED BY <2>1, <2>3 DEF HeldBatches, Pool!Offer
<1> QED BY <1>1, <1>2, <1>3, <1>4, <1>5 DEF Next, Pool!Next

(* The indexer on EigenDA implements JobPool: a batch handed in by a stream *)
(* leaves its memory only when its row is saved or the indexer ends; failed *)
(* attempts, the drain of failed_jobs, batches handed in twice and the      *)
(* rewritten gaps lose none.                                                *)
THEOREM ImplementsJobPool == Spec => KeepsJobs
<1>1. Init => Quiet
  BY DEF Init, Quiet
<1>2. Init => Pool!Init
  <2> SUFFICES ASSUME Init PROVE Pool!Init
    OBVIOUS
  <2>1. HeldBatches = {}
    BY NothingHeld DEF Init, HeldBatches
  <2> QED BY <2>1 DEF Init, HeldBatches, Saved, Pool!Init
<1>3. TypeOK /\ Quiet /\ [Next]_vars => [Pool!Next]_(Pool!vars)
  BY PoolStep
<1> QED BY <1>1, <1>2, <1>3, InitType, TypeStep, QuietNext, PTL DEF Spec, KeepsJobs, Pool!Spec

-----------------------------------------------------------------------------
(* The end of the catch up.  On a dense chain a gap whose answer holds      *)
(* nothing to process has nothing left: its first log is a saved batch on   *)
(* the edge, and the next block with a batch lies in the same piece.        *)
LEMMA SearchedIsSaved ==
    ASSUME TypeOK, OnChain, Dense, NEW g \in Gap, Unprocessed(g) = {},
           NEW b \in Batches, g.start <= at[b], at[b] <= g.end
    PROVE  b \in Saved
<1> SUFFICES ASSUME b \notin Saved PROVE FALSE
  OBVIOUS
<1> DEFINE L == Logs(g.start, g.end)
           S == SoftLogs(g.start, g.end)
<1>0. /\ g.start \in Nat /\ g.end \in Nat
      /\ \A d \in Batches : d \in Nat /\ at[d] \in Nat
      /\ \A d, e \in Batches : d < e => at[d] <= at[e]
      /\ L \subseteq Batches /\ S \subseteq L /\ b \in L
      /\ \A d \in L : g.start <= at[d] /\ at[d] <= g.end
  BY ChainOrder DEF Gap, TypeOK, Logs, SoftLogs
<1>1. \A d \in S : d \in Saved /\ at[d] \in {g.start, g.end}
  BY DEF Unprocessed, OnEdge
<1>2. b \notin S
  BY <1>1
<1>3. ASSUME NEW d \in S PROVE at[d] < at[b]
  <2>1. at[b] <= at[d] => b \in S
    BY <1>0, SoftFirst
  <2> QED  BY <1>0, <1>2, <1>3, <2>1
<1>4. PICK c \in S : TRUE
  BY <1>0, SoftNotEmpty
<1>5. at[c] = g.start /\ g.start < at[b] /\ c \in Batches
  <2>1. at[c] < at[b] /\ at[b] <= g.end /\ at[c] \in Nat /\ at[b] \in Nat
    BY <1>0, <1>3
  <2> QED  BY <1>0, <1>1, <2>1
(* d is the first batch behind the start of the gap, p the one before it. *)
<1> DEFINE behind == {e \in Batches : g.start < at[e]}
<1>6. PICK d \in behind : \A e \in behind : d <= e
  <2>1. behind \in SUBSET Nat /\ b \in behind
    BY <1>0, <1>5
  <2> HIDE DEF behind
  <2> QED  BY <2>1, Least
<1>7. d \in Batches /\ g.start < at[d] /\ d <= b
  BY <1>5, <1>6
<1> DEFINE before == {e \in Batches : e < d}
<1>8. PICK p \in before : \A e \in before : e <= p
  <2>1. c \in before
    <3>1. ~(d < c)
      BY <1>0, <1>5, <1>7
    <3>2. c # d
      BY <1>0, <1>5, <1>7
    <3> QED  BY <1>0, <1>5, <1>7, <3>1, <3>2
  <2>2. before \in SUBSET Nat /\ \A e \in before : e <= d
    BY <1>0, <1>7
  <2>3. d \in Nat
    BY <1>0, <1>7
  <2> HIDE DEF before
  <2> QED  BY <2>1, <2>2, <2>3, Greatest
<1>9. at[p] <= g.start /\ p \in Batches
  <2>1. p \in Batches /\ p \in Nat /\ d \in Nat /\ p < d /\ at[p] \in Nat
    BY <1>0, <1>7, <1>8
  <2>2. p \notin behind
    BY <1>6, <2>1
  <2> QED  BY <1>0, <2>1, <2>2
<1>10. at[p] = g.start
  <2>1. c <= p
    <3>1. ~(d < c) /\ c # d
      BY <1>0, <1>5, <1>7
    <3> QED  BY <1>0, <1>5, <1>7, <1>8, <3>1
  <2>2. c = p \/ at[c] <= at[p]
    BY <1>0, <1>5, <1>9, <2>1
  <2> QED  BY <1>0, <1>5, <1>9, <2>2
<1>11. at[d] - g.start <= RpcBatchSize
  <2>1. Next2(Batches, p, d)
    <3>1. p < d
      BY <1>8
    <3>2. ASSUME NEW e \in Batches PROVE e <= p \/ d <= e
      BY <1>0, <1>7, <1>8
    <3> QED  BY <3>1, <3>2 DEF Next2
  <2> QED  BY <1>7, <1>9, <1>10, <2>1 DEF Dense
<1>12. at[d] <= at[b]
  BY <1>0, <1>7
<1>13. d \in L
  BY <1>0, <1>7, <1>12 DEF Logs
<1>14. d \in S
  <2>1. RpcBatchSize + 1 \in Nat /\ RpcBatchSize + 1 > 0 /\ RpcBatchSize \in Nat
    BY Constants
  <2>2. Piece(g.start, d) = 0
    <3>1. at[d] - g.start \in 0..RpcBatchSize
      BY <1>0, <1>7, <1>11, <2>1
    <3> DEFINE x == at[d] - g.start
               n == RpcBatchSize + 1
    <3>2. x \in Nat /\ n \in Nat /\ x < n
      BY <2>1, <3>1
    <3> HIDE DEF x, n
    <3>3. x \div n = 0
      BY <3>2, Z3
    <3> QED  BY <3>3 DEF Piece, x, n
  <2>3. \A e \in L : Piece(g.start, e) \in Nat
    <3> TAKE e \in L
    <3>1. at[e] - g.start \in Nat /\ at[e] - g.start <= at[e] - g.start
      BY <1>0
    <3> QED  BY <2>1, <3>1, Quotients DEF Piece
  <2>4. \A e \in L : Piece(g.start, d) <= Piece(g.start, e)
    BY <2>2, <2>3
  <2> QED  BY <1>13, <2>4 DEF SoftLogs
<1>15. at[d] = g.end
  BY <1>0, <1>1, <1>7, <1>14
<1> QED  BY <1>0, <1>3, <1>12, <1>14, <1>15

(* An empty answer means that every gap was searched and had nothing to     *)
(* process.                                                                 *)
LEMMA EmptyAnswer ==
    ASSUME TypeOK, UNION {Earliest(Unprocessed(g)) : g \in SearchedGaps} = {}
    PROVE  \A g \in gaps : Unprocessed(g) = {}
<1> DEFINE open == {g \in gaps : Unprocessed(g) # {}}
<1> SUFFICES ASSUME open # {} PROVE FALSE
  OBVIOUS
<1>0. /\ \A g \in gaps : g \in Gap /\ g.after \in Int /\ g.after + 1 \in Nat
      /\ \A b \in Batches : at[b] \in Nat
      /\ \A g \in gaps : Unprocessed(g) \subseteq Batches
  <2>1. \A g \in gaps : g \in Gap
    BY DEF TypeOK
  <2>2. \A a \in Batches \cup {NoBatch} : a \in Int /\ a + 1 \in Nat
    BY Constants DEF NoBatch
  <2>3. \A g \in gaps : g.after \in Batches \cup {NoBatch}
    BY <2>1 DEF Gap
  <2>4. \A b \in Batches : at[b] \in Nat
    BY DEF TypeOK
  <2>5. \A g \in gaps : Unprocessed(g) \subseteq Batches
    BY DEF Unprocessed, SoftLogs, Logs
  <2> QED  BY <2>1, <2>2, <2>3, <2>4, <2>5
<1>1. PICK g \in open : \A h \in open : g.after <= h.after
  <2> DEFINE A == {h.after + 1 : h \in open}
  <2>1. A \in SUBSET Nat /\ A # {}
    BY <1>0
  <2>2. PICK m \in A : \A n \in A : m <= n
    <3> HIDE DEF A
    <3> QED  BY <2>1, Least
  <2>3. PICK g \in open : m = g.after + 1
    BY <2>2
  <2>4. \A h \in open : g.after + 1 <= h.after + 1
    BY <2>2, <2>3
  <2>5. \A h \in open : g.after <= h.after
    BY <1>0, <2>4
  <2> QED  BY <2>5
<1>2. g \in SearchedGaps
  <2>1. ASSUME NEW h \in gaps, h.after < g.after PROVE Unprocessed(h) = {}
    <3>1. h \notin open
      BY <1>0, <1>1, <2>1
    <3> QED  BY <3>1
  <2> QED  BY <2>1 DEF SearchedGaps
<1>3. Earliest(Unprocessed(g)) # {}
  <2> DEFINE A == {at[b] : b \in Unprocessed(g)}
  <2>1. A \in SUBSET Nat /\ A # {}
    BY <1>0
  <2>2. PICK m \in A : \A n \in A : m <= n
    <3> HIDE DEF A
    <3> QED  BY <2>1, Least
  <2>3. PICK b \in Unprocessed(g) : m = at[b]
    BY <2>2
  <2>4. b \in Earliest(Unprocessed(g))
    BY <2>2, <2>3 DEF Earliest
  <2> QED  BY <2>4
<1> QED  BY <1>2, <1>3

(* Once the catch up has ended, what is left of the gaps holds saved        *)
(* batches only.                                                            *)
GapsEmpty == catchDone /\ Dense => \A b \in Batches : InGap(b) => b \in Saved

(* Nothing but an empty answer ends the catch up, and nothing widens a gap  *)
(* or takes a row away afterwards.                                          *)
LEMMA GapsStayEmpty ==
    ASSUME TypeOK, OnChain, GapsEmpty, [Next]_vars
    PROVE  GapsEmpty'
<1> SUFFICES ASSUME catchDone', Dense', NEW b \in Batches, InGap(b)' PROVE b \in Saved'
  BY DEF GapsEmpty
<1>0. at' = at /\ Dense
  <2>1. at' = at
    BY WorldStep
  <2> QED  BY <2>1 DEF Dense
<1>1. ~Boot /\ ~Crash
  BY DEF Boot, Crash, Fresh
<1>2. CASE CatchUp
  <2>1. /\ UNION {Earliest(Unprocessed(g)) : g \in SearchedGaps} = {}
        /\ gaps' = (gaps \ SearchedGaps) \cup UNION {Rest(g) : g \in SearchedGaps}
        /\ rows' = rows
    BY <1>2 DEF CatchUp, dbVars
  <2>2. \A g \in gaps : Unprocessed(g) = {}
    BY <2>1, EmptyAnswer
  <2>3. PICK h \in gaps' : h.start <= at[b] /\ at[b] <= h.end
    BY <1>0 DEF InGap
  <2>4. PICK g \in gaps : g.start <= at[b] /\ at[b] <= g.end
    <3>1. CASE h \in gaps
      BY <2>3, <3>1
    <3>2. ASSUME NEW g \in SearchedGaps, h \in Rest(g)
          PROVE  g \in gaps /\ g.start <= at[b] /\ at[b] <= g.end
      <4>1. g \in gaps /\ g \in Gap /\ at[b] \in Nat
        BY DEF SearchedGaps, TypeOK
      <4>2. PICK n \in EndBlock(g) : h = [g EXCEPT !.start = n + 1]
        BY <3>2 DEF Rest
      <4>3. h.start = n + 1 /\ h.end = g.end
        BY <4>1, <4>2 DEF Gap
      <4>4. n \in Nat /\ g.start \in Nat /\ g.start <= n
        <5>1. PICK d \in SoftLogs(g.start, g.end) : n = at[d]
          BY DEF EndBlock, Earliest, Maxima, Unprocessed
        <5> QED  BY <4>1, <5>1 DEF SoftLogs, Logs, TypeOK, Gap
      <4> QED  BY <2>3, <4>1, <4>3, <4>4
    <3> QED  BY <2>1, <3>1, <3>2
  <2>5. b \in Saved
    BY <1>0, <2>2, <2>4, SearchedIsSaved DEF TypeOK
  <2> QED  BY <2>1, <2>5 DEF Saved
<1>3. CASE ~CatchUp
  <2>1. gaps' = gaps /\ catchDone' = catchDone
    BY <1>1, <1>3 DEF Next, vars, memVars, queueVars, NewBlock, Serve, Prune, PollForNewJobs,
       RetryFailedJobs, Take, RetrieveBlob, EndOfBlobs, SaveBatch, FailJob
  <2>2. b \in Saved
    BY <1>0, <2>1 DEF GapsEmpty, InGap
  <2> QED  BY <2>2, SavedStays
<1> QED  BY <1>2, <1>3

(* On a chain whose batches are never further apart than one get_logs       *)
(* request reaches, take_while ends the catch up only when no batch up to   *)
(* last_known_block is missing: each one is saved or held, through lagging  *)
(* nodes, failed jobs and restarts.                                         *)
THEOREM CatchUpLeavesNothing ==
    ASSUME LaterStart
    PROVE  Spec => []CatchUpComplete
<1> DEFINE Inv == OnChain /\ BatchesAccounted /\ GapsEmpty
<1>1. Init => Inv
  BY DEF Init, OnChain, BatchesAccounted, GapsEmpty
<1>2. TypeOK /\ Heads /\ TypeOK' /\ Inv /\ [Next]_vars => Inv'
  BY AccountedStep, GapsStayEmpty
<1>3. Inv => CatchUpComplete
  BY DEF BatchesAccounted, GapsEmpty, CatchUpComplete
<1> HIDE DEF Inv
<1> QED BY <1>1, <1>2, <1>3, InitType, TypeStep, PTL DEF Spec
=============================================================================
