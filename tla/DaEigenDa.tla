------------------------------ MODULE DaEigenDa ------------------------------
(***************************************************************************)
(* The DA indexer on EigenDA (eigenda/da.rs, client.rs, repository/,       *)
(* common/eth_provider.rs, on the pool of indexer.rs).  A batch of blobs   *)
(* is confirmed by a log on the L1 chain; its blobs are fetched one by one *)
(* from the disperser, saved in pieces, and the row of the batch follows.  *)
(* At start the table of batches is searched for gaps, ranges of L1 blocks *)
(* that may hold missing batches; the catch up walks them batch by batch   *)
(* and ends for good at the first empty answer.                            *)
(***************************************************************************)
EXTENDS Integers, FiniteSets

CONSTANTS
    Slots,             \* the pool of for_each_concurrent, settings.concurrency of them
    Batches,           \* batch ids, from 0 in the order of their confirmation
    Chains,            \* the L1 chains considered: the block whose log confirms a batch
    Late,              \* batches that may be confirmed before they are served
    Prunable,          \* batches that may be pruned
    CreationBlock,     \* settings.creation_block
    StartBlock,        \* settings.start_block, or LatestBlock when it is not set
    RpcBatchSize,      \* settings.rpc.batch_size
    SaveBatchSize,     \* settings.save_batch_size
    PruningThreshold,  \* settings.pruning_block_threshold
    BlobsPerBatch,     \* blobs of a batch
    U64,               \* 2^64, or any number too large for a difference of blocks
    InitHead,          \* the L1 head when the service is first deployed
    MaxHead,           \* bound: the chain stops here
    FaultKinds,        \* the faults that may happen
    MaxFaults          \* bound: how many faults may happen in all

LatestBlock == -1

AllFaults ==
    {"crash",     \* the process dies, or the streams end and the indexer restarts
     "process",   \* process_job fails: a request or a statement
     "lag"}       \* get_block_number is answered by a node one block behind

ASSUME ConstantsAssumption ==
    /\ Slots # {}
    /\ Batches \subseteq Nat
    /\ Chains \subseteq [Batches -> Nat]
    /\ \A f \in Chains : \A b, c \in Batches : b < c => f[b] <= f[c]
    /\ \A f \in Chains : \A b \in Batches : CreationBlock <= f[b]
    /\ Late \subseteq Batches /\ Prunable \subseteq Batches
    /\ CreationBlock \in Nat /\ StartBlock \in Nat \cup {LatestBlock}
    /\ RpcBatchSize \in Nat /\ SaveBatchSize \in Nat \ {0}
    /\ PruningThreshold \in Nat /\ BlobsPerBatch \in Nat \ {0}
    /\ InitHead \in Nat \ {0} /\ MaxHead \in Nat
    /\ CreationBlock <= InitHead /\ StartBlock <= InitHead
    /\ U64 \in Nat /\ U64 > MaxHead + PruningThreshold
    /\ FaultKinds \subseteq AllFaults
    /\ MaxFaults \in Nat

VARIABLES
    at,         \* the chain: at[b] is the L1 block of b (fixed)
    head,       \* the L1 head
    disperser,  \* disperser[b]: whether the blobs of b can be retrieved
    rows,       \* rows[b]: blobs_count of b in table eigenda_batches
    blobs,      \* blobs[b]: blob_index of the rows of b in table eigenda_blobs
    up,         \* the indexer runs
    startFrom,  \* start_from of EigenDA::new
    lastKnown,  \* last_known_block
    gaps,       \* unprocessed_gaps
    catchDone,  \* take_while has ended the catch up
    newQ,       \* batches of the last poll that wait to be taken
    catchQ,     \* batches of the last unprocessed_jobs that wait to be taken
    retryQ,     \* drained batches that wait to be taken
    running,    \* running[s]: the job in slot s
    failed,     \* failed_jobs
    wrapped,    \* history: batches whose age, an unsigned difference, wrapped around
    faults      \* faults that have happened

chainVars == <<at, head, disperser>>
dbVars    == <<rows, blobs>>
queueVars == <<newQ, catchQ, retryQ, failed>>
memVars   == <<up, startFrom, lastKnown, gaps, catchDone, queueVars, running>>
vars      == <<chainVars, dbVars, memVars, wrapped, faults>>

NoRow   == -1
Backoff == 2                                \* vec![5, 20]: two more attempts
NoBatch == -1

(* A job: blob_index so far, how many of them wait to be saved, and whether *)
(* the row of the batch is next.                                            *)
Job == [batch : Batches, tries : 0..Backoff, index : 0..BlobsPerBatch,
        unsaved : 0..BlobsPerBatch, pc : {"blobs", "row"}]
Idle == [batch |-> NoBatch, tries |-> 0, index |-> 0, unsaved |-> 0, pc |-> "blobs"]

(* A gap; the gaps are kept in the order of the batch they come after. *)
Gap == [after : Batches \cup {NoBatch}, start : Nat, end : Nat]

TypeOK ==
    /\ at \in [Batches -> Nat] /\ head \in Nat
    /\ disperser \in [Batches -> {"unready", "served", "pruned"}]
    /\ rows \in [Batches -> 0..BlobsPerBatch \cup {NoRow}]
    /\ blobs \in [Batches -> SUBSET (0..(BlobsPerBatch - 1))]
    /\ up \in BOOLEAN /\ startFrom \in Nat /\ lastKnown \in Nat
    /\ gaps \subseteq Gap /\ catchDone \in BOOLEAN
    /\ newQ \subseteq Batches /\ catchQ \subseteq Batches /\ retryQ \subseteq Batches
    /\ running \in [Slots -> Job \cup {Idle}]
    /\ failed \subseteq Batches /\ wrapped \subseteq Batches
    /\ faults \in 0..MaxFaults

-----------------------------------------------------------------------------
(* {the largest element of S}, {the smallest element of S} *)
Maxima(S) == {m \in S : \A n \in S : n <= m}
Minima(S) == {m \in S : \A n \in S : m <= n}

Fault(kind) ==
    /\ kind \in FaultKinds
    /\ faults < MaxFaults
    /\ faults' = faults + 1

Init ==
    /\ at \in Chains
    /\ head = InitHead
    /\ disperser = [b \in Batches |-> IF b \in Late THEN "unready" ELSE "served"]
    /\ rows = [b \in Batches |-> NoRow] /\ blobs = [b \in Batches |-> {}]
    /\ up = FALSE /\ startFrom = 0 /\ lastKnown = 0 /\ gaps = {} /\ catchDone = FALSE
    /\ newQ = {} /\ catchQ = {} /\ retryQ = {} /\ failed = {}
    /\ running = [s \in Slots |-> Idle]
    /\ wrapped = {} /\ faults = 0

(* The L1 chain and the disperser. *)
NewBlock ==
    /\ head < MaxHead
    /\ head' = head + 1
    /\ UNCHANGED <<at, disperser, dbVars, memVars, wrapped, faults>>

Serve(b) ==
    /\ disperser[b] = "unready"
    /\ disperser' = [disperser EXCEPT ![b] = "served"]
    /\ UNCHANGED <<at, head, dbVars, memVars, wrapped, faults>>

Prune(b) ==
    /\ b \in Prunable /\ disperser[b] = "served" /\ at[b] + PruningThreshold <= head
    /\ disperser' = [disperser EXCEPT ![b] = "pruned"]
    /\ UNCHANGED <<at, head, dbVars, memVars, wrapped, faults>>

-----------------------------------------------------------------------------
(* EigenDA::new *)

Saved == {b \in Batches : rows[b] # NoRow}

(* The rows of the table next to each other in the order of batch_id. *)
Next2(R, a, c) == a < c /\ \A b \in R : b <= a \/ c <= b

(* Seeded defects of the definitions below, for the mutation checks only.   *)
Defect_BehindLastRow(to) ==
    LET low == {b \in Saved : at[b] <= to}
    IN  {[after |-> b, start |-> at[b] + 1, end |-> to] : b \in Maxima(low)}

(* find_gaps: before the first row, unless it is batch 0. *)
FirstGap(to) ==
    IF Saved = {} THEN {[after |-> NoBatch, start |-> CreationBlock, end |-> to]}
    ELSE {[after |-> NoBatch, start |-> CreationBlock, end |-> at[b]] : b \in Minima(Saved) \ {0}}

(* lead(batch_id) OVER (ORDER BY batch_id) among the rows up to `to`: where *)
(* the next id is not the following one.                                    *)
InnerGaps(to) ==
    LET low == {b \in Saved : at[b] <= to}
    IN  {[after |-> p[1], start |-> at[p[1]], end |-> at[p[2]]] :
            p \in {q \in low \X low : Next2(low, q[1], q[2]) /\ q[1] + 1 # q[2]}}

(* From the last row up to `to`.  (The rows are searched from the end of    *)
(* the last gap on, which is a row itself.)                                 *)
LastGap(to) ==
    LET low == {b \in Saved : at[b] <= to}
    IN  {[after |-> b, start |-> at[b], end |-> to] : b \in {c \in Maxima(low) : at[c] < to}}

Fresh ==
    /\ catchDone' = FALSE
    /\ newQ' = {} /\ catchQ' = {} /\ retryQ' = {} /\ failed' = {}
    /\ running' = [s \in Slots |-> Idle]

Boot ==
    /\ ~up
    /\ up' = TRUE
    /\ startFrom' = IF StartBlock = LatestBlock THEN head ELSE StartBlock
    /\ lastKnown' = IF startFrom' = 0 THEN 0 ELSE startFrom' - 1     \* saturating_sub
    /\ gaps' = FirstGap(startFrom') \cup InnerGaps(startFrom') \cup LastGap(startFrom')
    /\ Fresh
    /\ UNCHANGED <<chainVars, dbVars, wrapped, faults>>

(* The process dies.  (Nothing in memory outlives it.) *)
Crash ==
    /\ up
    /\ Fault("crash")
    /\ up' = FALSE /\ startFrom' = 0 /\ lastKnown' = 0 /\ gaps' = {}
    /\ Fresh
    /\ UNCHANGED <<chainVars, dbVars, wrapped>>

-----------------------------------------------------------------------------
(* The streams.  They are polled only while the pool has a free slot, the   *)
(* poller of new batches first, and each only when its last answer is used  *)
(* up.  A request or statement of theirs that fails changes nothing.        *)

Polled == up /\ \E s \in Slots : running[s] = Idle

(* get_logs without a limit, as jobs. *)
Logs(from, to) == {b \in Batches : from <= at[b] /\ at[b] <= to}

(* new_jobs: the batches behind the last known block. *)
NewBatches(to) == Logs(lastKnown + 1, to)

PollForNewJobs ==
    /\ Polled /\ newQ = {}
    /\ \E to \in {head, head - 1} :
         /\ \/ to = head /\ UNCHANGED faults
            \/ to < head /\ Fault("lag")
         /\ newQ' = NewBatches(to)
         /\ lastKnown' = to
    /\ UNCHANGED <<chainVars, dbVars, up, startFrom, gaps, catchDone, catchQ, retryQ, failed,
                   running, wrapped>>

(* get_logs with soft_limit 1: the range is asked for in pieces of          *)
(* batch_size + 1 blocks until a piece has logs.                            *)
Piece(from, b) == (at[b] - from) \div (RpcBatchSize + 1)
SoftLogs(from, to) ==
    LET all == Logs(from, to)
    IN  {b \in all : \A c \in all : Piece(from, b) <= Piece(from, c)}

(* Batches on the edge of the gap might be already processed. *)
OnEdge(g, b)   == at[b] \in {g.start, g.end} /\ b \in Saved
Unprocessed(g) == {b \in SoftLogs(g.start, g.end) : ~OnEdge(g, b)}

(* The batches of the earliest block that has one. *)
Earliest(S) == {b \in S : \A c \in S : at[b] <= at[c]}

(* block_number when the loop over the logs of a gap ends. *)
EndBlock(g) ==
    IF Unprocessed(g) # {} THEN {at[b] : b \in Earliest(Unprocessed(g))}
    ELSE Maxima({at[b] : b \in SoftLogs(g.start, g.end)})

Defect_RestDropped(g) == {}

(* What is left of a gap. *)
Rest(g) == {[g EXCEPT !.start = n + 1] : n \in {m \in EndBlock(g) : m < g.end}}

(* unprocessed_jobs: gaps are searched in order up to the first with an     *)
(* unprocessed batch, and cut behind it; the rest is kept.                  *)
SearchedGaps == {g \in gaps : \A h \in gaps : h.after < g.after => Unprocessed(h) = {}}

CatchUp ==
    /\ Polled /\ newQ = {} /\ catchQ = {} /\ ~catchDone
    /\ catchQ' = UNION {Earliest(Unprocessed(g)) : g \in SearchedGaps}
    /\ gaps' = (gaps \ SearchedGaps) \cup UNION {Rest(g) : g \in SearchedGaps}
    /\ catchDone' = (catchQ' = {})
    /\ UNCHANGED <<chainVars, dbVars, up, startFrom, lastKnown, newQ, retryQ, failed, running,
                   wrapped, faults>>

(* retry_failed_jobs: failed_jobs is drained into the stream. *)
RetryFailedJobs ==
    /\ Polled /\ newQ = {} /\ retryQ = {} /\ failed # {}
    /\ retryQ' = failed
    /\ failed' = {}
    /\ UNCHANGED <<chainVars, dbVars, up, startFrom, lastKnown, gaps, catchDone, newQ, catchQ,
                   running, wrapped, faults>>

-----------------------------------------------------------------------------
(* The pool *)

Take(s) ==
    /\ up /\ running[s] = Idle
    /\ \E b \in newQ \cup catchQ \cup retryQ :
         /\ \/ b \in Minima(newQ) /\ newQ' = newQ \ {b} /\ UNCHANGED <<catchQ, retryQ>>
            \/ /\ newQ = {} /\ b \in Minima(catchQ)
               /\ catchQ' = catchQ \ {b} /\ UNCHANGED <<newQ, retryQ>>
            \/ /\ newQ = {} /\ b \in retryQ
               /\ retryQ' = retryQ \ {b} /\ UNCHANGED <<newQ, catchQ>>
         /\ running' = [running EXCEPT ![s] = [Idle EXCEPT !.batch = b]]
    /\ UNCHANGED <<chainVars, dbVars, up, startFrom, lastKnown, gaps, catchDone, failed, wrapped,
                   faults>>

(* blobs::upsert_many of the last n blobs before index i. *)
SaveBlobs(b, i, n) == blobs' = [blobs EXCEPT ![b] = @ \cup (i - n)..(i - 1)]

(* retrieve_blob_with_retries finds the next blob; every SaveBatchSize of   *)
(* them are saved.                                                          *)
RetrieveBlob(s) ==
    LET job == running[s]
    IN  /\ job # Idle /\ job.pc = "blobs"
        /\ disperser[job.batch] = "served" /\ job.index < BlobsPerBatch
        /\ \/ /\ job.unsaved + 1 = SaveBatchSize
              /\ SaveBlobs(job.batch, job.index + 1, SaveBatchSize)
              /\ running' = [running EXCEPT ![s].index = @ + 1, ![s].unsaved = 0]
           \/ /\ job.unsaved + 1 # SaveBatchSize
              /\ running' = [running EXCEPT ![s].index = @ + 1, ![s].unsaved = @ + 1]
              /\ UNCHANGED blobs
        /\ UNCHANGED <<chainVars, rows, up, startFrom, lastKnown, gaps, catchDone, queueVars,
                       wrapped, faults>>

(* NotFound: the previous blob was the last one, or there is none (any      *)
(* more).                                                                   *)
NotFound(job) == disperser[job.batch] # "served" \/ job.index = BlobsPerBatch

(* last_known_block - job.block_number, on u64 in a release build. *)
Age(b) == (lastKnown - at[b]) % U64

Defect_AnyAge(b) == FALSE

Recent(b) == Age(b) < PruningThreshold

Defect_RestNotSaved(job) == UNCHANGED blobs
Defect_RestShifted(job)  == SaveBlobs(job.batch, job.index + 1, job.unsaved + 1)

(* What is left in `blobs` after the loop is saved. *)
SaveRest(job) == SaveBlobs(job.batch, job.index, job.unsaved)

EndOfBlobs(s) ==
    LET job == running[s]
    IN  /\ job # Idle /\ job.pc = "blobs" /\ NotFound(job)
        /\ ~(job.index = 0 /\ Recent(job.batch))
        /\ SaveRest(job)
        /\ running' = [running EXCEPT ![s].pc = "row", ![s].unsaved = 0]
        /\ wrapped' = wrapped \cup {b \in {job.batch} : job.index = 0 /\ at[b] > lastKnown}
        /\ UNCHANGED <<chainVars, rows, up, startFrom, lastKnown, gaps, catchDone, queueVars,
                       faults>>

(* batches::upsert *)
SaveBatch(s) ==
    /\ running[s] # Idle /\ running[s].pc = "row"
    /\ rows' = [rows EXCEPT ![running[s].batch] = running[s].index]
    /\ running' = [running EXCEPT ![s] = Idle]
    /\ UNCHANGED <<chainVars, blobs, up, startFrom, lastKnown, gaps, catchDone, queueVars,
                   wrapped, faults>>

Defect_DropAfterBackoff(b) == failed

(* failed_jobs after the last attempt at b. *)
KeepForLater(b) == failed \cup {b}

(* Another attempt from the first blob on, or "skipping for now, will retry *)
(* later": a request or a statement failed, or "no blobs retrieved for      *)
(* recent batch".                                                           *)
FailJob(s) ==
    LET job == running[s]
    IN  /\ job # Idle
        /\ \/ Fault("process")
           \/ /\ job.pc = "blobs" /\ NotFound(job)
              /\ job.index = 0 /\ Recent(job.batch)
              /\ UNCHANGED faults
        /\ \/ /\ job.tries < Backoff
              /\ running' = [running EXCEPT
                                ![s] = [Idle EXCEPT !.batch = job.batch, !.tries = job.tries + 1]]
              /\ UNCHANGED failed
           \/ /\ job.tries = Backoff
              /\ running' = [running EXCEPT ![s] = Idle]
              /\ failed' = KeepForLater(job.batch)
        /\ UNCHANGED <<chainVars, dbVars, up, startFrom, lastKnown, gaps, catchDone, newQ, catchQ,
                       retryQ, wrapped>>

-----------------------------------------------------------------------------
Next ==
    \/ NewBlock \/ Boot \/ Crash
    \/ \E b \in Batches : Serve(b) \/ Prune(b)
    \/ PollForNewJobs \/ CatchUp \/ RetryFailedJobs
    \/ \E s \in Slots : Take(s) \/ RetrieveBlob(s) \/ EndOfBlobs(s) \/ SaveBatch(s) \/ FailJob(s)

Spec == Init /\ [][Next]_vars

(* The runtime polls streams and jobs, the chain grows up to its bound, a   *)
(* confirmed batch is served in the end, and the server makes a new indexer *)
(* when one is gone.  A job that fails again and again holds its slot only  *)
(* for its backoff and then waits for retry_interval, so the other streams  *)
(* get their turn (strong fairness).                                        *)
Fairness ==
    /\ WF_vars(NewBlock) /\ WF_vars(Boot)
    /\ \A b \in Batches : WF_vars(Serve(b))
    /\ SF_vars(PollForNewJobs) /\ SF_vars(CatchUp) /\ WF_vars(RetryFailedJobs)
    /\ \A s \in Slots :
         WF_vars(Take(s)) /\ WF_vars(RetrieveBlob(s) \/ EndOfBlobs(s) \/ SaveBatch(s) \/ FailJob(s))

FairSpec == Spec /\ Fairness

-----------------------------------------------------------------------------
(* Safety *)

(* A batch in the table has its blobs: the row comes last, whatever fails   *)
(* or dies between the pieces of process_job and whoever repeats it.        *)
BatchHasBlobs == \A b \in Saved : 0..(rows[b] - 1) \subseteq blobs[b]

(* blobs_count is the whole batch, unless the disperser had pruned it or    *)
(* the batch was past the pruning threshold when nothing was found.  The    *)
(* one exception are batches newer than last_known_block, whose age wraps   *)
(* around and passes for an old one.                                        *)
CountIsWhole ==
    \A b \in Saved :
        \/ rows[b] = BlobsPerBatch
        \/ disperser[b] = "pruned"
        \/ rows[b] = 0 /\ (at[b] + PruningThreshold <= head \/ b \in wrapped)

(* Somebody holds the batch in memory. *)
Held(b) ==
    \/ b \in newQ \cup catchQ \cup retryQ \cup failed
    \/ \E s \in Slots : running[s].batch = b

(* The indexer keeps the promise of JobPool: a batch it was given leaves    *)
(* its memory only when its row is saved or the indexer ends.               *)
Pool == INSTANCE JobPool WITH
    Items <- Batches,
    held  <- {b \in Batches : Held(b)},
    saved <- Saved

KeepsJobs == Pool!Spec

InGap(b) == \E g \in gaps : g.start <= at[b] /\ at[b] <= g.end

(* No batch is dropped: each one up to the last known block is saved, held, *)
(* or in a gap the catch up has not searched, through polls answered by a   *)
(* node that lags, failed jobs, duplicates and restarts.                    *)
BatchesAccounted == up => \A b \in Batches : at[b] <= lastKnown => b \in Saved \/ Held(b) \/ InGap(b)

(* take_while ends the catch up at the first empty answer.  That is the end *)
(* of the gaps if two batches are never further apart than one get_logs     *)
(* request reaches; otherwise a gap that begins with a saved batch and a    *)
(* long quiet stretch gives an empty answer, and what is behind it stays    *)
(* missing.                                                                 *)
Dense == \A b, c \in Batches : Next2(Batches, b, c) => at[c] - at[b] <= RpcBatchSize

CatchUpComplete ==
    up /\ catchDone /\ Dense =>
        \A b \in Batches : at[b] <= lastKnown => b \in Saved \/ Held(b)

-----------------------------------------------------------------------------
(* Liveness *)

(* Every confirmed batch is saved in the end, through finitely many         *)
(* failures and crashes, unless the catch up ended before it.               *)
EveryBatchIndexed ==
    \A b \in Batches : at[b] <= head ~> (b \in Saved \/ (catchDone /\ InGap(b)))
=============================================================================
