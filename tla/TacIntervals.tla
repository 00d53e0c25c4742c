---------------------------- MODULE TacIntervals ----------------------------
(***************************************************************************)
(* The timeline side of the TAC operation lifecycle indexer                *)
(* (tac-operation-lifecycle-logic/src/indexer.rs and database.rs): how the *)
(* time line is cut into rows of the `interval` table, how the watermark   *)
(* follows them, how the streams claim rows and turn them into fetch jobs, *)
(* how the realtime thread polls from its own boundary, and what a crash,  *)
(* a failed statement and a restart leave behind.                          *)
(*                                                                         *)
(* A row [start, finish] stands for the window (start, finish] when it was *)
(* generated from the history (the fetch asks for start + 1 .. finish).    *)
(* Time is counted in whole seconds, as the code does.  The retry delay is *)
(* abstracted: next_retry is "none", "future" or "past".                   *)
(***************************************************************************)
EXTENDS Integers, Sequences, FiniteSets

CONSTANTS
    Ops,             \* operations of the remote TAC service
    Ts,              \* Ts[o]: the timestamp the remote service gives to o
    Late,            \* operations the remote service may show after their second
    StartTimestamp,  \* settings.start_timestamp
    Period,          \* settings.catchup_interval
    RealtimeLag,     \* REALTIME_LAG_MINUTES
    DbBatchSize,     \* DB_BATCH_SIZE of generate_pending_intervals
    QueryBatch,      \* intervals_query_batch and intervals_retry_batch
    Concurrency,     \* settings.concurrency
    InitTime,        \* the clock when the service is first deployed
    MaxTime,         \* bound: the clock stops here
    FaultKinds,      \* the faults that may happen
    MaxFaults        \* bound: how many faults may happen in all

(* Every fault the code has a path for; a configuration chooses some. *)
AllFaults ==
    {"crash",     \* the process dies, everything in memory is lost
     "latest",    \* get_latest_operation_timestamp fails in Indexer::new
     "start",     \* a statement of start() fails, so start() returns Err
     "silent",    \* the watermark statement fails, COMMIT rolls back unnoticed
     "fetch",     \* the remote service answers an error
     "empty",     \* it answers an empty text: an empty result
     "partial",   \* it does so on a later page: the pages so far are the result
     "insert",    \* insert_pending_operations fails
     "status",    \* set_interval_status fails
     "retry",     \* the job fails, and set_interval_retry fails too
     "complete"}  \* add_completed_interval fails in the realtime thread

ASSUME ConstantsAssumption ==
    /\ Ts \in [Ops -> Nat]
    /\ Late \subseteq Ops
    /\ StartTimestamp \in Nat
    /\ Period \in Nat \ {0}
    /\ RealtimeLag \in Nat
    /\ DbBatchSize \in Nat \ {0}
    /\ QueryBatch \in Nat \ {0}
    /\ Concurrency \in Nat \ {0}
    /\ InitTime \in Nat /\ InitTime >= RealtimeLag /\ InitTime >= StartTimestamp
    /\ MaxTime \in Nat
    /\ FaultKinds \subseteq AllFaults
    /\ MaxFaults \in Nat

VARIABLES
    now,          \* the clock
    visible,      \* operations the remote service answers with
    rows,         \* table interval, in the order of its serial id
    watermark,    \* table watermark (start_timestamp while it is empty)
    stored,       \* ids present in table operation
    phase,        \* how far start() got
    boundary,     \* Indexer.realtime_boundary
    genFrom,      \* where the next generated interval starts
    realtimeBnd,  \* realtime_bnd of the realtime thread
    rt,           \* the realtime thread: its step and the answer it holds
    jobs,         \* interval jobs buffered in a stream or being processed
    faults        \* the faults so far: how many, and of which kinds

remoteVars == <<now, visible>>
dbVars     == <<rows, watermark, stored>>
memVars    == <<phase, boundary, genFrom, realtimeBnd, rt, jobs>>
vars       == <<remoteVars, dbVars, memVars, faults>>

Status == {"pending", "processing", "completed", "failed"}
Streams == {"realtime", "histLatest", "histEarliest", "retry"}
Row == [start : Nat, finish : Nat, status : Status,
        next_retry : {"none", "future", "past"}]
Job == [id : Nat, src : Streams, pc : {"buffered", "fetched", "stored"},
        got : SUBSET Ops]
NoAnswer == [pc |-> "idle", got |-> {}]
FaultLog == [count : 0..MaxFaults, kinds : SUBSET AllFaults]

TypeOK ==
    /\ now \in Nat /\ visible \subseteq Ops
    /\ rows \in Seq(Row) /\ watermark \in Nat /\ stored \subseteq Ops
    /\ phase \in {"down", "dead", "generate", "reset", "running"}
    /\ boundary \in Nat /\ genFrom \in Nat /\ realtimeBnd \in Nat
    /\ rt \in [pc : {"idle", "fetched", "inserted"}, got : SUBSET Ops]
    /\ jobs \subseteq Job
    /\ faults \in FaultLog

-----------------------------------------------------------------------------
(* Helpers *)

Smaller(a, b) == IF a <= b THEN a ELSE b
Larger(a, b)  == IF a >= b THEN a ELSE b

(* {the largest element of S}; empty only when S is. *)
Maxima(S) == {m \in S : \A n \in S : n <= m}

Fault(kind) ==
    /\ kind \in FaultKinds
    /\ faults.count < MaxFaults
    /\ faults' = [count |-> faults.count + 1, kinds |-> faults.kinds \cup {kind}]

(* The operations the remote service would answer for from..till now. *)
Window(from, till) == {o \in visible : from <= Ts[o] /\ Ts[o] <= till}

(* get_operations: the paged loop returns the whole window; an empty text   *)
(* ends it early with whatever the earlier pages held.                      *)
GetOperations(from, till, got) ==
    \/ got = Window(from, till) /\ UNCHANGED faults
    \/ Fault("empty") /\ got = {} /\ Window(from, till) # {}
    \/ Fault("partial") /\ got # {} /\ got # Window(from, till) /\ got \subseteq Window(from, till)

-----------------------------------------------------------------------------
(* The remote service and the clock *)

Init ==
    /\ now = InitTime
    /\ visible = {o \in Ops \ Late : Ts[o] <= InitTime}
    /\ rows = <<>> /\ watermark = StartTimestamp /\ stored = {}
    /\ phase = "down" /\ boundary = 0 /\ genFrom = 0 /\ realtimeBnd = 0
    /\ rt = NoAnswer /\ jobs = {}
    /\ faults = [count |-> 0, kinds |-> {}]

Tick ==
    /\ now < MaxTime
    /\ now' = now + 1
    /\ visible' = visible \cup {o \in Ops \ Late : Ts[o] = now + 1}
    /\ UNCHANGED <<dbVars, memVars, faults>>

(* An operation that the remote service shows only after its own second. *)
PublishLate(o) ==
    /\ o \in Late \ visible
    /\ Ts[o] <= now
    /\ visible' = visible \cup {o}
    /\ UNCHANGED <<now, dbVars, memVars, faults>>

-----------------------------------------------------------------------------
(* Indexer::new and start() *)

(* Seeded defects of the definitions below, for the mutation checks only.   *)
Defect_ForgetWatermark == StartTimestamp
Defect_StepBack == (IF watermark >= StartTimestamp THEN watermark ELSE StartTimestamp) - 1
Defect_UncutInterval(from, to, k) ==
    [start |-> from + (k - 1) * Period, finish |-> from + k * Period,
     status |-> "pending", next_retry |-> "none"]
Defect_NoReset(r) == r
Defect_ResetAll(r) == [r EXCEPT !.status = "pending"]

(* set_watermark_internal overwrites the one row of table watermark. *)
SetWatermark(t) == watermark' = t

(* get_latest_operation_timestamp, with its default; a singleton. *)
LatestStored == Maxima({0} \cup {Ts[o] : o \in stored})

(* generate_historical_intervals goes on from the watermark. *)
GenerateFrom == Larger(watermark, StartTimestamp)

(* Indexer::new, then start() up to generate_historical_intervals: read the *)
(* watermark and lay out the intervals from it to the boundary.             *)
Boot ==
    /\ phase = "down"
    /\ \/ /\ \E m \in LatestStored :
                boundary' = Larger(now - RealtimeLag, m)
          /\ UNCHANGED faults
       \/ Fault("latest") /\ boundary' = now - RealtimeLag
    /\ genFrom' = GenerateFrom
    /\ phase' = "generate"
    /\ UNCHANGED <<remoteVars, dbVars, realtimeBnd, rt, jobs>>

(* Where the k-th interval of a chunk that starts at `from` starts. *)
StepBy(from, k) == from + (k - 1) * Period

(* The chunk's interval k; the last one is cut at the boundary. *)
PendingInterval(from, to, k) ==
    [start |-> StepBy(from, k), finish |-> Smaller(StepBy(from, k + 1), to),
     status |-> "pending", next_retry |-> "none"]

Chunk(from, to, n) == [k \in 1..n |-> PendingInterval(from, to, k)]

(* n is the number of intervals in the next chunk of from..to. *)
IsChunkLength(from, to, n) ==
    /\ n \in 1..DbBatchSize
    /\ StepBy(from, n) < to
    /\ n < DbBatchSize => to <= StepBy(from, n + 1)

(* One transaction of generate_pending_intervals: a chunk of rows and the   *)
(* watermark.  When the watermark statement fails its error is dropped, the *)
(* transaction is rolled back and the loop goes on with the next chunk.     *)
GenerateChunk ==
    /\ phase = "generate" /\ genFrom < boundary
    /\ \E n \in 1..DbBatchSize :
         /\ IsChunkLength(genFrom, boundary, n)
         /\ genFrom' = Smaller(StepBy(genFrom, n + 1), boundary)
         /\ \/ /\ rows' = rows \o Chunk(genFrom, boundary, n)
               /\ SetWatermark(Smaller(StepBy(genFrom, n + 1), boundary))
               /\ UNCHANGED faults
            \/ Fault("silent") /\ UNCHANGED <<rows, watermark>>
    /\ UNCHANGED <<remoteVars, stored, phase, boundary, realtimeBnd, rt, jobs>>

GenerateDone ==
    /\ phase = "generate" /\ genFrom >= boundary
    /\ phase' = "reset"
    /\ UNCHANGED <<remoteVars, dbVars, boundary, genFrom, realtimeBnd, rt, jobs, faults>>

ResetRow(r) == IF r.status = "processing" THEN [r EXCEPT !.status = "pending"] ELSE r

(* reset_processing_intervals, then the streams and the realtime thread     *)
(* start, the latter from the watermark.                                    *)
ResetAndRun ==
    /\ phase = "reset"
    /\ rows' = [i \in DOMAIN rows |-> ResetRow(rows[i])]
    /\ realtimeBnd' = watermark
    /\ phase' = "running"
    /\ UNCHANGED <<remoteVars, watermark, stored, boundary, genFrom, rt, jobs, faults>>

(* start() returns Err before the streams exist (before or after the reset  *)
(* was committed): the spawned task panics and the service goes on without  *)
(* an indexer.                                                              *)
StartFails ==
    /\ phase \in {"generate", "reset"}
    /\ Fault("start")
    /\ phase' = "dead"
    /\ \/ UNCHANGED rows
       \/ phase = "reset" /\ rows' = [i \in DOMAIN rows |-> ResetRow(rows[i])]
    /\ UNCHANGED <<remoteVars, watermark, stored, boundary, genFrom, realtimeBnd, rt, jobs>>

(* The process dies and is started again; memory is gone. *)
Crash ==
    /\ phase # "down"
    /\ Fault("crash")
    /\ phase' = "down" /\ rt' = NoAnswer /\ jobs' = {}
    /\ UNCHANGED <<remoteVars, dbVars, boundary, genFrom, realtimeBnd>>

-----------------------------------------------------------------------------
(* The realtime thread *)

(* One poll: everything from the realtime boundary to now.  An empty answer *)
(* (or an error, which leaves the same state) is followed by a sleep.       *)
RealtimePoll ==
    /\ phase = "running" /\ rt.pc = "idle"
    /\ \E got \in SUBSET visible :
         /\ GetOperations(realtimeBnd, now, got)
         /\ rt' = IF got = {} THEN NoAnswer ELSE [pc |-> "fetched", got |-> got]
    /\ UNCHANGED <<remoteVars, dbVars, phase, boundary, genFrom, realtimeBnd, jobs>>

RealtimeInsert ==
    /\ phase = "running" /\ rt.pc = "fetched"
    /\ \/ /\ stored' = stored \cup rt.got
          /\ rt' = [rt EXCEPT !.pc = "inserted"]
          /\ UNCHANGED faults
       \/ Fault("insert") /\ rt' = NoAnswer /\ UNCHANGED stored
    /\ UNCHANGED <<remoteVars, rows, watermark, phase, boundary, genFrom, realtimeBnd, jobs>>

CompletedInterval(from, to) ==
    [start |-> from, finish |-> to, status |-> "completed", next_retry |-> "none"]

(* add_completed_interval(realtime_bnd, max_timestamp), its error ignored,  *)
(* and the boundary moves behind the newest operation of the answer.        *)
RealtimeAdvance ==
    /\ phase = "running" /\ rt.pc = "inserted"
    /\ \E m \in Maxima({Ts[o] : o \in rt.got}) :
         \/ /\ m > realtimeBnd
            /\ realtimeBnd' = m + 1
            /\ \/ /\ rows' = Append(rows, CompletedInterval(realtimeBnd, m))
                  /\ SetWatermark(m)
                  /\ UNCHANGED faults
               \/ Fault("complete") /\ UNCHANGED <<rows, watermark>>
         \/ m <= realtimeBnd /\ UNCHANGED <<rows, watermark, realtimeBnd, faults>>
    /\ rt' = NoAnswer
    /\ UNCHANGED <<remoteVars, stored, phase, boundary, genFrom, jobs>>

-----------------------------------------------------------------------------
(* The interval streams and the interval jobs *)

Defect_ClaimAnyUnfinished(s, r) ==
    CASE s = "retry" -> r.status = "failed" /\ r.next_retry = "past"
      [] OTHER -> r.status \in {"pending", "processing"}
Defect_NoRetryStream(s, r) ==
    s \in {"histLatest", "histEarliest"} /\ r.status = "pending" /\ r.finish < boundary
Defect_FinishExclusive(r) == <<r.start + 1, r.finish - 1>>

(* The WHERE clause of the query behind each stream. *)
Eligible(s, r) ==
    CASE s = "realtime" -> r.status = "pending" /\ r.start >= boundary
      [] s \in {"histLatest", "histEarliest"} ->
             r.status = "pending" /\ r.finish < boundary
      [] s = "retry" -> r.status = "failed" /\ r.next_retry = "past"

(* The ORDER BY of the query: may row a be taken while row b is left?       *)
(* (The order of two due retries depends on abstracted delays.)             *)
Precedes(s, a, b) ==
    CASE s \in {"realtime", "histEarliest"} -> a.start <= b.start
      [] s = "histLatest" -> a.start >= b.start
      [] s = "retry" -> TRUE

(* One iteration of a stream's loop: SELECT ... LIMIT ... FOR UPDATE SKIP   *)
(* LOCKED, set to processing, and the rows wait in the stream to be taken.  *)
(* The loop comes back to the query only when it has handed out all of them.*)
Claim(s) ==
    /\ phase = "running"
    /\ \A j \in jobs : ~(j.src = s /\ j.pc = "buffered")
    /\ LET all == {i \in DOMAIN rows : Eligible(s, rows[i])} IN
       \E batch \in SUBSET all :
         /\ batch # {}
         /\ Cardinality(batch) = Smaller(QueryBatch, Cardinality(all))
         /\ \A a \in batch, b \in all \ batch : Precedes(s, rows[a], rows[b])
         /\ rows' = [i \in DOMAIN rows |->
                        IF i \in batch THEN [rows[i] EXCEPT !.status = "processing"]
                                       ELSE rows[i]]
         /\ jobs' = jobs \cup
              {[id |-> i, src |-> s, pc |-> "buffered", got |-> {}] : i \in batch}
    /\ UNCHANGED <<remoteVars, watermark, stored, phase, boundary, genFrom,
                   realtimeBnd, rt, faults>>

InFlight == {j \in jobs : j.pc # "buffered"}

(* fetch_historical_operations asks for (start, finish]. *)
RequestWindow(r) == <<r.start + 1, r.finish>>

FetchInterval(j) ==
    /\ j.pc = "buffered" /\ Cardinality(InFlight) < Concurrency
    /\ \E got \in SUBSET visible :
         /\ GetOperations(RequestWindow(rows[j.id])[1], RequestWindow(rows[j.id])[2], got)
         /\ jobs' = (jobs \ {j}) \cup {[j EXCEPT !.pc = "fetched", !.got = got]}
    /\ UNCHANGED <<remoteVars, dbVars, phase, boundary, genFrom, realtimeBnd, rt>>

(* insert_pending_operations, not called for an empty answer. *)
StoreInterval(j) ==
    /\ j.pc = "fetched"
    /\ stored' = stored \cup j.got
    /\ jobs' = (jobs \ {j}) \cup {[j EXCEPT !.pc = "stored"]}
    /\ UNCHANGED <<remoteVars, rows, watermark, phase, boundary, genFrom,
                   realtimeBnd, rt, faults>>

(* set_interval_status(Completed) *)
CompleteInterval(j) ==
    /\ j.pc = "stored"
    /\ rows' = [rows EXCEPT ![j.id].status = "completed"]
    /\ jobs' = jobs \ {j}
    /\ UNCHANGED <<remoteVars, watermark, stored, phase, boundary, genFrom,
                   realtimeBnd, rt, faults>>

(* The fault that can end a job at its step. *)
FailureAt(pc) ==
    CASE pc = "buffered" -> "fetch" [] pc = "fetched" -> "insert" [] pc = "stored" -> "status"

(* Any error of the job ends in set_interval_retry: failed, to be retried   *)
(* later.  When that statement fails too the row stays processing.          *)
FailInterval(j) ==
    /\ j.pc = "buffered" => Cardinality(InFlight) < Concurrency
    /\ j.pc = "fetched" => j.got # {}
    /\ \/ /\ Fault(FailureAt(j.pc))
          /\ rows' = [rows EXCEPT ![j.id].status = "failed",
                                  ![j.id].next_retry = "future"]
       \/ Fault("retry") /\ UNCHANGED rows
    /\ jobs' = jobs \ {j}
    /\ UNCHANGED <<remoteVars, watermark, stored, phase, boundary, genFrom,
                   realtimeBnd, rt>>

(* A row's next_retry comes to lie in the past. *)
RetryDue(i) ==
    /\ rows[i].next_retry = "future"
    /\ rows' = [rows EXCEPT ![i].next_retry = "past"]
    /\ UNCHANGED <<remoteVars, watermark, stored, memVars, faults>>

-----------------------------------------------------------------------------
JobStep(j) == FetchInterval(j) \/ StoreInterval(j) \/ CompleteInterval(j) \/ FailInterval(j)

Next ==
    \/ Tick
    \/ \E o \in Ops : PublishLate(o)
    \/ Boot \/ GenerateChunk \/ GenerateDone \/ ResetAndRun \/ StartFails \/ Crash
    \/ RealtimePoll \/ RealtimeInsert \/ RealtimeAdvance
    \/ \E s \in Streams : Claim(s)
    \/ \E j \in jobs : JobStep(j)
    \/ \E i \in DOMAIN rows : RetryDue(i)

Spec == Init /\ [][Next]_vars

(* The runtime polls every future that can make progress, the timers fire,  *)
(* the clock runs, and a process that died is started again.  A start()     *)
(* that returned Err is not started again, and no fault is owed.            *)
Fairness ==
    /\ WF_vars(Tick)
    /\ WF_vars(Boot) /\ WF_vars(GenerateChunk) /\ WF_vars(GenerateDone)
    /\ WF_vars(ResetAndRun)
    /\ WF_vars(RealtimePoll) /\ WF_vars(RealtimeInsert) /\ WF_vars(RealtimeAdvance)
    /\ \A s \in Streams : WF_vars(Claim(s))
    /\ WF_vars(\E j \in jobs : JobStep(j))
    /\ WF_vars(\E i \in DOMAIN rows : RetryDue(i))

FairSpec == Spec /\ Fairness

-----------------------------------------------------------------------------
(* Safety *)

(* Rows never overlap, and the serial id follows the time line: whatever    *)
(* mixture of generated chunks, realtime rows, lost rows and restarts wrote *)
(* the table, no second belongs to two rows (generate_pending_intervals     *)
(* "doesn't check if intervals will overlapped with existing ones").        *)
RowsDisjoint ==
    \A i, k \in DOMAIN rows : i < k => rows[i].finish <= rows[k].start

(* The watermark is the end of the last row ever written, across chunk      *)
(* transactions, realtime rows and restarts (README: "marks the latest      *)
(* timestamp covered by intervals").                                        *)
WatermarkIsLastFinish ==
    watermark = IF rows = <<>> THEN StartTimestamp ELSE rows[Len(rows)].finish

InWindow(r, o) == r.start < Ts[o] /\ Ts[o] <= r.finish

(* Row r still owes the operations of its window. *)
Owes(r, o) == r.status # "completed" /\ InWindow(r, o)

Accounted(o) == o \in stored \/ \E i \in DOMAIN rows : Owes(rows[i], o)

(* The second of o lies behind the watermark or the realtime boundary. *)
Passed(o) ==
    /\ StartTimestamp < Ts[o]
    /\ Ts[o] <= watermark \/ (phase = "running" /\ Ts[o] < realtimeBnd)

Lossless == \A o \in visible \ Late : Passed(o) => Accounted(o)

(* None of the three faults that the code takes for success has happened:   *)
(* the remote service answered in full, no chunk was rolled back in silence.*)
Truthful == faults.kinds \cap {"silent", "empty", "partial"} = {}

(* No operation is lost: one the remote service showed in time, and whose   *)
(* second lies behind the watermark or behind the running realtime          *)
(* boundary, is in the operation table or in the window of a row that is    *)
(* not completed yet.  Crashes, failed statements, dropped retries and      *)
(* restarts included, as long as no fault has passed for a success.         *)
NoOperationLost == Truthful => Lossless

(* A row is processed by one job at a time, and only while its status says  *)
(* so: two streams, the retries and the reset never hand it out twice.      *)
SingleOwner ==
    \A j \in jobs :
        /\ j.id \in DOMAIN rows /\ rows[j.id].status = "processing"
        /\ \A k \in jobs : k.id = j.id => k = j

(* Somebody will see to the row: a job holds it, a stream selects it, or it *)
(* waits for its retry time.                                                *)
Attended(i) ==
    \/ \E j \in jobs : j.id = i
    \/ \E s \in Streams : Eligible(s, rows[i])
    \/ rows[i].status = "failed" /\ rows[i].next_retry = "future"

(* The row ends at the boundary or behind it, but starts before it.         *)
Straddles(r) == r.start < boundary /\ boundary <= r.finish

(* While the streams run, no unfinished row is left where nobody finds it:  *)
(* not processing without a job, and not between the WHERE clauses of the   *)
(* streams, unless a set_interval_retry has failed.  The exception is a     *)
(* pending row around the boundary, which neither the realtime nor the      *)
(* historical streams select; there is at most one.                         *)
NoOblivion ==
    phase = "running" /\ "retry" \notin faults.kinds =>
        /\ \A i \in DOMAIN rows :
             \/ rows[i].status = "completed"
             \/ rows[i].status = "pending" /\ Straddles(rows[i])
             \/ Attended(i)
        /\ \A i, k \in DOMAIN rows : Straddles(rows[i]) /\ Straddles(rows[k]) => i = k

(* A completed row is never touched again, by no job, stream or restart.    *)
CompletedIsFinal ==
    [][\A i \in DOMAIN rows : rows[i].status = "completed" =>
          i \in DOMAIN rows' /\ rows'[i] = rows[i]]_vars

(* The watermark never moves back, also when a restart computes its         *)
(* boundary from an older clock or an unreadable operation table.           *)
WatermarkMonotone == [][watermark' >= watermark]_vars

-----------------------------------------------------------------------------
(* The inductive invariants behind the safety properties (TacIntervalsProofs). *)

(* Rows are written behind the watermark and extend it.                     *)
Timeline ==
    /\ \A i \in DOMAIN rows : rows[i].start < rows[i].finish /\ rows[i].finish <= watermark
    /\ RowsDisjoint
    /\ WatermarkIsLastFinish
    /\ StartTimestamp <= watermark
    /\ phase = "generate" => watermark <= genFrom
    /\ phase = "running" => watermark <= realtimeBnd

(* Jobs exist only while the streams run; a retry time lies in the future   *)
(* only for a failed row.                                                   *)
Ownership ==
    /\ SingleOwner
    /\ phase # "running" => jobs = {}
    /\ \A i \in DOMAIN rows : rows[i].next_retry = "future" => rows[i].status = "failed"

(* The clock, the remote service and what is known of it agree: whatever    *)
(* lies at or before now has been shown (unless late), and every answer     *)
(* held in memory is complete for the part of the time line it will settle. *)
Knowledge ==
    /\ StartTimestamp <= now /\ boundary <= now /\ watermark <= now
    /\ \A o \in visible : Ts[o] <= now
    /\ \A o \in Ops \ Late : Ts[o] <= now => o \in visible
    /\ stored \subseteq visible
    /\ phase = "generate" => genFrom = watermark
    /\ phase = "running" => realtimeBnd <= now + 1
    /\ phase # "running" => rt = NoAnswer

RealtimeKnowledge ==
    /\ rt.got \subseteq visible
    /\ rt.pc # "idle" =>
         \A o \in Ops \ Late, g \in rt.got :
             realtimeBnd <= Ts[o] /\ Ts[o] <= Ts[g] => o \in rt.got
    /\ rt.pc = "inserted" => rt.got \subseteq stored

JobKnowledge ==
    \A j \in jobs :
        /\ j.got \subseteq visible
        /\ j.pc # "buffered" =>
             \A o \in Ops \ Late : InWindow(rows[j.id], o) => o \in j.got
        /\ j.pc = "stored" => j.got \subseteq stored

Coverage == Knowledge /\ RealtimeKnowledge /\ JobKnowledge /\ Lossless

-----------------------------------------------------------------------------
(* Liveness *)

RowIds == 1..MaxTime

(* README: "For each interval, the indexer fetches a list of operations     *)
(* that occurred within that time window": every row gets completed.        *)
EveryIntervalCompleted ==
    \A i \in RowIds :
        i \in DOMAIN rows ~> (i \in DOMAIN rows /\ rows[i].status = "completed")

(* README: the realtime rows are made so that the remote service "being out *)
(* of sync" does no harm: an operation it shows is stored or still owed     *)
(* once the realtime boundary has passed it, however late it was shown.     *)
NoLateOperationSkipped ==
    \A o \in visible :
        (phase = "running" /\ StartTimestamp < Ts[o] /\ Ts[o] < realtimeBnd)
            => Accounted(o)

=============================================================================
