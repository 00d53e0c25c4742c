------------------------------ MODULE TacSystem ------------------------------
(***************************************************************************)
(* The TAC indexer as start() puts it together: the interval side          *)
(* (TacIntervals) fills the operation table that the operation side        *)
(* (TacOperations) works off.  The two share that table, the pool of       *)
(* for_each_concurrent, and the life of the process.                       *)
(***************************************************************************)
EXTENDS Integers, Sequences, FiniteSets

CONSTANTS
    Ops, Ts, Late, Life,                     \* the remote service
    StartTimestamp, Period, RealtimeLag, DbBatchSize, QueryBatch,
    Concurrency,                             \* the pool, for jobs of both kinds
    InitTime, MaxTime,
    IntervalFaultKinds, OperationFaultKinds, \* the faults that may happen on each side
    MaxFaults                                \* bound: how many on each side

VARIABLES
    now, visible, rows, watermark, phase, boundary, genFrom, realtimeBnd, rt,
    intervalJobs, intervalFaults,
    remote, old, table, operationJobs, operationFaults

(* An operation is known to the interval side when it has a row. *)
Intervals == INSTANCE TacIntervalsProofs WITH
    stored     <- {o \in Ops : table[o].status # "absent"},
    jobs       <- intervalJobs,
    faults     <- intervalFaults,
    FaultKinds <- IntervalFaultKinds

Operations == INSTANCE TacOperationsProofs WITH
    running    <- phase = "running",
    jobs       <- operationJobs,
    faults     <- operationFaults,
    FaultKinds <- OperationFaultKinds

ASSUME SystemAssumption == Intervals!ConstantsAssumption /\ Operations!ConstantsAssumption

intervalVars  == <<now, visible, rows, watermark, phase, boundary, genFrom, realtimeBnd, rt,
                   intervalJobs, intervalFaults>>
operationVars == <<remote, old, table, operationJobs, operationFaults>>
vars          == <<intervalVars, operationVars>>

Init == phase = "down" /\ Operations!Init /\ Intervals!Init

-----------------------------------------------------------------------------
(* The process *)

Boot ==
    /\ UNCHANGED operationVars
    /\ Intervals!Boot \/ Intervals!GenerateChunk \/ Intervals!GenerateDone

(* reset_processing_operations resets both tables, then all streams run. *)
Start ==
    /\ Operations!Reset
    /\ Intervals!ResetAndRun
    /\ Operations!Start

(* start() returns Err: before the reset, between its two statements, or    *)
(* after them.                                                              *)
StartFails ==
    \/ UNCHANGED operationVars /\ Intervals!StartFails
    \/ /\ phase = "reset"
       /\ Operations!Reset
       /\ rows' = [i \in DOMAIN rows |-> Intervals!ResetRow(rows[i])]
       /\ Intervals!StartFails
       /\ Operations!StartFails

(* The process dies; without streams there was nothing but the interval     *)
(* side to lose.                                                            *)
Crash ==
    /\ UNCHANGED table
    /\ Intervals!Crash
    /\ \/ phase = "running" /\ Operations!Crash
       \/ phase # "running" /\ UNCHANGED operationVars

-----------------------------------------------------------------------------
(* The interval side *)

(* The clock and the remote service. *)
Time ==
    /\ UNCHANGED operationVars
    /\ Intervals!Tick \/ \E o \in Ops : Intervals!PublishLate(o)

(* insert_pending_operations *)
Inserted(S) ==
    table' = [o \in Ops |-> IF o \in S THEN Operations!InsertedRow(table[o]) ELSE table[o]]

RealtimeInsert ==
    /\ Inserted(rt.got) \/ UNCHANGED table
    /\ Intervals!RealtimeInsert
    /\ UNCHANGED <<remote, old, operationJobs, operationFaults>>

Realtime ==
    \/ UNCHANGED operationVars /\ (Intervals!RealtimePoll \/ Intervals!RealtimeAdvance)
    \/ RealtimeInsert

Defect_BufferedTakeSlots ==
    Cardinality(Intervals!InFlight) + Cardinality(operationJobs) < Concurrency

(* for_each_concurrent takes another job, of either kind. *)
HasRoom == Cardinality(Intervals!InFlight) + Cardinality(Operations!InFlight) < Concurrency

ClaimIntervals(s) == UNCHANGED operationVars /\ Intervals!Claim(s)

IntervalJob(j) ==
    /\ phase = "running"
    /\ j.pc = "buffered" => HasRoom
    /\ \/ /\ UNCHANGED operationVars
          /\ Intervals!FetchInterval(j) \/ Intervals!CompleteInterval(j) \/ Intervals!FailInterval(j)
       \/ /\ Inserted(j.got)
          /\ Intervals!StoreInterval(j)
          /\ UNCHANGED <<remote, old, operationJobs, operationFaults>>

IntervalRetryDue == UNCHANGED operationVars /\ \E i \in DOMAIN rows : Intervals!RetryDue(i)

-----------------------------------------------------------------------------
(* The operation side *)

RemoteAdvance(o) == UNCHANGED intervalVars /\ Operations!RemoteAdvance(o)

GrowOld(o) == UNCHANGED intervalVars /\ Operations!GrowOld(o)

ClaimOperations(s) == UNCHANGED intervalVars /\ Operations!Claim(s)

OperationJob(j) ==
    /\ j.pc = "buffered" => HasRoom
    /\ UNCHANGED intervalVars
    /\ Operations!JobStep(j)

OperationRetryDue(o) == UNCHANGED intervalVars /\ Operations!RetryDue(o)

-----------------------------------------------------------------------------
Next ==
    \/ Boot \/ Start \/ StartFails \/ Crash \/ Time \/ Realtime
    \/ \E s \in Intervals!Streams : ClaimIntervals(s)
    \/ \E j \in intervalJobs : IntervalJob(j)
    \/ IntervalRetryDue
    \/ \E o \in Ops : RemoteAdvance(o) \/ GrowOld(o) \/ OperationRetryDue(o)
    \/ \E s \in Operations!Streams : ClaimOperations(s)
    \/ \E j \in operationJobs : OperationJob(j)

Spec == Init /\ [][Next]_vars

(* As on each side alone, except for the pool: a job that waits for a slot  *)
(* gets one, because every stream sleeps after each of its batches and the  *)
(* streams behind it get their turn (strong fairness).                      *)
Fairness ==
    /\ WF_vars(Boot) /\ WF_vars(Start) /\ WF_vars(Time) /\ WF_vars(Realtime)
    /\ \A s \in Intervals!Streams : WF_vars(ClaimIntervals(s))
    /\ SF_vars(\E j \in intervalJobs : IntervalJob(j))
    /\ WF_vars(IntervalRetryDue)
    /\ \A s \in Operations!Streams : WF_vars(ClaimOperations(s))
    /\ \A o \in Ops : /\ SF_vars(\E j \in operationJobs : j.id = o /\ OperationJob(j))
                      /\ WF_vars(GrowOld(o))
                      /\ WF_vars(OperationRetryDue(o))

FairSpec == Spec /\ Fairness

-----------------------------------------------------------------------------
(* Safety *)

(* An operation of the remote service is on its way: its row is completed,  *)
(* or pending with the type UNKNOWN that no stream selects, or attended; or *)
(* it is in the window of an interval that is attended, or of the pending   *)
(* one around the boundary that no stream selects.                          *)
Followed(o) ==
    \/ table[o].status = "completed"
    \/ table[o].status = "pending" /\ table[o].op_type = "UNKNOWN"
    \/ table[o].status # "absent" /\ Operations!Attended(o)
    \/ \E i \in DOMAIN rows :
         /\ Intervals!Owes(rows[i], o)
         /\ \/ Intervals!Attended(i)
            \/ rows[i].status = "pending" /\ Intervals!Straddles(rows[i])

(* None of the faults has happened that leave a row behind without a trace: *)
(* a job dropped with only a log line, an answer or a commit taken for a    *)
(* success.                                                                 *)
Recoverable ==
    /\ Intervals!Truthful /\ "retry" \notin intervalFaults.kinds
    /\ ~Operations!Dropped

(* End to end: while the indexer runs, every operation that the remote      *)
(* service showed in time and whose second has passed is followed, from the *)
(* interval that owes it to the row that is settled, through crashes,       *)
(* failed requests, failed statements and restarts of either side.          *)
EveryOperationFollowed ==
    phase = "running" /\ Recoverable =>
        \A o \in visible \ Late : Intervals!Passed(o) => Followed(o)

-----------------------------------------------------------------------------
(* Liveness *)

(* Every operation of the history is settled in the end, although interval  *)
(* and operation jobs compete for one pool.  (History: below the boundary   *)
(* of this start, in a window that ends before it.)                         *)
HistorySettled ==
    \A o \in Ops :
        (\E i \in DOMAIN rows : rows[i].finish < boundary /\ Intervals!InWindow(rows[i], o))
            ~> \/ table[o].status = "completed" \/ table[o].op_type = "UNKNOWN"
               \/ "start" \in intervalFaults.kinds
=============================================================================
