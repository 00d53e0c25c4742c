---------------------------- MODULE TacOperations ----------------------------
(***************************************************************************)
(* The life of a row of table `operation` in the TAC operation lifecycle   *)
(* indexer (tac-operation-lifecycle-logic/src/indexer.rs and database.rs): *)
(* it is inserted by an interval job or the realtime thread, claimed by    *)
(* one of three streams, its stages are requested from the remote service  *)
(* and stored in one transaction, and it is looked at again until its type *)
(* is final.  The remote service moves an operation through the versions   *)
(* of its lifecycle data; a stored version number stands for the stages,   *)
(* transactions, meta info and sender that set_operation_data writes.      *)
(***************************************************************************)
EXTENDS Integers, Sequences, FiniteSets

CONSTANTS
    Ops,           \* operation ids
    Ts,            \* Ts[o]: the operation's timestamp
    Life,          \* Life[o]: the operation types the remote service shows in turn
    QueryBatch,    \* operations_query_batch and operations_retry_batch
    Concurrency,   \* settings.concurrency
    FaultKinds,    \* the faults that may happen
    MaxFaults      \* bound: how many faults may happen in all

OperationType ==
    {"PENDING", "TON-TAC-TON", "TAC-TON", "TON-TAC", "ROLLBACK", "UNKNOWN", "ERROR_TYPE"}

AllFaults ==
    {"crash",    \* the process dies and is started again
     "start",    \* start() returns Err after the reset
     "fetch",    \* get_operations_stages fails
     "retry",    \* it fails, and set_operation_retry fails too
     "absent",   \* the answer does not contain the operation
     "store"}    \* the transaction of set_operation_data fails

ASSUME ConstantsAssumption ==
    /\ Ts \in [Ops -> Nat]
    /\ Life \in [Ops -> Seq(OperationType) \ {<<>>}]
    /\ QueryBatch \in Nat \ {0}
    /\ Concurrency \in Nat \ {0}
    /\ FaultKinds \subseteq AllFaults
    /\ MaxFaults \in Nat

VARIABLES
    remote,    \* remote[o]: the version the remote service answers with
    old,       \* operations older than forever_pending_operations_age_sec
    table,     \* table operation with its stages, a row per operation
    running,   \* the streams run
    jobs,      \* operation jobs buffered in a stream or being processed
    faults     \* the faults so far: how many, and of which kinds

vars == <<remote, old, table, running, jobs, faults>>

Status == {"absent", "pending", "processing", "completed", "failed"}
Streams == {"new", "pending", "retry"}
Row == [status : Status, op_type : OperationType \cup {"NULL"}, stages : Nat,
        next_retry : {"none", "future", "past"}]
Job == [id : Ops, src : Streams, pc : {"buffered", "fetched"}, ver : Nat,
        new_status : {"pending", "completed"}]
FaultLog == [count : 0..MaxFaults, kinds : SUBSET AllFaults]

TypeOK ==
    /\ remote \in [Ops -> Nat] /\ old \subseteq Ops
    /\ table \in [Ops -> Row]
    /\ running \in BOOLEAN
    /\ jobs \subseteq Job
    /\ faults \in FaultLog

Smaller(a, b) == IF a <= b THEN a ELSE b

Fault(kind) ==
    /\ kind \in FaultKinds
    /\ faults.count < MaxFaults
    /\ faults' = [count |-> faults.count + 1, kinds |-> faults.kinds \cup {kind}]

NoRow == [status |-> "absent", op_type |-> "NULL", stages |-> 0, next_retry |-> "none"]

Init ==
    /\ remote = [o \in Ops |-> 1] /\ old = {}
    /\ table = [o \in Ops |-> NoRow]
    /\ running = FALSE
    /\ jobs = {}
    /\ faults = [count |-> 0, kinds |-> {}]

-----------------------------------------------------------------------------
(* The remote service and the clock *)

(* The operation goes on to its next stage. *)
RemoteAdvance(o) ==
    /\ remote[o] < Len(Life[o])
    /\ remote' = [remote EXCEPT ![o] = @ + 1]
    /\ UNCHANGED <<old, table, running, jobs, faults>>

(* The operation's timestamp falls behind forever_pending_operation_cap. *)
GrowOld(o) ==
    /\ o \notin old
    /\ old' = old \cup {o}
    /\ UNCHANGED <<remote, table, running, jobs, faults>>

-----------------------------------------------------------------------------
(* Seeded defects of the definitions below, for the mutation checks only.   *)
Defect_NoReset(r) == r
Defect_ClaimAnyUnfinished(s, r) ==
    CASE s = "new"     -> r.status = "pending" /\ r.op_type = "NULL"
      [] s = "pending" -> r.status \in {"pending", "processing"} /\ r.op_type = "PENDING"
      [] s = "retry"   -> r.status = "failed" /\ r.next_retry = "past"
Defect_NeverRetry(s, r) ==
    CASE s = "new"     -> r.status = "pending" /\ r.op_type = "NULL"
      [] s = "pending" -> r.status = "pending" /\ r.op_type = "PENDING"
      [] s = "retry"   -> FALSE
Defect_ReclaimForeverPending(s, r) ==
    CASE s = "new"     -> r.status = "pending" /\ r.op_type = "NULL"
      [] s = "pending" -> r.status \in {"pending", "completed"} /\ r.op_type = "PENDING"
      [] s = "retry"   -> r.status = "failed" /\ r.next_retry = "past"
Defect_UnknownIsFinal(type) == type # "PENDING"
Defect_UnknownFails(o, type) ==
    IF type = "UNKNOWN" THEN "failed"
    ELSE IF type # "PENDING" \/ o \in old THEN "completed" ELSE "pending"

(* insert_pending_operations: ON CONFLICT DO NOTHING. *)
InsertedRow(r) == IF r.status = "absent" THEN [NoRow EXCEPT !.status = "pending"] ELSE r

(* An interval job or the realtime thread brings operations, perhaps again  *)
(* (a retried interval, an overlapping realtime window), in one statement.  *)
InsertOperations(S) ==
    /\ running
    /\ table' = [o \in Ops |-> IF o \in S THEN InsertedRow(table[o]) ELSE table[o]]
    /\ UNCHANGED <<remote, old, running, jobs, faults>>

ResetRow(r) == IF r.status = "processing" THEN [r EXCEPT !.status = "pending"] ELSE r

Reset == table' = [o \in Ops |-> ResetRow(table[o])]

(* start(): reset_processing_operations, then the streams run. *)
Start ==
    /\ ~running
    /\ Reset
    /\ running' = TRUE
    /\ UNCHANGED <<remote, old, jobs, faults>>

(* A later statement of start() fails: there are no streams, and the        *)
(* service goes on without an indexer.                                      *)
StartFails ==
    /\ ~running
    /\ Fault("start")
    /\ Reset
    /\ UNCHANGED <<remote, old, running, jobs>>

Crash ==
    /\ running
    /\ Fault("crash")
    /\ running' = FALSE /\ jobs' = {}
    /\ UNCHANGED <<remote, old, table>>

-----------------------------------------------------------------------------
(* The streams *)

(* The WHERE clauses of query_new_operations, query_pending_operations and  *)
(* query_failed_operations.                                                 *)
Eligible(s, r) ==
    CASE s = "new"     -> r.status = "pending" /\ r.op_type = "NULL"
      [] s = "pending" -> r.status = "pending" /\ r.op_type = "PENDING"
      [] s = "retry"   -> r.status = "failed" /\ r.next_retry = "past"

(* New and pending operations come latest first; the order of two due       *)
(* retries depends on abstracted delays.                                    *)
Precedes(s, a, b) == s = "retry" \/ Ts[a] >= Ts[b]

(* One iteration of a stream's loop: up to a batch of rows is set to        *)
(* processing and waits in the stream to be taken.                          *)
Claim(s) ==
    /\ running
    /\ \A j \in jobs : ~(j.src = s /\ j.pc = "buffered")
    /\ LET all == {o \in Ops : Eligible(s, table[o])} IN
       \E batch \in SUBSET all :
         /\ batch # {}
         /\ Cardinality(batch) = Smaller(QueryBatch, Cardinality(all))
         /\ \A a \in batch, b \in all \ batch : Precedes(s, a, b)
         /\ table' = [o \in Ops |->
                        IF o \in batch THEN [table[o] EXCEPT !.status = "processing"]
                                       ELSE table[o]]
         /\ jobs' = jobs \cup
              {[id |-> o, src |-> s, pc |-> "buffered", ver |-> 0,
                new_status |-> "pending"] : o \in batch}
    /\ UNCHANGED <<remote, old, running, faults>>

-----------------------------------------------------------------------------
(* process_operation_with_retries *)

InFlight == {j \in jobs : j.pc # "buffered"}

CanStart(j) == j.pc = "buffered" /\ Cardinality(InFlight) < Concurrency

is_finalized(type) == type # "PENDING" /\ type # "UNKNOWN"

(* Final types and forever pending operations are not looked at again. *)
NewStatus(o, type) ==
    IF is_finalized(type) \/ (type = "PENDING" /\ o \in old) THEN "completed" ELSE "pending"

(* get_operations_stages answers with the current version. *)
FetchStages(j) ==
    /\ CanStart(j)
    /\ jobs' = (jobs \ {j}) \cup
         {[j EXCEPT !.pc = "fetched", !.ver = remote[j.id],
                    !.new_status = NewStatus(j.id, Life[j.id][remote[j.id]])]}
    /\ UNCHANGED <<remote, old, table, running, faults>>

(* The row after set_operation_data: the old stages are deleted, the type   *)
(* and the status set, the new stages and meta info stored, all at once.    *)
StoredRow(r, type, ver, new_status) ==
    [r EXCEPT !.op_type = type, !.status = new_status, !.stages = ver]

SetOperationData(j) ==
    /\ j.pc = "fetched"
    /\ table' = [table EXCEPT ![j.id] =
                    StoredRow(@, Life[j.id][j.ver], j.ver, j.new_status)]
    /\ jobs' = jobs \ {j}
    /\ UNCHANGED <<remote, old, running, faults>>

(* The transaction fails, or the answer lacks the operation: an error is    *)
(* logged and the row stays processing until the next start().              *)
DropOperation(j) ==
    /\ \/ CanStart(j) /\ Fault("absent")
       \/ j.pc = "fetched" /\ Fault("store")
    /\ jobs' = jobs \ {j}
    /\ UNCHANGED <<remote, old, table, running>>

(* The request fails: set_operation_retry, which may fail too. *)
FailOperation(j) ==
    /\ CanStart(j)
    /\ \/ /\ Fault("fetch")
          /\ table' = [table EXCEPT ![j.id].status = "failed",
                                    ![j.id].next_retry = "future"]
       \/ Fault("retry") /\ UNCHANGED table
    /\ jobs' = jobs \ {j}
    /\ UNCHANGED <<remote, old, running>>

RetryDue(o) ==
    /\ table[o].next_retry = "future"
    /\ table' = [table EXCEPT ![o].next_retry = "past"]
    /\ UNCHANGED <<remote, old, running, jobs, faults>>

-----------------------------------------------------------------------------
JobStep(j) == FetchStages(j) \/ SetOperationData(j) \/ DropOperation(j) \/ FailOperation(j)

Next ==
    \/ \E o \in Ops : RemoteAdvance(o) \/ GrowOld(o) \/ RetryDue(o)
    \/ \E S \in SUBSET Ops : InsertOperations(S)
    \/ Start \/ StartFails \/ Crash
    \/ \E s \in Streams : Claim(s)
    \/ \E j \in jobs : JobStep(j)

Spec == Init /\ [][Next]_vars

(* Futures are polled, timers fire, a process that died is started again,   *)
(* operations grow old.  The remote service owes no progress.               *)
Fairness ==
    /\ WF_vars(Start)
    /\ \A s \in Streams : WF_vars(Claim(s))
    /\ \A o \in Ops : /\ WF_vars(\E j \in jobs : j.id = o /\ JobStep(j))
                      /\ WF_vars(GrowOld(o))
                      /\ WF_vars(RetryDue(o))

FairSpec == Spec /\ Fairness

-----------------------------------------------------------------------------
(* Safety *)

(* An operation is processed by one job at a time, whatever stream, retry   *)
(* or restart handed it out.                                                *)
SingleOwner ==
    \A j \in jobs :
        /\ table[j.id].status = "processing"
        /\ \A k \in jobs : k.id = j.id => k = j

(* What a job is about to store is not out of date: between the request of  *)
(* process_operation_with_retries and set_operation_data nobody has stored  *)
(* later stages of the operation or completed it, whichever stream, retry   *)
(* or restart has handed the row out meanwhile.                             *)
NoStaleAnswer ==
    \A j \in jobs : j.pc = "fetched" =>
        /\ table[j.id].stages <= j.ver
        /\ table[j.id].status # "completed"

(* The code gives an operation up only for a final type, or as forever      *)
(* pending; a row that was never answered is never completed.               *)
CompletedIsSettled ==
    \A o \in Ops : table[o].status = "completed" =>
        /\ table[o].stages > 0
        /\ LET type == Life[o][table[o].stages]
           IN  type \notin {"PENDING", "UNKNOWN"} \/ (type = "PENDING" /\ o \in old)

(* A job has ended by one of the error paths that only log: its row stays   *)
(* processing, and only the next start() recovers it.                       *)
Dropped == faults.kinds \cap {"retry", "absent", "store"} # {}

(* Somebody will see to the row: a job holds it, a stream selects it, or it *)
(* waits for its retry time.                                                *)
Attended(o) ==
    \/ \E j \in jobs : j.id = o
    \/ \E s \in Streams : Eligible(s, table[o])
    \/ table[o].status = "failed" /\ table[o].next_retry = "future"

(* While the streams run, no unfinished row is left where nobody finds it,  *)
(* also after crashes and failed requests: not processing without a job, and*)
(* not between the WHERE clauses of the streams; unless a job was dropped.  *)
(* The one type no stream selects is UNKNOWN.                               *)
NoOblivion ==
    running /\ ~Dropped => \A o \in Ops :
        \/ table[o].status \in {"absent", "completed"}
        \/ table[o].status = "pending" /\ table[o].op_type = "UNKNOWN"
        \/ Attended(o)

(* The inductive part: the versions move forward from the table through the *)
(* answer a job holds to the remote service, and a job that is about to     *)
(* complete an operation has a reason to.                                   *)
VersionsOrdered ==
    /\ \A o \in Ops : remote[o] \in 1..Len(Life[o]) /\ table[o].stages <= remote[o]
    /\ \A o \in Ops : table[o].status = "absent" => table[o] = NoRow
    /\ ~running => jobs = {}
    /\ \A j \in jobs : j.pc = "fetched" =>
         /\ j.ver \in 1..remote[j.id] /\ table[j.id].stages <= j.ver
         /\ j.new_status = "completed" =>
              \/ is_finalized(Life[j.id][j.ver])
              \/ Life[j.id][j.ver] = "PENDING" /\ j.id \in old

(* The table implements the promise of TacLifecycle: shown stages move only *)
(* forward, and a settled operation does not change.                        *)
Promise == INSTANCE TacLifecycle WITH
    Latest  <- [o \in Ops |-> Len(Life[o])],
    shown   <- [o \in Ops |-> table[o].stages],
    settled <- [o \in Ops |-> table[o].status = "completed"]

KeepsPromise == Promise!Spec

-----------------------------------------------------------------------------
(* Liveness *)

(* Every inserted operation is settled in the end, through crashes, failed *)
(* requests and restarts: by a final type or when it has grown old.  The    *)
(* ways to be left behind are a job dropped by an error path, a type stored *)
(* as UNKNOWN, which no stream selects, and a start() that failed, from     *)
(* which only an operator recovers.                                         *)
SettledUnlessDropped ==
    \A o \in Ops :
        table[o].status # "absent"
            ~> \/ table[o].status = "completed" \/ table[o].op_type = "UNKNOWN"
               \/ Dropped \/ "start" \in faults.kinds

(* A comment in process_operation_with_retries says of the types that are   *)
(* not final that they "will be catched by operation stream": every         *)
(* inserted operation is settled in the end.                                *)
EventuallySettled ==
    \A o \in Ops : table[o].status # "absent" ~> table[o].status = "completed"
=============================================================================
