--------------------------- MODULE TacSystemProofs ---------------------------
(***************************************************************************)
(* The TAC indexer does on each side what TacIntervals and TacOperations   *)
(* say, so all that is proved of them holds of the whole; and what the two *)
(* sides keep adds up to what neither can promise alone.                   *)
(***************************************************************************)
EXTENDS TacSystem, TLAPS

LEMMA Constants == Intervals!ConstantsAssumption /\ Operations!ConstantsAssumption
BY SystemAssumption

-----------------------------------------------------------------------------
(* The operation side *)

(* Steps of the interval side that insert nothing. *)
LEMMA OperationsIdle ==
    ASSUME UNCHANGED operationVars, (phase' = "running") <=> (phase = "running")
    PROVE  UNCHANGED Operations!vars
BY DEF operationVars, Operations!vars

(* insert_pending_operations, of whatever the remote service has answered.  *)
LEMMA InsertsOperations ==
    ASSUME phase = "running", phase' = phase, NEW S, Inserted(S),
           UNCHANGED <<remote, old, operationJobs, operationFaults>>
    PROVE  Operations!Next
<1>1. table' = [o \in Ops |-> IF o \in S \cap Ops THEN Operations!InsertedRow(table[o]) ELSE table[o]]
  BY DEF Inserted
<1>2. Operations!InsertOperations(S \cap Ops)
  BY <1>1 DEF Operations!InsertOperations
<1> QED  BY <1>2 DEF Operations!Next

(* Every step of the indexer is a step of the operation side, or leaves it  *)
(* alone.                                                                   *)
LEMMA OperationsStep ==
    ASSUME [Next]_vars
    PROVE  Operations!Next \/ UNCHANGED Operations!vars
<1>1. CASE Boot
  BY <1>1, OperationsIdle DEF Boot, Intervals!Boot, Intervals!GenerateChunk, Intervals!GenerateDone
<1>2. CASE Start
  BY <1>2 DEF Start, Operations!Next
<1>3. CASE StartFails
  <2>1. CASE UNCHANGED operationVars /\ Intervals!StartFails
    BY <2>1, OperationsIdle DEF Intervals!StartFails
  <2>2. CASE Operations!StartFails
    BY <2>2 DEF Operations!Next
  <2> QED  BY <1>3, <2>1, <2>2 DEF StartFails
<1>4. CASE Crash
  <2>1. CASE Operations!Crash
    BY <2>1 DEF Operations!Next
  <2>2. CASE phase # "running" /\ UNCHANGED operationVars
    BY <1>4, <2>2, OperationsIdle DEF Crash, Intervals!Crash
  <2> QED  BY <1>4, <2>1, <2>2 DEF Crash
<1>5. CASE Time
  BY <1>5, OperationsIdle DEF Time, Intervals!Tick, Intervals!PublishLate, Intervals!memVars
<1>6. CASE Realtime
  <2>1. CASE UNCHANGED operationVars /\ (Intervals!RealtimePoll \/ Intervals!RealtimeAdvance)
    BY <2>1, OperationsIdle DEF Intervals!RealtimePoll, Intervals!RealtimeAdvance
  <2>2. CASE RealtimeInsert
    <3>1. phase = "running" /\ phase' = phase
      BY <2>2 DEF RealtimeInsert, Intervals!RealtimeInsert
    <3>2. CASE Inserted(rt.got)
      BY <2>2, <3>1, <3>2, InsertsOperations DEF RealtimeInsert
    <3>3. CASE UNCHANGED table
      BY <2>2, <3>1, <3>3, OperationsIdle DEF RealtimeInsert, operationVars
    <3> QED  BY <2>2, <3>2, <3>3 DEF RealtimeInsert
  <2> QED  BY <1>6, <2>1, <2>2 DEF Realtime
<1>7. ASSUME NEW s \in Intervals!Streams, ClaimIntervals(s) PROVE UNCHANGED Operations!vars
  BY <1>7, OperationsIdle DEF ClaimIntervals, Intervals!Claim
<1>8. ASSUME NEW j \in intervalJobs, IntervalJob(j)
      PROVE  Operations!Next \/ UNCHANGED Operations!vars
  <2>1. CASE /\ UNCHANGED operationVars
             /\ Intervals!FetchInterval(j) \/ Intervals!CompleteInterval(j) \/ Intervals!FailInterval(j)
    BY <2>1, OperationsIdle DEF Intervals!FetchInterval, Intervals!CompleteInterval,
                                Intervals!FailInterval
  <2>2. CASE /\ Inserted(j.got)
             /\ Intervals!StoreInterval(j)
             /\ UNCHANGED <<remote, old, operationJobs, operationFaults>>
    BY <1>8, <2>2, InsertsOperations DEF IntervalJob, Intervals!StoreInterval
  <2> QED  BY <1>8, <2>1, <2>2 DEF IntervalJob
<1>9. CASE IntervalRetryDue
  BY <1>9, OperationsIdle DEF IntervalRetryDue, Intervals!RetryDue, Intervals!memVars
<1>10. ASSUME NEW o \in Ops, RemoteAdvance(o) \/ GrowOld(o) \/ OperationRetryDue(o)
       PROVE  Operations!Next
  BY <1>10 DEF RemoteAdvance, GrowOld, OperationRetryDue, Operations!Next
<1>11. ASSUME NEW s \in Operations!Streams, ClaimOperations(s) PROVE Operations!Next
  BY <1>11 DEF ClaimOperations, Operations!Next
<1>12. ASSUME NEW j \in operationJobs, OperationJob(j) PROVE Operations!Next
  BY <1>12 DEF OperationJob, Operations!Next
<1>13. CASE UNCHANGED vars
  BY <1>13, OperationsIdle DEF vars, intervalVars
<1> QED
  BY <1>1, <1>2, <1>3, <1>4, <1>5, <1>6, <1>7, <1>8, <1>9, <1>10, <1>11, <1>12, <1>13 DEF Next

(* The indexer implements TacOperations: interval jobs, the realtime thread *)
(* and the shared pool do to the operation table only what that module      *)
(* lets its environment do.                                                 *)
THEOREM ImplementsOperations == Spec => Operations!Spec
<1>1. Init => Operations!Init
  BY DEF Init
<1>2. [Next]_vars => [Operations!Next]_(Operations!vars)
  BY OperationsStep
<1> QED  BY <1>1, <1>2, PTL DEF Spec, Operations!Spec
-----------------------------------------------------------------------------
(* The interval side *)

(* What the interval side sees of the operation table. *)
Known == {o \in Ops : table[o].status # "absent"}

LEMMA IntervalsIdle ==
    ASSUME UNCHANGED intervalVars,
           \A o \in Ops : table'[o].status = "absent" <=> table[o].status = "absent"
    PROVE  UNCHANGED Intervals!vars
<1>1. Known' = Known
  BY DEF Known
<1> QED  BY <1>1 DEF intervalVars, Known, Intervals!vars, Intervals!remoteVars, Intervals!dbVars,
                     Intervals!memVars

(* The streams claim rows that are there, jobs work on rows that are there. *)
LEMMA OperationsKeepRows ==
    ASSUME Operations!TypeOK, Operations!SingleOwner, NEW p \in Ops,
           \/ \E o \in Ops :
                \/ Operations!RemoteAdvance(o) \/ Operations!GrowOld(o) \/ Operations!RetryDue(o)
           \/ \E s \in Operations!Streams : Operations!Claim(s)
           \/ \E j \in operationJobs : Operations!JobStep(j)
    PROVE  table'[p].status = "absent" <=> table[p].status = "absent"
<1>0. /\ table \in [Ops -> Operations!Row]
      /\ \A j \in operationJobs :
           /\ j.id \in Ops /\ j.new_status \in {"pending", "completed"}
           /\ table[j.id].status = "processing"
  BY DEF Operations!TypeOK, Operations!Job, Operations!SingleOwner
<1>1. ASSUME NEW o \in Ops, Operations!RemoteAdvance(o) \/ Operations!GrowOld(o)
      PROVE  table' = table
  BY <1>1 DEF Operations!RemoteAdvance, Operations!GrowOld
<1>2. ASSUME NEW o \in Ops, Operations!RetryDue(o)
      PROVE  table'[p].status = table[p].status
  BY <1>0, <1>2 DEF Operations!RetryDue, Operations!Row
<1>3. ASSUME NEW s \in Operations!Streams, Operations!Claim(s)
      PROVE  table'[p].status = "absent" <=> table[p].status = "absent"
  <2>1. PICK batch \in SUBSET {o \in Ops : Operations!Eligible(s, table[o])} :
          table' = [o \in Ops |->
                        IF o \in batch THEN [table[o] EXCEPT !.status = "processing"]
                                       ELSE table[o]]
    BY <1>3 DEF Operations!Claim
  <2>2. p \in batch => table[p].status # "absent"
    BY DEF Operations!Eligible, Operations!Streams
  <2> QED  BY <1>0, <2>1, <2>2 DEF Operations!Row
<1>4. ASSUME NEW j \in operationJobs, Operations!JobStep(j)
      PROVE  table'[p].status = "absent" <=> table[p].status = "absent"
  <2>1. CASE Operations!FetchStages(j) \/ Operations!DropOperation(j)
    BY <2>1 DEF Operations!FetchStages, Operations!DropOperation
  <2>2. CASE Operations!SetOperationData(j)
    BY <1>0, <2>2 DEF Operations!SetOperationData, Operations!StoredRow, Operations!Row
  <2>3. CASE Operations!FailOperation(j)
    <3>1. CASE UNCHANGED table
      BY <3>1
    <3>2. CASE table' = [table EXCEPT ![j.id].status = "failed", ![j.id].next_retry = "future"]
      BY <1>0, <3>2 DEF Operations!Row
    <3> QED  BY <2>3, <3>1, <3>2 DEF Operations!FailOperation
  <2> QED  BY <1>4, <2>1, <2>2, <2>3 DEF Operations!JobStep
<1> QED  BY <1>1, <1>2, <1>3, <1>4

(* Every step of the indexer is a step of the interval side, or leaves it   *)
(* alone.                                                                   *)
LEMMA IntervalsStep ==
    ASSUME Operations!TypeOK, Operations!SingleOwner, [Next]_vars
    PROVE  Intervals!Next \/ UNCHANGED Intervals!vars
<1>1. CASE Boot \/ Start \/ StartFails \/ Crash \/ Time \/ Realtime \/ IntervalRetryDue
  BY <1>1 DEF Boot, Start, StartFails, Crash, Time, Realtime, RealtimeInsert, IntervalRetryDue,
              Intervals!Next
<1>2. ASSUME NEW s \in Intervals!Streams, ClaimIntervals(s) PROVE Intervals!Next
  BY <1>2 DEF ClaimIntervals, Intervals!Next
<1>3. ASSUME NEW j \in intervalJobs, IntervalJob(j) PROVE Intervals!Next
  BY <1>3 DEF IntervalJob, Intervals!Next, Intervals!JobStep
<1>4. ASSUME \/ \E o \in Ops : RemoteAdvance(o) \/ GrowOld(o) \/ OperationRetryDue(o)
             \/ \E s \in Operations!Streams : ClaimOperations(s)
             \/ \E j \in operationJobs : OperationJob(j)
      PROVE  UNCHANGED Intervals!vars
  <2>1. UNCHANGED intervalVars
    BY <1>4 DEF RemoteAdvance, GrowOld, OperationRetryDue, ClaimOperations, OperationJob
  <2>2. \/ \E o \in Ops :
             \/ Operations!RemoteAdvance(o) \/ Operations!GrowOld(o) \/ Operations!RetryDue(o)
        \/ \E s \in Operations!Streams : Operations!Claim(s)
        \/ \E j \in operationJobs : Operations!JobStep(j)
    BY <1>4 DEF RemoteAdvance, GrowOld, OperationRetryDue, ClaimOperations, OperationJob
  <2>3. \A p \in Ops : table'[p].status = "absent" <=> table[p].status = "absent"
    BY <2>2, OperationsKeepRows
  <2> QED  BY <2>1, <2>3, IntervalsIdle
<1>5. CASE UNCHANGED vars
  BY <1>5, IntervalsIdle DEF vars, operationVars
<1> QED  BY <1>1, <1>2, <1>3, <1>4, <1>5 DEF Next

(* The indexer implements TacIntervals: no operation job takes a row out of *)
(* the operation table or puts one in behind the back of the intervals.     *)
THEOREM ImplementsIntervals == Spec => Intervals!Spec
<1>1. Init => Intervals!Init
  BY DEF Init
<1>2. Operations!TypeOK /\ Operations!SingleOwner /\ [Next]_vars
        => [Intervals!Next]_(Intervals!vars)
  BY IntervalsStep
<1>3. Operations!Spec => []Operations!TypeOK /\ []Operations!SingleOwner
  BY Constants, Operations!TypeCorrect, Operations!OperationsHaveOneOwner
<1> QED  BY <1>1, <1>2, <1>3, ImplementsOperations, PTL DEF Spec, Intervals!Spec

-----------------------------------------------------------------------------
(* End to end *)

(* What an unfinished row of either table waits for, and the windows that   *)
(* owe an operation, together lead from the remote service to the settled   *)
(* row.                                                                     *)
LEMMA SidesMeet ==
    Operations!NoOblivion /\ Intervals!NoOblivion /\ Intervals!NoOperationLost
        => EveryOperationFollowed
<1> SUFFICES ASSUME Operations!NoOblivion, Intervals!NoOblivion, Intervals!NoOperationLost,
                    phase = "running", Recoverable, NEW o \in visible \ Late, Intervals!Passed(o)
             PROVE  Followed(o)
  BY DEF EveryOperationFollowed
<1>1. Intervals!Accounted(o)
  BY DEF Recoverable, Intervals!NoOperationLost, Intervals!Lossless
<1>2. CASE o \in Known
  <2>1. \/ table[o].status \in {"absent", "completed"}
        \/ table[o].status = "pending" /\ table[o].op_type = "UNKNOWN"
        \/ Operations!Attended(o)
    BY <1>2 DEF Recoverable, Operations!NoOblivion, Known
  <2> QED  BY <1>2, <2>1 DEF Followed, Known
<1>3. ASSUME NEW i \in DOMAIN rows, Intervals!Owes(rows[i], o) PROVE Followed(o)
  <2>1. \/ rows[i].status = "pending" /\ Intervals!Straddles(rows[i])
        \/ Intervals!Attended(i)
    BY <1>3 DEF Recoverable, Intervals!NoOblivion, Intervals!Owes
  <2> QED  BY <1>3, <2>1 DEF Followed
<1> QED  BY <1>1, <1>2, <1>3 DEF Intervals!Accounted, Known

(* End to end, for every schedule of the two sides, every pool and every    *)
(* recoverable fault: an operation shown in time is never lost between the  *)
(* remote service and its settled row.                                      *)
THEOREM NothingForgotten == Spec => []EveryOperationFollowed
<1>1. Operations!Spec => []Operations!NoOblivion
  BY Constants, Operations!NoRowForgotten
<1>2. Intervals!Spec => []Intervals!NoOblivion /\ []Intervals!NoOperationLost
  BY Constants, Intervals!NoRowForgotten, Intervals!NothingLost
<1> QED  BY <1>1, <1>2, SidesMeet, ImplementsOperations, ImplementsIntervals, PTL
=============================================================================
