------------------------ MODULE TacOperationsProofs ------------------------
(* Proofs about TacOperations, for every value of its constants. *)
EXTENDS TacOperations, SequenceTheorems, TLAPS

-----------------------------------------------------------------------------
(* Types *)

(* A fault leaves a well-typed log. *)
LEMMA FaultType ==
    ASSUME faults \in FaultLog, NEW kind, Fault(kind)
    PROVE  faults' \in FaultLog
<1>1. kind \in AllFaults
  BY ConstantsAssumption DEF Fault
<1>2. faults.count + 1 \in 0..MaxFaults
  BY ConstantsAssumption, SMT DEF Fault, FaultLog
<1> QED  BY <1>1, <1>2 DEF Fault, FaultLog

(* Any index into a lifecycle gives an operation type. *)
LEMMA LifeType ==
    ASSUME NEW o \in Ops, NEW v \in 1..Len(Life[o])
    PROVE  Life[o][v] \in OperationType
<1>1. Life[o] \in Seq(OperationType)
  BY ConstantsAssumption
<1> QED  BY <1>1, ElementOfSeq

(* The initial state is well typed. *)
LEMMA TypeInit == Init => TypeOK
<1>1. NoRow \in Row
  BY DEF NoRow, Row, Status
<1>2. Init => table \in [Ops -> Row]
  BY <1>1 DEF Init
<1>3. Init => remote \in [Ops -> Nat] /\ faults \in FaultLog
  BY ConstantsAssumption DEF Init, FaultLog
<1> QED  BY <1>2, <1>3 DEF Init, TypeOK

(* Every step keeps the types, given that the versions are ordered. *)
LEMMA TypeNext ==
    ASSUME TypeOK, VersionsOrdered, [Next]_vars
    PROVE  TypeOK'
<1> USE DEF TypeOK
<1>1. ASSUME NEW o \in Ops, RemoteAdvance(o) PROVE TypeOK'
  BY <1>1 DEF RemoteAdvance
<1>2. ASSUME NEW o \in Ops, GrowOld(o) PROVE TypeOK'
  BY <1>2 DEF GrowOld
<1>3. ASSUME NEW S \in SUBSET Ops, InsertOperations(S) PROVE TypeOK'
  <2>1. \A o \in Ops : InsertedRow(table[o]) \in Row
    BY DEF InsertedRow, NoRow, Row, Status
  <2> QED  BY <1>3, <2>1 DEF InsertOperations
<1>4. ASSUME NEW o \in Ops, RetryDue(o) PROVE TypeOK'
  BY <1>4 DEF RetryDue, Row
<1>5. CASE Start \/ StartFails
  <2>1. \A o \in Ops : ResetRow(table[o]) \in Row
    BY DEF ResetRow, Row, Status
  <2> QED  BY <1>5, <2>1, FaultType DEF Start, StartFails, Reset
<1>6. CASE Crash
  BY <1>6, FaultType DEF Crash
<1>7. ASSUME NEW s \in Streams, Claim(s) PROVE TypeOK'
  <2>1. PICK batch \in SUBSET {o \in Ops : Eligible(s, table[o])} :
          /\ table' = [o \in Ops |->
                        IF o \in batch THEN [table[o] EXCEPT !.status = "processing"]
                                       ELSE table[o]]
          /\ jobs' = jobs \cup
              {[id |-> o, src |-> s, pc |-> "buffered", ver |-> 0,
                new_status |-> "pending"] : o \in batch}
    BY <1>7 DEF Claim
  <2>2. table' \in [Ops -> Row]
    BY <2>1 DEF Row, Status
  <2>3. jobs' \subseteq Job
    BY <2>1 DEF Job
  <2> QED  BY <1>7, <2>2, <2>3 DEF Claim
<1>8. ASSUME NEW j \in jobs, FetchStages(j) PROVE TypeOK'
  <2>1. NewStatus(j.id, Life[j.id][remote[j.id]]) \in {"pending", "completed"}
    BY DEF NewStatus
  <2>2. j \in Job /\ remote[j.id] \in Nat
    BY DEF Job
  <2>3. [j EXCEPT !.pc = "fetched", !.ver = remote[j.id],
                  !.new_status = NewStatus(j.id, Life[j.id][remote[j.id]])] \in Job
    BY <2>1, <2>2 DEF Job
  <2> QED  BY <1>8, <2>3 DEF FetchStages
<1>9. ASSUME NEW j \in jobs, SetOperationData(j) PROVE TypeOK'
  <2>1. j \in Job /\ j.id \in Ops /\ j.ver \in Nat /\ j.new_status \in Status
    BY DEF Job, Status
  <2>2. Life[j.id][j.ver] \in OperationType
    <3>1. j.ver \in 1..remote[j.id] /\ remote[j.id] \in 1..Len(Life[j.id])
      BY <1>9, <2>1 DEF SetOperationData, VersionsOrdered
    <3>2. Life[j.id] \in Seq(OperationType)
      BY <2>1, ConstantsAssumption
    <3>3. Len(Life[j.id]) \in Nat
      BY <3>2
    <3>4. j.ver \in 1..Len(Life[j.id])
      BY <3>1, <3>3
    <3> QED  BY <2>1, <3>4, LifeType
  <2>3. StoredRow(table[j.id], Life[j.id][j.ver], j.ver, j.new_status) \in Row
    BY <2>1, <2>2 DEF StoredRow, Row
  <2> QED  BY <1>9, <2>1, <2>3 DEF SetOperationData
<1>10. ASSUME NEW j \in jobs, DropOperation(j) PROVE TypeOK'
  BY <1>10, FaultType DEF DropOperation
<1>11. ASSUME NEW j \in jobs, FailOperation(j) PROVE TypeOK'
  <2>1. faults' \in FaultLog
    BY <1>11, FaultType DEF FailOperation
  <2>2. table' \in [Ops -> Row]
    BY <1>11 DEF FailOperation, Row, Status
  <2> QED  BY <1>11, <2>1, <2>2 DEF FailOperation
<1>12. CASE UNCHANGED vars
  BY <1>12 DEF vars
<1> QED
  BY <1>1, <1>2, <1>3, <1>4, <1>5, <1>6, <1>7, <1>8, <1>9, <1>10, <1>11, <1>12
  DEF Next, JobStep

-----------------------------------------------------------------------------
(* Ownership and versions *)

(* Nothing is claimed or fetched before the first start. *)
LEMMA OwnerInit == Init => SingleOwner /\ VersionsOrdered
<1> SUFFICES ASSUME Init PROVE SingleOwner /\ VersionsOrdered
  OBVIOUS
<1>1. SingleOwner
  BY DEF Init, SingleOwner
<1>2. \A o \in Ops : 1 \in 1..Len(Life[o])
  <2> SUFFICES ASSUME NEW o \in Ops PROVE 1 \in 1..Len(Life[o])
    OBVIOUS
  <2>1. Life[o] \in Seq(OperationType) /\ Life[o] # <<>>
    BY ConstantsAssumption
  <2>2. Len(Life[o]) \in Nat /\ Len(Life[o]) # 0
    BY <2>1, EmptySeq
  <2> QED  BY <2>2
<1>3. \A o \in Ops : remote[o] = 1 /\ table[o] = NoRow
  BY DEF Init
<1> QED  BY <1>1, <1>2, <1>3 DEF Init, VersionsOrdered, NoRow

(* No stream, job, insert or restart hands a row out while a job holds it.  *)
LEMMA OwnerNext ==
    ASSUME TypeOK, SingleOwner, VersionsOrdered, [Next]_vars
    PROVE  SingleOwner'
<1>0. \A j \in jobs : j.id \in Ops
  BY DEF TypeOK, Job
<1>1. ASSUME NEW o \in Ops, RemoteAdvance(o) \/ GrowOld(o) PROVE SingleOwner'
  BY <1>1 DEF RemoteAdvance, GrowOld, SingleOwner
<1>2. ASSUME NEW S \in SUBSET Ops, InsertOperations(S) PROVE SingleOwner'
  BY <1>0, <1>2 DEF InsertOperations, InsertedRow, SingleOwner, TypeOK
<1>3. ASSUME NEW o \in Ops, RetryDue(o) PROVE SingleOwner'
  BY <1>0, <1>3 DEF RetryDue, SingleOwner, TypeOK, Row
<1>4. CASE Start \/ StartFails
  BY <1>4 DEF Start, StartFails, VersionsOrdered, SingleOwner
<1>5. CASE Crash
  BY <1>5 DEF Crash, SingleOwner
<1>6. ASSUME NEW s \in Streams, Claim(s) PROVE SingleOwner'
  <2>1. PICK batch \in SUBSET {o \in Ops : Eligible(s, table[o])} :
          /\ table' = [o \in Ops |->
                        IF o \in batch THEN [table[o] EXCEPT !.status = "processing"]
                                       ELSE table[o]]
          /\ jobs' = jobs \cup
              {[id |-> o, src |-> s, pc |-> "buffered", ver |-> 0,
                new_status |-> "pending"] : o \in batch}
    BY <1>6 DEF Claim
  <2>2. \A o \in batch : table[o].status # "processing"
    BY DEF Eligible, Streams
  <2>3. \A j \in jobs : j.id \notin batch /\ table'[j.id] = table[j.id]
    BY <1>0, <2>1, <2>2 DEF SingleOwner
  <2>4. \A o \in batch : table'[o].status = "processing"
    BY <2>1 DEF TypeOK, Row
  <2>5. ASSUME NEW j \in jobs'
        PROVE  /\ table'[j.id].status = "processing"
               /\ \A k \in jobs' : k.id = j.id => k = j
    <3>1. CASE j \in jobs
      <4>1. table'[j.id].status = "processing"
        BY <2>3, <3>1 DEF SingleOwner
      <4>2. ASSUME NEW k \in jobs', k.id = j.id PROVE k = j
        <5>1. k \in jobs
          BY <2>1, <2>3, <3>1, <4>2
        <5> QED  BY <3>1, <4>2, <5>1 DEF SingleOwner
      <4> QED  BY <4>1, <4>2
    <3>2. CASE j \notin jobs
      <4>1. PICK o \in batch :
              j = [id |-> o, src |-> s, pc |-> "buffered", ver |-> 0,
                   new_status |-> "pending"]
        BY <2>1, <3>2
      <4>2. j.id = o
        BY <4>1
      <4>3. ASSUME NEW k \in jobs', k.id = j.id PROVE k = j
        <5>1. k \notin jobs
          BY <2>3, <4>2, <4>3
        <5>2. PICK p \in batch :
                k = [id |-> p, src |-> s, pc |-> "buffered", ver |-> 0,
                     new_status |-> "pending"]
          BY <2>1, <5>1
        <5> QED  BY <4>1, <4>2, <4>3, <5>2
      <4> QED  BY <2>4, <4>2, <4>3
    <3> QED  BY <3>1, <3>2
  <2> QED  BY <2>5 DEF SingleOwner
<1>7. ASSUME NEW j \in jobs, FetchStages(j) PROVE SingleOwner'
  <2> DEFINE new == [j EXCEPT !.pc = "fetched", !.ver = remote[j.id],
                      !.new_status = NewStatus(j.id, Life[j.id][remote[j.id]])]
  <2>1. j \in Job
    BY DEF TypeOK
  <2>2. new.id = j.id
    BY <2>1 DEF Job
  <2>3. jobs' = (jobs \ {j}) \cup {new} /\ UNCHANGED table
    BY <1>7 DEF FetchStages
  <2> HIDE DEF new
  <2> QED  BY <2>2, <2>3 DEF SingleOwner
<1>8. ASSUME NEW j \in jobs, SetOperationData(j) \/ DropOperation(j) \/ FailOperation(j)
      PROVE  SingleOwner'
  <2>1. jobs' = jobs \ {j}
    BY <1>8 DEF SetOperationData, DropOperation, FailOperation
  <2>2. \A o \in Ops : o # j.id => table'[o] = table[o]
    BY <1>8 DEF SetOperationData, DropOperation, FailOperation, TypeOK
  <2> QED  BY <1>0, <2>1, <2>2 DEF SingleOwner
<1>9. CASE UNCHANGED vars
  BY <1>9 DEF vars, SingleOwner
<1> QED
  BY <1>1, <1>2, <1>3, <1>4, <1>5, <1>6, <1>7, <1>8, <1>9 DEF Next, JobStep

(* The versions stay ordered: a job stores what it fetched before any other *)
(* job can fetch for the same row.                                          *)
LEMMA VersionsNext ==
    ASSUME TypeOK, SingleOwner, VersionsOrdered, [Next]_vars
    PROVE  VersionsOrdered'
<1>0. /\ \A j \in jobs : j \in Job /\ j.id \in Ops
      /\ \A o \in Ops : table[o] \in Row /\ remote[o] \in Nat
      /\ \A o \in Ops : Len(Life[o]) \in Nat
  BY ConstantsAssumption DEF TypeOK, Job
<1>1. ASSUME NEW o \in Ops, RemoteAdvance(o) PROVE VersionsOrdered'
  <2>1. \A p \in Ops : remote'[p] \in Nat /\ remote[p] <= remote'[p] /\ remote'[p] <= Len(Life[p])
    BY <1>0, <1>1 DEF RemoteAdvance, VersionsOrdered, TypeOK
  <2>2. UNCHANGED <<old, table, running, jobs>>
    BY <1>1 DEF RemoteAdvance
  <2>3. \A p \in Ops : remote'[p] \in 1..Len(Life[p]) /\ table[p].stages <= remote'[p]
    BY <1>0, <2>1 DEF VersionsOrdered, Row
  <2>4. \A j \in jobs : j.pc = "fetched" => j.ver \in 1..remote'[j.id]
    BY <1>0, <2>1 DEF VersionsOrdered
  <2> QED  BY <2>2, <2>3, <2>4 DEF VersionsOrdered
<1>2. ASSUME NEW o \in Ops, GrowOld(o) PROVE VersionsOrdered'
  BY <1>0, <1>2 DEF GrowOld, VersionsOrdered
<1>3. ASSUME NEW S \in SUBSET Ops, InsertOperations(S) PROVE VersionsOrdered'
  <2>1. \A p \in Ops : table'[p].stages = table[p].stages /\ (table'[p].status = "absent" => table'[p] = NoRow)
    BY <1>0, <1>3 DEF InsertOperations, InsertedRow, NoRow, VersionsOrdered, TypeOK
  <2> QED  BY <1>0, <1>3, <2>1 DEF InsertOperations, VersionsOrdered
<1>4. ASSUME NEW o \in Ops, RetryDue(o) PROVE VersionsOrdered'
  <2>1. table[o] # NoRow
    BY <1>4 DEF RetryDue, NoRow
  <2>2. \A p \in Ops : table'[p].stages = table[p].stages /\ (table'[p].status = "absent" => table'[p] = NoRow)
    BY <1>0, <1>4, <2>1 DEF RetryDue, VersionsOrdered, TypeOK, Row
  <2> QED  BY <1>0, <1>4, <2>2 DEF RetryDue, VersionsOrdered
<1>5. CASE Start \/ StartFails
  <2>1. \A p \in Ops : table'[p].stages = table[p].stages /\ (table'[p].status = "absent" => table'[p] = NoRow)
    BY <1>0, <1>5 DEF Start, StartFails, Reset, ResetRow, VersionsOrdered, Row
  <2> QED  BY <1>0, <1>5, <2>1 DEF Start, StartFails, VersionsOrdered
<1>6. CASE Crash
  BY <1>0, <1>6 DEF Crash, VersionsOrdered
<1>7. ASSUME NEW s \in Streams, Claim(s) PROVE VersionsOrdered'
  <2>1. PICK batch \in SUBSET {o \in Ops : Eligible(s, table[o])} :
          /\ table' = [o \in Ops |->
                        IF o \in batch THEN [table[o] EXCEPT !.status = "processing"]
                                       ELSE table[o]]
          /\ jobs' = jobs \cup
              {[id |-> o, src |-> s, pc |-> "buffered", ver |-> 0,
                new_status |-> "pending"] : o \in batch}
    BY <1>7 DEF Claim
  <2>2. \A p \in Ops : table'[p].stages = table[p].stages /\ (table'[p].status = "absent" => table'[p] = NoRow)
    BY <1>0, <2>1 DEF VersionsOrdered, Row
  <2>3. \A j \in jobs' : j.pc = "fetched" => j \in jobs
    BY <2>1
  <2>4. running /\ UNCHANGED <<remote, old, running>>
    BY <1>7 DEF Claim
  <2> QED  BY <1>0, <2>2, <2>3, <2>4 DEF VersionsOrdered
<1>8. ASSUME NEW j \in jobs, FetchStages(j) PROVE VersionsOrdered'
  <2> DEFINE new == [j EXCEPT !.pc = "fetched", !.ver = remote[j.id],
                      !.new_status = NewStatus(j.id, Life[j.id][remote[j.id]])]
  <2>1. /\ new.id = j.id /\ new.ver = remote[j.id]
        /\ new.new_status = NewStatus(j.id, Life[j.id][remote[j.id]])
    BY <1>0 DEF Job
  <2>2. jobs' = (jobs \ {j}) \cup {new} /\ UNCHANGED <<remote, old, table, running>>
    BY <1>8 DEF FetchStages
  <2> HIDE DEF new
  <2>3. new.new_status = "completed" =>
          \/ is_finalized(Life[new.id][new.ver])
          \/ Life[new.id][new.ver] = "PENDING" /\ new.id \in old
    BY <2>1 DEF NewStatus
  <2>4. new.ver \in 1..remote[new.id] /\ table[new.id].stages <= new.ver
    BY <1>0, <2>1 DEF VersionsOrdered
  <2> QED  BY <2>2, <2>3, <2>4 DEF VersionsOrdered
<1>9. ASSUME NEW j \in jobs, SetOperationData(j) PROVE VersionsOrdered'
  <2>1. jobs' = jobs \ {j} /\ UNCHANGED <<remote, old, running>>
    BY <1>9 DEF SetOperationData
  <2>2. \A p \in Ops : p # j.id => table'[p] = table[p]
    BY <1>9 DEF SetOperationData, TypeOK
  <2>3. table'[j.id].stages = j.ver /\ table'[j.id].status # "absent"
    BY <1>0, <1>9 DEF SetOperationData, StoredRow, TypeOK, Row, Job
  <2>4. j.ver <= remote[j.id]
    BY <1>0, <1>9 DEF SetOperationData, VersionsOrdered
  <2>5. \A k \in jobs' : k \in jobs /\ k.id # j.id
    BY <2>1 DEF SingleOwner
  <2> QED  BY <1>0, <2>1, <2>2, <2>3, <2>4, <2>5 DEF VersionsOrdered
<1>10. ASSUME NEW j \in jobs, DropOperation(j) \/ FailOperation(j) PROVE VersionsOrdered'
  <2>1. jobs' = jobs \ {j} /\ UNCHANGED <<remote, old, running>>
    BY <1>10 DEF DropOperation, FailOperation
  <2>2. \A p \in Ops : table'[p].stages = table[p].stages /\ (table'[p].status = "absent" => table'[p] = NoRow)
    <3>1. CASE UNCHANGED table
      BY <3>1 DEF VersionsOrdered
    <3>2. CASE table' = [table EXCEPT ![j.id].status = "failed",
                                      ![j.id].next_retry = "future"]
      <4>1. \A p \in Ops : p # j.id => table'[p] = table[p]
        BY <1>0, <3>2 DEF TypeOK
      <4>2. table'[j.id].stages = table[j.id].stages /\ table'[j.id].status = "failed"
        BY <1>0, <3>2 DEF TypeOK, Row
      <4> QED  BY <4>1, <4>2 DEF VersionsOrdered
    <3> QED  BY <1>10, <3>1, <3>2 DEF DropOperation, FailOperation
  <2> QED  BY <1>0, <2>1, <2>2 DEF VersionsOrdered
<1>11. CASE UNCHANGED vars
  BY <1>11 DEF vars, VersionsOrdered
<1> QED
  BY <1>1, <1>2, <1>3, <1>4, <1>5, <1>6, <1>7, <1>8, <1>9, <1>10, <1>11 DEF Next, JobStep

-----------------------------------------------------------------------------
(* What the rows say *)

(* What happens to the shown part of a row in one step: nothing, or a job   *)
(* that held the row stored its answer.                                     *)
LEMMA RowStep ==
    ASSUME TypeOK, SingleOwner, VersionsOrdered, [Next]_vars, NEW o \in Ops
    PROVE  \/ /\ table'[o].op_type = table[o].op_type
              /\ table'[o].stages = table[o].stages
              /\ table'[o].status = "completed" <=> table[o].status = "completed"
           \/ \E j \in jobs :
                /\ j.id = o /\ j.pc = "fetched"
                /\ SetOperationData(j)
                /\ table[o].status = "processing"
                /\ table'[o] = StoredRow(table[o], Life[o][j.ver], j.ver, j.new_status)
<1> DEFINE Same(p) == /\ table'[p].op_type = table[p].op_type
                      /\ table'[p].stages = table[p].stages
                      /\ table'[p].status = "completed" <=> table[p].status = "completed"
<1>0. /\ \A j \in jobs : j \in Job /\ j.id \in Ops /\ table[j.id].status = "processing"
      /\ \A p \in Ops : table[p] \in Row
  BY DEF TypeOK, Job, SingleOwner
<1>1. CASE UNCHANGED table
  BY <1>1
<1>2. ASSUME NEW S \in SUBSET Ops, InsertOperations(S) PROVE Same(o)
  BY <1>0, <1>2 DEF InsertOperations, InsertedRow, VersionsOrdered, TypeOK, NoRow
<1>3. ASSUME NEW p \in Ops, RetryDue(p) PROVE Same(o)
  BY <1>0, <1>3 DEF RetryDue, TypeOK, Row
<1>4. CASE Start \/ StartFails
  BY <1>0, <1>4 DEF Start, StartFails, Reset, ResetRow, Row
<1>5. ASSUME NEW s \in Streams, Claim(s) PROVE Same(o)
  <2>1. PICK batch \in SUBSET {p \in Ops : Eligible(s, table[p])} :
          table' = [p \in Ops |->
                        IF p \in batch THEN [table[p] EXCEPT !.status = "processing"]
                                       ELSE table[p]]
    BY <1>5 DEF Claim
  <2>2. \A p \in batch : table[p].status # "completed"
    BY DEF Eligible, Streams
  <2> QED  BY <1>0, <2>1, <2>2 DEF Row
<1>6. ASSUME NEW j \in jobs, FailOperation(j) PROVE Same(o)
  <2>1. CASE UNCHANGED table
    BY <2>1
  <2>2. CASE table' = [table EXCEPT ![j.id].status = "failed",
                                    ![j.id].next_retry = "future"]
    BY <1>0, <2>2 DEF TypeOK, Row
  <2> QED  BY <1>6, <2>1, <2>2 DEF FailOperation
<1>7. ASSUME NEW j \in jobs, SetOperationData(j), j.id # o PROVE Same(o)
  BY <1>0, <1>7 DEF SetOperationData, TypeOK
<1>8. ASSUME NEW j \in jobs, SetOperationData(j), j.id = o
      PROVE  /\ j.id = o /\ j.pc = "fetched"
             /\ SetOperationData(j)
             /\ table[o].status = "processing"
             /\ table'[o] = StoredRow(table[o], Life[o][j.ver], j.ver, j.new_status)
  BY <1>0, <1>8 DEF SetOperationData, TypeOK
<1>9. ASSUME NEW p \in Ops, RemoteAdvance(p) \/ GrowOld(p) PROVE UNCHANGED table
  BY <1>9 DEF RemoteAdvance, GrowOld
<1>10. Crash => UNCHANGED table
  BY DEF Crash
<1>11. \A j \in jobs : FetchStages(j) \/ DropOperation(j) => UNCHANGED table
  BY DEF FetchStages, DropOperation
<1>12. UNCHANGED vars => UNCHANGED table
  BY DEF vars
<1> QED
  BY <1>1, <1>2, <1>3, <1>4, <1>5, <1>6, <1>7, <1>8, <1>9, <1>10, <1>11, <1>12
  DEF Next, JobStep

(* The rows of a fresh table are not completed. *)
LEMMA ShownInit == Init => CompletedIsSettled
<1>1. Init => \A o \in Ops : table[o] = NoRow
  BY DEF Init
<1> QED  BY <1>1 DEF NoRow, CompletedIsSettled

(* A row is completed only for a final type or as forever pending. *)
LEMMA ShownNext ==
    ASSUME TypeOK, SingleOwner, VersionsOrdered, CompletedIsSettled, [Next]_vars
    PROVE  CompletedIsSettled'
<1>0. old \subseteq old'
  BY DEF Next, JobStep, vars, RemoteAdvance, GrowOld, InsertOperations, RetryDue, Start,
         StartFails, Crash, Claim, FetchStages, SetOperationData, DropOperation, FailOperation
<1> SUFFICES ASSUME NEW o \in Ops
             PROVE  table'[o].status = "completed" =>
                      /\ table'[o].stages > 0
                      /\ LET type == Life[o][table'[o].stages]
                         IN  \/ type \notin {"PENDING", "UNKNOWN"}
                             \/ type = "PENDING" /\ o \in old'
  BY DEF CompletedIsSettled
<1>1. CASE /\ table'[o].op_type = table[o].op_type
           /\ table'[o].stages = table[o].stages
           /\ table'[o].status = "completed" <=> table[o].status = "completed"
  BY <1>0, <1>1 DEF CompletedIsSettled
<1>2. ASSUME NEW j \in jobs, j.id = o, j.pc = "fetched",
             table'[o] = StoredRow(table[o], Life[o][j.ver], j.ver, j.new_status)
      PROVE  table'[o].status = "completed" =>
               /\ table'[o].stages > 0
               /\ LET type == Life[o][table'[o].stages]
                  IN  \/ type \notin {"PENDING", "UNKNOWN"}
                      \/ type = "PENDING" /\ o \in old'
  <2>1. j \in Job /\ table[o] \in Row /\ remote[o] \in Nat
    BY DEF TypeOK
  <2>2. table'[o].stages = j.ver /\ table'[o].status = j.new_status
    BY <1>2, <2>1 DEF StoredRow, Row
  <2>3. j.ver > 0
    BY <1>2, <2>1 DEF VersionsOrdered
  <2>4. j.new_status = "completed" =>
              \/ is_finalized(Life[o][j.ver])
              \/ Life[o][j.ver] = "PENDING" /\ o \in old
    BY <1>2 DEF VersionsOrdered
  <2> QED  BY <1>0, <2>2, <2>3, <2>4 DEF is_finalized
<1> QED  BY <1>1, <1>2, RowStep

(* The inductive invariant of the operation rows. *)
IndInv == TypeOK /\ SingleOwner /\ VersionsOrdered /\ CompletedIsSettled

(* Every reachable state satisfies the inductive invariant. *)
THEOREM Invariance == Spec => []IndInv
<1>1. Init => IndInv
  BY TypeInit, OwnerInit, ShownInit DEF IndInv
<1>2. IndInv /\ [Next]_vars => IndInv'
  BY TypeNext, OwnerNext, VersionsNext, ShownNext DEF IndInv
<1> QED  BY <1>1, <1>2, PTL DEF Spec

(* Type correctness of the operation table, the streams and the jobs. *)
THEOREM TypeCorrect == Spec => []TypeOK
BY Invariance, PTL DEF IndInv

(* An operation is processed by one job at a time: query_new_operations,    *)
(* query_pending_operations, query_failed_operations and the reset of       *)
(* start() never hand a row out twice.                                      *)
THEOREM OperationsHaveOneOwner == Spec => []SingleOwner
BY Invariance, PTL DEF IndInv

(* Between the request of process_operation_with_retries and                *)
(* set_operation_data nobody else stores later stages or completes the row: *)
(* a job holds its row alone, so its answer overwrites nothing newer.       *)
THEOREM AnswersNotStale == Spec => []NoStaleAnswer
<1>1. IndInv => NoStaleAnswer
  <2> SUFFICES ASSUME IndInv, NEW j \in jobs, j.pc = "fetched"
               PROVE  table[j.id].stages <= j.ver /\ table[j.id].status # "completed"
    BY DEF NoStaleAnswer
  <2>1. table[j.id].stages <= j.ver
    BY DEF IndInv, VersionsOrdered
  <2>2. table[j.id].status = "processing"
    BY DEF IndInv, SingleOwner
  <2> QED  BY <2>1, <2>2
<1> QED  BY <1>1, Invariance, PTL

(* process_operation_with_retries completes a row only for a final type or  *)
(* as forever pending.                                                      *)
THEOREM CompletedHasReason == Spec => []CompletedIsSettled
BY Invariance, PTL DEF IndInv

-----------------------------------------------------------------------------
(* No row in oblivion *)

(* A row is processing only if a job holds it. *)
RowHeld(o) == table[o].status = "processing" => \E j \in jobs : j.id = o

RowsHeld == running /\ ~Dropped => \A o \in Ops : RowHeld(o)

(* A failed row has a retry time, and what is not completed has a type that *)
(* one of the streams looks for, or UNKNOWN.                                *)
Queued ==
    /\ \A o \in Ops :
         /\ table[o].status = "failed" => table[o].next_retry \in {"future", "past"}
         /\ table[o].status # "completed" => table[o].op_type \in {"NULL", "PENDING", "UNKNOWN"}
    /\ \A j \in jobs :
         j.pc = "fetched" /\ j.new_status = "pending" => ~is_finalized(Life[j.id][j.ver])

(* An error path that only logs is never forgotten. *)
LEMMA DroppedStays ==
    ASSUME [Next]_vars, Dropped
    PROVE  Dropped'
<1>1. faults' = faults \/ \E kind : Fault(kind)
  BY DEF Next, JobStep, vars, RemoteAdvance, GrowOld, InsertOperations, RetryDue, Start,
         StartFails, Crash, Claim, FetchStages, SetOperationData, DropOperation, FailOperation
<1>2. faults.kinds \subseteq faults'.kinds
  BY <1>1 DEF Fault
<1> QED  BY <1>2 DEF Dropped

(* A fault of one of the error paths that only log. *)
LEMMA DropsRow ==
    ASSUME NEW kind \in {"retry", "absent", "store"}, Fault(kind)
    PROVE  Dropped'
BY DEF Fault, Dropped

(* Whoever takes a job away from a row takes the status away as well,       *)
(* unless it drops the job.                                                 *)
LEMMA HeldNext ==
    ASSUME TypeOK, SingleOwner, RowsHeld, [Next]_vars
    PROVE  RowsHeld'
<1> SUFFICES ASSUME running', ~Dropped', NEW o \in Ops PROVE RowHeld(o)'
  BY DEF RowsHeld
<1>0. /\ ~Dropped
      /\ running => RowHeld(o)
      /\ table[o] \in Row
      /\ \A j \in jobs : j \in Job /\ j.id \in Ops
  BY DroppedStays DEF RowsHeld, TypeOK, Job
<1>1. ASSUME running, UNCHANGED <<table, jobs>> PROVE RowHeld(o)'
  BY <1>0, <1>1 DEF RowHeld
<1>2. ASSUME NEW p \in Ops, RemoteAdvance(p) \/ GrowOld(p) PROVE RowHeld(o)'
  BY <1>1, <1>2 DEF RemoteAdvance, GrowOld
<1>3. ASSUME NEW S \in SUBSET Ops, InsertOperations(S) PROVE RowHeld(o)'
  <2>1. table'[o].status = "processing" => table[o].status = "processing"
    BY <1>0, <1>3 DEF InsertOperations, InsertedRow, NoRow, TypeOK
  <2> QED  BY <1>0, <1>3, <2>1 DEF InsertOperations, RowHeld
<1>4. ASSUME NEW p \in Ops, RetryDue(p) PROVE RowHeld(o)'
  <2>1. table'[o].status = table[o].status
    BY <1>0, <1>4 DEF RetryDue, TypeOK, Row
  <2> QED  BY <1>0, <1>4, <2>1 DEF RetryDue, RowHeld
<1>5. CASE Start \/ StartFails
  <2>1. table'[o].status # "processing"
    BY <1>0, <1>5 DEF Start, StartFails, Reset, ResetRow, Row
  <2> QED  BY <2>1 DEF RowHeld
<1>6. CASE Crash
  BY <1>6 DEF Crash
<1>7. ASSUME NEW s \in Streams, Claim(s) PROVE RowHeld(o)'
  <2>1. PICK batch \in SUBSET {p \in Ops : Eligible(s, table[p])} :
          /\ table' = [p \in Ops |->
                        IF p \in batch THEN [table[p] EXCEPT !.status = "processing"]
                                       ELSE table[p]]
          /\ jobs' = jobs \cup
              {[id |-> p, src |-> s, pc |-> "buffered", ver |-> 0,
                new_status |-> "pending"] : p \in batch}
    BY <1>7 DEF Claim
  <2>2. CASE o \in batch
    <3>1. [id |-> o, src |-> s, pc |-> "buffered", ver |-> 0, new_status |-> "pending"] \in jobs'
      BY <2>1, <2>2
    <3> QED  BY <3>1 DEF RowHeld
  <2>3. CASE o \notin batch
    <3>1. table'[o] = table[o] /\ jobs \subseteq jobs'
      BY <2>1, <2>3
    <3> QED  BY <1>0, <1>7, <3>1 DEF Claim, RowHeld
  <2> QED  BY <2>2, <2>3
<1>8. ASSUME NEW j \in jobs, FetchStages(j) PROVE RowHeld(o)'
  <2> DEFINE new == [j EXCEPT !.pc = "fetched", !.ver = remote[j.id],
                      !.new_status = NewStatus(j.id, Life[j.id][remote[j.id]])]
  <2>1. new.id = j.id
    BY <1>0 DEF Job
  <2>2. jobs' = (jobs \ {j}) \cup {new} /\ UNCHANGED <<table, running>>
    BY <1>8 DEF FetchStages
  <2> HIDE DEF new
  <2> QED  BY <1>0, <2>1, <2>2 DEF RowHeld
<1>9. ASSUME NEW j \in jobs, SetOperationData(j) PROVE RowHeld(o)'
  <2>1. jobs' = jobs \ {j} /\ UNCHANGED running
    BY <1>9 DEF SetOperationData
  <2>2. o # j.id => table'[o] = table[o]
    BY <1>9 DEF SetOperationData, TypeOK
  <2>3. o = j.id => table'[o].status # "processing"
    BY <1>0, <1>9 DEF SetOperationData, StoredRow, TypeOK, Row, Job
  <2> QED  BY <1>0, <2>1, <2>2, <2>3 DEF RowHeld
<1>10. ASSUME NEW j \in jobs, DropOperation(j) PROVE RowHeld(o)'
  BY <1>10, DropsRow DEF DropOperation
<1>11. ASSUME NEW j \in jobs, FailOperation(j) PROVE RowHeld(o)'
  <2>1. table' = [table EXCEPT ![j.id].status = "failed", ![j.id].next_retry = "future"]
    BY <1>11, DropsRow DEF FailOperation
  <2>2. jobs' = jobs \ {j} /\ UNCHANGED running
    BY <1>11 DEF FailOperation
  <2>3. o # j.id => table'[o] = table[o]
    BY <2>1 DEF TypeOK
  <2>4. o = j.id => table'[o].status = "failed"
    BY <1>0, <2>1 DEF TypeOK, Row
  <2> QED  BY <1>0, <2>2, <2>3, <2>4 DEF RowHeld
<1>12. CASE UNCHANGED vars
  BY <1>1, <1>12 DEF vars
<1> QED
  BY <1>2, <1>3, <1>4, <1>5, <1>6, <1>7, <1>8, <1>9, <1>10, <1>11, <1>12 DEF Next, JobStep

(* What the rows wait for, step by step: only a job changes a type, and it  *)
(* completes the row if the type is final.                                  *)
LEMMA QueuedNext ==
    ASSUME TypeOK, SingleOwner, VersionsOrdered, Queued, [Next]_vars
    PROVE  Queued'
<1> DEFINE Good(r) == /\ r.status = "failed" => r.next_retry \in {"future", "past"}
                      /\ r.status # "completed" => r.op_type \in {"NULL", "PENDING", "UNKNOWN"}
           Mild(j) == j.pc = "fetched" /\ j.new_status = "pending" => ~is_finalized(Life[j.id][j.ver])
<1>0. /\ \A o \in Ops : table[o] \in Row /\ Good(table[o])
      /\ \A j \in jobs : j \in Job /\ j.id \in Ops /\ Mild(j)
  BY DEF TypeOK, Job, Queued
<1> SUFFICES (\A o \in Ops : Good(table'[o])) /\ (\A j \in jobs' : Mild(j))
  BY DEF Queued
<1>1. CASE UNCHANGED <<table, jobs>>
  BY <1>0, <1>1
<1>2. ASSUME \/ \E S \in SUBSET Ops : InsertOperations(S)
             \/ \E p \in Ops : RetryDue(p)
      PROVE  (\A o \in Ops : Good(table'[o])) /\ (\A j \in jobs' : Mild(j))
  <2>1. ASSUME NEW o \in Ops PROVE Good(table'[o])
    <3>1. ASSUME NEW S \in SUBSET Ops, InsertOperations(S) PROVE Good(table'[o])
      BY <1>0, <3>1 DEF InsertOperations, InsertedRow, NoRow, TypeOK
    <3>2. ASSUME NEW p \in Ops, RetryDue(p) PROVE Good(table'[o])
      BY <1>0, <3>2 DEF RetryDue, TypeOK, Row
    <3> QED  BY <1>2, <3>1, <3>2
  <2>2. jobs' = jobs
    BY <1>2 DEF InsertOperations, RetryDue
  <2> QED  BY <1>0, <2>1, <2>2
<1>3. CASE Start \/ StartFails
  <2>1. ASSUME NEW o \in Ops PROVE Good(table'[o])
    BY <1>0, <1>3 DEF Start, StartFails, Reset, ResetRow, Row
  <2>2. jobs' = jobs
    BY <1>3 DEF Start, StartFails
  <2> QED  BY <1>0, <2>1, <2>2
<1>4. CASE Crash
  BY <1>0, <1>4 DEF Crash
<1>5. ASSUME NEW s \in Streams, Claim(s)
      PROVE  (\A o \in Ops : Good(table'[o])) /\ (\A j \in jobs' : Mild(j))
  <2>1. PICK batch \in SUBSET {p \in Ops : Eligible(s, table[p])} :
          /\ table' = [p \in Ops |->
                        IF p \in batch THEN [table[p] EXCEPT !.status = "processing"]
                                       ELSE table[p]]
          /\ jobs' = jobs \cup
              {[id |-> p, src |-> s, pc |-> "buffered", ver |-> 0,
                new_status |-> "pending"] : p \in batch}
    BY <1>5 DEF Claim
  <2>2. \A p \in batch : table[p].status # "completed"
    BY DEF Eligible, Streams
  <2>3. ASSUME NEW o \in Ops PROVE Good(table'[o])
    BY <1>0, <2>1, <2>2 DEF Row
  <2>4. ASSUME NEW j \in jobs' PROVE Mild(j)
    BY <1>0, <2>1
  <2> QED  BY <2>3, <2>4
<1>6. ASSUME NEW j \in jobs, FetchStages(j)
      PROVE  (\A o \in Ops : Good(table'[o])) /\ (\A k \in jobs' : Mild(k))
  <2> DEFINE new == [j EXCEPT !.pc = "fetched", !.ver = remote[j.id],
                      !.new_status = NewStatus(j.id, Life[j.id][remote[j.id]])]
  <2>1. /\ new.id = j.id /\ new.ver = remote[j.id]
        /\ new.new_status = NewStatus(j.id, Life[j.id][remote[j.id]])
    BY <1>0 DEF Job
  <2>2. jobs' = (jobs \ {j}) \cup {new} /\ UNCHANGED table
    BY <1>6 DEF FetchStages
  <2> HIDE DEF new
  <2>3. Mild(new)
    BY <2>1 DEF NewStatus
  <2> QED  BY <1>0, <2>2, <2>3
<1>7. ASSUME NEW j \in jobs, SetOperationData(j)
      PROVE  (\A o \in Ops : Good(table'[o])) /\ (\A k \in jobs' : Mild(k))
  <2>1. jobs' = jobs \ {j} /\ j.pc = "fetched"
    BY <1>7 DEF SetOperationData
  <2>2. \A o \in Ops : o # j.id => table'[o] = table[o]
    BY <1>7 DEF SetOperationData, TypeOK
  <2>3. /\ table'[j.id].status = j.new_status
        /\ table'[j.id].op_type = Life[j.id][j.ver]
    BY <1>0, <1>7 DEF SetOperationData, StoredRow, TypeOK, Row
  <2>4. j.new_status \in {"pending", "completed"}
    BY <1>0 DEF Job
  <2>5. j.new_status = "pending" => Life[j.id][j.ver] \in {"PENDING", "UNKNOWN"}
    BY <1>0, <2>1 DEF is_finalized
  <2> QED  BY <1>0, <2>1, <2>2, <2>3, <2>4, <2>5
<1>8. ASSUME NEW j \in jobs, FailOperation(j)
      PROVE  (\A o \in Ops : Good(table'[o])) /\ (\A k \in jobs' : Mild(k))
  <2>1. jobs' = jobs \ {j}
    BY <1>8 DEF FailOperation
  <2>2. CASE UNCHANGED table
    BY <1>0, <2>1, <2>2
  <2>3. CASE table' = [table EXCEPT ![j.id].status = "failed", ![j.id].next_retry = "future"]
    <3>1. \A o \in Ops : o # j.id => table'[o] = table[o]
      BY <2>3 DEF TypeOK
    <3>2. /\ table'[j.id].next_retry = "future" /\ table'[j.id].op_type = table[j.id].op_type
          /\ table[j.id].status = "processing"
      BY <1>0, <2>3 DEF TypeOK, Row, SingleOwner
    <3> QED  BY <1>0, <2>1, <3>1, <3>2
  <2> QED  BY <1>8, <2>2, <2>3 DEF FailOperation
<1>9. ASSUME NEW j \in jobs, DropOperation(j)
      PROVE  (\A o \in Ops : Good(table'[o])) /\ (\A k \in jobs' : Mild(k))
  BY <1>0, <1>9 DEF DropOperation
<1>10. \A p \in Ops : RemoteAdvance(p) \/ GrowOld(p) => UNCHANGED <<table, jobs>>
  BY DEF RemoteAdvance, GrowOld
<1>11. UNCHANGED vars => UNCHANGED <<table, jobs>>
  BY DEF vars
<1> HIDE DEF Good, Mild
<1> QED
  BY <1>1, <1>2, <1>3, <1>4, <1>5, <1>6, <1>7, <1>8, <1>9, <1>10, <1>11 DEF Next, JobStep

(* The WHERE clauses leave nothing out: whatever is not held is selected.   *)
LEMMA NobodyBetween ==
    ASSUME TypeOK, RowsHeld, Queued
    PROVE  NoOblivion
<1> SUFFICES ASSUME running, ~Dropped, NEW o \in Ops,
                    table[o].status \notin {"absent", "completed"},
                    ~(table[o].status = "pending" /\ table[o].op_type = "UNKNOWN")
             PROVE  Attended(o)
  BY DEF NoOblivion
<1>1. table[o].status \in {"pending", "processing", "failed"}
  BY DEF TypeOK, Row, Status
<1>2. CASE table[o].status = "processing"
  BY <1>2 DEF RowsHeld, RowHeld, Attended
<1>3. CASE table[o].status = "failed"
  <2>1. table[o].next_retry = "past" => Eligible("retry", table[o])
    BY <1>3 DEF Eligible
  <2>2. table[o].next_retry \in {"future", "past"}
    BY <1>3 DEF Queued
  <2> QED  BY <1>3, <2>1, <2>2 DEF Attended, Streams
<1>4. CASE table[o].status = "pending"
  <2>1. table[o].op_type \in {"NULL", "PENDING"}
    BY <1>4 DEF Queued
  <2>2. Eligible("new", table[o]) \/ Eligible("pending", table[o])
    BY <1>4, <2>1 DEF Eligible
  <2> QED  BY <2>2 DEF Attended, Streams
<1> QED  BY <1>1, <1>2, <1>3, <1>4

(* While the streams run, every unfinished row is held by a job, selected   *)
(* by one of query_new_operations, query_pending_operations and             *)
(* query_failed_operations, or waits for its retry time, through crashes,   *)
(* restarts and failed requests; unless it was stored as UNKNOWN or an      *)
(* error path of process_operation_with_retries that only logs has dropped  *)
(* a job.                                                                   *)
THEOREM NoRowForgotten == Spec => []NoOblivion
<1> DEFINE Inv == RowsHeld /\ Queued
<1>1. Init => Inv
  <2>1. Init => \A o \in Ops : table[o] = NoRow
    BY DEF Init
  <2> QED  BY <2>1 DEF Init, RowsHeld, Queued, NoRow
<1>2. IndInv /\ Inv /\ [Next]_vars => Inv'
  BY HeldNext, QueuedNext DEF IndInv
<1>3. IndInv /\ Inv => NoOblivion
  BY NobodyBetween DEF IndInv
<1> HIDE DEF Inv
<1> QED  BY <1>1, <1>2, <1>3, Invariance, PTL DEF Spec

-----------------------------------------------------------------------------
(* Refinement *)

(* A step of the indexer is a step of the promise or leaves it alone. *)
LEMMA PromiseStep ==
    ASSUME IndInv, [Next]_vars
    PROVE  [Promise!Next]_Promise!vars
<1> DEFINE shown == [o \in Ops |-> table[o].stages]
           settled == [o \in Ops |-> table[o].status = "completed"]
           Same(o) == /\ table'[o].stages = table[o].stages
                      /\ table'[o].status = "completed" <=> table[o].status = "completed"
<1>1. CASE \A o \in Ops : Same(o)
  <2>1. shown' = shown /\ settled' = settled
    BY <1>1
  <2> QED  BY <2>1 DEF Promise!vars
<1>2. ASSUME NEW o \in Ops, ~Same(o) PROVE Promise!Next
  <2>1. PICK j \in jobs :
          /\ j.id = o /\ j.pc = "fetched" /\ SetOperationData(j)
          /\ table[o].status = "processing"
          /\ table'[o] = StoredRow(table[o], Life[o][j.ver], j.ver, j.new_status)
    BY <1>2, RowStep DEF IndInv
  <2>2. table[o] \in Row /\ remote[o] \in Nat /\ Len(Life[o]) \in Nat
    BY ConstantsAssumption DEF IndInv, TypeOK
  <2>3. table'[o].stages = j.ver /\ table'[o].status = j.new_status
    BY <2>1, <2>2 DEF StoredRow, Row
  <2>4. \A p \in Ops : p # o => table'[p] = table[p]
    BY <2>1 DEF SetOperationData, IndInv, TypeOK
  <2>5. j.ver \in table[o].stages..Len(Life[o]) /\ j.ver > 0
    BY <2>1, <2>2 DEF IndInv, VersionsOrdered, Row
  <2>6. shown' = [shown EXCEPT ![o] = j.ver]
    BY <2>3, <2>4
  <2>7. settled' = settled \/ settled' = [settled EXCEPT ![o] = TRUE]
    <3>1. CASE j.new_status = "completed"
      BY <2>3, <2>4, <3>1
    <3>2. CASE j.new_status # "completed"
      BY <2>1, <2>3, <2>4, <3>2
    <3> QED  BY <3>1, <3>2
  <2>8. ~settled[o] /\ shown[o] = table[o].stages
    BY <2>1
  <2> QED  BY <2>5, <2>6, <2>7, <2>8 DEF Promise!Next, Promise!Show
<1> QED  BY <1>1, <1>2

(* The indexer implements the promise of TacLifecycle: what the API shows   *)
(* of an operation moves only forward and a completed operation is final.   *)
THEOREM KeepsThePromise == Spec => KeepsPromise
<1>1. Init => Promise!Init
  <2> SUFFICES ASSUME Init PROVE Promise!Init
    OBVIOUS
  <2>1. \A o \in Ops : table[o] = NoRow
    BY DEF Init
  <2>2. \A o \in Ops : table[o].stages = 0 /\ table[o].status # "completed"
    BY <2>1 DEF NoRow
  <2>3. \A o \in Ops : (table[o].status = "completed") = FALSE
    BY <2>2
  <2>4. [o \in Ops |-> table[o].stages] = [o \in Ops |-> 0]
    BY <2>2
  <2>5. [o \in Ops |-> table[o].status = "completed"] = [o \in Ops |-> FALSE]
    BY <2>3, Zenon
  <2> QED  BY <2>4, <2>5, Zenon DEF Promise!Init
<1>2. IndInv /\ [Next]_vars => [Promise!Next]_Promise!vars
  BY PromiseStep
<1> QED  BY <1>1, <1>2, Invariance, PTL DEF Spec, KeepsPromise, Promise!Spec
=============================================================================
