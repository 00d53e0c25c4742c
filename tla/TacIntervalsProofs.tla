------------------------- MODULE TacIntervalsProofs -------------------------
(* Proofs about TacIntervals, for every value of its constants. *)
EXTENDS TacIntervals, SequenceTheorems, TLAPS

-----------------------------------------------------------------------------
(* Arithmetic of step_by *)

(* Consecutive intervals of a chunk are adjacent. *)
LEMMA StepSuccessor ==
    ASSUME NEW from \in Nat, NEW k \in Nat
    PROVE  /\ StepBy(from, k) \in Int
           /\ StepBy(from, k + 1) = StepBy(from, k) + Period
BY ConstantsAssumption, SMT DEF StepBy

(* Later intervals of a chunk start later. *)
LEMMA StepMonotone ==
    ASSUME NEW from \in Nat, NEW j \in Nat, NEW k \in Nat, j <= k
    PROVE  StepBy(from, j) <= StepBy(from, k)
<1>1. (k - 1) * Period = (j - 1) * Period + (k - j) * Period
  BY ConstantsAssumption, SMT
<1>2. (k - j) * Period >= 0
  BY ConstantsAssumption, SMT
<1> QED  BY <1>1, <1>2, ConstantsAssumption, SMT DEF StepBy

(* Every second after `from` and up to the end of n intervals lies in one of them. *)
LEMMA StepCover ==
    ASSUME NEW from \in Nat, NEW n \in Nat, NEW t \in Nat,
           from < t, t <= StepBy(from, n + 1)
    PROVE  \E k \in 1..n : StepBy(from, k) < t /\ t <= StepBy(from, k + 1)
<1> DEFINE d == (t - from - 1) \div Period
<1>1. d \in Nat /\ d * Period <= t - from - 1 /\ t - from - 1 < (d + 1) * Period
  BY ConstantsAssumption, SMT
<1>2. d < n
  <2> SUFFICES ASSUME n <= d PROVE FALSE
    BY <1>1
  <2>1. n * Period <= d * Period
    BY <1>1, ConstantsAssumption, SMT
  <2>2. t <= from + n * Period
    BY ConstantsAssumption, SMT DEF StepBy
  <2> QED  BY <1>1, <2>1, <2>2, ConstantsAssumption, SMT
<1>3. StepBy(from, d + 1) < t /\ t <= StepBy(from, (d + 1) + 1)
  BY <1>1, ConstantsAssumption, SMT DEF StepBy
<1>4. d + 1 \in 1..n
  BY <1>1, <1>2
<1> QED  BY <1>3, <1>4

-----------------------------------------------------------------------------
(* Type correctness *)

(* A chunk is a sequence of rows. *)
LEMMA ChunkType ==
    ASSUME NEW from \in Nat, NEW to \in Nat, NEW n \in Nat
    PROVE  /\ Chunk(from, to, n) \in Seq(Row)
           /\ Len(Chunk(from, to, n)) = n
           /\ \A k \in 1..n : Chunk(from, to, n)[k] = PendingInterval(from, to, k)
<1>1. \A k \in 1..n : PendingInterval(from, to, k) \in Row
  <2> SUFFICES ASSUME NEW k \in 1..n PROVE PendingInterval(from, to, k) \in Row
    OBVIOUS
  <2>1. k \in Nat /\ k + 1 \in Nat /\ 1 <= k
    OBVIOUS
  <2>2. StepBy(from, 1) = from
    BY ConstantsAssumption, SMT DEF StepBy
  <2>3. StepBy(from, 1) <= StepBy(from, k) /\ StepBy(from, 1) <= StepBy(from, k + 1)
    BY <2>1, StepMonotone
  <2>4. StepBy(from, k) \in Nat /\ StepBy(from, k + 1) \in Nat
    BY <2>1, <2>2, <2>3, StepSuccessor
  <2> QED  BY <2>4 DEF PendingInterval, Row, Status, Smaller
<1> QED  BY <1>1 DEF Chunk

TypeInv == TypeOK /\ RealtimeLag <= now

(* The first deployment starts well typed. *)
LEMMA TypeInit == Init => TypeInv
<1> SUFFICES ASSUME Init PROVE TypeInv
  OBVIOUS
<1>1. rows \in Seq(Row)
  BY DEF Init
<1> QED
  BY <1>1, ConstantsAssumption DEF Init, TypeInv, TypeOK, NoAnswer, FaultLog

(* A table with the same ids and well-typed rows is a table. *)
LEMMA TableUpdate ==
    ASSUME NEW s \in Seq(Row), NEW t \in [DOMAIN s -> Row]
    PROVE  t \in Seq(Row) /\ Len(t) = Len(s) /\ DOMAIN t = DOMAIN s
<1>1. DOMAIN s = 1..Len(s) /\ Len(s) \in Nat
  OBVIOUS
<1> QED  BY <1>1

(* What the statements of the code write into a row. *)
LEMMA RowUpdate ==
    ASSUME NEW r \in Row
    PROVE  /\ \A st \in Status : [r EXCEPT !.status = st] \in Row
           /\ [r EXCEPT !.next_retry = "past"] \in Row
           /\ [r EXCEPT !.status = "failed", !.next_retry = "future"] \in Row
           /\ ResetRow(r) \in Row
BY DEF Row, Status, ResetRow

(* A fault leaves a well-typed log. *)
LEMMA FaultType ==
    ASSUME faults \in FaultLog, NEW kind, Fault(kind)
    PROVE  faults' \in FaultLog
<1>1. kind \in AllFaults
  BY ConstantsAssumption DEF Fault
<1>2. faults.count + 1 \in 0..MaxFaults
  BY ConstantsAssumption DEF Fault, FaultLog
<1> QED  BY <1>1, <1>2 DEF Fault, FaultLog

(* So does an answer of get_operations. *)
LEMMA GetOperationsType ==
    ASSUME faults \in FaultLog, NEW from, NEW till, NEW got,
           GetOperations(from, till, got)
    PROVE  faults' \in FaultLog
BY FaultType DEF GetOperations

(* A step of a job changes at most the job's own row, in place. *)
LEMMA JobRows ==
    ASSUME TypeOK, NEW j \in jobs, JobStep(j)
    PROVE  rows' \in [DOMAIN rows -> Row]
<1>1. rows \in [DOMAIN rows -> Row]
  BY DEF TypeOK
<1>2. \A i \in DOMAIN rows : rows[i] \in Row
  BY <1>1
<1>3. CASE FetchInterval(j)
  BY <1>1, <1>3 DEF FetchInterval, dbVars
<1>4. CASE StoreInterval(j)
  BY <1>1, <1>4 DEF StoreInterval
<1>5. CASE CompleteInterval(j)
  <2>1. rows' = [i \in DOMAIN rows |->
                   IF i = j.id THEN [rows[i] EXCEPT !.status = "completed"] ELSE rows[i]]
    BY <1>1, <1>5 DEF CompleteInterval
  <2> QED  BY <1>2, <2>1, RowUpdate DEF Status
<1>6. CASE FailInterval(j)
  <2>1. CASE rows' = [rows EXCEPT ![j.id].status = "failed", ![j.id].next_retry = "future"]
    <3>1. rows' = [i \in DOMAIN rows |->
                   IF i = j.id
                   THEN [rows[i] EXCEPT !.status = "failed", !.next_retry = "future"]
                   ELSE rows[i]]
      BY <1>1, <2>1
    <3> QED  BY <1>2, <3>1, RowUpdate
  <2> QED  BY <1>1, <1>6, <2>1 DEF FailInterval
<1> QED  BY <1>3, <1>4, <1>5, <1>6 DEF JobStep

(* Every step keeps the types. *)
LEMMA TypeNext == TypeInv /\ [Next]_vars => TypeInv'
<1> SUFFICES ASSUME TypeInv, [Next]_vars PROVE TypeInv'
  OBVIOUS
<1> USE ConstantsAssumption DEF TypeInv, TypeOK, NoAnswer
<1>0. \A i \in DOMAIN rows : rows[i] \in Row
  OBVIOUS
<1>1. CASE Tick
  BY <1>1 DEF Tick, dbVars, memVars
<1>2. CASE \E o \in Ops : PublishLate(o)
  BY <1>2 DEF PublishLate, dbVars, memVars
<1>3. CASE Boot
  <2>1. boundary' \in Nat
    BY <1>3 DEF Boot, LatestStored, Maxima, Larger, Fault
  <2>2. genFrom' \in Nat
    BY <1>3 DEF Boot, LatestStored, GenerateFrom, Larger
  <2>3. faults' \in FaultLog
    BY <1>3, FaultType DEF Boot
  <2> QED  BY <1>3, <2>1, <2>2, <2>3 DEF Boot, LatestStored, remoteVars, dbVars
<1>4. CASE GenerateChunk
  <2> PICK n \in 1..DbBatchSize :
         /\ IsChunkLength(genFrom, boundary, n)
         /\ genFrom' = Smaller(StepBy(genFrom, n + 1), boundary)
         /\ \/ /\ rows' = rows \o Chunk(genFrom, boundary, n)
               /\ watermark' = Smaller(StepBy(genFrom, n + 1), boundary)
               /\ UNCHANGED faults
            \/ Fault("silent") /\ UNCHANGED <<rows, watermark>>
    BY <1>4 DEF GenerateChunk, SetWatermark
  <2>1. StepBy(genFrom, n + 1) \in Nat
    <3>1. StepBy(genFrom, 1) = genFrom
      BY SMT DEF StepBy
    <3>2. n \in Nat /\ 1 <= n + 1 /\ n + 1 \in Nat
      OBVIOUS
    <3>3. StepBy(genFrom, 1) <= StepBy(genFrom, n + 1) /\ StepBy(genFrom, n + 1) \in Int
      BY <3>2, StepMonotone, StepSuccessor
    <3> QED  BY <3>1, <3>3
  <2>2. Smaller(StepBy(genFrom, n + 1), boundary) \in Nat
    BY <2>1 DEF Smaller
  <2>3. Chunk(genFrom, boundary, n) \in Seq(Row)
    BY ChunkType
  <2>4. rows' \in Seq(Row) /\ watermark' \in Nat /\ faults' \in FaultLog
    <3>1. rows \o Chunk(genFrom, boundary, n) \in Seq(Row)
      BY <2>3, ConcatProperties
    <3> QED  BY <2>2, <3>1, FaultType
  <2> QED  BY <1>4, <2>2, <2>4 DEF GenerateChunk, SetWatermark, remoteVars
<1>5. CASE GenerateDone
  BY <1>5 DEF GenerateDone, remoteVars, dbVars
<1>6. [i \in DOMAIN rows |-> ResetRow(rows[i])] \in Seq(Row)
  <2>1. [i \in DOMAIN rows |-> ResetRow(rows[i])] \in [DOMAIN rows -> Row]
    BY <1>0, RowUpdate
  <2> QED  BY <2>1, TableUpdate
<1>7. CASE ResetAndRun
  BY <1>6, <1>7 DEF ResetAndRun, remoteVars
<1>8. CASE StartFails
  <2>1. rows' \in Seq(Row)
    BY <1>6, <1>8 DEF StartFails
  <2>2. faults' \in FaultLog
    BY <1>8, FaultType DEF StartFails
  <2> QED  BY <1>8, <2>1, <2>2 DEF StartFails, remoteVars
<1>9. CASE Crash
  BY <1>9, FaultType DEF Crash, remoteVars, dbVars
<1>10. CASE RealtimePoll
  <2>1. faults' \in FaultLog
    BY <1>10, GetOperationsType DEF RealtimePoll
  <2> QED  BY <1>10, <2>1 DEF RealtimePoll, remoteVars, dbVars
<1>11. CASE RealtimeInsert
  <2>1. faults' \in FaultLog
    BY <1>11, FaultType DEF RealtimeInsert
  <2> QED  BY <1>11, <2>1 DEF RealtimeInsert, remoteVars
<1>12. CASE RealtimeAdvance
  <2> PICK m \in Maxima({Ts[o] : o \in rt.got}) :
         \/ /\ m > realtimeBnd
            /\ realtimeBnd' = m + 1
            /\ \/ /\ rows' = Append(rows, CompletedInterval(realtimeBnd, m))
                  /\ watermark' = m
                  /\ UNCHANGED faults
               \/ Fault("complete") /\ UNCHANGED <<rows, watermark>>
         \/ m <= realtimeBnd /\ UNCHANGED <<rows, watermark, realtimeBnd, faults>>
    BY <1>12 DEF RealtimeAdvance, SetWatermark
  <2>1. m \in Nat
    BY DEF Maxima
  <2>2. CompletedInterval(realtimeBnd, m) \in Row
    BY <2>1 DEF CompletedInterval, Row, Status
  <2>3. watermark' \in Nat /\ realtimeBnd' \in Nat
    BY <2>1
  <2>4. faults' \in FaultLog
    BY FaultType
  <2>5. Append(rows, CompletedInterval(realtimeBnd, m)) \in Seq(Row)
    BY <2>2
  <2>6. rows' \in Seq(Row)
    BY <2>5
  <2> QED  BY <1>12, <2>3, <2>4, <2>6 DEF RealtimeAdvance, SetWatermark, remoteVars
<1>13. CASE \E s \in Streams : Claim(s)
  <2> PICK s \in Streams : Claim(s)
    BY <1>13
  <2> PICK batch \in SUBSET DOMAIN rows :
         /\ rows' = [i \in DOMAIN rows |->
                        IF i \in batch THEN [rows[i] EXCEPT !.status = "processing"]
                                       ELSE rows[i]]
         /\ jobs' = jobs \cup
              {[id |-> i, src |-> s, pc |-> "buffered", got |-> {}] : i \in batch}
    BY DEF Claim
  <2>1. rows' \in Seq(Row)
    <3>1. rows' \in [DOMAIN rows -> Row]
      BY <1>0, RowUpdate DEF Status
    <3> QED  BY <3>1, TableUpdate
  <2>2. jobs' \subseteq Job
    BY DEF Job
  <2> QED  BY <2>1, <2>2 DEF Claim, remoteVars
<1>14. CASE \E j \in jobs : JobStep(j)
  <2> PICK j \in jobs : JobStep(j)
    BY <1>14
  <2>1. rows' \in Seq(Row)
    BY JobRows, TableUpdate
  <2>2. CASE FetchInterval(j)
    <3>1. PICK got \in SUBSET visible :
             /\ GetOperations(RequestWindow(rows[j.id])[1], RequestWindow(rows[j.id])[2], got)
             /\ jobs' = (jobs \ {j}) \cup {[j EXCEPT !.pc = "fetched", !.got = got]}
      BY <2>2 DEF FetchInterval
    <3>2. [j EXCEPT !.pc = "fetched", !.got = got] \in Job
      BY DEF Job
    <3>3. faults' \in FaultLog
      BY <3>1, GetOperationsType
    <3> QED  BY <2>1, <2>2, <3>1, <3>2, <3>3 DEF FetchInterval, remoteVars, dbVars
  <2>3. CASE StoreInterval(j)
    <3>1. [j EXCEPT !.pc = "stored"] \in Job /\ j.got \subseteq Ops
      BY DEF Job
    <3> QED  BY <2>1, <2>3, <3>1 DEF StoreInterval, remoteVars
  <2>4. CASE CompleteInterval(j)
    BY <2>1, <2>4 DEF CompleteInterval, remoteVars
  <2>5. CASE FailInterval(j)
    <3>1. faults' \in FaultLog
      BY <2>5, FaultType DEF FailInterval
    <3> QED  BY <2>1, <2>5, <3>1 DEF FailInterval, remoteVars
  <2> QED  BY <2>2, <2>3, <2>4, <2>5 DEF JobStep
<1>15. CASE \E i \in DOMAIN rows : RetryDue(i)
  <2> PICK i \in DOMAIN rows : RetryDue(i)
    BY <1>15
  <2>1. rows' \in Seq(Row)
    <3>1. rows' = [rows EXCEPT ![i].next_retry = "past"]
      BY DEF RetryDue
    <3>2. [rows[i] EXCEPT !.next_retry = "past"] \in Row
      BY <1>0, RowUpdate
    <3> QED  BY <3>1, <3>2
  <2> QED  BY <2>1 DEF RetryDue, remoteVars, memVars
<1>16. CASE UNCHANGED vars
  BY <1>16 DEF vars, remoteVars, dbVars, memVars
<1> QED
  BY <1>1, <1>2, <1>3, <1>4, <1>5, <1>7, <1>8, <1>9, <1>10, <1>11, <1>12,
     <1>13, <1>14, <1>15, <1>16 DEF Next

(* Every reachable state of tables, streams, realtime thread and jobs is well typed. *)
THEOREM TypeCorrect == Spec => []TypeOK
<1>1. TypeInv => TypeOK
  BY DEF TypeInv
<1> QED  BY <1>1, TypeInit, TypeNext, PTL DEF Spec

-----------------------------------------------------------------------------
(* The time line: rows are disjoint and the watermark ends them *)

(* The ids and the windows of the rows are what they were. *)
SameWindows ==
    /\ Len(rows') = Len(rows)
    /\ \A i \in DOMAIN rows :
         rows'[i].start = rows[i].start /\ rows'[i].finish = rows[i].finish

(* All steps but the two that insert rows only change statuses. *)
LEMMA OnlyInsertsMoveWindows ==
    ASSUME TypeInv, [Next]_vars, ~GenerateChunk, ~RealtimeAdvance
    PROVE  SameWindows /\ watermark' = watermark
<1> USE DEF SameWindows
<1>1. rows \in Seq(Row) /\ \A i \in DOMAIN rows : rows[i] \in Row
  BY DEF TypeInv, TypeOK
<1>w. watermark' = watermark
  BY DEF Next, vars, remoteVars, dbVars, memVars, Tick, PublishLate, Boot, LatestStored,
     GenerateDone, ResetAndRun, StartFails, Crash, RealtimePoll, RealtimeInsert, Claim,
     JobStep, FetchInterval, StoreInterval, CompleteInterval, FailInterval, RetryDue
<1>2. CASE UNCHANGED rows
  BY <1>w, <1>2
<1>3. CASE rows' = [i \in DOMAIN rows |-> ResetRow(rows[i])]
  <2>2. Len(rows') = Len(rows)
    BY <1>1, <1>3
  <2>3. \A r \in Row : ResetRow(r).start = r.start /\ ResetRow(r).finish = r.finish
    BY DEF ResetRow, Row
  <2> QED  BY <1>w, <1>1, <1>3, <2>2, <2>3
<1>4. CASE \E s \in Streams : Claim(s)
  <2> PICK s \in Streams : Claim(s)
    BY <1>4
  <2> PICK batch \in SUBSET DOMAIN rows :
         rows' = [i \in DOMAIN rows |->
                        IF i \in batch THEN [rows[i] EXCEPT !.status = "processing"]
                                       ELSE rows[i]]
    BY DEF Claim
  <2>1. Len(rows') = Len(rows)
    BY <1>1
  <2>3. \A r \in Row : LET q == [r EXCEPT !.status = "processing"]
                       IN  q.start = r.start /\ q.finish = r.finish
    BY DEF Row
  <2> QED  BY <1>w, <1>1, <2>1, <2>3
<1>5. CASE \E j \in jobs : JobStep(j)
  <2> PICK j \in jobs : JobStep(j)
    BY <1>5
  <2>2. rows' \in [DOMAIN rows -> Row]
    BY JobRows DEF TypeInv
  <2>3. Len(rows') = Len(rows)
    BY <1>1, <2>2, TableUpdate
  <2>4. \A i \in DOMAIN rows :
           rows'[i].start = rows[i].start /\ rows'[i].finish = rows[i].finish
    <3>1. CASE rows' = [rows EXCEPT ![j.id].status = "completed"]
      BY <1>1, <3>1 DEF Row
    <3>2. CASE rows' = [rows EXCEPT ![j.id].status = "failed", ![j.id].next_retry = "future"]
      BY <1>1, <3>2 DEF Row
    <3> QED  BY <1>1, <3>1, <3>2 DEF JobStep, FetchInterval, StoreInterval,
                CompleteInterval, FailInterval, dbVars
  <2> QED  BY <1>w, <2>3, <2>4
<1>6. CASE \E i \in DOMAIN rows : RetryDue(i)
  <2> PICK i \in DOMAIN rows : RetryDue(i)
    BY <1>6
  <2>1. rows' = [rows EXCEPT ![i].next_retry = "past"]
    BY DEF RetryDue
  <2> QED  BY <1>w, <1>1, <2>1 DEF Row
<1> QED
  BY <1>2, <1>3, <1>4, <1>5, <1>6 DEF Next, vars, remoteVars, dbVars, memVars, Tick,
     PublishLate, Boot, LatestStored, GenerateDone, ResetAndRun, StartFails, Crash, RealtimePoll,
     RealtimeInsert

(* An empty table is a time line. *)
LEMMA TimelineInit == Init => Timeline
BY ConstantsAssumption DEF Init, Timeline, RowsDisjoint, WatermarkIsLastFinish

(* Steps that keep the windows keep what the time line says of the rows. *)
LEMMA TimelineSameWindows ==
    ASSUME TypeInv, TypeInv', Timeline, SameWindows, watermark' = watermark,
           phase' = "generate" => watermark <= genFrom',
           phase' = "running" => watermark <= realtimeBnd'
    PROVE  Timeline'
<1>1. DOMAIN rows' = DOMAIN rows /\ (rows' = <<>> <=> rows = <<>>)
  BY DEF TypeInv, TypeOK, SameWindows
<1>2. rows # <<>> => rows'[Len(rows')].finish = rows[Len(rows)].finish
  BY DEF TypeInv, TypeOK, SameWindows
<1>3. WatermarkIsLastFinish'
  BY <1>1, <1>2 DEF Timeline, WatermarkIsLastFinish
<1>4. RowsDisjoint'
  BY <1>1 DEF Timeline, RowsDisjoint, SameWindows
<1> QED  BY <1>1, <1>3, <1>4 DEF Timeline, SameWindows

(* A chunk starts at genFrom, ends at the new watermark, and is contiguous. *)
LEMMA ChunkWindows ==
    ASSUME NEW from \in Nat, NEW to \in Nat, NEW n \in 1..DbBatchSize,
           from < to, IsChunkLength(from, to, n)
    PROVE  LET c == Chunk(from, to, n)
               end == Smaller(StepBy(from, n + 1), to)
           IN  /\ end \in Nat /\ from < end /\ end <= to
               /\ c[n].finish = end
               /\ \A k \in 1..n : /\ from <= c[k].start /\ c[k].start < c[k].finish
                                  /\ c[k].finish <= end
               /\ \A j, k \in 1..n : j < k => c[j].finish <= c[k].start
               /\ \A t \in Nat : from < t /\ t <= end =>
                     \E k \in 1..n : c[k].start < t /\ t <= c[k].finish
<1> DEFINE c == Chunk(from, to, n)
           end == Smaller(StepBy(from, n + 1), to)
<1>1. n \in Nat /\ 1 <= n
  BY ConstantsAssumption
<1>2. \A k \in 1..n : /\ c[k].start = StepBy(from, k)
                      /\ c[k].finish = Smaller(StepBy(from, k + 1), to)
  <2>1. \A k \in 1..n : c[k] = PendingInterval(from, to, k)
    BY <1>1, ChunkType
  <2>2. \A k \in 1..n : /\ PendingInterval(from, to, k).start = StepBy(from, k)
                        /\ PendingInterval(from, to, k).finish = Smaller(StepBy(from, k + 1), to)
    BY DEF PendingInterval
  <2> HIDE DEF c
  <2> QED  BY <2>1, <2>2
<1>3. StepBy(from, 1) = from
  BY ConstantsAssumption, SMT DEF StepBy
<1>4. \A k \in 1..n : /\ StepBy(from, k) \in Int
                      /\ StepBy(from, k + 1) = StepBy(from, k) + Period
                      /\ from <= StepBy(from, k)
                      /\ StepBy(from, k) <= StepBy(from, n)
                      /\ StepBy(from, k + 1) <= StepBy(from, n + 1)
  <2> SUFFICES ASSUME NEW k \in 1..n
               PROVE /\ StepBy(from, k) \in Int
                     /\ StepBy(from, k + 1) = StepBy(from, k) + Period
                     /\ from <= StepBy(from, k)
                     /\ StepBy(from, k) <= StepBy(from, n)
                     /\ StepBy(from, k + 1) <= StepBy(from, n + 1)
    OBVIOUS
  <2>1. k \in Nat /\ k + 1 \in Nat /\ n + 1 \in Nat /\ 1 <= k /\ k <= n /\ k + 1 <= n + 1
    BY <1>1
  <2>2. StepBy(from, 1) <= StepBy(from, k)
    BY <2>1, StepMonotone
  <2>3. StepBy(from, k) <= StepBy(from, n)
    BY <1>1, <2>1, StepMonotone
  <2>4. StepBy(from, k + 1) <= StepBy(from, n + 1)
    BY <2>1, StepMonotone
  <2> QED  BY <1>3, <2>1, <2>2, <2>3, <2>4, StepSuccessor
<1>5. StepBy(from, n) < to /\ Period \in Nat /\ Period > 0
  BY ConstantsAssumption DEF IsChunkLength
<1>6. n \in 1..n
  BY <1>1
<1>7. end \in Nat /\ from < end /\ end <= to
  BY <1>4, <1>5, <1>6 DEF Smaller
<1>8. c[n].finish = end
  BY <1>2, <1>6
<1>9. \A k \in 1..n : from <= c[k].start /\ c[k].start < c[k].finish /\ c[k].finish <= end
  <2> SUFFICES ASSUME NEW k \in 1..n
               PROVE from <= c[k].start /\ c[k].start < c[k].finish /\ c[k].finish <= end
    OBVIOUS
  <2>1. StepBy(from, k) < to
    BY <1>4, <1>5, <1>6
  <2>2. StepBy(from, n + 1) \in Int
    BY <1>4, <1>5, <1>6
  <2> QED  BY <1>2, <1>4, <1>5, <2>1, <2>2 DEF Smaller
<1>10. \A j, k \in 1..n : j < k => c[j].finish <= c[k].start
  <2> SUFFICES ASSUME NEW j \in 1..n, NEW k \in 1..n, j < k
               PROVE c[j].finish <= c[k].start
    OBVIOUS
  <2>1. j + 1 \in Nat /\ k \in Nat /\ j + 1 <= k
    BY <1>1
  <2>2. StepBy(from, j + 1) <= StepBy(from, k)
    BY <2>1, StepMonotone
  <2>3. StepBy(from, k) < to
    BY <1>4, <1>5, <1>6
  <2>4. StepBy(from, j + 1) \in Int /\ StepBy(from, k) \in Int
    BY <1>4, <1>5
  <2> QED  BY <1>2, <2>2, <2>3, <2>4 DEF Smaller
<1>11. \A t \in Nat : from < t /\ t <= end =>
          \E k \in 1..n : c[k].start < t /\ t <= c[k].finish
  <2> SUFFICES ASSUME NEW t \in Nat, from < t, t <= end
               PROVE \E k \in 1..n : c[k].start < t /\ t <= c[k].finish
    OBVIOUS
  <2>1. t <= StepBy(from, n + 1) /\ t <= to
    BY <1>4, <1>5, <1>6 DEF Smaller
  <2>2. PICK k \in 1..n : StepBy(from, k) < t /\ t <= StepBy(from, k + 1)
    BY <1>1, <2>1, StepCover
  <2> QED  BY <1>2, <2>1, <2>2 DEF Smaller
<1> QED  BY <1>7, <1>8, <1>9, <1>10, <1>11

(* Appending a well-formed piece that begins behind the watermark. *)
LEMMA TimelineExtended ==
    ASSUME TypeInv, Timeline,
           NEW c \in Seq(Row), c # <<>>, rows' = rows \o c,
           watermark' = c[Len(c)].finish,
           \A k \in DOMAIN c : /\ watermark <= c[k].start /\ c[k].start < c[k].finish
                               /\ c[k].finish <= watermark',
           \A j, k \in DOMAIN c : j < k => c[j].finish <= c[k].start,
           phase' = "generate" => watermark' <= genFrom',
           phase' = "running" => watermark' <= realtimeBnd'
    PROVE  Timeline' /\ watermark <= watermark'
<1> DEFINE L == Len(rows)
<1>1. /\ rows \in Seq(Row) /\ watermark \in Nat /\ L \in Nat /\ DOMAIN rows = 1..L
      /\ Len(c) \in Nat \ {0} /\ DOMAIN c = 1..Len(c)
  BY DEF TypeInv, TypeOK
<1>2. /\ Len(rows') = L + Len(c) /\ DOMAIN rows' = 1..(L + Len(c))
      /\ \A i \in 1..L : rows'[i] = rows[i]
      /\ \A i \in (L + 1)..(L + Len(c)) : rows'[i] = c[i - L]
  BY <1>1, ConcatProperties
<1>3. \A i \in (L + 1)..(L + Len(c)) : i - L \in DOMAIN c
  BY <1>1
<1>4. \A i \in DOMAIN rows' : i \in DOMAIN rows \/ i \in (L + 1)..(L + Len(c))
  BY <1>1, <1>2
<1>5. /\ \A r \in Row : r.start \in Nat /\ r.finish \in Nat
      /\ \A i \in DOMAIN rows : rows[i] \in Row
      /\ \A k \in DOMAIN c : c[k] \in Row
  <2>1. \A r \in Row : r.start \in Nat /\ r.finish \in Nat
    BY DEF Row
  <2> QED  BY <1>1, <2>1
<1>6. watermark' \in Nat /\ watermark <= watermark'
  <2>1. Len(c) \in DOMAIN c
    BY <1>1
  <2> QED  BY <1>1, <1>5, <2>1
<1>7. \A i \in DOMAIN rows' : rows'[i].start < rows'[i].finish /\ rows'[i].finish <= watermark'
  <2> SUFFICES ASSUME NEW i \in DOMAIN rows'
               PROVE rows'[i].start < rows'[i].finish /\ rows'[i].finish <= watermark'
    OBVIOUS
  <2>1. CASE i \in DOMAIN rows
    BY <1>1, <1>2, <1>5, <1>6, <2>1 DEF Timeline
  <2>2. CASE i \in (L + 1)..(L + Len(c))
    BY <1>2, <1>3, <2>2
  <2> QED  BY <1>4, <2>1, <2>2
<1>8. RowsDisjoint'
  <2> SUFFICES ASSUME NEW i \in DOMAIN rows', NEW k \in DOMAIN rows', i < k
               PROVE rows'[i].finish <= rows'[k].start
    BY DEF RowsDisjoint
  <2>1. CASE k \in DOMAIN rows
    <3>1. i \in DOMAIN rows
      BY <1>1, <1>2, <2>1
    <3> QED  BY <1>1, <1>2, <2>1, <3>1 DEF Timeline, RowsDisjoint
  <2>2. CASE k \in (L + 1)..(L + Len(c)) /\ i \in DOMAIN rows
    <3>1. rows'[i].finish <= watermark /\ rows'[i].finish \in Nat
      BY <1>1, <1>2, <1>5, <2>2 DEF Timeline
    <3>2. watermark <= rows'[k].start /\ rows'[k].start \in Nat
      BY <1>2, <1>3, <1>5, <2>2
    <3> QED  BY <1>1, <3>1, <3>2
  <2>3. CASE k \in (L + 1)..(L + Len(c)) /\ i \in (L + 1)..(L + Len(c))
    <3>1. i - L \in DOMAIN c /\ k - L \in DOMAIN c /\ i - L < k - L
      BY <1>1, <1>3, <2>3
    <3> QED  BY <1>2, <2>3, <3>1
  <2> QED  BY <1>4, <2>1, <2>2, <2>3
<1>9. WatermarkIsLastFinish'
  <2>1. rows' # <<>>
    BY <1>1, <1>2
  <2>2. rows'[Len(rows')] = c[Len(c)]
    BY <1>1, <1>2
  <2> QED  BY <2>1, <2>2 DEF WatermarkIsLastFinish
<1>10. StartTimestamp <= watermark'
  BY <1>1, <1>6, ConstantsAssumption DEF Timeline
<1> QED  BY <1>6, <1>7, <1>8, <1>9, <1>10 DEF Timeline

(* Every step keeps the time line and never moves the watermark back. *)
LEMMA TimelineNext == TypeInv /\ TypeInv' /\ Timeline /\ [Next]_vars => Timeline' /\ watermark <= watermark'
<1> SUFFICES ASSUME TypeInv, TypeInv', Timeline, [Next]_vars
             PROVE  Timeline' /\ watermark <= watermark'
  OBVIOUS
<1>0. /\ watermark \in Nat /\ genFrom \in Nat /\ boundary \in Nat /\ realtimeBnd \in Nat
      /\ rows \in Seq(Row)
  BY DEF TypeInv, TypeOK
<1>1. CASE GenerateChunk
  <2> PICK n \in 1..DbBatchSize :
         /\ IsChunkLength(genFrom, boundary, n)
         /\ genFrom' = Smaller(StepBy(genFrom, n + 1), boundary)
         /\ \/ /\ rows' = rows \o Chunk(genFrom, boundary, n)
               /\ watermark' = Smaller(StepBy(genFrom, n + 1), boundary)
            \/ UNCHANGED <<rows, watermark>>
    BY <1>1 DEF GenerateChunk, SetWatermark
  <2>1. n \in Nat /\ n # 0 /\ genFrom < boundary /\ watermark <= genFrom
    BY <1>1, ConstantsAssumption DEF GenerateChunk, SetWatermark, Timeline
  <2>2. phase' = "generate"
    BY <1>1 DEF GenerateChunk, SetWatermark
  <2> DEFINE c == Chunk(genFrom, boundary, n)
             end == Smaller(StepBy(genFrom, n + 1), boundary)
  <2>3. /\ end \in Nat /\ genFrom < end
        /\ c[n].finish = end
        /\ \A k \in 1..n : genFrom <= c[k].start /\ c[k].start < c[k].finish /\ c[k].finish <= end
        /\ \A j, k \in 1..n : j < k => c[j].finish <= c[k].start
    BY <1>0, <2>1, ChunkWindows
  <2>4. c \in Seq(Row) /\ Len(c) = n
    BY <1>0, <2>1, ChunkType
  <2>5. CASE rows' = rows \o c /\ watermark' = end
    <3>1. c # <<>> /\ DOMAIN c = 1..n
      BY <2>1, <2>4
    <3>2. \A k \in DOMAIN c : c[k].start \in Nat
      <4>1. \A r \in Row : r.start \in Nat
        BY DEF Row
      <4> HIDE DEF c
      <4> QED  BY <2>4, <4>1
    <3>3. \A k \in DOMAIN c : /\ watermark <= c[k].start /\ c[k].start < c[k].finish
                              /\ c[k].finish <= watermark'
      BY <1>0, <2>1, <2>3, <2>5, <3>1, <3>2
    <3>4. watermark' = c[Len(c)].finish /\ watermark' <= genFrom'
      BY <2>3, <2>4, <2>5
    <3> HIDE DEF c
    <3> QED  BY <2>2, <2>3, <2>4, <2>5, <3>1, <3>3, <3>4, TimelineExtended
  <2>6. CASE UNCHANGED <<rows, watermark>>
    <3>1. SameWindows /\ watermark' = watermark /\ watermark <= genFrom'
      BY <1>0, <2>1, <2>3, <2>6 DEF SameWindows
    <3> QED  BY <1>0, <2>2, <3>1, TimelineSameWindows
  <2> QED  BY <2>5, <2>6
<1>2. CASE RealtimeAdvance
  <2> PICK m \in Maxima({Ts[o] : o \in rt.got}) :
         \/ /\ m > realtimeBnd
            /\ realtimeBnd' = m + 1
            /\ \/ /\ rows' = Append(rows, CompletedInterval(realtimeBnd, m))
                  /\ watermark' = m
               \/ UNCHANGED <<rows, watermark>>
         \/ m <= realtimeBnd /\ UNCHANGED <<rows, watermark, realtimeBnd>>
    BY <1>2 DEF RealtimeAdvance, SetWatermark
  <2>1. m \in Nat
    BY ConstantsAssumption DEF Maxima, TypeInv, TypeOK
  <2>2. phase' = "running" /\ watermark <= realtimeBnd
    BY <1>2 DEF RealtimeAdvance, SetWatermark, Timeline
  <2>3. CASE UNCHANGED <<rows, watermark>>
    <3>1. SameWindows /\ watermark' = watermark /\ watermark <= realtimeBnd'
      BY <1>0, <2>1, <2>2, <2>3 DEF SameWindows
    <3> QED  BY <1>0, <2>2, <3>1, TimelineSameWindows
  <2>4. CASE /\ m > realtimeBnd /\ realtimeBnd' = m + 1 /\ watermark' = m
             /\ rows' = Append(rows, CompletedInterval(realtimeBnd, m))
    <3> DEFINE c == <<CompletedInterval(realtimeBnd, m)>>
    <3>1. CompletedInterval(realtimeBnd, m) \in Row
      BY <1>0, <2>1 DEF CompletedInterval, Row, Status
    <3>2. c \in Seq(Row) /\ c # <<>> /\ Len(c) = 1 /\ DOMAIN c = {1}
      BY <3>1
    <3>3. rows' = rows \o c
      BY <1>0, <2>4, <3>1, AppendIsConcat
    <3>4. c[1].start = realtimeBnd /\ c[1].finish = m
      BY DEF CompletedInterval
    <3>5. /\ watermark' = c[Len(c)].finish
          /\ watermark' <= realtimeBnd'
          /\ \A k \in DOMAIN c : /\ watermark <= c[k].start /\ c[k].start < c[k].finish
                                  /\ c[k].finish <= watermark'
          /\ \A j, k \in DOMAIN c : j < k => c[j].finish <= c[k].start
      BY <1>0, <2>1, <2>2, <2>4, <3>2, <3>4
    <3> HIDE DEF c
    <3> QED  BY <2>2, <3>2, <3>3, <3>5, TimelineExtended
  <2> QED  BY <2>3, <2>4
<1>3. CASE ~GenerateChunk /\ ~RealtimeAdvance
  <2>1. SameWindows /\ watermark' = watermark
    BY <1>3, OnlyInsertsMoveWindows
  <2>2. CASE Boot
    <3>1. phase' = "generate" /\ watermark <= genFrom'
      BY <1>0, <2>2, ConstantsAssumption DEF Boot, LatestStored, GenerateFrom, Larger
    <3> QED  BY <1>0, <2>1, <3>1, TimelineSameWindows
  <2>3. CASE ResetAndRun
    <3>1. phase' = "running" /\ realtimeBnd' = watermark
      BY <2>3 DEF ResetAndRun
    <3> QED  BY <1>0, <2>1, <3>1, TimelineSameWindows
  <2>4. CASE ~Boot /\ ~ResetAndRun
    <3>1. /\ phase' = phase \/ phase' \notin {"generate", "running"}
          /\ genFrom' = genFrom /\ realtimeBnd' = realtimeBnd
      BY <1>3, <2>4 DEF Next, vars, remoteVars, dbVars, memVars,
         Tick, PublishLate, GenerateDone, StartFails, Crash,
         RealtimePoll, RealtimeInsert, Claim, JobStep, FetchInterval, StoreInterval,
         CompleteInterval, FailInterval, RetryDue
    <3>2. /\ phase' = "generate" => watermark <= genFrom'
          /\ phase' = "running" => watermark <= realtimeBnd'
      BY <3>1 DEF Timeline
    <3> QED  BY <1>0, <2>1, <3>2, TimelineSameWindows
  <2> QED  BY <2>2, <2>3, <2>4
<1> QED  BY <1>1, <1>2, <1>3

(* generate_pending_intervals and add_completed_interval never write rows   *)
(* that overlap, whatever faults happen.                                    *)
THEOREM RowsNeverOverlap == Spec => []RowsDisjoint
<1>1. Init => TypeInv /\ Timeline
  BY TypeInit, TimelineInit
<1>2. TypeInv /\ Timeline /\ [Next]_vars => (TypeInv /\ Timeline)'
  BY TypeNext, TimelineNext
<1>3. Timeline => RowsDisjoint
  BY DEF Timeline
<1> QED  BY <1>1, <1>2, <1>3, PTL DEF Spec

(* The watermark is the end of the last row: set_watermark_internal runs in *)
(* the transaction of the rows.                                             *)
THEOREM WatermarkEndsRows == Spec => []WatermarkIsLastFinish
<1>1. Init => TypeInv /\ Timeline
  BY TypeInit, TimelineInit
<1>2. TypeInv /\ Timeline /\ [Next]_vars => (TypeInv /\ Timeline)'
  BY TypeNext, TimelineNext
<1>3. Timeline => WatermarkIsLastFinish
  BY DEF Timeline
<1> QED  BY <1>1, <1>2, <1>3, PTL DEF Spec

(* set_watermark_internal never moves the watermark back, across restarts.  *)
THEOREM WatermarkNeverBack == Spec => WatermarkMonotone
<1>1. Init => TypeInv /\ Timeline
  BY TypeInit, TimelineInit
<1>2. TypeInv /\ Timeline /\ [Next]_vars => (TypeInv /\ Timeline)'
  BY TypeNext, TimelineNext
<1>3. TypeInv /\ TypeInv' /\ Timeline /\ [Next]_vars => [watermark' >= watermark]_vars
  <2>1. TypeInv /\ TypeInv' => watermark \in Nat /\ watermark' \in Nat
    BY DEF TypeInv, TypeOK
  <2> QED  BY <2>1, TimelineNext
<1> QED  BY <1>1, <1>2, <1>3, PTL DEF Spec, WatermarkMonotone

-----------------------------------------------------------------------------
(* Ownership: a row is processed by one job *)

RetryOnlyFailed ==
    \A i \in DOMAIN rows : rows[i].next_retry = "future" => rows[i].status = "failed"

(* Nobody owns a row before the first start. *)
LEMMA OwnershipInit == Init => Ownership
BY DEF Init, Ownership, SingleOwner

(* Rows appended to the table disturb neither the jobs nor the old rows. *)
LEMMA AppendedRows ==
    ASSUME TypeInv, NEW c \in Seq(Row), rows' = rows \o c
    PROVE  /\ \A i \in DOMAIN rows : i \in DOMAIN rows' /\ rows'[i] = rows[i]
           /\ \A i \in DOMAIN rows' : i \in DOMAIN rows \/
                  \E k \in DOMAIN c : rows'[i] = c[k]
           /\ \A k \in DOMAIN c : \E i \in DOMAIN rows' : rows'[i] = c[k]
<1> DEFINE L == Len(rows)
<1>1. /\ L \in Nat /\ DOMAIN rows = 1..L /\ Len(c) \in Nat /\ DOMAIN c = 1..Len(c)
  BY DEF TypeInv, TypeOK
<1>2. /\ DOMAIN rows' = 1..(L + Len(c))
      /\ \A i \in 1..L : rows'[i] = rows[i]
      /\ \A i \in (L + 1)..(L + Len(c)) : rows'[i] = c[i - L]
  BY <1>1, ConcatProperties DEF TypeInv, TypeOK
<1>3. \A i \in DOMAIN rows' : i \in DOMAIN rows \/ i \in (L + 1)..(L + Len(c))
  BY <1>1, <1>2
<1>4. \A i \in (L + 1)..(L + Len(c)) : i - L \in DOMAIN c
  BY <1>1
<1>5. \A k \in DOMAIN c : k + L \in (L + 1)..(L + Len(c)) /\ k + L \in DOMAIN rows' /\ (k + L) - L = k
  BY <1>1, <1>2
<1>6. \A k \in DOMAIN c : rows'[k + L] = c[k]
  BY <1>2, <1>5
<1> QED  BY <1>1, <1>2, <1>3, <1>4, <1>5, <1>6

(* Fresh rows at the end of the table have no owner. *)
LEMMA OwnershipAppend ==
    ASSUME TypeInv, Ownership, NEW c \in Seq(Row), rows' = rows \o c,
           jobs' = jobs, phase' = phase,
           \A k \in DOMAIN c : c[k].next_retry = "none"
    PROVE  Ownership'
<1>1. SingleOwner'
  BY AppendedRows DEF Ownership, SingleOwner
<1>2. RetryOnlyFailed'
  BY AppendedRows DEF Ownership, RetryOnlyFailed
<1> QED  BY <1>1, <1>2 DEF Ownership, RetryOnlyFailed

(* The rows of a chunk start their life pending, without a retry time. *)
LEMMA ChunkFresh ==
    ASSUME NEW from \in Nat, NEW to \in Nat, NEW n \in Nat
    PROVE  \A k \in DOMAIN Chunk(from, to, n) :
               /\ Chunk(from, to, n)[k].status = "pending"
               /\ Chunk(from, to, n)[k].next_retry = "none"
<1>1. /\ DOMAIN Chunk(from, to, n) = 1..n
      /\ \A k \in 1..n : Chunk(from, to, n)[k] = PendingInterval(from, to, k)
  BY ChunkType DEF Chunk
<1>2. \A k \in 1..n : /\ PendingInterval(from, to, k).status = "pending"
                      /\ PendingInterval(from, to, k).next_retry = "none"
  BY DEF PendingInterval
<1> QED  BY <1>1, <1>2

(* No stream, job, reset or insert hands a row out while a job holds it. *)
LEMMA OwnershipNext == TypeInv /\ TypeInv' /\ Ownership /\ [Next]_vars => Ownership'
<1> SUFFICES ASSUME TypeInv, TypeInv', Ownership, [Next]_vars PROVE Ownership'
  OBVIOUS
<1>0. /\ rows \in Seq(Row) /\ rows' \in Seq(Row)
      /\ \A i \in DOMAIN rows : rows[i] \in Row
      /\ genFrom \in Nat /\ boundary \in Nat /\ realtimeBnd \in Nat
      /\ jobs \subseteq Job
  BY DEF TypeInv, TypeOK
<1>1. CASE \/ UNCHANGED vars \/ Tick \/ (\E o \in Ops : PublishLate(o)) \/ Boot
           \/ GenerateDone \/ RealtimePoll \/ RealtimeInsert
  <2>1. rows' = rows /\ jobs' = jobs /\ (phase' = phase \/ phase # "running")
    BY <1>1 DEF vars, remoteVars, dbVars, memVars, Tick, PublishLate, Boot, LatestStored, GenerateDone,
       RealtimePoll, RealtimeInsert
  <2> QED  BY <2>1 DEF Ownership, SingleOwner
<1>2. CASE GenerateChunk
  <2> PICK n \in 1..DbBatchSize :
         \/ rows' = rows \o Chunk(genFrom, boundary, n)
         \/ UNCHANGED rows
    BY <1>2 DEF GenerateChunk, SetWatermark
  <2>1. n \in Nat
    BY ConstantsAssumption
  <2>2. jobs' = jobs /\ phase' = phase
    BY <1>2 DEF GenerateChunk, SetWatermark
  <2>3. CASE UNCHANGED rows
    BY <2>2, <2>3 DEF Ownership, SingleOwner
  <2>4. CASE rows' = rows \o Chunk(genFrom, boundary, n)
    <3> DEFINE c == Chunk(genFrom, boundary, n)
    <3>1. c \in Seq(Row) /\ \A k \in DOMAIN c : c[k].next_retry = "none"
      <4>1. c \in Seq(Row)
        BY <1>0, <2>1, ChunkType
      <4>2. \A k \in DOMAIN c : c[k].next_retry = "none"
        BY <1>0, <2>1, ChunkFresh
      <4> QED  BY <4>1, <4>2
    <3>2. rows' = rows \o c
      BY <2>4
    <3> HIDE DEF c
    <3> QED  BY <2>2, <3>1, <3>2, OwnershipAppend
  <2> QED  BY <2>3, <2>4
<1>3. CASE ResetAndRun \/ StartFails
  <2>1. jobs = {} /\ jobs' = {}
    BY <1>3 DEF ResetAndRun, StartFails, Ownership
  <2>2. CASE rows' = [i \in DOMAIN rows |-> ResetRow(rows[i])]
    <3>1. \A r \in Row : (r.next_retry = "future" => r.status = "failed")
              => (ResetRow(r).next_retry = "future" => ResetRow(r).status = "failed")
      BY DEF ResetRow, Row
    <3>2. RetryOnlyFailed'
      BY <1>0, <2>2, <3>1 DEF RetryOnlyFailed, Ownership
    <3> QED  BY <2>1, <3>2 DEF Ownership, SingleOwner, RetryOnlyFailed
  <2>3. CASE UNCHANGED rows
    BY <2>1, <2>3 DEF Ownership, SingleOwner
  <2> QED  BY <1>3, <2>2, <2>3 DEF ResetAndRun, StartFails
<1>4. CASE Crash
  BY <1>4 DEF Crash, dbVars, Ownership, SingleOwner
<1>5. CASE RealtimeAdvance
  <2> PICK m \in Maxima({Ts[o] : o \in rt.got}) :
         \/ rows' = Append(rows, CompletedInterval(realtimeBnd, m))
         \/ UNCHANGED rows
    BY <1>5 DEF RealtimeAdvance, SetWatermark
  <2>1. m \in Nat
    BY ConstantsAssumption DEF Maxima, TypeInv, TypeOK
  <2>2. jobs' = jobs /\ phase' = phase
    BY <1>5 DEF RealtimeAdvance, SetWatermark
  <2>3. CASE UNCHANGED rows
    BY <2>2, <2>3 DEF Ownership, SingleOwner
  <2>4. CASE rows' = Append(rows, CompletedInterval(realtimeBnd, m))
    <3> DEFINE c == <<CompletedInterval(realtimeBnd, m)>>
    <3>1. CompletedInterval(realtimeBnd, m) \in Row
      BY <1>0, <2>1 DEF CompletedInterval, Row, Status
    <3>2. c \in Seq(Row) /\ rows' = rows \o c
      BY <1>0, <2>4, <3>1, AppendIsConcat
    <3>3. \A k \in DOMAIN c : c[k].next_retry = "none"
      BY DEF CompletedInterval
    <3> HIDE DEF c
    <3> QED  BY <2>2, <3>2, <3>3, OwnershipAppend
  <2> QED  BY <2>3, <2>4
<1>6. CASE \E s \in Streams : Claim(s)
  <2> PICK s \in Streams : Claim(s)
    BY <1>6
  <2> PICK batch \in SUBSET {i \in DOMAIN rows : Eligible(s, rows[i])} :
         /\ rows' = [i \in DOMAIN rows |->
                        IF i \in batch THEN [rows[i] EXCEPT !.status = "processing"]
                                       ELSE rows[i]]
         /\ jobs' = jobs \cup
              {[id |-> i, src |-> s, pc |-> "buffered", got |-> {}] : i \in batch}
    BY DEF Claim
  <2>1. phase' = phase /\ phase = "running"
    BY DEF Claim
  <2>2. \A i \in batch : /\ i \in DOMAIN rows /\ rows[i].status # "processing"
                         /\ rows[i].next_retry # "future"
    BY DEF Eligible, Streams, Ownership
  <2>3. \A i \in DOMAIN rows : rows'[i].next_retry = rows[i].next_retry
    BY <1>0 DEF Row
  <2>4. \A i \in batch : rows'[i].status = "processing"
    BY <1>0, <2>2 DEF Row
  <2>5. \A i \in DOMAIN rows \ batch : rows'[i] = rows[i]
    OBVIOUS
  <2>6. \A j \in jobs : j.id \notin batch /\ j.id \in DOMAIN rows
    BY <2>2 DEF Ownership, SingleOwner
  <2>7. \A j \in jobs' : j \in jobs \/ j.id \in batch
    OBVIOUS
  <2>8. \A j, k \in jobs' : j.id = k.id => j = k
    <3> SUFFICES ASSUME NEW j \in jobs', NEW k \in jobs', j.id = k.id PROVE j = k
      OBVIOUS
    <3>1. CASE j \in jobs
      <4>1. k \in jobs
        BY <2>6, <2>7, <3>1
      <4> QED  BY <3>1, <4>1 DEF Ownership, SingleOwner
    <3>2. CASE j \notin jobs
      <4>1. k \notin jobs
        BY <2>6, <2>7, <3>2
      <4>2. PICK a \in batch : j = [id |-> a, src |-> s, pc |-> "buffered", got |-> {}]
        BY <3>2
      <4>3. PICK b \in batch : k = [id |-> b, src |-> s, pc |-> "buffered", got |-> {}]
        BY <4>1
      <4> QED  BY <4>2, <4>3
    <3> QED  BY <3>1, <3>2
  <2>9. \A j \in jobs' : j.id \in DOMAIN rows' /\ rows'[j.id].status = "processing"
    BY <2>2, <2>4, <2>5, <2>6, <2>7 DEF Ownership, SingleOwner
  <2>10. RetryOnlyFailed'
    BY <2>2, <2>3, <2>5 DEF RetryOnlyFailed, Ownership
  <2> QED  BY <2>1, <2>8, <2>9, <2>10 DEF Ownership, SingleOwner, RetryOnlyFailed
<1>7. CASE \E j \in jobs : JobStep(j)
  <2> PICK j \in jobs : JobStep(j)
    BY <1>7
  <2>0. j \in Job /\ j.id \in DOMAIN rows /\ rows[j.id] \in Row /\ phase = "running"
    BY <1>0 DEF Ownership, SingleOwner
  <2>1. phase' = phase
    BY DEF JobStep, FetchInterval, StoreInterval, CompleteInterval, FailInterval
  <2>2. CASE FetchInterval(j) \/ StoreInterval(j)
    <3>1. rows' = rows
      BY <2>2 DEF FetchInterval, StoreInterval, dbVars
    <3>2. PICK q : q.id = j.id /\ jobs' = (jobs \ {j}) \cup {q}
      BY <2>0, <2>2 DEF FetchInterval, StoreInterval, Job
    <3>3. SingleOwner'
      BY <3>1, <3>2 DEF Ownership, SingleOwner
    <3> QED  BY <2>0, <2>1, <3>1, <3>3 DEF Ownership
  <2>3. CASE CompleteInterval(j) \/ FailInterval(j)
    <3>1. jobs' = jobs \ {j}
      BY <2>3 DEF CompleteInterval, FailInterval
    <3>2. DOMAIN rows' = DOMAIN rows /\ \A i \in DOMAIN rows : i # j.id => rows'[i] = rows[i]
      BY <1>0, <2>3 DEF CompleteInterval, FailInterval
    <3>3. SingleOwner'
      BY <3>1, <3>2 DEF Ownership, SingleOwner
    <3>4. rows[j.id].next_retry # "future"
      BY <2>0 DEF Ownership, SingleOwner
    <3>5. rows'[j.id].next_retry = "future" => rows'[j.id].status = "failed"
      <4>1. CASE rows' = [rows EXCEPT ![j.id].status = "completed"]
        BY <1>0, <2>0, <3>4, <4>1 DEF Row
      <4>2. CASE rows' = [rows EXCEPT ![j.id].status = "failed", ![j.id].next_retry = "future"]
        BY <1>0, <2>0, <4>2 DEF Row
      <4> QED  BY <2>3, <3>4, <4>1, <4>2 DEF CompleteInterval, FailInterval
    <3>6. RetryOnlyFailed'
      BY <3>2, <3>5 DEF RetryOnlyFailed, Ownership
    <3> QED  BY <2>0, <2>1, <3>3, <3>6 DEF Ownership, RetryOnlyFailed
  <2> QED  BY <2>2, <2>3 DEF JobStep
<1>8. CASE \E i \in DOMAIN rows : RetryDue(i)
  <2> PICK i \in DOMAIN rows : RetryDue(i)
    BY <1>8
  <2>1. rows' = [rows EXCEPT ![i].next_retry = "past"] /\ jobs' = jobs /\ phase' = phase
    BY DEF RetryDue, memVars
  <2>2. /\ DOMAIN rows' = DOMAIN rows
        /\ \A k \in DOMAIN rows : rows'[k].status = rows[k].status
        /\ \A k \in DOMAIN rows : rows'[k].next_retry = "future" => rows[k].next_retry = "future"
    BY <1>0, <2>1 DEF Row
  <2> QED  BY <2>1, <2>2 DEF Ownership, SingleOwner
<1> QED
  BY <1>1, <1>2, <1>3, <1>4, <1>5, <1>6, <1>7, <1>8 DEF Next

(* No step touches a completed row. *)
LEMMA CompletedKept ==
    ASSUME TypeInv, Ownership, [Next]_vars,
           NEW i \in DOMAIN rows, rows[i].status = "completed"
    PROVE  i \in DOMAIN rows' /\ rows'[i] = rows[i]
<1>0. /\ rows \in Seq(Row) /\ rows[i] \in Row
      /\ genFrom \in Nat /\ boundary \in Nat /\ realtimeBnd \in Nat
  BY DEF TypeInv, TypeOK
<1>1. CASE UNCHANGED rows
  BY <1>1
<1>2. CASE GenerateChunk
  <2> PICK n \in 1..DbBatchSize :
         \/ rows' = rows \o Chunk(genFrom, boundary, n)
         \/ UNCHANGED rows
    BY <1>2 DEF GenerateChunk, SetWatermark
  <2>1. Chunk(genFrom, boundary, n) \in Seq(Row)
    BY <1>0, ConstantsAssumption, ChunkType
  <2> QED  BY <1>1, <2>1, AppendedRows
<1>3. CASE rows' = [k \in DOMAIN rows |-> ResetRow(rows[k])]
  BY <1>3 DEF ResetRow
<1>4. CASE RealtimeAdvance
  <2> PICK m : \/ rows' = Append(rows, CompletedInterval(realtimeBnd, m))
               \/ UNCHANGED rows
    BY <1>4 DEF RealtimeAdvance, SetWatermark
  <2> QED  BY <1>0, <1>1
<1>5. CASE \E s \in Streams : Claim(s)
  <2> PICK s \in Streams : Claim(s)
    BY <1>5
  <2>1. PICK batch \in SUBSET {k \in DOMAIN rows : Eligible(s, rows[k])} :
         rows' = [k \in DOMAIN rows |->
                        IF k \in batch THEN [rows[k] EXCEPT !.status = "processing"]
                                       ELSE rows[k]]
    BY DEF Claim
  <2>2. i \notin batch
    BY DEF Eligible, Streams
  <2> QED  BY <2>1, <2>2
<1>6. CASE \E j \in jobs : JobStep(j)
  <2> PICK j \in jobs : JobStep(j)
    BY <1>6
  <2>1. i # j.id
    BY DEF Ownership, SingleOwner
  <2> QED  BY <1>0, <2>1 DEF JobStep, FetchInterval, StoreInterval, CompleteInterval,
              FailInterval, dbVars
<1>7. CASE \E k \in DOMAIN rows : RetryDue(k)
  <2> PICK k \in DOMAIN rows : RetryDue(k)
    BY <1>7
  <2>1. i # k /\ rows' = [rows EXCEPT ![k].next_retry = "past"]
    BY DEF RetryDue, Ownership
  <2> QED  BY <2>1
<1> QED
  BY <1>1, <1>2, <1>3, <1>4, <1>5, <1>6, <1>7 DEF Next, vars, dbVars, Tick, PublishLate,
     Boot, LatestStored, GenerateDone, ResetAndRun, StartFails, Crash, RealtimePoll, RealtimeInsert

(* No claim, retry or reset of start() touches a completed row, whatever    *)
(* faults happen.                                                           *)
THEOREM CompletedRowsFinal == Spec => CompletedIsFinal
<1>1. Init => TypeInv /\ Ownership
  BY TypeInit, OwnershipInit
<1>2. TypeInv /\ Ownership /\ [Next]_vars => (TypeInv /\ Ownership)'
  BY TypeNext, OwnershipNext
<1>3. TypeInv /\ Ownership /\ [Next]_vars =>
        [\A i \in DOMAIN rows : rows[i].status = "completed" =>
             i \in DOMAIN rows' /\ rows'[i] = rows[i]]_vars
  BY CompletedKept
<1> QED  BY <1>1, <1>2, <1>3, PTL DEF Spec, CompletedIsFinal

(* A row handed out by query_intervals is processed by at most one job,     *)
(* whatever faults happen.                                                  *)
THEOREM RowsHaveOneOwner == Spec => []SingleOwner
<1>1. Init => TypeInv /\ Ownership
  BY TypeInit, OwnershipInit
<1>2. TypeInv /\ Ownership /\ [Next]_vars => (TypeInv /\ Ownership)'
  BY TypeNext, OwnershipNext
<1>3. Ownership => SingleOwner
  BY DEF Ownership
<1> QED  BY <1>1, <1>2, <1>3, PTL DEF Spec

-----------------------------------------------------------------------------
(* No row in oblivion *)

(* Row i is processing only if a job holds it. *)
RowHeld(i) == rows[i].status = "processing" => \E j \in jobs : j.id = i

RowsHeld ==
    phase = "running" /\ "retry" \notin faults.kinds => \A i \in DOMAIN rows : RowHeld(i)

(* A failed row has a retry time. *)
Queued ==
    \A i \in DOMAIN rows :
        rows[i].status = "failed" => rows[i].next_retry \in {"future", "past"}

(* A set_interval_retry that failed is never forgotten. *)
LEMMA RetryFaultStays ==
    ASSUME [Next]_vars, "retry" \in faults.kinds
    PROVE  "retry" \in faults'.kinds
<1>1. faults' = faults \/ \E kind : Fault(kind)
  BY DEF Next, JobStep, vars, Tick, PublishLate, Boot, GenerateChunk, GenerateDone, ResetAndRun,
         StartFails, Crash, RealtimePoll, RealtimeInsert, RealtimeAdvance, GetOperations, Claim,
         FetchInterval, StoreInterval, CompleteInterval, FailInterval, RetryDue
<1> QED  BY <1>1 DEF Fault

(* The reset of start() leaves no row processing, and a job leaves its row  *)
(* completed or failed, unless set_interval_retry fails.                    *)
LEMMA HeldNext ==
    ASSUME TypeInv, Ownership, RowsHeld, [Next]_vars
    PROVE  RowsHeld'
<1> SUFFICES ASSUME phase' = "running", "retry" \notin faults'.kinds
             PROVE  \A i \in DOMAIN rows' : RowHeld(i)'
  BY DEF RowsHeld
<1>0. /\ phase = "running" => \A i \in DOMAIN rows : RowHeld(i)
      /\ rows \in Seq(Row)
      /\ \A i \in DOMAIN rows : rows[i] \in Row
      /\ jobs \subseteq Job
      /\ realtimeBnd \in Nat
  BY RetryFaultStays DEF RowsHeld, TypeInv, TypeOK
<1>1. CASE phase = "running" /\ UNCHANGED <<rows, jobs>>
  BY <1>0, <1>1 DEF RowHeld
<1>2. CASE ResetAndRun
  <2>1. DOMAIN rows' = DOMAIN rows /\ \A i \in DOMAIN rows : rows'[i] = ResetRow(rows[i])
    BY <1>2 DEF ResetAndRun
  <2>2. \A i \in DOMAIN rows' : rows'[i].status # "processing"
    BY <1>0, <2>1 DEF ResetRow, Row
  <2> QED  BY <2>2 DEF RowHeld
<1>3. CASE RealtimeAdvance
  <2>1. phase = "running" /\ jobs' = jobs
    BY <1>3 DEF RealtimeAdvance
  <2>2. PICK m \in Maxima({Ts[o] : o \in rt.got}) :
           \/ rows' = Append(rows, CompletedInterval(realtimeBnd, m))
           \/ UNCHANGED rows
    BY <1>3 DEF RealtimeAdvance, SetWatermark
  <2>3. CASE UNCHANGED rows
    BY <1>1, <2>1, <2>3
  <2>4. CASE rows' = Append(rows, CompletedInterval(realtimeBnd, m))
    <3> DEFINE r == CompletedInterval(realtimeBnd, m)
    <3>1. m \in Nat
      BY ConstantsAssumption DEF Maxima, TypeInv, TypeOK
    <3>2. r \in Row /\ r.status = "completed"
      BY <1>0, <3>1 DEF CompletedInterval, Row, Status
    <3> HIDE DEF r
    <3>3. rows' = Append(rows, r)
      BY <2>4 DEF r
    <3>4. \A i \in DOMAIN rows' : rows'[i] = r \/ (i \in DOMAIN rows /\ rows'[i] = rows[i])
      <4>1. /\ Len(rows') = Len(rows) + 1 /\ Len(rows) \in Nat
            /\ DOMAIN rows' = 1..Len(rows') /\ DOMAIN rows = 1..Len(rows)
            /\ \A i \in 1..Len(rows) : rows'[i] = rows[i]
            /\ rows'[Len(rows) + 1] = r
        BY <1>0, <3>2, <3>3
      <4> QED  BY <4>1
    <3> QED  BY <1>0, <2>1, <3>2, <3>4 DEF RowHeld
  <2> QED  BY <2>2, <2>3, <2>4
<1>4. ASSUME NEW s \in Streams, Claim(s) PROVE \A i \in DOMAIN rows' : RowHeld(i)'
  <2>1. PICK batch \in SUBSET {i \in DOMAIN rows : Eligible(s, rows[i])} :
         /\ rows' = [i \in DOMAIN rows |->
                        IF i \in batch THEN [rows[i] EXCEPT !.status = "processing"]
                                       ELSE rows[i]]
         /\ jobs' = jobs \cup
              {[id |-> i, src |-> s, pc |-> "buffered", got |-> {}] : i \in batch}
    BY <1>4 DEF Claim
  <2>2. phase = "running" /\ jobs \subseteq jobs'
    BY <1>4, <2>1 DEF Claim
  <2>3. \A i \in DOMAIN rows' : i \in DOMAIN rows /\ (i \notin batch => rows'[i] = rows[i])
    BY <2>1
  <2>4. ASSUME NEW i \in batch PROVE \E j \in jobs' : j.id = i
    <3>1. [id |-> i, src |-> s, pc |-> "buffered", got |-> {}] \in jobs'
      BY <2>1
    <3> QED  BY <3>1
  <2> QED  BY <1>0, <2>2, <2>3, <2>4 DEF RowHeld
<1>5. ASSUME NEW j \in jobs, FetchInterval(j) \/ StoreInterval(j)
      PROVE  \A i \in DOMAIN rows' : RowHeld(i)'
  <2>1. j \in Job /\ phase = "running"
    BY <1>0 DEF Ownership
  <2>2. rows' = rows
    BY <1>5 DEF FetchInterval, StoreInterval, dbVars
  <2>3. PICK q : q.id = j.id /\ jobs' = (jobs \ {j}) \cup {q}
    BY <1>5, <2>1 DEF FetchInterval, StoreInterval, Job
  <2> QED  BY <1>0, <2>1, <2>2, <2>3 DEF RowHeld
<1>6. ASSUME NEW j \in jobs, CompleteInterval(j) \/ FailInterval(j)
      PROVE  \A i \in DOMAIN rows' : RowHeld(i)'
  <2>1. phase = "running" /\ j.id \in DOMAIN rows
    BY DEF Ownership, SingleOwner
  <2>2. \/ rows' = [rows EXCEPT ![j.id].status = "completed"]
        \/ rows' = [rows EXCEPT ![j.id].status = "failed", ![j.id].next_retry = "future"]
    BY <1>6 DEF CompleteInterval, FailInterval, Fault
  <2>3. DOMAIN rows' = DOMAIN rows /\ \A i \in DOMAIN rows : i # j.id => rows'[i] = rows[i]
    BY <1>0, <2>2
  <2>4. rows'[j.id].status # "processing"
    BY <1>0, <2>1, <2>2 DEF Row
  <2>5. jobs' = jobs \ {j}
    BY <1>6 DEF CompleteInterval, FailInterval
  <2> QED  BY <1>0, <2>1, <2>3, <2>4, <2>5 DEF RowHeld
<1>7. ASSUME NEW k \in DOMAIN rows, RetryDue(k) PROVE \A i \in DOMAIN rows' : RowHeld(i)'
  <2>1. rows' = [rows EXCEPT ![k].next_retry = "past"] /\ jobs' = jobs /\ phase' = phase
    BY <1>7 DEF RetryDue, memVars
  <2>2. DOMAIN rows' = DOMAIN rows /\ \A i \in DOMAIN rows : rows'[i].status = rows[i].status
    BY <1>0, <2>1 DEF Row
  <2> QED  BY <1>0, <2>1, <2>2 DEF RowHeld
<1>8. ~Boot /\ ~GenerateChunk /\ ~GenerateDone /\ ~StartFails /\ ~Crash
  BY DEF Boot, GenerateChunk, GenerateDone, StartFails, Crash
<1>9. UNCHANGED vars \/ Tick \/ (\E o \in Ops : PublishLate(o)) \/ RealtimePoll \/ RealtimeInsert
        => phase = "running" /\ UNCHANGED <<rows, jobs>>
  BY DEF vars, dbVars, memVars, Tick, PublishLate, RealtimePoll, RealtimeInsert
<1> QED
  BY <1>1, <1>2, <1>3, <1>4, <1>5, <1>6, <1>7, <1>8, <1>9 DEF Next, JobStep

(* Rows fail only together with getting a retry time. *)
LEMMA QueuedNext ==
    ASSUME TypeInv, Ownership, Queued, [Next]_vars
    PROVE  Queued'
<1> DEFINE Good(r) == r.status = "failed" => r.next_retry \in {"future", "past"}
<1>0. /\ rows \in Seq(Row)
      /\ \A i \in DOMAIN rows : rows[i] \in Row /\ Good(rows[i])
      /\ genFrom \in Nat /\ boundary \in Nat /\ realtimeBnd \in Nat
  BY DEF TypeInv, TypeOK, Queued
<1> SUFFICES \A i \in DOMAIN rows' : Good(rows'[i])
  BY DEF Queued
<1>1. CASE UNCHANGED rows
  BY <1>0, <1>1
<1>2. ASSUME NEW c \in Seq(Row), rows' = rows \o c, \A k \in DOMAIN c : c[k].status # "failed"
      PROVE  \A i \in DOMAIN rows' : Good(rows'[i])
  BY <1>0, <1>2, AppendedRows
<1>3. CASE GenerateChunk
  <2>1. PICK n \in 1..DbBatchSize :
         \/ rows' = rows \o Chunk(genFrom, boundary, n)
         \/ UNCHANGED rows
    BY <1>3 DEF GenerateChunk, SetWatermark
  <2> DEFINE c == Chunk(genFrom, boundary, n)
  <2>2. n \in Nat
    BY ConstantsAssumption
  <2>3. c \in Seq(Row)
    BY <1>0, <2>2, ChunkType
  <2>4. \A k \in DOMAIN c : c[k].status # "failed"
    BY <1>0, <2>2, ChunkFresh
  <2> HIDE DEF c
  <2>5. rows' = rows \o c \/ UNCHANGED rows
    BY <2>1 DEF c
  <2> QED  BY <1>1, <1>2, <2>3, <2>4, <2>5
<1>4. CASE RealtimeAdvance
  <2>1. PICK m \in Maxima({Ts[o] : o \in rt.got}) :
           \/ rows' = Append(rows, CompletedInterval(realtimeBnd, m))
           \/ UNCHANGED rows
    BY <1>4 DEF RealtimeAdvance, SetWatermark
  <2> DEFINE r == CompletedInterval(realtimeBnd, m)
  <2>2. m \in Nat
    BY ConstantsAssumption DEF Maxima, TypeInv, TypeOK
  <2>3. r \in Row /\ r.status = "completed"
    BY <1>0, <2>2 DEF CompletedInterval, Row, Status
  <2> HIDE DEF r
  <2>4. rows' = rows \o <<r>> \/ UNCHANGED rows
    BY <1>0, <2>1, <2>3, AppendIsConcat DEF r
  <2>5. <<r>> \in Seq(Row) /\ \A k \in DOMAIN <<r>> : <<r>>[k].status # "failed"
    BY <2>3
  <2> QED  BY <1>1, <1>2, <2>4, <2>5
<1>5. CASE rows' = [i \in DOMAIN rows |-> ResetRow(rows[i])]
  <2>1. ASSUME NEW i \in DOMAIN rows' PROVE Good(rows'[i])
    <3>1. i \in DOMAIN rows /\ rows'[i] = ResetRow(rows[i])
      BY <1>5
    <3> QED  BY <1>0, <3>1 DEF ResetRow, Row
  <2> QED  BY <2>1
<1>6. ASSUME NEW s \in Streams, Claim(s) PROVE \A i \in DOMAIN rows' : Good(rows'[i])
  <2>1. PICK batch \in SUBSET {i \in DOMAIN rows : Eligible(s, rows[i])} :
         rows' = [i \in DOMAIN rows |->
                        IF i \in batch THEN [rows[i] EXCEPT !.status = "processing"]
                                       ELSE rows[i]]
    BY <1>6 DEF Claim
  <2>2. ASSUME NEW i \in DOMAIN rows' PROVE Good(rows'[i])
    BY <1>0, <2>1 DEF Row
  <2> QED  BY <2>2
<1>7. ASSUME NEW j \in jobs, CompleteInterval(j) \/ FailInterval(j)
      PROVE  \A i \in DOMAIN rows' : Good(rows'[i])
  <2>1. j.id \in DOMAIN rows
    BY DEF Ownership, SingleOwner
  <2>2. CASE rows' = [rows EXCEPT ![j.id].status = "completed"]
    BY <1>0, <2>1, <2>2 DEF Row
  <2>3. CASE rows' = [rows EXCEPT ![j.id].status = "failed", ![j.id].next_retry = "future"]
    BY <1>0, <2>1, <2>3 DEF Row
  <2> QED  BY <1>1, <1>7, <2>2, <2>3 DEF CompleteInterval, FailInterval
<1>8. ASSUME NEW k \in DOMAIN rows, RetryDue(k) PROVE \A i \in DOMAIN rows' : Good(rows'[i])
  BY <1>0, <1>8 DEF RetryDue, Row
<1>9. \A j \in jobs : FetchInterval(j) \/ StoreInterval(j) => UNCHANGED rows
  BY DEF FetchInterval, StoreInterval, dbVars
<1>10. \A o \in Ops : PublishLate(o) => UNCHANGED rows
  BY DEF PublishLate, dbVars
<1>11. UNCHANGED vars \/ Tick \/ Boot \/ GenerateDone \/ Crash \/ RealtimePoll \/ RealtimeInsert
         => UNCHANGED rows
  BY DEF vars, dbVars, Tick, Boot, LatestStored, GenerateDone, Crash, RealtimePoll, RealtimeInsert
<1>12. ResetAndRun \/ StartFails =>
         UNCHANGED rows \/ rows' = [i \in DOMAIN rows |-> ResetRow(rows[i])]
  BY DEF ResetAndRun, StartFails
<1> HIDE DEF Good
<1> QED
  BY <1>1, <1>3, <1>4, <1>5, <1>6, <1>7, <1>8, <1>9, <1>10, <1>11, <1>12 DEF Next, JobStep

(* The WHERE clauses leave out only a pending row around the boundary, and  *)
(* rows that do not overlap cannot both lie around it.                      *)
LEMMA NobodyBetween ==
    ASSUME TypeInv, Timeline, RowsHeld, Queued
    PROVE  NoOblivion
<1> SUFFICES ASSUME phase = "running", "retry" \notin faults.kinds
             PROVE  /\ \A i \in DOMAIN rows :
                         \/ rows[i].status = "completed"
                         \/ rows[i].status = "pending" /\ Straddles(rows[i])
                         \/ Attended(i)
                    /\ \A i, k \in DOMAIN rows :
                         Straddles(rows[i]) /\ Straddles(rows[k]) => i = k
  BY DEF NoOblivion
<1>0. /\ \A i \in DOMAIN rows : /\ i \in Nat /\ rows[i].start \in Nat
                                /\ rows[i].finish \in Nat /\ rows[i].status \in Status
      /\ boundary \in Nat
  <2>1. rows \in Seq(Row) /\ boundary \in Nat
    BY DEF TypeInv, TypeOK
  <2>2. \A i \in DOMAIN rows : i \in Nat /\ rows[i] \in Row
    BY <2>1
  <2> QED  BY <2>1, <2>2 DEF Row
<1>1. ASSUME NEW i \in DOMAIN rows
      PROVE  \/ rows[i].status = "completed"
             \/ rows[i].status = "pending" /\ Straddles(rows[i])
             \/ Attended(i)
  <2>1. CASE rows[i].status = "processing"
    BY <2>1 DEF RowsHeld, RowHeld, Attended
  <2>2. CASE rows[i].status = "failed"
    <3>1. rows[i].next_retry = "past" => Eligible("retry", rows[i])
      BY <2>2 DEF Eligible
    <3>2. rows[i].next_retry \in {"future", "past"}
      BY <2>2 DEF Queued
    <3> QED  BY <2>2, <3>1, <3>2 DEF Attended, Streams
  <2>3. CASE rows[i].status = "pending"
    <3>1. CASE rows[i].start >= boundary
      <4>1. Eligible("realtime", rows[i])
        BY <2>3, <3>1 DEF Eligible
      <4> QED  BY <4>1 DEF Attended, Streams
    <3>2. CASE rows[i].finish < boundary
      <4>1. Eligible("histLatest", rows[i])
        BY <2>3, <3>2 DEF Eligible
      <4> QED  BY <4>1 DEF Attended, Streams
    <3> QED  BY <1>0, <2>3, <3>1, <3>2 DEF Straddles
  <2> QED  BY <1>0, <2>1, <2>2, <2>3 DEF Status
<1>2. ASSUME NEW i \in DOMAIN rows, NEW k \in DOMAIN rows,
             Straddles(rows[i]), Straddles(rows[k])
      PROVE  i = k
  <2>1. \A a, b \in DOMAIN rows : a < b => rows[a].finish <= rows[b].start
    BY DEF Timeline, RowsDisjoint
  <2>2. ~(i < k) /\ ~(k < i)
    BY <1>0, <1>2, <2>1 DEF Straddles
  <2> QED  BY <1>0, <2>2
<1> QED  BY <1>1, <1>2

(* While the streams run, every unfinished interval is held by a job,       *)
(* selected by one of the query_intervals statements, or waits for its      *)
(* retry time, through crashes, restarts and failed statements; with the    *)
(* exception of at most one pending row around the boundary, and unless     *)
(* set_interval_retry itself has failed.                                    *)
THEOREM NoRowForgotten == Spec => []NoOblivion
<1> DEFINE Inv == TypeInv /\ Timeline /\ Ownership /\ RowsHeld /\ Queued
<1>1. Init => Inv
  BY TypeInit, TimelineInit, OwnershipInit DEF Init, RowsHeld, Queued
<1>2. Inv /\ [Next]_vars => Inv'
  BY TypeNext, TimelineNext, OwnershipNext, HeldNext, QueuedNext
<1>3. Inv => NoOblivion
  BY NobodyBetween
<1> HIDE DEF Inv
<1> QED  BY <1>1, <1>2, <1>3, PTL DEF Spec

-----------------------------------------------------------------------------
(* Coverage: no operation is lost *)

(* The log of faults only grows, so a truthful past stays one. *)
LEMMA TruthfulBefore ==
    ASSUME TypeInv, [Next]_vars, Truthful'
    PROVE  Truthful
<1>1. \A kind : Fault(kind) => faults.kinds \subseteq faults'.kinds
  BY DEF Fault
<1>2. \A from, till, got : GetOperations(from, till, got) => faults.kinds \subseteq faults'.kinds
  BY <1>1 DEF GetOperations
<1>3. faults.kinds \subseteq faults'.kinds
  BY <1>1, <1>2 DEF Next, vars, Tick, PublishLate, Boot, GenerateChunk, GenerateDone,
     ResetAndRun, StartFails, Crash, RealtimePoll, RealtimeInsert, RealtimeAdvance, Claim,
     JobStep, FetchInterval, StoreInterval, CompleteInterval, FailInterval, RetryDue
<1> QED  BY <1>3 DEF Truthful

(* Rows keep their windows, and what was not completed still is not. *)
KeepOwing ==
    \A i \in DOMAIN rows :
        /\ i \in DOMAIN rows'
        /\ rows'[i].start = rows[i].start /\ rows'[i].finish = rows[i].finish
        /\ rows[i].status # "completed" => rows'[i].status # "completed"

(* Storing more, with every debt kept, keeps an operation accounted for. *)
LEMMA AccountedKept ==
    ASSUME stored \subseteq stored', KeepOwing, NEW o \in Ops, Accounted(o)
    PROVE  Accounted(o)'
BY DEF KeepOwing, Accounted, Owes, InWindow

(* When nothing new is passed and every account is kept, nothing is lost. *)
LEMMA LostKept ==
    ASSUME Lossless, KeepOwing, stored \subseteq stored', visible' \subseteq Ops,
           \A o \in visible' \ Late : Passed(o)' => o \in visible /\ Passed(o)
    PROVE  Lossless'
<1> SUFFICES ASSUME NEW o \in visible' \ Late, Passed(o)' PROVE Accounted(o)'
  BY DEF Lossless
<1>1. o \in visible \ Late /\ Passed(o) /\ o \in Ops
  OBVIOUS
<1>2. Accounted(o)
  BY <1>1 DEF Lossless
<1> QED  BY <1>1, <1>2, AccountedKept

(* With unchanged rows, jobs keep what they know. *)
LEMMA JobKnowledgeKept ==
    ASSUME TypeOK, SingleOwner, JobKnowledge, KeepOwing, visible \subseteq visible',
           stored \subseteq stored', jobs' \subseteq jobs
    PROVE  JobKnowledge'
BY DEF SingleOwner, JobKnowledge, KeepOwing, InWindow

(* Without the two false answers, get_operations returns its window. *)
LEMMA TruthfulAnswer ==
    ASSUME Truthful', NEW from, NEW till, NEW got, GetOperations(from, till, got)
    PROVE  got = Window(from, till) /\ faults' = faults
BY DEF Truthful, GetOperations, Fault

(* Nothing is passed, so nothing is lost, at the first deployment. *)
LEMMA CoverageInit == Init => Coverage
<1> SUFFICES ASSUME Init PROVE Coverage
  OBVIOUS
<1>1. Knowledge
  BY ConstantsAssumption DEF Init, Knowledge
<1>2. RealtimeKnowledge /\ JobKnowledge
  BY DEF Init, RealtimeKnowledge, JobKnowledge, NoAnswer
<1>3. Lossless
  BY ConstantsAssumption DEF Init, Lossless, Passed
<1> QED  BY <1>1, <1>2, <1>3 DEF Coverage

(* The steps that neither insert rows nor belong to a job. *)
LEMMA CoverageQuiet ==
    ASSUME Truthful', TypeInv, TypeInv', Timeline, Ownership, Coverage,
           \/ Tick \/ (\E o \in Ops : PublishLate(o)) \/ Boot \/ GenerateDone
           \/ ResetAndRun \/ StartFails \/ Crash \/ UNCHANGED vars
           \/ \E i \in DOMAIN rows : RetryDue(i)
    PROVE  Coverage'
<1> USE ConstantsAssumption
<1>0. /\ now \in Nat /\ watermark \in Nat /\ boundary \in Nat /\ realtimeBnd \in Nat
      /\ rows \in Seq(Row) /\ \A i \in DOMAIN rows : rows[i] \in Row
      /\ visible \subseteq Ops /\ visible' \subseteq Ops /\ stored \subseteq Ops
      /\ Ts \in [Ops -> Nat]
  BY DEF TypeInv, TypeOK
<1>1. KeepOwing
  <2>1. CASE UNCHANGED rows
    BY <2>1 DEF KeepOwing
  <2>2. CASE rows' = [i \in DOMAIN rows |-> ResetRow(rows[i])]
    <3>1. \A r \in Row : /\ ResetRow(r).start = r.start /\ ResetRow(r).finish = r.finish
                         /\ r.status # "completed" => ResetRow(r).status # "completed"
      BY DEF ResetRow, Row
    <3> QED  BY <1>0, <2>2, <3>1 DEF KeepOwing
  <2>3. CASE \E i \in DOMAIN rows : RetryDue(i)
    <3> PICK i \in DOMAIN rows : RetryDue(i)
      BY <2>3
    <3>1. rows' = [rows EXCEPT ![i].next_retry = "past"]
      BY DEF RetryDue
    <3> QED  BY <1>0, <3>1 DEF KeepOwing, Row
  <2> QED  BY <2>1, <2>2, <2>3 DEF Tick, PublishLate, Boot, LatestStored, GenerateDone, ResetAndRun,
              StartFails, Crash, vars, dbVars
<1>2. /\ stored' = stored /\ watermark' = watermark /\ visible \subseteq visible'
      /\ jobs' \subseteq jobs
  BY DEF Tick, PublishLate, Boot, LatestStored, GenerateDone, ResetAndRun,
         StartFails, Crash, RetryDue, vars, remoteVars, dbVars, memVars
<1>3. JobKnowledge'
  BY <1>1, <1>2, JobKnowledgeKept DEF TypeInv, Ownership, Coverage
<1>4. RealtimeKnowledge'
  <2>1. CASE rt' = rt /\ realtimeBnd' = realtimeBnd
    BY <1>2, <2>1 DEF Coverage, RealtimeKnowledge
  <2>2. CASE rt' = NoAnswer
    BY <2>2 DEF RealtimeKnowledge, NoAnswer
  <2>3. CASE ResetAndRun
    <3>1. rt' = NoAnswer
      BY <2>3 DEF ResetAndRun, Coverage, Knowledge
    <3> QED  BY <2>2, <3>1
  <2> QED  BY <2>1, <2>2, <2>3 DEF Tick, PublishLate, Boot, LatestStored, GenerateDone,
         StartFails, Crash, RetryDue, vars, remoteVars, memVars
<1>5. Lossless' /\ Knowledge'
  <2>1. CASE Tick
    <3>1. /\ now' = now + 1
          /\ visible' = visible \cup {o \in Ops \ Late : Ts[o] = now + 1}
          /\ UNCHANGED <<dbVars, memVars>>
      BY <2>1 DEF Tick
    <3>2. Knowledge
      BY DEF Coverage
    <3>3. Knowledge'
      BY <1>0, <3>1, <3>2 DEF Knowledge, dbVars, memVars
    <3>4. \A o \in visible' \ Late : Passed(o)' => o \in visible /\ Passed(o)
      BY <1>0, <3>1, <3>2 DEF Knowledge, Passed, dbVars, memVars
    <3> QED  BY <1>0, <1>1, <1>2, <3>3, <3>4, LostKept DEF Coverage
  <2>2. CASE \E o \in Ops : PublishLate(o)
    <3>1. PICK o \in Late : /\ Ts[o] <= now /\ visible' = visible \cup {o}
                            /\ UNCHANGED <<now, dbVars, memVars>>
      BY <2>2 DEF PublishLate
    <3>2. Knowledge'
      BY <1>0, <3>1 DEF Coverage, Knowledge, dbVars, memVars
    <3>3. \A q \in visible' \ Late : Passed(q)' => q \in visible /\ Passed(q)
      BY <3>1 DEF Passed, dbVars, memVars
    <3> QED  BY <1>0, <1>1, <1>2, <3>2, <3>3, LostKept DEF Coverage
  <2>3. CASE Boot
    <3>1. /\ UNCHANGED <<now, visible, stored, watermark, rt>> /\ phase' = "generate"
          /\ phase = "down" /\ genFrom' = watermark
      BY <1>0, <2>3 DEF Boot, LatestStored, GenerateFrom, Larger, Timeline, remoteVars, dbVars
    <3>2. boundary' <= now
      <4>1. \A m \in Maxima({0} \cup {Ts[o] : o \in stored}) : m \in Nat /\ m <= now
        BY <1>0 DEF Maxima, Coverage, Knowledge
      <4>2. RealtimeLag <= now /\ RealtimeLag \in Nat
        BY DEF TypeInv
      <4>3. \/ boundary' = now - RealtimeLag
            \/ \E m \in Maxima({0} \cup {Ts[o] : o \in stored}) :
                   boundary' = Larger(now - RealtimeLag, m)
        BY <2>3 DEF Boot, LatestStored
      <4>4. CASE boundary' = now - RealtimeLag
        BY <1>0, <4>2, <4>4
      <4>5. ASSUME NEW m \in Maxima({0} \cup {Ts[o] : o \in stored}),
                   boundary' = Larger(now - RealtimeLag, m)
            PROVE  boundary' <= now
        <5>1. m \in Nat /\ m <= now
          BY <4>1
        <5> QED  BY <1>0, <4>2, <4>5, <5>1 DEF Larger
      <4> QED  BY <4>3, <4>4, <4>5
    <3>3. Knowledge'
      BY <1>0, <3>1, <3>2 DEF Coverage, Knowledge
    <3>4. \A o \in visible' \ Late : Passed(o)' => o \in visible /\ Passed(o)
      BY <3>1 DEF Passed
    <3> QED  BY <1>0, <1>1, <1>2, <3>3, <3>4, LostKept DEF Coverage
  <2>4. CASE ResetAndRun
    <3>1. /\ UNCHANGED <<now, visible, stored, watermark, boundary, rt>> /\ phase' = "running"
          /\ realtimeBnd' = watermark
      BY <2>4 DEF ResetAndRun, remoteVars
    <3>2. Knowledge'
      BY <1>0, <3>1 DEF Coverage, Knowledge
    <3>3. \A o \in visible' \ Late : Passed(o)' => o \in visible /\ Passed(o)
      BY <1>0, <3>1 DEF Passed
    <3> QED  BY <1>0, <1>1, <1>2, <3>2, <3>3, LostKept DEF Coverage
  <2>5. CASE StartFails \/ Crash \/ GenerateDone
    <3>1. /\ UNCHANGED <<now, visible, stored, watermark, boundary>>
          /\ phase' \in {"dead", "down", "reset"} /\ rt' = NoAnswer
      BY <2>5 DEF StartFails, Crash, GenerateDone, remoteVars, dbVars, Coverage, Knowledge
    <3>2. Knowledge'
      BY <1>0, <3>1 DEF Coverage, Knowledge
    <3>3. \A o \in visible' \ Late : Passed(o)' => o \in visible /\ Passed(o)
      BY <1>0, <3>1 DEF Passed
    <3> QED  BY <1>0, <1>1, <1>2, <3>2, <3>3, LostKept DEF Coverage
  <2>6. CASE UNCHANGED vars \/ \E i \in DOMAIN rows : RetryDue(i)
    <3>1. UNCHANGED <<now, visible, stored, watermark, memVars>>
      BY <2>6 DEF vars, RetryDue, remoteVars, dbVars
    <3>2. Knowledge'
      BY <3>1 DEF Coverage, Knowledge, memVars
    <3>3. \A o \in visible' \ Late : Passed(o)' => o \in visible /\ Passed(o)
      BY <1>0, <3>1 DEF Passed, memVars
    <3> QED  BY <1>0, <1>1, <1>2, <3>2, <3>3, LostKept DEF Coverage
  <2> QED  BY <2>1, <2>2, <2>3, <2>4, <2>5, <2>6
<1> QED  BY <1>3, <1>4, <1>5 DEF Coverage

(* A chunk brings the watermark forward, and rows that owe what lies between. *)
LEMMA CoverageChunk ==
    ASSUME Truthful', TypeInv, TypeInv', Timeline, Ownership, Coverage, GenerateChunk
    PROVE  Coverage'
<1> USE ConstantsAssumption
<1>0. /\ now \in Nat /\ watermark \in Nat /\ boundary \in Nat /\ genFrom \in Nat
      /\ rows \in Seq(Row) /\ visible \subseteq Ops /\ stored \subseteq Ops
      /\ Ts \in [Ops -> Nat]
  BY DEF TypeInv, TypeOK
<1>1. PICK n \in 1..DbBatchSize :
         /\ IsChunkLength(genFrom, boundary, n)
         /\ genFrom' = Smaller(StepBy(genFrom, n + 1), boundary)
         /\ rows' = rows \o Chunk(genFrom, boundary, n)
         /\ watermark' = Smaller(StepBy(genFrom, n + 1), boundary)
  <2>1. ~Fault("silent")
    BY DEF Fault, Truthful
  <2> QED  BY <2>1 DEF GenerateChunk, SetWatermark
<1>2. /\ UNCHANGED <<now, visible, stored, boundary, rt, realtimeBnd, jobs, phase>>
      /\ phase = "generate" /\ genFrom < boundary /\ genFrom = watermark
  BY DEF GenerateChunk, SetWatermark, remoteVars, Coverage, Knowledge
<1> DEFINE c == Chunk(genFrom, boundary, n)
<1>3. n \in Nat
  OBVIOUS
<1>4. /\ c \in Seq(Row) /\ Len(c) = n
      /\ \A k \in DOMAIN c : c[k].status = "pending"
  <2>1. c \in Seq(Row) /\ Len(c) = n
    BY <1>0, <1>3, ChunkType
  <2>2. \A k \in DOMAIN c : c[k].status = "pending"
    BY <1>0, <1>3, ChunkFresh
  <2> QED  BY <2>1, <2>2
<1>5. /\ watermark' \in Nat /\ watermark < watermark' /\ watermark' <= boundary
      /\ \A t \in Nat : watermark < t /\ t <= watermark' =>
             \E k \in 1..n : c[k].start < t /\ t <= c[k].finish
  BY <1>0, <1>1, <1>2, ChunkWindows
<1> HIDE DEF c
<1>6. /\ \A i \in DOMAIN rows : i \in DOMAIN rows' /\ rows'[i] = rows[i]
      /\ \A k \in DOMAIN c : \E i \in DOMAIN rows' : rows'[i] = c[k]
  BY <1>1, <1>4, AppendedRows DEF c
<1>7. KeepOwing
  BY <1>6 DEF KeepOwing
<1>8. Knowledge'
  BY <1>0, <1>1, <1>2, <1>5 DEF Coverage, Knowledge
<1>9. RealtimeKnowledge' /\ JobKnowledge'
  <2>1. jobs = {}
    BY <1>2 DEF Ownership
  <2> QED  BY <1>2, <2>1 DEF Coverage, RealtimeKnowledge, JobKnowledge
<1>10. Lossless'
  <2> SUFFICES ASSUME NEW o \in visible' \ Late, Passed(o)' PROVE Accounted(o)'
    BY DEF Lossless
  <2>1. o \in Ops /\ o \in visible \ Late /\ Ts[o] \in Nat
    BY <1>0, <1>2
  <2>2. StartTimestamp < Ts[o] /\ Ts[o] <= watermark'
    BY <1>2 DEF Passed
  <2>3. CASE Ts[o] <= watermark
    <3>1. Passed(o)
      BY <2>2, <2>3 DEF Passed
    <3>2. Accounted(o)
      BY <2>1, <3>1 DEF Coverage, Lossless
    <3> QED  BY <1>2, <1>7, <2>1, <3>2, AccountedKept
  <2>4. CASE watermark < Ts[o]
    <3>1. PICK k \in 1..n : c[k].start < Ts[o] /\ Ts[o] <= c[k].finish
      BY <1>5, <2>1, <2>2, <2>4
    <3>2. k \in DOMAIN c
      BY <1>4
    <3>3. PICK i \in DOMAIN rows' : rows'[i] = c[k]
      BY <1>6, <3>2
    <3>4. rows'[i].status = "pending" /\ rows'[i].start < Ts[o] /\ Ts[o] <= rows'[i].finish
      BY <1>4, <3>1, <3>2, <3>3
    <3> QED  BY <3>4 DEF Accounted, Owes, InWindow
  <2> QED  BY <1>0, <2>1, <2>3, <2>4
<1> QED  BY <1>8, <1>9, <1>10 DEF Coverage

(* The realtime thread only passes over operations it has stored. *)
LEMMA CoverageRealtime ==
    ASSUME Truthful', TypeInv, TypeInv', Timeline, Ownership, Coverage,
           RealtimePoll \/ RealtimeInsert \/ RealtimeAdvance
    PROVE  Coverage'
<1> USE ConstantsAssumption
<1>0. /\ now \in Nat /\ watermark \in Nat /\ boundary \in Nat /\ realtimeBnd \in Nat
      /\ rows \in Seq(Row) /\ visible \subseteq Ops /\ stored \subseteq Ops
      /\ Ts \in [Ops -> Nat] /\ rt.got \subseteq Ops
  BY DEF TypeInv, TypeOK
<1>1. CASE RealtimePoll
  <2>1. PICK got \in SUBSET visible :
           /\ GetOperations(realtimeBnd, now, got)
           /\ rt' = IF got = {} THEN NoAnswer ELSE [pc |-> "fetched", got |-> got]
    BY <1>1 DEF RealtimePoll
  <2>2. got = Window(realtimeBnd, now)
    BY <2>1, TruthfulAnswer
  <2>3. UNCHANGED <<now, visible, rows, watermark, stored, phase, boundary, genFrom, realtimeBnd, jobs>>
        /\ phase = "running"
    BY <1>1 DEF RealtimePoll, remoteVars, dbVars
  <2>4. rt'.got \subseteq got /\ rt'.pc # "inserted"
    BY <2>1 DEF NoAnswer
  <2>5. \A o \in Ops \ Late, g \in rt'.got :
           realtimeBnd <= Ts[o] /\ Ts[o] <= Ts[g] => o \in got
    <3> SUFFICES ASSUME NEW o \in Ops \ Late, NEW g \in rt'.got,
                        realtimeBnd <= Ts[o], Ts[o] <= Ts[g]
                 PROVE  o \in got
      OBVIOUS
    <3>1. g \in visible /\ Ts[g] <= now /\ Ts[g] \in Nat /\ Ts[o] \in Nat
      BY <1>0, <2>2, <2>4 DEF Window
    <3>2. Ts[o] <= now
      BY <1>0, <3>1
    <3>3. o \in visible
      BY <3>2 DEF Coverage, Knowledge
    <3> QED  BY <2>2, <3>2, <3>3 DEF Window
  <2>6. RealtimeKnowledge'
    <3>1. CASE got = {}
      BY <2>1, <3>1 DEF RealtimeKnowledge, NoAnswer
    <3>2. CASE got # {}
      <4>1. rt'.got = got
        BY <2>1, <3>2
      <4> QED  BY <2>3, <2>4, <2>5, <4>1 DEF RealtimeKnowledge
    <3> QED  BY <3>1, <3>2
  <2>7. Knowledge' /\ JobKnowledge' /\ Lossless'
    BY <2>3 DEF Coverage, Knowledge, JobKnowledge, Lossless, Passed, Accounted,
                Owes, InWindow
  <2> QED  BY <2>6, <2>7 DEF Coverage
<1>2. CASE RealtimeInsert
  <2>1. /\ UNCHANGED <<now, visible, rows, watermark, phase, boundary, genFrom, realtimeBnd, jobs>>
        /\ phase = "running"
        /\ \/ stored' = stored \cup rt.got /\ rt' = [rt EXCEPT !.pc = "inserted"]
           \/ stored' = stored /\ rt' = NoAnswer
    BY <1>2 DEF RealtimeInsert, remoteVars
  <2>2. KeepOwing
    BY <2>1 DEF KeepOwing
  <2>3. stored \subseteq stored' /\ stored' \subseteq visible
    BY <2>1 DEF Coverage, Knowledge, RealtimeKnowledge
  <2>4. Knowledge'
    BY <2>1, <2>3 DEF Coverage, Knowledge
  <2>5. JobKnowledge'
    BY <2>1, <2>2, <2>3, JobKnowledgeKept DEF TypeInv, Ownership, Coverage
  <2>6. RealtimeKnowledge'
    <3>1. CASE rt' = NoAnswer
      BY <3>1 DEF RealtimeKnowledge, NoAnswer
    <3>2. CASE stored' = stored \cup rt.got /\ rt' = [rt EXCEPT !.pc = "inserted"]
      <4>1. rt'.got = rt.got /\ rt.pc = "fetched"
        BY <1>2, <3>2 DEF RealtimeInsert, TypeInv, TypeOK
      <4> QED  BY <2>1, <3>2, <4>1 DEF Coverage, RealtimeKnowledge
    <3> QED  BY <2>1, <3>1, <3>2
  <2>7. \A o \in visible' \ Late : Passed(o)' => o \in visible /\ Passed(o)
    BY <2>1 DEF Passed
  <2>8. Lossless'
    BY <1>0, <2>1, <2>2, <2>3, <2>7, LostKept DEF Coverage
  <2> QED  BY <2>4, <2>5, <2>6, <2>8 DEF Coverage
<1>3. CASE RealtimeAdvance
  <2>1. PICK m \in Maxima({Ts[o] : o \in rt.got}) :
         \/ /\ m > realtimeBnd
            /\ realtimeBnd' = m + 1
            /\ \/ /\ rows' = Append(rows, CompletedInterval(realtimeBnd, m))
                  /\ watermark' = m
               \/ UNCHANGED <<rows, watermark>>
         \/ m <= realtimeBnd /\ UNCHANGED <<rows, watermark, realtimeBnd>>
    BY <1>3 DEF RealtimeAdvance, SetWatermark
  <2>2. /\ UNCHANGED <<now, visible, stored, phase, boundary, genFrom, jobs>>
        /\ phase = "running" /\ rt.pc = "inserted" /\ rt' = NoAnswer
    BY <1>3 DEF RealtimeAdvance, SetWatermark, remoteVars
  <2>3. PICK g \in rt.got : m = Ts[g]
    BY <2>1 DEF Maxima
  <2>4. m \in Nat /\ m <= now
    BY <1>0, <2>3 DEF Coverage, Knowledge, RealtimeKnowledge
  <2>5. KeepOwing
    <3>1. CASE UNCHANGED rows
      BY <3>1 DEF KeepOwing
    <3>2. CASE rows' = Append(rows, CompletedInterval(realtimeBnd, m))
      BY <1>0, <3>2 DEF KeepOwing
    <3> QED  BY <2>1, <3>1, <3>2
  <2>6. Knowledge'
    BY <1>0, <2>1, <2>2, <2>4 DEF Coverage, Knowledge
  <2>7. RealtimeKnowledge'
    BY <2>2 DEF RealtimeKnowledge, NoAnswer
  <2>8. JobKnowledge'
    BY <2>2, <2>5, JobKnowledgeKept DEF TypeInv, Ownership, Coverage
  <2>9. Lossless'
    <3> SUFFICES ASSUME NEW o \in visible' \ Late, Passed(o)' PROVE Accounted(o)'
      BY DEF Lossless
    <3>1. o \in Ops /\ o \in visible \ Late /\ Ts[o] \in Nat /\ StartTimestamp < Ts[o]
      BY <1>0, <2>2 DEF Passed
    <3>2. CASE Passed(o)
      <4>1. Accounted(o)
        BY <3>1, <3>2 DEF Coverage, Lossless
      <4> QED  BY <2>2, <2>5, <3>1, <4>1, AccountedKept
    <3>3. CASE ~Passed(o)
      <4>1. realtimeBnd <= Ts[o]
        BY <1>0, <2>2, <3>1, <3>3 DEF Passed
      <4>2. Ts[o] <= m
        BY <1>0, <2>1, <2>2, <2>4, <3>1, <3>3 DEF Passed
      <4>3. o \in rt.got
        BY <2>2, <2>3, <3>1, <4>1, <4>2 DEF Coverage, RealtimeKnowledge
      <4>4. o \in stored'
        BY <2>2, <4>3 DEF Coverage, RealtimeKnowledge
      <4> QED  BY <4>4 DEF Accounted
    <3> QED  BY <3>2, <3>3
  <2> QED  BY <2>6, <2>7, <2>8, <2>9 DEF Coverage
<1> QED  BY <1>1, <1>2, <1>3

(* A row is completed only when all its window has been stored. *)
LEMMA CoverageJobs ==
    ASSUME Truthful', TypeInv, TypeInv', Timeline, Ownership, Coverage,
           (\E s \in Streams : Claim(s)) \/ (\E j \in jobs : JobStep(j))
    PROVE  Coverage'
<1> USE ConstantsAssumption
<1>0. /\ now \in Nat /\ watermark \in Nat /\ boundary \in Nat /\ realtimeBnd \in Nat
      /\ rows \in Seq(Row) /\ \A i \in DOMAIN rows : rows[i] \in Row
      /\ visible \subseteq Ops /\ stored \subseteq Ops /\ jobs \subseteq Job
      /\ Ts \in [Ops -> Nat]
  BY DEF TypeInv, TypeOK
<1>1. CASE \E s \in Streams : Claim(s)
  <2> PICK s \in Streams : Claim(s)
    BY <1>1
  <2>1. PICK batch \in SUBSET {i \in DOMAIN rows : Eligible(s, rows[i])} :
         /\ rows' = [i \in DOMAIN rows |->
                        IF i \in batch THEN [rows[i] EXCEPT !.status = "processing"]
                                       ELSE rows[i]]
         /\ jobs' = jobs \cup
              {[id |-> i, src |-> s, pc |-> "buffered", got |-> {}] : i \in batch}
    BY DEF Claim
  <2>2. UNCHANGED <<now, visible, watermark, stored, phase, boundary, genFrom, realtimeBnd, rt>>
    BY DEF Claim, remoteVars
  <2>3. KeepOwing
    BY <1>0, <2>1 DEF KeepOwing, Row
  <2>4. JobKnowledge'
    <3> SUFFICES ASSUME NEW j \in jobs'
                 PROVE  /\ j.got \subseteq visible'
                        /\ j.pc # "buffered" =>
                             \A o \in Ops \ Late : InWindow(rows'[j.id], o) => o \in j.got
                        /\ j.pc = "stored" => j.got \subseteq stored'
      BY DEF JobKnowledge, InWindow
    <3>1. CASE j \in jobs
      <4>1. j.id \in DOMAIN rows
        BY <3>1 DEF Ownership, SingleOwner
      <4> QED  BY <2>2, <2>3, <3>1, <4>1 DEF KeepOwing, Coverage, JobKnowledge, InWindow
    <3>2. CASE j \notin jobs
      <4>1. j.got = {} /\ j.pc = "buffered"
        BY <2>1, <3>2
      <4> QED  BY <4>1
    <3> QED  BY <3>1, <3>2
  <2>5. Knowledge' /\ RealtimeKnowledge'
    BY <2>2 DEF Coverage, Knowledge, RealtimeKnowledge
  <2>6. \A o \in visible' \ Late : Passed(o)' => o \in visible /\ Passed(o)
    BY <2>2 DEF Passed
  <2>7. Lossless'
    BY <1>0, <2>2, <2>3, <2>6, LostKept DEF Coverage
  <2> QED  BY <2>4, <2>5, <2>7 DEF Coverage
<1>2. CASE \E j \in jobs : JobStep(j)
  <2> PICK j \in jobs : JobStep(j)
    BY <1>2
  <2>0. j \in Job /\ j.id \in DOMAIN rows /\ rows[j.id] \in Row
    BY <1>0 DEF Ownership, SingleOwner
  <2>1. UNCHANGED <<now, visible, watermark, phase, boundary, genFrom, realtimeBnd, rt>>
    BY DEF JobStep, FetchInterval, StoreInterval, CompleteInterval, FailInterval,
           remoteVars, dbVars
  <2>2. \A o \in visible' \ Late : Passed(o)' => o \in visible /\ Passed(o)
    BY <2>1 DEF Passed
  <2>3. CASE FetchInterval(j)
    <3>1. PICK got \in SUBSET visible :
             /\ GetOperations(RequestWindow(rows[j.id])[1], RequestWindow(rows[j.id])[2], got)
             /\ jobs' = (jobs \ {j}) \cup {[j EXCEPT !.pc = "fetched", !.got = got]}
      BY <2>3 DEF FetchInterval
    <3>2. got = Window(rows[j.id].start + 1, rows[j.id].finish)
      BY <3>1, TruthfulAnswer DEF RequestWindow
    <3>3. rows' = rows /\ stored' = stored
      BY <2>3 DEF FetchInterval, dbVars
    <3>4. \A o \in Ops \ Late : InWindow(rows[j.id], o) => o \in got
      <4> SUFFICES ASSUME NEW o \in Ops \ Late, InWindow(rows[j.id], o) PROVE o \in got
        OBVIOUS
      <4>1. rows[j.id].start \in Nat /\ rows[j.id].finish \in Nat /\ Ts[o] \in Nat
        BY <1>0, <2>0 DEF Row
      <4>2. rows[j.id].finish <= watermark /\ watermark <= now
        BY <2>0 DEF Timeline, Coverage, Knowledge
      <4>3. Ts[o] <= now
        BY <1>0, <4>1, <4>2 DEF InWindow
      <4>4. o \in visible
        BY <4>3 DEF Coverage, Knowledge
      <4> QED  BY <3>2, <4>1, <4>4 DEF Window, InWindow
    <3>5. JobKnowledge'
      <4> DEFINE q == [j EXCEPT !.pc = "fetched", !.got = got]
      <4>1. q.id = j.id /\ q.pc = "fetched" /\ q.got = got
        BY <2>0 DEF Job
      <4> HIDE DEF q
      <4> SUFFICES ASSUME NEW k \in jobs'
                   PROVE  /\ k.got \subseteq visible'
                          /\ k.pc # "buffered" =>
                               \A o \in Ops \ Late : InWindow(rows'[k.id], o) => o \in k.got
                          /\ k.pc = "stored" => k.got \subseteq stored'
        BY DEF JobKnowledge, InWindow
      <4>2. k \in jobs \/ k = q
        BY <3>1 DEF q
      <4>3. CASE k \in jobs
        BY <2>1, <3>3, <4>3 DEF Coverage, JobKnowledge
      <4>4. CASE k = q
        BY <2>1, <3>3, <3>4, <4>1, <4>4
      <4> QED  BY <4>2, <4>3, <4>4
    <3>6. Knowledge' /\ RealtimeKnowledge' /\ Lossless'
      BY <2>1, <3>3 DEF Coverage, Knowledge, RealtimeKnowledge, Lossless, Passed,
                        Accounted, Owes, InWindow
    <3> QED  BY <3>5, <3>6 DEF Coverage
  <2>4. CASE StoreInterval(j)
    <3>1. /\ rows' = rows /\ stored' = stored \cup j.got /\ j.pc = "fetched"
          /\ jobs' = (jobs \ {j}) \cup {[j EXCEPT !.pc = "stored"]}
      BY <2>4 DEF StoreInterval
    <3>2. JobKnowledge'
      <4> DEFINE q == [j EXCEPT !.pc = "stored"]
      <4>1. q.id = j.id /\ q.pc = "stored" /\ q.got = j.got
        BY <2>0 DEF Job
      <4> HIDE DEF q
      <4> SUFFICES ASSUME NEW k \in jobs'
                   PROVE  /\ k.got \subseteq visible'
                          /\ k.pc # "buffered" =>
                               \A o \in Ops \ Late : InWindow(rows'[k.id], o) => o \in k.got
                          /\ k.pc = "stored" => k.got \subseteq stored'
        BY DEF JobKnowledge, InWindow
      <4>2. k \in jobs \/ k = q
        BY <3>1 DEF q
      <4>3. CASE k \in jobs
        BY <2>1, <3>1, <4>3 DEF Coverage, JobKnowledge
      <4>4. CASE k = q
        BY <2>1, <3>1, <4>1, <4>4 DEF Coverage, JobKnowledge
      <4> QED  BY <4>2, <4>3, <4>4
    <3>3. stored' \subseteq visible /\ stored \subseteq stored'
      BY <3>1 DEF Coverage, Knowledge, JobKnowledge
    <3>4. Knowledge' /\ RealtimeKnowledge'
      BY <2>1, <3>3 DEF Coverage, Knowledge, RealtimeKnowledge
    <3>5. KeepOwing
      BY <3>1 DEF KeepOwing
    <3>6. Lossless'
      BY <1>0, <2>1, <2>2, <3>3, <3>5, LostKept DEF Coverage
    <3> QED  BY <3>2, <3>4, <3>6 DEF Coverage
  <2>5. CASE CompleteInterval(j)
    <3>1. /\ rows' = [rows EXCEPT ![j.id].status = "completed"] /\ stored' = stored
          /\ jobs' = jobs \ {j} /\ j.pc = "stored"
      BY <2>5 DEF CompleteInterval
    <3>2. /\ DOMAIN rows' = DOMAIN rows
          /\ \A i \in DOMAIN rows : /\ rows'[i].start = rows[i].start
                                     /\ rows'[i].finish = rows[i].finish
                                     /\ i # j.id => rows'[i] = rows[i]
      BY <1>0, <3>1 DEF Row
    <3>3. JobKnowledge'
      BY <2>1, <3>1, <3>2 DEF Ownership, SingleOwner, Coverage, JobKnowledge, InWindow
    <3>4. Knowledge' /\ RealtimeKnowledge'
      BY <2>1, <3>1 DEF Coverage, Knowledge, RealtimeKnowledge
    <3>5. Lossless'
      <4> SUFFICES ASSUME NEW o \in visible' \ Late, Passed(o)' PROVE Accounted(o)'
        BY DEF Lossless
      <4>1. o \in Ops \ Late /\ Accounted(o)
        BY <1>0, <2>1, <2>2 DEF Coverage, Lossless
      <4>2. CASE o \in stored
        BY <3>1, <4>2 DEF Accounted
      <4>3. CASE o \notin stored
        <5>1. PICK i \in DOMAIN rows : Owes(rows[i], o)
          BY <4>1, <4>3 DEF Accounted
        <5>2. i # j.id
          BY <3>1, <4>1, <4>3, <5>1 DEF Owes, Coverage, JobKnowledge
        <5>3. i \in DOMAIN rows' /\ rows'[i] = rows[i]
          BY <3>1, <5>2
        <5> QED  BY <5>1, <5>3 DEF Accounted, Owes, InWindow
      <4> QED  BY <4>2, <4>3
    <3> QED  BY <3>3, <3>4, <3>5 DEF Coverage
  <2>6. CASE FailInterval(j)
    <3>1. /\ jobs' = jobs \ {j} /\ stored' = stored
          /\ \/ rows' = [rows EXCEPT ![j.id].status = "failed", ![j.id].next_retry = "future"]
             \/ rows' = rows
      BY <2>6 DEF FailInterval
    <3>2. KeepOwing
      <4>1. CASE rows' = rows
        BY <4>1 DEF KeepOwing
      <4>2. CASE rows' = [rows EXCEPT ![j.id].status = "failed", ![j.id].next_retry = "future"]
        BY <1>0, <4>2 DEF KeepOwing, Row
      <4> QED  BY <3>1, <4>1, <4>2
    <3>3. JobKnowledge'
      BY <2>1, <3>1, <3>2, JobKnowledgeKept DEF TypeInv, Ownership, Coverage
    <3>4. Knowledge' /\ RealtimeKnowledge'
      BY <2>1, <3>1 DEF Coverage, Knowledge, RealtimeKnowledge
    <3>5. Lossless'
      BY <1>0, <2>1, <2>2, <3>1, <3>2, LostKept DEF Coverage
    <3> QED  BY <3>3, <3>4, <3>5 DEF Coverage
  <2> QED  BY <2>3, <2>4, <2>5, <2>6 DEF JobStep
<1> QED  BY <1>1, <1>2

CoverageInv == TypeInv /\ Timeline /\ Ownership /\ (Truthful => Coverage)

(* Every step keeps the coverage, unless it is a fault taken for a success. *)
LEMMA CoverageNext == CoverageInv /\ [Next]_vars => CoverageInv'
<1> SUFFICES ASSUME CoverageInv, [Next]_vars PROVE CoverageInv'
  OBVIOUS
<1>1. TypeInv' /\ Timeline' /\ Ownership'
  BY TypeNext, TimelineNext, OwnershipNext DEF CoverageInv
<1>2. SUFFICES ASSUME Truthful' PROVE Coverage'
  BY <1>1 DEF CoverageInv
<1>3. Coverage
  BY <1>2, TruthfulBefore DEF CoverageInv
<1>4. CASE GenerateChunk
  BY <1>1, <1>2, <1>3, <1>4, CoverageChunk DEF CoverageInv
<1>5. CASE RealtimePoll \/ RealtimeInsert \/ RealtimeAdvance
  BY <1>1, <1>2, <1>3, <1>5, CoverageRealtime DEF CoverageInv
<1>6. CASE (\E s \in Streams : Claim(s)) \/ (\E j \in jobs : JobStep(j))
  BY <1>1, <1>2, <1>3, <1>6, CoverageJobs DEF CoverageInv
<1>7. CASE \/ Tick \/ (\E o \in Ops : PublishLate(o)) \/ Boot \/ GenerateDone
           \/ ResetAndRun \/ StartFails \/ Crash \/ UNCHANGED vars
           \/ \E i \in DOMAIN rows : RetryDue(i)
  BY <1>1, <1>2, <1>3, <1>7, CoverageQuiet DEF CoverageInv
<1> QED  BY <1>4, <1>5, <1>6, <1>7 DEF Next

(* Crashes, failed statements, retries and restarts lose no operation that  *)
(* the remote service showed in time, as long as it has answered truthfully *)
(* and no chunk was rolled back in silence.                                 *)
THEOREM NothingLost == Spec => []NoOperationLost
<1>1. Init => CoverageInv
  BY TypeInit, TimelineInit, OwnershipInit, CoverageInit DEF CoverageInv
<1>2. CoverageInv => NoOperationLost
  BY DEF CoverageInv, Coverage, NoOperationLost
<1> QED  BY <1>1, <1>2, CoverageNext, PTL DEF Spec
=============================================================================
