-------------------------- MODULE DaCelestiaProofs --------------------------
(* Proofs about DaCelestia, for every value of its constants. *)
EXTENDS DaCelestia, TLAPS

-----------------------------------------------------------------------------
(* Type correctness *)

(* The first deployment starts well typed. *)
LEMMA TypeInit == Init => TypeOK
<1> SUFFICES ASSUME Init PROVE TypeOK
  OBVIOUS
<1>1. running \in [Slots -> Job \cup {Idle}]
  BY DEF Init
<1>2. faults \in 0..MaxFaults /\ head \in Heights
  BY ConstantsAssumption DEF Init, Heights
<1> QED  BY <1>1, <1>2 DEF Init, TypeOK, NoScan

(* A fault leaves the fault counter in its range. *)
LEMMA FaultType ==
    ASSUME faults \in 0..MaxFaults, NEW kind, Fault(kind)
    PROVE  faults' \in 0..MaxFaults
BY ConstantsAssumption DEF Fault

(* An indexer that was just made, or is gone, is well typed. *)
LEMMA FreshType ==
    ASSUME TypeOK, Fresh, UNCHANGED head, blocks' = blocks, up' \in BOOLEAN,
           base' \in Nat, lastKnown' \in Nat, faults' \in 0..MaxFaults
    PROVE  TypeOK'
BY DEF TypeOK, Fresh, NoScan

(* Every step keeps the types. *)
LEMMA TypeNext == TypeOK /\ [Next]_vars => TypeOK'
<1> SUFFICES ASSUME TypeOK, [Next]_vars PROVE TypeOK'
  OBVIOUS
<1>1. CASE NewBlock
  BY <1>1 DEF NewBlock, memVars, TypeOK, Heights
<1>2. CASE Boot
  <2>1. StartFrom - 1 \in Nat
    BY ConstantsAssumption DEF StartFrom, Larger, LocalHead, TypeOK, Heights
  <2> QED  BY <1>2, <2>1, FreshType DEF Boot, TypeOK
<1>3. CASE Crash
  BY <1>3, FaultType, FreshType DEF Crash, TypeOK
<1>4. CASE PollForNewJobs
  <2>1. NewHeights \subseteq Heights /\ head \in Nat
    BY DEF NewHeights, TypeOK, Heights
  <2> QED  BY <1>4, <2>1 DEF PollForNewJobs, TypeOK
<1>5. CASE LoadLastKnown
  BY <1>5 DEF LoadLastKnown, TypeOK
<1>6. CASE FindGaps
  <2>1. scan.upTo \in Nat
    BY DEF TypeOK
  <2>2. GapHeights(scan.upTo) \subseteq Heights
    BY <2>1 DEF GapHeights, Heights
  <2>3. scan' \in [pc : {"idle", "loaded", "gaps"}, upTo : Nat, gaps : SUBSET Heights]
    BY <1>6, <2>2 DEF FindGaps, TypeOK
  <2> QED  BY <1>6, <2>3 DEF FindGaps, TypeOK
<1>7. CASE CatchUp
  <2>1. PICK gapsEnd \in Maxima(scan.gaps \cup {0}) :
          \E m \in Maxima({b \in blocks : gapsEnd <= b /\ b <= scan.upTo}) :
             catchQ' = scan.gaps \cup TailGap(m, scan.upTo)
    BY <1>7 DEF CatchUp
  <2>2. PICK m \in Maxima({b \in blocks : gapsEnd <= b /\ b <= scan.upTo}) :
             catchQ' = scan.gaps \cup TailGap(m, scan.upTo)
    BY <2>1
  <2>3. m \in Nat /\ scan.upTo \in Nat /\ scan.gaps \subseteq Heights
    BY DEF Maxima, TypeOK
  <2>4. catchQ' \subseteq Heights
    BY <2>2, <2>3 DEF TailGap, Heights
  <2> QED  BY <1>7, <2>4 DEF CatchUp, TypeOK, NoScan
<1>8. CASE ScanFails
  <2>1. blocks' \subseteq Nat
    BY <1>8 DEF ScanFails, TypeOK
  <2> QED  BY <1>8, <2>1, FaultType DEF ScanFails, TypeOK, NoScan, CompletedAfterFailure
<1>9. CASE RetryFailedJobs
  BY <1>9 DEF RetryFailedJobs, TypeOK
<1>10. ASSUME NEW s \in Slots, Take(s) PROVE TypeOK'
  <2>1. PICK h \in newQ \cup catchQ \cup retryQ :
          running' = [running EXCEPT ![s] = [height |-> h, tries |-> 0]]
    BY <1>10 DEF Take
  <2>2. [height |-> h, tries |-> 0] \in Job
    BY DEF TypeOK, Job, Backoff
  <2>3. newQ' \subseteq newQ /\ catchQ' \subseteq catchQ /\ retryQ' \subseteq retryQ
    BY <1>10 DEF Take
  <2> QED  BY <1>10, <2>1, <2>2, <2>3 DEF Take, TypeOK
<1>11. ASSUME NEW s \in Slots, ProcessJob(s) PROVE TypeOK'
  <2>1. running[s].height \in Nat
    BY DEF TypeOK, Job, Heights, Idle
  <2> QED  BY <1>11, <2>1 DEF ProcessJob, TypeOK
<1>12. ASSUME NEW s \in Slots, FailJob(s) PROVE TypeOK'
  <2>1. running[s] \in Job
    BY <1>12 DEF FailJob, TypeOK
  <2>2. faults' \in 0..MaxFaults
    BY <1>12, FaultType DEF FailJob, TypeOK
  <2>3. CASE running[s].tries < Backoff /\ running' = [running EXCEPT ![s].tries = @ + 1]
             /\ UNCHANGED failed
    <3>1. [running[s] EXCEPT !.tries = @ + 1] \in Job
      BY <2>1, <2>3 DEF Job, Backoff
    <3>2. running' \in [Slots -> Job \cup {Idle}]
      BY <2>3, <3>1 DEF TypeOK
    <3> QED  BY <1>12, <2>2, <2>3, <3>2 DEF FailJob, TypeOK
  <2>4. CASE running' = [running EXCEPT ![s] = Idle]
             /\ failed' = KeepForLater(running[s].height)
    <3>1. failed' \subseteq Heights
      BY <2>1, <2>4 DEF KeepForLater, Job, TypeOK
    <3> QED  BY <1>12, <2>2, <2>4, <3>1 DEF FailJob, TypeOK
  <2> QED  BY <1>12, <2>3, <2>4 DEF FailJob
<1>13. CASE UNCHANGED vars
  BY <1>13 DEF vars, memVars, TypeOK
<1> QED
  BY <1>1, <1>2, <1>3, <1>4, <1>5, <1>6, <1>7, <1>8, <1>9, <1>10, <1>11, <1>12, <1>13 DEF Next

(* Every reachable state of table, streams and pool is well typed. *)
THEOREM TypeCorrect == Spec => []TypeOK
BY TypeInit, TypeNext, PTL DEF Spec

-----------------------------------------------------------------------------
(* Accounting *)

(* The streams and the pool only pass a height on: what was saved or held   *)
(* before a step of theirs is saved or held after it.                       *)
Passing ==
    \/ RetryFailedJobs
    \/ \E s \in Slots : Take(s) \/ ProcessJob(s) \/ FailJob(s)

(* What is held is handed on, from failed_jobs to the stream, from a stream *)
(* to a slot, from a slot to failed_jobs.                                   *)
LEMMA HeldPassed ==
    ASSUME TypeOK, RetryFailedJobs \/ \E s \in Slots : Take(s) \/ FailJob(s),
           NEW h \in Heights, Held(h)
    PROVE  Held(h)'
<1>1. CASE RetryFailedJobs
  BY <1>1 DEF RetryFailedJobs, Held
<1>2. ASSUME NEW s \in Slots, Take(s) PROVE Held(h)'
  <2>1. PICK g \in newQ \cup catchQ \cup retryQ :
          /\ newQ' \cup catchQ' \cup retryQ' \cup {g} = newQ \cup catchQ \cup retryQ
          /\ running' = [running EXCEPT ![s] = [height |-> g, tries |-> 0]]
    BY <1>2 DEF Take, Minima, Maxima
  <2>2. running'[s].height = g /\ \A t \in Slots : t # s => running'[t] = running[t]
    BY <2>1 DEF TypeOK
  <2>3. running[s].height # h
    BY <1>2 DEF Take, Idle, Heights
  <2>4. failed' = failed
    BY <1>2 DEF Take
  <2> QED  BY <2>1, <2>2, <2>3, <2>4 DEF Held
<1>3. ASSUME NEW s \in Slots, FailJob(s) PROVE Held(h)'
  <2>1. \A t \in Slots : t # s => running'[t] = running[t]
    BY <1>3 DEF FailJob, TypeOK
  <2>2. running'[s].height = running[s].height \/ running[s].height \in failed'
    BY <1>3 DEF FailJob, KeepForLater, TypeOK, Job
  <2>3. failed \subseteq failed'
    BY <1>3 DEF FailJob, KeepForLater
  <2> QED  BY <1>3, <2>1, <2>2, <2>3 DEF FailJob, Held
<1> QED  BY <1>1, <1>2, <1>3

(* No step of the streams or the pool drops a height. *)
LEMMA NothingDropped ==
    ASSUME TypeOK, Passing, NEW h \in Heights, h \in blocks \/ Held(h)
    PROVE  (h \in blocks \/ Held(h))'
<1>1. CASE RetryFailedJobs \/ \E s \in Slots : Take(s) \/ FailJob(s)
  <2>1. blocks' = blocks
    BY <1>1 DEF RetryFailedJobs, Take, FailJob
  <2> QED  BY <1>1, <2>1, HeldPassed
<1>2. ASSUME NEW s \in Slots, ProcessJob(s) PROVE (h \in blocks \/ Held(h))'
  <2>1. \A t \in Slots : t # s => running'[t] = running[t]
    BY <1>2 DEF ProcessJob, TypeOK
  <2> QED  BY <1>2, <2>1 DEF ProcessJob, Held
<1> QED  BY <1>1, <1>2 DEF Passing

(* Those steps change neither the last known height nor the catch up. *)
LEMMA PassingKeeps ==
    Passing => /\ UNCHANGED <<up, base, lastKnown, caughtUp, early, scan>>
               /\ catchQ' \subseteq catchQ
BY DEF Passing, RetryFailedJobs, Take, ProcessJob, FailJob

(* The gap scan has found nothing before it is completed. *)
Pending == ~caughtUp => catchQ = {}

(* Every step accounts for the polled heights. *)
LEMMA AccountedNext ==
    ASSUME TypeOK, Pending, NewHeightsAccounted, [Next]_vars
    PROVE  Pending' /\ NewHeightsAccounted'
<1>0. base \in Nat /\ lastKnown \in Nat /\ head \in Nat
  BY DEF TypeOK, Heights
<1>1. CASE Boot \/ Crash
  <2>1. Pending'
    BY <1>1 DEF Boot, Crash, Fresh, Pending
  <2>2. ~up' \/ (base' = lastKnown' /\ base' \in Int)
    BY <1>1, ConstantsAssumption DEF Boot, Crash, StartFrom, Larger, LocalHead, TypeOK, Heights
  <2>3. ASSUME NEW b \in Int, NEW h \in (b + 1)..b PROVE FALSE
    BY <2>3
  <2> QED  BY <2>1, <2>2, <2>3 DEF NewHeightsAccounted
<1>2. CASE PollForNewJobs
  <2>1. Pending'
    BY <1>2 DEF PollForNewJobs, Pending
  <2>2. newQ \subseteq newQ' /\ (lastKnown' = lastKnown \/ newQ' = (lastKnown + 1)..lastKnown')
    BY <1>2 DEF PollForNewJobs, NewHeights
  <2>3. UNCHANGED <<blocks, base, up, catchQ, retryQ, running, failed>> /\ lastKnown' \in Nat
    BY <1>0, <1>2 DEF PollForNewJobs
  <2>4. ASSUME up', NEW h \in (base' + 1)..lastKnown' PROVE (h \in blocks \/ Held(h))'
    <3>1. h \in (base + 1)..lastKnown \/ h \in newQ'
      BY <1>0, <2>2, <2>3, <2>4
    <3>2. h \in (base + 1)..lastKnown => h \in blocks \/ Held(h)
      BY <2>3, <2>4 DEF NewHeightsAccounted
    <3> QED  BY <2>2, <2>3, <3>1, <3>2 DEF Held
  <2> QED  BY <2>1, <2>4 DEF NewHeightsAccounted
<1>3. CASE Passing
  <2>1. Pending'
    BY <1>3, PassingKeeps DEF Pending
  <2>2. ASSUME up', NEW h \in (base' + 1)..lastKnown' PROVE (h \in blocks \/ Held(h))'
    <3>1. up /\ h \in (base + 1)..lastKnown
      BY <1>3, <2>2, PassingKeeps
    <3>2. h \in Heights
      BY <1>0, <3>1 DEF Heights
    <3>3. h \in blocks \/ Held(h)
      BY <3>1 DEF NewHeightsAccounted
    <3> QED  BY <1>3, <3>2, <3>3, NothingDropped
  <2> QED  BY <2>1, <2>2 DEF NewHeightsAccounted
<1>4. CASE CatchUp
  <2>1. ~caughtUp /\ catchQ = {} /\ caughtUp'
    BY <1>4 DEF CatchUp, CatchUpPolled, Pending
  <2> QED  BY <1>4, <2>1 DEF CatchUp, Pending, NewHeightsAccounted, Held
<1>5. CASE NewBlock \/ LoadLastKnown \/ FindGaps \/ ScanFails \/ UNCHANGED vars
  <2>1. /\ UNCHANGED <<up, base, lastKnown, newQ, catchQ, retryQ, running, failed>>
        /\ blocks \subseteq blocks'
    BY <1>5 DEF NewBlock, LoadLastKnown, FindGaps, ScanFails, vars, memVars
  <2>2. caughtUp' = caughtUp
    BY <1>5 DEF NewBlock, LoadLastKnown, FindGaps, ScanFails, vars, memVars,
                CatchUpPolled, CompletedAfterFailure, TypeOK
  <2> QED  BY <2>1, <2>2 DEF Pending, NewHeightsAccounted, Held
<1> QED  BY <1>1, <1>2, <1>3, <1>4, <1>5 DEF Next, Passing

(* Every height that new_jobs handed out is saved or still held by a        *)
(* stream, the pool or failed_jobs, for every schedule, pool and fault.     *)
THEOREM PolledHeightsKept == Spec => []NewHeightsAccounted
<1>1. Init => TypeOK /\ Pending /\ NewHeightsAccounted
  BY TypeInit DEF Init, Pending, NewHeightsAccounted
<1>2. TypeOK /\ Pending /\ NewHeightsAccounted /\ [Next]_vars
        => (TypeOK /\ Pending /\ NewHeightsAccounted)'
  BY TypeNext, AccountedNext
<1> QED  BY <1>1, <1>2, PTL DEF Spec

-----------------------------------------------------------------------------
(* The promise of JobPool *)

(* Without an indexer nobody holds anything. *)
Quiet ==
    ~up => /\ newQ = {} /\ catchQ = {} /\ retryQ = {} /\ failed = {}
           /\ \A s \in Slots : running[s] = Idle

LEMMA QuietNext == TypeOK /\ Quiet /\ [Next]_vars => Quiet'
<1> SUFFICES ASSUME TypeOK, Quiet, [Next]_vars PROVE Quiet'
  OBVIOUS
<1>1. CASE Boot \/ Crash
  BY <1>1 DEF Boot, Crash, Fresh, Quiet
<1>2. CASE PollForNewJobs \/ LoadLastKnown \/ FindGaps \/ CatchUp \/ ScanFails \/ RetryFailedJobs
  BY <1>2 DEF PollForNewJobs, LoadLastKnown, FindGaps, CatchUp, ScanFails, RetryFailedJobs,
              CatchUpPolled, Polled, Quiet
<1>3. ASSUME NEW s \in Slots, Take(s) \/ ProcessJob(s) \/ FailJob(s) PROVE Quiet'
  <2>1. up
    BY <1>3 DEF Take, ProcessJob, FailJob, Quiet
  <2> QED  BY <1>3, <2>1 DEF Take, ProcessJob, FailJob, Quiet
<1>4. CASE NewBlock \/ UNCHANGED vars
  BY <1>4 DEF NewBlock, vars, memVars, Quiet
<1> QED  BY <1>1, <1>2, <1>3, <1>4 DEF Next

(* The heights that wait in Q or are processed by the jobs of R. *)
InMemory(Q, R) == Q \cup ({R[s].height : s \in Slots} \ {0})

LEMMA HeldIs ==
    ASSUME NEW Q \in SUBSET Heights, NEW R \in [Slots -> Job \cup {Idle}]
    PROVE  /\ InMemory(Q, R) \subseteq Heights
           /\ \A h \in Heights : h \in InMemory(Q, R) <=> h \in Q \/ \E s \in Slots : R[s].height = h
<1>1. ASSUME NEW s \in Slots PROVE R[s].height \in Heights \cup {0}
  <2>1. R[s] \in Job \cup {Idle}
    OBVIOUS
  <2> QED  BY <2>1 DEF Job, Idle
<1>2. 0 \notin Heights
  BY DEF Heights
<1> QED  BY <1>1, <1>2 DEF InMemory

(* Save of JobPool: a job's height leaves the memory with its block. *)
LEMMA SaveStep ==
    ASSUME TypeOK, Quiet, NEW s \in Slots, ProcessJob(s)
    PROVE  Pool!Next
<1> DEFINE h == running[s].height
<1>1. up /\ up' = up
  BY DEF ProcessJob, Quiet
<1>2. h \in Heights
  BY DEF ProcessJob, TypeOK, Job
<1>3. h \in HeldHeights
  BY <1>2 DEF HeldHeights, Heights
<1>4. (blocks \ {0})' = (blocks \ {0}) \cup {h}
  BY <1>2 DEF ProcessJob, Heights
<1>5. running' = [running EXCEPT ![s] = Idle] /\ UNCHANGED <<newQ, catchQ, retryQ, failed>>
  BY DEF ProcessJob
<1>6. running'[s].height = 0 /\ \A t \in Slots : t # s => running'[t] = running[t]
  BY <1>5 DEF TypeOK, Idle
<1>7. HeldHeights' \in {HeldHeights, HeldHeights \ {h}}
  <2> DEFINE rest == newQ \cup catchQ \cup retryQ \cup failed
                       \cup ({running[t].height : t \in Slots \ {s}} \ {0})
  <2>1. HeldHeights = rest \cup {h}
    BY <1>2 DEF HeldHeights, Heights
  <2>2. HeldHeights' = rest
    BY <1>5, <1>6 DEF HeldHeights
  <2> HIDE DEF rest, h
  <2> QED  BY <2>1, <2>2
<1> HIDE DEF h
<1>8. Pool!Save(h)
  BY <1>1, <1>4, <1>7 DEF Pool!Save
<1> QED  BY <1>3, <1>8 DEF Pool!Next

(* Every step of the indexer is one of JobPool, or changes nothing there. *)
LEMMA PoolStep ==
    ASSUME TypeOK, TypeOK', Quiet, Pending, [Next]_vars
    PROVE  Pool!Next \/ UNCHANGED Pool!vars
<1>1. CASE Boot
  <2>1. \A s \in Slots : running[s] = Idle /\ running'[s] = Idle
    BY <1>1 DEF Boot, Fresh, Quiet
  <2>2. HeldHeights = {} /\ HeldHeights' = {}
    BY <1>1, <2>1 DEF Boot, Fresh, Quiet, HeldHeights, Idle
  <2> QED  BY <1>1, <2>2 DEF Boot, Pool!Next, Pool!Begin
<1>2. CASE Crash
  <2>1. \A s \in Slots : running'[s] = Idle
    BY <1>2 DEF Crash, Fresh
  <2>2. HeldHeights' = {}
    BY <1>2, <2>1 DEF Crash, Fresh, HeldHeights, Idle
  <2> QED  BY <1>2, <2>2 DEF Crash, Pool!Next, Pool!End
<1>3. ASSUME NEW s \in Slots, ProcessJob(s) PROVE Pool!Next
  BY <1>3, SaveStep
<1>4. CASE NewBlock \/ LoadLastKnown \/ FindGaps \/ ScanFails \/ UNCHANGED vars
  <2>1. /\ UNCHANGED <<up, newQ, catchQ, retryQ, running, failed>>
        /\ blocks' \in {blocks, blocks \cup {0}}
    BY <1>4 DEF NewBlock, LoadLastKnown, FindGaps, ScanFails, vars, memVars
  <2>2. HeldHeights' = HeldHeights /\ (blocks \ {0})' = blocks \ {0}
    BY <2>1 DEF HeldHeights
  <2> QED  BY <2>1, <2>2 DEF Pool!vars
<1>5. ASSUME \/ PollForNewJobs \/ CatchUp \/ RetryFailedJobs
             \/ \E s \in Slots : Take(s) \/ FailJob(s)
      PROVE  Pool!Offer
  <2>1. up /\ up' = up /\ blocks' = blocks
    BY <1>5 DEF PollForNewJobs, CatchUp, CatchUpPolled, Polled, RetryFailedJobs, Take, FailJob, Quiet
  <2>2. ASSUME NEW h \in Heights, Held(h) PROVE Held(h)'
    <3>1. CASE PollForNewJobs
      BY <2>2, <3>1 DEF PollForNewJobs, Held
    <3>2. CASE CatchUp
      BY <2>2, <3>2 DEF CatchUp, CatchUpPolled, Pending, Held
    <3>3. CASE RetryFailedJobs \/ \E s \in Slots : Take(s) \/ FailJob(s)
      BY <2>2, <3>3, HeldPassed
    <3> QED  BY <1>5, <3>1, <3>2, <3>3
  <2> DEFINE queued == newQ \cup catchQ \cup retryQ \cup failed
  <2>3. HeldHeights \subseteq Heights /\ \A h \in Heights : h \in HeldHeights <=> Held(h)
    <3>1. queued \in SUBSET Heights /\ running \in [Slots -> Job \cup {Idle}]
      BY DEF TypeOK
    <3>2. HeldHeights = InMemory(queued, running)
      BY DEF HeldHeights, InMemory
    <3>3. \A h \in Heights : Held(h) <=> h \in queued \/ \E s \in Slots : running[s].height = h
      BY DEF Held
    <3> HIDE DEF queued
    <3> QED  BY <3>1, <3>2, <3>3, HeldIs
  <2>4. HeldHeights' \subseteq Heights /\ \A h \in Heights : h \in HeldHeights' <=> Held(h)'
    <3>1. queued' \in SUBSET Heights /\ running' \in [Slots -> Job \cup {Idle}]
      BY DEF TypeOK
    <3>2. HeldHeights' = InMemory(queued', running')
      BY DEF HeldHeights, InMemory
    <3>3. \A h \in Heights : Held(h)' <=> h \in queued' \/ \E s \in Slots : running'[s].height = h
      BY DEF Held
    <3> HIDE DEF queued
    <3> QED  BY <3>1, <3>2, <3>3, HeldIs
  <2>5. HeldHeights \subseteq HeldHeights'
    BY <2>2, <2>3, <2>4
  <2> QED  BY <2>1, <2>4, <2>5 DEF Pool!Offer
<1> QED  BY <1>1, <1>2, <1>3, <1>4, <1>5 DEF Next, Pool!Next

(* The indexer on Celestia implements JobPool: a height handed in by a      *)
(* stream leaves its memory only when its block is saved or the indexer     *)
(* ends; failed attempts, the drain of failed_jobs, heights handed in twice *)
(* and the answer of a gap scan lose none.                                  *)
THEOREM ImplementsJobPool == Spec => KeepsJobs
<1>1. Init => TypeOK /\ Quiet /\ Pending /\ NewHeightsAccounted
  BY TypeInit DEF Init, Quiet, Pending, NewHeightsAccounted
<1>2. TypeOK /\ Quiet /\ Pending /\ NewHeightsAccounted /\ [Next]_vars
        => (TypeOK /\ Quiet /\ Pending /\ NewHeightsAccounted)'
  BY TypeNext, QuietNext, AccountedNext
<1>3. Init => Pool!Init
  BY DEF Init, Pool!Init, HeldHeights, Idle
<1>4. TypeOK /\ TypeOK' /\ Quiet /\ Pending /\ [Next]_vars => [Pool!Next]_(Pool!vars)
  BY PoolStep
<1> QED  BY <1>1, <1>2, <1>3, <1>4, PTL DEF Spec, KeepsJobs, Pool!Spec

-----------------------------------------------------------------------------
(* The gap scan, when no poll disturbs it *)

(* Nothing runs at the first deployment. *)
LEMMA ScanInit == Init => ScanUndisturbed /\ CatchUpCovers
BY DEF Init, ScanUndisturbed, CatchUpCovers, NoScan

(* Every step keeps the scan undisturbed. *)
LEMMA ScanNext ==
    ASSUME TypeOK, ScanUndisturbed, [Next]_vars
    PROVE  ScanUndisturbed'
<1> SUFFICES ASSUME ~early' PROVE ScanUndisturbed'
  BY DEF ScanUndisturbed
<1>0. early => Boot \/ Crash
  BY DEF Next, vars, memVars, NewBlock, PollForNewJobs, LoadLastKnown, FindGaps, CatchUp,
         ScanFails, RetryFailedJobs, Take, ProcessJob, FailJob
<1>1. CASE Boot \/ Crash
  BY <1>1 DEF Boot, Crash, Fresh, NoScan, ScanUndisturbed
<1>2. CASE PollForNewJobs
  <2>1. caughtUp \/ UNCHANGED <<newQ, lastKnown>>
    BY <1>2 DEF PollForNewJobs
  <2> QED  BY <1>0, <1>1, <1>2, <2>1 DEF PollForNewJobs, ScanUndisturbed, GapHeights, TypeOK
<1>3. CASE LoadLastKnown
  BY <1>0, <1>1, <1>3 DEF LoadLastKnown, CatchUpPolled, Polled, ScanUndisturbed, TypeOK
<1>4. CASE FindGaps
  <2>1. scan'.pc = "gaps" /\ scan'.upTo = scan.upTo /\ scan'.gaps = GapHeights(scan.upTo)
    BY <1>4 DEF FindGaps, TypeOK
  <2>2. UNCHANGED <<blocks, up, base, lastKnown, caughtUp, early, newQ, catchQ, retryQ, running, failed>>
        /\ scan.pc # "idle"
    BY <1>4 DEF FindGaps
  <2>3. scan'.gaps = GapHeights(scan.upTo)'
    BY <2>1, <2>2 DEF GapHeights
  <2> QED  BY <1>0, <1>1, <2>1, <2>2, <2>3 DEF ScanUndisturbed
<1>5. CASE CatchUp
  BY <1>0, <1>1, <1>5 DEF CatchUp, NoScan, ScanUndisturbed
<1>6. CASE ScanFails
  BY <1>0, <1>1, <1>6 DEF ScanFails, CatchUpPolled, NoScan, ScanUndisturbed
<1>7. CASE Passing
  <2>0. ~early
    BY <1>7, PassingKeeps
  <2>1. caughtUp
    <3>1. RetryFailedJobs => failed # {}
      BY DEF RetryFailedJobs
    <3>2. \A s \in Slots : Take(s) => newQ \cup catchQ \cup retryQ # {}
      BY DEF Take
    <3>3. \A s \in Slots : ProcessJob(s) \/ FailJob(s) => running[s] # Idle
      BY DEF ProcessJob, FailJob
    <3> QED  BY <1>7, <2>0, <3>1, <3>2, <3>3 DEF Passing, ScanUndisturbed
  <2>2. scan.pc = "idle" /\ scan' = scan /\ caughtUp' = caughtUp
    BY <1>7, <2>0, <2>1, PassingKeeps DEF ScanUndisturbed, TypeOK
  <2> QED  BY <2>1, <2>2 DEF ScanUndisturbed
<1>8. CASE NewBlock \/ UNCHANGED vars
  BY <1>0, <1>1, <1>8 DEF NewBlock, vars, memVars, ScanUndisturbed, GapHeights
<1> QED  BY <1>1, <1>2, <1>3, <1>4, <1>5, <1>6, <1>7, <1>8 DEF Next, Passing

(* The gaps and the tail gap hold every height up to upTo without a row:    *)
(* the genesis row lies below each of them, the largest row above it or it  *)
(* is in the tail.                                                          *)
LEMMA GapsComplete ==
    ASSUME NEW upTo \in Nat, NEW m, blocks \subseteq Nat, 0 \in blocks,
           m \in blocks, m <= upTo,
           NEW h \in 1..upTo, h \notin blocks
    PROVE  h \in GapHeights(upTo) \cup TailGap(m, upTo)
<1>1. m \in Nat /\ h \in Nat /\ h # m
  OBVIOUS
<1>2. CASE m < h
  BY <1>1, <1>2 DEF TailGap
<1>3. CASE h < m
  <2>1. 0 \in {b \in blocks : b <= upTo} /\ m \in {b \in blocks : b <= upTo}
    OBVIOUS
  <2>2. 0 < h /\ h < m
    BY <1>1, <1>3
  <2> QED  BY <2>1, <2>2 DEF GapHeights
<1> QED  BY <1>1, <1>2, <1>3

(* Every step keeps the catch up complete. *)
LEMMA CoversNext ==
    ASSUME TypeOK, ScanUndisturbed, CatchUpCovers, [Next]_vars
    PROVE  CatchUpCovers'
<1>0. lastKnown \in Nat /\ head \in Nat
  BY DEF TypeOK, Heights
<1>1. CASE Boot \/ Crash
  BY <1>1 DEF Boot, Crash, Fresh, CatchUpCovers, Covered
<1>2. CASE PollForNewJobs
  <2>1. newQ \subseteq newQ' /\ (lastKnown' = lastKnown \/ newQ' = (lastKnown + 1)..lastKnown')
    BY <1>2 DEF PollForNewJobs, NewHeights
  <2>2. UNCHANGED <<blocks, up, caughtUp, catchQ, retryQ, running, failed>>
        /\ lastKnown' \in Nat /\ (early => early')
    BY <1>0, <1>2 DEF PollForNewJobs, TypeOK
  <2>3. ASSUME up', caughtUp', ~early', NEW h \in 1..lastKnown' PROVE (h \in blocks \/ Held(h))'
    <3>1. h \in 1..lastKnown \/ h \in newQ'
      BY <1>0, <2>1, <2>2, <2>3
    <3>2. h \in 1..lastKnown => h \in blocks \/ Held(h)
      BY <2>2, <2>3 DEF CatchUpCovers, Covered
    <3> QED  BY <2>1, <2>2, <3>1, <3>2 DEF Held
  <2> QED  BY <2>3 DEF CatchUpCovers, Covered
<1>3. CASE CatchUp
  <2>1. PICK gapsEnd \in Maxima(scan.gaps \cup {0}) :
          \E m \in Maxima({b \in blocks : gapsEnd <= b /\ b <= scan.upTo}) :
             catchQ' = scan.gaps \cup TailGap(m, scan.upTo)
    BY <1>3 DEF CatchUp
  <2>2. PICK m \in Maxima({b \in blocks : gapsEnd <= b /\ b <= scan.upTo}) :
             catchQ' = scan.gaps \cup TailGap(m, scan.upTo)
    BY <2>1
  <2>3. m \in blocks /\ m <= scan.upTo
    BY DEF Maxima
  <2> SUFFICES ASSUME ~early' PROVE CatchUpCovers'
    BY DEF CatchUpCovers
  <2>4. 0 \in blocks /\ scan.upTo = lastKnown /\ scan.gaps = GapHeights(scan.upTo)
    BY <1>3 DEF CatchUp, ScanUndisturbed
  <2>5. blocks \subseteq Nat /\ UNCHANGED <<blocks, lastKnown>>
    BY <1>3 DEF CatchUp, TypeOK
  <2>6. \A h \in 1..lastKnown : h \in blocks \/ h \in catchQ'
    BY <1>0, <2>2, <2>3, <2>4, <2>5, GapsComplete
  <2> QED  BY <2>5, <2>6 DEF CatchUpCovers, Covered, Held
<1>4. CASE Passing
  <2>1. ASSUME up', caughtUp', ~early', NEW h \in 1..lastKnown' PROVE (h \in blocks \/ Held(h))'
    <3>1. up /\ caughtUp /\ ~early /\ h \in 1..lastKnown
      <4>1. UNCHANGED <<up, lastKnown, caughtUp, early>>
        BY <1>4, PassingKeeps
      <4> QED  BY <2>1, <4>1
    <3>2. h \in Heights /\ (h \in blocks \/ Held(h))
      BY <1>0, <3>1 DEF Heights, CatchUpCovers, Covered
    <3> QED  BY <1>4, <3>2, NothingDropped
  <2> QED  BY <2>1 DEF CatchUpCovers, Covered
<1>5. CASE NewBlock \/ LoadLastKnown \/ FindGaps \/ ScanFails \/ UNCHANGED vars
  <2>1. /\ UNCHANGED <<up, lastKnown, early, newQ, catchQ, retryQ, running, failed>>
        /\ blocks \subseteq blocks'
    BY <1>5 DEF NewBlock, LoadLastKnown, FindGaps, ScanFails, vars, memVars
  <2>2. caughtUp' => caughtUp
    BY <1>5 DEF NewBlock, LoadLastKnown, FindGaps, ScanFails, vars, memVars,
                CompletedAfterFailure
  <2> QED  BY <2>1, <2>2 DEF CatchUpCovers, Covered, Held
<1> QED  BY <1>1, <1>2, <1>3, <1>4, <1>5 DEF Next, Passing

(* While no poll has found heights before the gap scan was done, a          *)
(* completed catch up leaves no height up to the last known one unaccounted *)
(* for, whatever crashes, failed jobs and failed scans there were.          *)
THEOREM CatchUpComplete == Spec => []CatchUpCovers
<1>1. Init => TypeOK /\ ScanUndisturbed /\ CatchUpCovers
  BY TypeInit, ScanInit
<1>2. TypeOK /\ ScanUndisturbed /\ CatchUpCovers /\ [Next]_vars
        => (TypeOK /\ ScanUndisturbed /\ CatchUpCovers)'
  BY TypeNext, ScanNext, CoversNext
<1> QED  BY <1>1, <1>2, PTL DEF Spec
=============================================================================
