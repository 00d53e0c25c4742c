----------------------------- MODULE DaCelestia -----------------------------
(***************************************************************************)
(* The DA indexer on Celestia (da-indexer-logic/src/indexer.rs with        *)
(* celestia/da.rs and celestia/repository/blocks.rs): three streams of     *)
(* block heights, the new ones, the ones a gap scan of the database finds, *)
(* and the failed ones, feed a pool of `concurrency` jobs.  A job tries a  *)
(* height three times and then leaves it in failed_jobs.  Everything but   *)
(* the table of blocks is lost when the process dies.                      *)
(***************************************************************************)
EXTENDS Integers, FiniteSets

CONSTANTS
    Slots,         \* the pool of for_each_concurrent, settings.concurrency of them
    StartHeight,   \* settings.start_height, or LocalHead when it is not set
    InitHead,      \* the node's head when the service is first deployed
    MaxHead,       \* bound: the chain stops here
    FaultKinds,    \* the faults that may happen
    MaxFaults      \* bound: how many faults may happen in all

LocalHead == -1

AllFaults ==
    {"crash",     \* the process dies, or the streams end and the indexer restarts
     "process",   \* process_job fails: a request, a statement or the commit
     "scan"}      \* a statement of unprocessed_jobs fails

ASSUME ConstantsAssumption ==
    /\ Slots # {}
    /\ StartHeight \in Nat \cup {LocalHead}
    /\ InitHead \in Nat \ {0} /\ MaxHead \in Nat
    /\ FaultKinds \subseteq AllFaults
    /\ MaxFaults \in Nat

VARIABLES
    head,       \* height of the node's local head
    blocks,     \* heights in table celestia_blocks
    up,         \* the indexer runs
    base,       \* last_known_height when the indexer was made
    lastKnown,  \* last_known_height
    caughtUp,   \* catch_up_completed
    early,      \* history: a poll has found heights before the gap scan was done
    scan,       \* how far unprocessed_jobs got, and what it read
    newQ,       \* heights of the last poll that wait to be taken
    catchQ,     \* heights of the gap scan that wait to be taken
    retryQ,     \* drained heights that wait to be taken
    running,    \* running[s]: the job in slot s
    failed,     \* failed_jobs
    faults      \* faults that have happened

memVars == <<up, base, lastKnown, caughtUp, early, scan, newQ, catchQ, retryQ, running, failed>>
vars    == <<head, blocks, memVars, faults>>

Heights == Nat \ {0}
Backoff == 2                                \* vec![5, 20]: two more attempts
Job == [height : Heights, tries : 0..Backoff]
Idle == [height |-> 0, tries |-> 0]
NoScan == [pc |-> "idle", upTo |-> 0, gaps |-> {}]

TypeOK ==
    /\ head \in Heights /\ blocks \subseteq Nat
    /\ up \in BOOLEAN /\ base \in Nat /\ lastKnown \in Nat /\ caughtUp \in BOOLEAN
    /\ early \in BOOLEAN
    /\ scan \in [pc : {"idle", "loaded", "gaps"}, upTo : Nat, gaps : SUBSET Heights]
    /\ newQ \subseteq Heights /\ catchQ \subseteq Heights /\ retryQ \subseteq Heights
    /\ running \in [Slots -> Job \cup {Idle}]
    /\ failed \subseteq Heights
    /\ faults \in 0..MaxFaults

-----------------------------------------------------------------------------
Larger(a, b) == IF a >= b THEN a ELSE b

(* {the largest element of S}, {the smallest element of S} *)
Maxima(S) == {m \in S : \A n \in S : n <= m}
Minima(S) == {m \in S : \A n \in S : m <= n}

Fault(kind) ==
    /\ kind \in FaultKinds
    /\ faults < MaxFaults
    /\ faults' = faults + 1

Fresh ==
    /\ caughtUp' = FALSE /\ early' = FALSE /\ scan' = NoScan
    /\ newQ' = {} /\ catchQ' = {} /\ retryQ' = {} /\ failed' = {}
    /\ running' = [s \in Slots |-> Idle]

Init ==
    /\ head = InitHead /\ blocks = {}
    /\ up = FALSE /\ base = 0 /\ lastKnown = 0
    /\ caughtUp = FALSE /\ early = FALSE /\ scan = NoScan
    /\ newQ = {} /\ catchQ = {} /\ retryQ = {} /\ failed = {}
    /\ running = [s \in Slots |-> Idle]
    /\ faults = 0

NewBlock ==
    /\ head < MaxHead
    /\ head' = head + 1
    /\ UNCHANGED <<blocks, memVars, faults>>

(* CelestiaDA::new: everything before start_from is left to the gap scan.   *)
(* The genesis block cannot be fetched, so start_from is at least 1.        *)
StartFrom == Larger(IF StartHeight = LocalHead THEN head ELSE StartHeight, 1)

Boot ==
    /\ ~up
    /\ up' = TRUE
    /\ lastKnown' = StartFrom - 1 /\ base' = StartFrom - 1
    /\ Fresh
    /\ UNCHANGED <<head, blocks, faults>>

(* The process dies.  (Nothing in memory outlives it.) *)
Crash ==
    /\ up
    /\ Fault("crash")
    /\ up' = FALSE /\ lastKnown' = 0 /\ base' = 0
    /\ Fresh
    /\ UNCHANGED <<head, blocks>>

-----------------------------------------------------------------------------
(* The streams.  They are polled only while the pool has a free slot, and   *)
(* the poller of new heights goes first.                                    *)

Polled == up /\ \E s \in Slots : running[s] = Idle

(* Seeded defects of the definitions below, for the mutation checks only.   *)
Defect_TailFromMax(m, upTo) == m..upTo
Defect_FirstOfGap(upTo) ==
    {h \in 1..upTo : h \notin blocks /\ h - 1 \in blocks /\ \E b \in blocks : h < b /\ b <= upTo}
Defect_MarkDoneFirst == TRUE

(* The heights of one poll. *)
NewHeights == (lastKnown + 1)..head

(* new_jobs: everything from the last known height to the head, or nothing. *)
PollForNewJobs ==
    /\ Polled /\ newQ = {}
    /\ \/ head <= lastKnown /\ UNCHANGED <<newQ, lastKnown, early>>
       \/ /\ head > lastKnown
          /\ newQ' = NewHeights /\ lastKnown' = head
          /\ early' = (early \/ ~caughtUp)
    /\ UNCHANGED <<head, blocks, up, base, caughtUp, scan, catchQ, retryQ, running,
                   failed, faults>>

CatchUpPolled == Polled /\ newQ = {} /\ ~caughtUp

(* unprocessed_jobs: the genesis row is made sure of, the last known height *)
(* is read.                                                                 *)
LoadLastKnown ==
    /\ CatchUpPolled /\ scan.pc = "idle"
    /\ blocks' = blocks \cup {0}
    /\ scan' = [pc |-> "loaded", upTo |-> lastKnown, gaps |-> {}]
    /\ UNCHANGED <<head, up, base, lastKnown, caughtUp, early, newQ, catchQ, retryQ, running,
                   failed, faults>>

(* lead(height) OVER (ORDER BY height): the heights between two rows. *)
GapHeights(upTo) ==
    LET rows == {b \in blocks : b <= upTo}
    IN  {h \in 1..upTo : h \notin rows /\ \E a, b \in rows : a < h /\ h < b}

(* find_gaps, first statement. *)
FindGaps ==
    /\ CatchUpPolled /\ scan.pc = "loaded"
    /\ scan' = [scan EXCEPT !.pc = "gaps", !.gaps = GapHeights(scan.upTo)]
    /\ UNCHANGED <<head, blocks, up, base, lastKnown, caughtUp, early, newQ, catchQ, retryQ,
                   running, failed, faults>>

(* The last gap, behind the largest row. *)
TailGap(m, upTo) == (m + 1)..upTo

(* find_gaps, second statement (find_max_in_range from the end of the last  *)
(* gap), and the end of unprocessed_jobs.  There is such a row: the genesis *)
(* row, or the one behind the last gap.                                     *)
CatchUp ==
    /\ CatchUpPolled /\ scan.pc = "gaps"
    /\ \E gapsEnd \in Maxima(scan.gaps \cup {0}) :
       \E m \in Maxima({b \in blocks : gapsEnd <= b /\ b <= scan.upTo}) :
          catchQ' = scan.gaps \cup TailGap(m, scan.upTo)
    /\ caughtUp' = TRUE
    /\ scan' = NoScan
    /\ UNCHANGED <<head, blocks, up, base, lastKnown, early, newQ, retryQ, running, failed,
                   faults>>

(* What a failed scan leaves in catch_up_completed. *)
CompletedAfterFailure == FALSE

(* A statement of unprocessed_jobs fails: the stream asks again later. *)
ScanFails ==
    /\ CatchUpPolled
    /\ Fault("scan")
    /\ caughtUp' = CompletedAfterFailure
    /\ scan' = NoScan
    /\ blocks' \in {blocks, blocks \cup {0}}
    /\ UNCHANGED <<head, up, base, lastKnown, early, newQ, catchQ, retryQ, running, failed>>

(* retry_failed_jobs: failed_jobs is drained into the stream. *)
RetryFailedJobs ==
    /\ Polled /\ newQ = {} /\ retryQ = {} /\ failed # {}
    /\ retryQ' = failed
    /\ failed' = {}
    /\ UNCHANGED <<head, blocks, up, base, lastKnown, caughtUp, early, scan, newQ, catchQ,
                   running, faults>>

-----------------------------------------------------------------------------
(* The pool *)

(* The stream hands out a height: new ones first and in order, gaps from    *)
(* the newest to the oldest (rev()), failed ones in any order.              *)
Take(s) ==
    /\ up /\ running[s] = Idle
    /\ \E h \in newQ \cup catchQ \cup retryQ :
         /\ \/ h \in Minima(newQ) /\ newQ' = newQ \ {h} /\ UNCHANGED <<catchQ, retryQ>>
            \/ /\ newQ = {}
               /\ h \in Maxima(catchQ)
               /\ catchQ' = catchQ \ {h} /\ UNCHANGED <<newQ, retryQ>>
            \/ /\ newQ = {}
               /\ h \in retryQ
               /\ retryQ' = retryQ \ {h} /\ UNCHANGED <<newQ, catchQ>>
         /\ running' = [running EXCEPT ![s] = [height |-> h, tries |-> 0]]
    /\ UNCHANGED <<head, blocks, up, base, lastKnown, caughtUp, early, scan, failed, faults>>

(* process_job: the block and its blobs in one transaction. *)
ProcessJob(s) ==
    /\ running[s] # Idle
    /\ running[s].height <= head
    /\ blocks' = blocks \cup {running[s].height}
    /\ running' = [running EXCEPT ![s] = Idle]
    /\ UNCHANGED <<head, up, base, lastKnown, caughtUp, early, scan, newQ, catchQ, retryQ,
                   failed, faults>>

Defect_DropAfterBackoff(h) == failed

(* failed_jobs after the last attempt at h. *)
KeepForLater(h) == failed \cup {h}

(* process_job fails (always so above the head): another attempt, or        *)
(* "skipping for now, will retry later".                                    *)
FailJob(s) ==
    /\ running[s] # Idle
    /\ Fault("process") \/ (running[s].height > head /\ UNCHANGED faults)
    /\ \/ /\ running[s].tries < Backoff
          /\ running' = [running EXCEPT ![s].tries = @ + 1]
          /\ UNCHANGED failed
       \/ /\ running[s].tries = Backoff
          /\ running' = [running EXCEPT ![s] = Idle]
          /\ failed' = KeepForLater(running[s].height)
    /\ UNCHANGED <<head, blocks, up, base, lastKnown, caughtUp, early, scan, newQ, catchQ, retryQ>>

-----------------------------------------------------------------------------
Next ==
    \/ NewBlock \/ Boot \/ Crash
    \/ PollForNewJobs \/ LoadLastKnown \/ FindGaps \/ CatchUp \/ ScanFails \/ RetryFailedJobs
    \/ \E s \in Slots : Take(s) \/ ProcessJob(s) \/ FailJob(s)

Spec == Init /\ [][Next]_vars

(* The runtime polls streams and jobs, the chain grows up to its bound, and *)
(* the server makes a new indexer when one is gone.                         *)
Fairness ==
    /\ WF_vars(NewBlock) /\ WF_vars(Boot)
    /\ WF_vars(PollForNewJobs) /\ WF_vars(RetryFailedJobs)
    /\ WF_vars(LoadLastKnown \/ FindGaps \/ CatchUp)
    /\ \A s \in Slots : WF_vars(Take(s)) /\ WF_vars(ProcessJob(s) \/ FailJob(s))

FairSpec == Spec /\ Fairness

-----------------------------------------------------------------------------
(* Safety *)

(* Somebody holds the height in memory. *)
Held(h) ==
    \/ h \in newQ \cup catchQ \cup retryQ \cup failed
    \/ \E s \in Slots : running[s].height = h

(* No polled height is dropped: each one that new_jobs handed out since the *)
(* indexer was made is saved or still held, through failed attempts, the    *)
(* drain of failed_jobs and whatever the gap scan does at the same time.    *)
NewHeightsAccounted ==
    up => \A h \in (base + 1)..lastKnown : h \in blocks \/ Held(h)

HeldHeights == newQ \cup catchQ \cup retryQ \cup failed \cup ({running[s].height : s \in Slots} \ {0})

(* The indexer keeps the promise of JobPool: a height it was given leaves   *)
(* its memory only when its block is saved or the indexer ends.  (The row   *)
(* of the genesis block is not the work of a job.)                          *)
Pool == INSTANCE JobPool WITH
    Items <- Heights,
    held  <- HeldHeights,
    saved <- blocks \ {0}

KeepsJobs == Pool!Spec

Covered == \A h \in 1..lastKnown : h \in blocks \/ Held(h)

(* A completed catch up leaves no gap: every height up to the last known    *)
(* one is saved or held, when no poll came between the statements of the    *)
(* gap scan; crashes, failed jobs and failed scans included.                *)
CatchUpCovers == up /\ caughtUp /\ ~early => Covered

(* A comment in retry_failed_jobs counts on the same without the proviso:   *)
(* "if the indexer will be restarted, catch_up will take care of it".       *)
CatchUpMissesNothing == up /\ caughtUp => Covered

-----------------------------------------------------------------------------
(* The inductive invariant behind CatchUpCovers: while no poll has come     *)
(* early nothing is processed during the scan, so its two statements agree. *)
ScanUndisturbed ==
    ~early =>
        /\ ~caughtUp =>
             /\ newQ = {} /\ catchQ = {} /\ retryQ = {} /\ failed = {}
             /\ \A s \in Slots : running[s] = Idle
             /\ lastKnown = base
        /\ scan.pc # "idle" => up /\ ~caughtUp /\ 0 \in blocks /\ scan.upTo = lastKnown
        /\ scan.pc = "gaps" => scan.gaps = GapHeights(scan.upTo)

-----------------------------------------------------------------------------
(* Liveness *)

(* Every block is saved in the end, whatever finitely many failures and     *)
(* crashes come in between, unless a poll disturbs the gap scan.            *)
EveryBlockIndexed == \A h \in 1..MaxHead : h <= head ~> (h \in blocks \/ early)
=============================================================================
