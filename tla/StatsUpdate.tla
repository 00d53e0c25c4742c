----------------------------- MODULE StatsUpdate -----------------------------
(***************************************************************************)
(* The update service of stats (stats-server/src/update_service.rs,        *)
(* blockscout_waiter.rs, update_tracker.rs, stats/src/update_group.rs).    *)
(* Each group of charts waits until Blockscout has indexed what it needs,  *)
(* runs an initial update under a semaphore, and then updates on schedule. *)
(* A further task serves re-update requests.  An update of some charts     *)
(* updates everything they depend on first; the charts of an update are    *)
(* locked one mutex at a time, in the order of their ids.                  *)
(***************************************************************************)
EXTENDS Integers, FiniteSets

CONSTANTS
    Charts,          \* charts that have a mutex; its ids, in their order, are numbers
    Groups,          \* update groups
    Members,         \* Members[g]: enabled_members of g
    DependsOn,       \* DependsOn[c]: all dependencies of c, itself included
    TopStatus,       \* everything is indexed
    Requirement,     \* Requirement[c]: the indexing status c itself needs
    Permits,         \* settings.concurrent_start_updates
    Retries,         \* RETRIES of the status aggregator
    MaxData,         \* bound: versions of the indexed data
    Reupdates,       \* the re-update requests that may be made
    MaxRequests,     \* bound: how many of them
    FaultKinds,      \* the faults that may happen
    MaxFaults        \* bound: how many faults may happen in all

AllFaults ==
    {"update",   \* a statement of an update, or of what is done before it, fails
     "api",      \* the indexing status is not answered
     "crash"}    \* the process dies

(* The on-demand executor. *)
Demand == "demand"
NoProc == "none"
Procs  == Groups \cup {Demand}

(* BlockscoutIndexingStatus and UserOpsIndexingStatus, each in its order. *)
IndexingStatus == [blockscout : 0..TopStatus.blockscout, user_ops : 0..TopStatus.user_ops]

(* OnDemandReupdateRequest: the charts; whether a date to start from is     *)
(* given; update_later.                                                     *)
Request == [charts : SUBSET Charts, from : BOOLEAN, later : BOOLEAN]

ASSUME ConstantsAssumption ==
    /\ Charts \subseteq Nat /\ IsFiniteSet(Charts)
    /\ Demand \notin Groups /\ NoProc \notin Groups
    /\ Members \in [Groups -> SUBSET Charts]
    /\ DependsOn \in [Charts -> SUBSET Charts]
    /\ \A c \in Charts : c \in DependsOn[c]
    /\ \A c \in Charts : \A d \in DependsOn[c] : DependsOn[d] \subseteq DependsOn[c]
    /\ TopStatus \in [blockscout : Nat, user_ops : Nat]
    /\ Requirement \in [Charts -> IndexingStatus]
    /\ Permits \in Nat /\ Retries \in Nat
    /\ MaxData \in Nat /\ Reupdates \subseteq Request /\ MaxRequests \in Nat
    /\ FaultKinds \subseteq AllFaults /\ MaxFaults \in Nat

VARIABLES
    indexed,    \* what Blockscout has indexed
    data,       \* the version of its data
    status,     \* the watch channel of the status aggregator
    errors,     \* consecutive_errors
    val,        \* val[c]: the version of the data the chart shows, 0 before the first update
    dirty,      \* charts whose last_updated_at was set back
    owner,      \* owner[c]: who holds the mutex of c
    pc,         \* pc[p]: what task p does
    purpose,    \* purpose[p]: why it updates or locks
    want,       \* want[p]: the charts it locks
    todo,       \* todo[p]: those it has still to update
    reading,    \* reading[p]: the chart it updates now, and what it has read
    tracker,    \* the initial update tracker: 0 pending .. 4 completed
    requests,   \* requests that wait in the channel
    request,    \* the request the executor is at
    made,       \* requests made so far
    owed,       \* history: charts set back and not recomputed since
    early,      \* history: charts a group's task updated before their requirement was met
    faults      \* faults that have happened

extVars  == <<indexed, data>>
aggVars  == <<status, errors>>
dbVars   == <<val, dirty>>
taskVars == <<owner, pc, purpose, want, todo, reading>>
reqVars  == <<requests, request, made>>
histVars == <<owed, early>>
vars == <<extVars, aggVars, dbVars, taskVars, tracker, reqVars, histVars, faults>>

Pending == 0
WaitingForStartingCondition == 1
QueuedForInitialUpdate == 2
RunningInitialUpdate == 3
CompletedInitialUpdate == 4

NoChart   == -1
NoReading == [chart |-> NoChart, value |-> 0, redo |-> FALSE]
NoRequest == [charts |-> {}, from |-> FALSE, later |-> FALSE]

TypeOK ==
    /\ indexed \in IndexingStatus /\ status \in IndexingStatus
    /\ data \in Nat /\ errors \in 0..Retries
    /\ val \in [Charts -> Nat] /\ dirty \subseteq Charts
    /\ owner \in [Charts -> Procs \cup {NoProc}]
    /\ pc \in [Procs -> {"pending", "waiting", "queued", "locking", "updating", "idle", "next"}]
    /\ purpose \in [Procs -> {"initial", "cron", "set", "now"}]
    /\ want \in [Procs -> SUBSET Charts] /\ todo \in [Procs -> SUBSET Charts]
    /\ reading \in [Procs -> [chart : Charts, value : Nat, redo : BOOLEAN] \cup {NoReading}]
    /\ tracker \in [Charts -> Pending..CompletedInitialUpdate]
    /\ requests \subseteq Request /\ request \in Request /\ made \in 0..MaxRequests
    /\ owed \subseteq Charts /\ early \subseteq Charts
    /\ faults \in 0..MaxFaults

-----------------------------------------------------------------------------
Fault(kind) ==
    /\ kind \in FaultKinds
    /\ faults < MaxFaults
    /\ faults' = faults + 1

Meets(s, r) == s.blockscout >= r.blockscout /\ s.user_ops >= r.user_ops

(* The charts and all they depend on, which the mutex ids, the recursive    *)
(* updates and the indexing requirement of a group are computed over.       *)
Closure(S) == UNION {DependsOn[c] : c \in S}

(* What the service has in memory when it starts. *)
InitialStatus == [blockscout |-> 0, user_ops |-> 0]

Init ==
    /\ indexed = InitialStatus /\ data = 1
    /\ status = InitialStatus /\ errors = 0
    /\ val = [c \in Charts |-> 0] /\ dirty = {}
    /\ owner = [c \in Charts |-> NoProc]
    /\ pc = [p \in Procs |-> IF p = Demand THEN "idle" ELSE "pending"]
    /\ purpose = [p \in Procs |-> IF p = Demand THEN "now" ELSE "initial"]
    /\ want = [p \in Procs |-> {}] /\ todo = [p \in Procs |-> {}]
    /\ reading = [p \in Procs |-> NoReading]
    /\ tracker = [c \in Charts |-> Pending]
    /\ requests = {} /\ request = NoRequest /\ made = 0
    /\ owed = {} /\ early = {}
    /\ faults = 0

(* The service ends and is started again; the tables stay. *)
Restart ==
    /\ status' = InitialStatus /\ errors' = 0
    /\ owner' = [c \in Charts |-> NoProc]
    /\ pc' = [p \in Procs |-> IF p = Demand THEN "idle" ELSE "pending"]
    /\ purpose' = [p \in Procs |-> IF p = Demand THEN "now" ELSE "initial"]
    /\ want' = [p \in Procs |-> {}] /\ todo' = [p \in Procs |-> {}]
    /\ reading' = [p \in Procs |-> NoReading]
    /\ tracker' = [c \in Charts |-> Pending]
    /\ requests' = {} /\ request' = NoRequest
    /\ UNCHANGED <<extVars, dbVars, made, owed, early>>

Crash == Fault("crash") /\ Restart

-----------------------------------------------------------------------------
(* Blockscout *)

(* More is indexed.  (Blockscout does not start over: its indexing ratio    *)
(* does not fall again.)                                                    *)
Index ==
    /\ \E i \in IndexingStatus : Meets(i, indexed) /\ i # indexed /\ indexed' = i
    /\ UNCHANGED <<data, aggVars, dbVars, taskVars, tracker, reqVars, histVars, faults>>

NewData ==
    /\ data < MaxData
    /\ data' = data + 1
    /\ UNCHANGED <<indexed, aggVars, dbVars, taskVars, tracker, reqVars, histVars, faults>>

-----------------------------------------------------------------------------
(* The status aggregator *)

(* check_blockscout_status, check_user_ops_status: a request each. *)
CheckBlockscoutStatus ==
    /\ status' = [status EXCEPT !.blockscout = indexed.blockscout]
    /\ errors' = 0
    /\ UNCHANGED <<extVars, dbVars, taskVars, tracker, reqVars, histVars, faults>>

CheckUserOpsStatus ==
    /\ status' = [status EXCEPT !.user_ops = indexed.user_ops]
    /\ UNCHANGED <<extVars, errors, dbVars, taskVars, tracker, reqVars, histVars, faults>>

Defect_OneErrorMore == errors <= Retries

MoreErrors == errors < Retries

(* Blockscout does not answer.  Too many such errors in a row end the       *)
(* aggregator, and with it the service.                                     *)
CheckFails ==
    \/ /\ "api" \in FaultKinds /\ MoreErrors
       /\ errors' = errors + 1
       /\ UNCHANGED <<extVars, status, dbVars, taskVars, tracker, reqVars, histVars, faults>>
    \/ ~MoreErrors /\ Fault("api") /\ Restart

-----------------------------------------------------------------------------
(* The tracker: a chart only moves on. *)

Mark(S, to) == [c \in Charts |-> IF c \in S /\ tracker[c] < to THEN to ELSE tracker[c]]

-----------------------------------------------------------------------------
(* An update or set_next_update_from under the mutexes *)

Defect_MembersOnly(S) == S

(* joint_dependencies_mutex_ids_of: what to lock for the charts S. *)
ToLock(S) == Closure(S)

(* update_recursively, set_next_update_from_recursively: what is updated or *)
(* set back for the charts S.                                               *)
ToUpdate(S) == Closure(S)

(* Task p goes on to lock what S needs, to update it or set it back.  (A    *)
(* group may have no enabled member; then there is nothing to lock.)        *)
Begin(p, why, S) ==
    /\ pc' = [pc EXCEPT ![p] = IF ToLock(S) = {} THEN "updating" ELSE "locking"]
    /\ purpose' = [purpose EXCEPT ![p] = why]
    /\ want' = [want EXCEPT ![p] = ToLock(S)]
    /\ todo' = [todo EXCEPT ![p] = ToUpdate(S)]
    /\ UNCHANGED <<owner, reading>>

Missing(p) == {c \in want[p] : owner[c] # p}

Defect_AnyOrder(p, c) == c \in Missing(p)

(* lock_in_order: the next mutex. *)
NextMutex(p, c) == c \in Missing(p) /\ \A d \in Missing(p) : c <= d

Lock(p) ==
    /\ pc[p] = "locking"
    /\ \E c \in Missing(p) :
         /\ NextMutex(p, c)
         /\ owner[c] = NoProc
         /\ owner' = [owner EXCEPT ![c] = p]
         /\ pc' = [pc EXCEPT ![p] = IF Missing(p) = {c} THEN "updating" ELSE "locking"]
    /\ UNCHANGED <<extVars, aggVars, dbVars, purpose, want, todo, reading, tracker, reqVars,
                   histVars, faults>>

Unlocked(p) == [c \in Charts |-> IF owner[c] = p THEN NoProc ELSE owner[c]]

(* update_recursively: c is read once its dependencies are updated.  (A     *)
(* chart met again in the same update is skipped.)                          *)
Ready(p, c)  == c \in todo[p] /\ DependsOn[c] \cap todo[p] = {c}
Sources(c)   == {val[d] : d \in DependsOn[c] \ {c}}
Computed(c)  == IF Sources(c) = {} THEN {data} ELSE {v \in Sources(c) : \A w \in Sources(c) : v <= w}

ReadChart(p, c) ==
    /\ pc[p] = "updating" /\ purpose[p] # "set"
    /\ reading[p] = NoReading /\ Ready(p, c)
    /\ \E v \in Computed(c) :
         reading' = [reading EXCEPT ![p] = [chart |-> c, value |-> v, redo |-> c \in dirty]]
    /\ early' = IF p = Demand \/ Meets(indexed, Requirement[c]) THEN early ELSE early \cup {c}
    /\ UNCHANGED <<extVars, aggVars, dbVars, owner, pc, purpose, want, todo, tracker, reqVars,
                   owed, faults>>

(* The values and last_updated_at are stored: the last of the batches in    *)
(* which BatchUpdate does so.                                               *)
WriteChart(p) ==
    LET c == reading[p].chart
    IN  /\ reading[p] # NoReading
        /\ val' = [val EXCEPT ![c] = reading[p].value]
        /\ dirty' = dirty \ {c}
        /\ todo' = [todo EXCEPT ![p] = @ \ {c}]
        /\ reading' = [reading EXCEPT ![p] = NoReading]
        /\ owed' = IF reading[p].redo THEN owed \ {c} ELSE owed
        /\ UNCHANGED <<extVars, aggVars, owner, pc, purpose, want, tracker, reqVars, early,
                       faults>>

(* What follows an update or set-back, whether it succeeded or not.  The    *)
(* initial update of a group is done in both cases.                         *)
After(p) ==
    /\ pc' = [pc EXCEPT ![p] = IF p = Demand THEN "next" ELSE "idle"]
    /\ tracker' = IF p # Demand /\ purpose[p] = "initial"
                  THEN Mark(Members[p], CompletedInitialUpdate) ELSE tracker
    /\ owner' = Unlocked(p)
    /\ want' = [want EXCEPT ![p] = {}] /\ todo' = [todo EXCEPT ![p] = {}]
    /\ reading' = [reading EXCEPT ![p] = NoReading]
    /\ UNCHANGED purpose

Updated(p) ==
    /\ pc[p] = "updating" /\ purpose[p] # "set" /\ todo[p] = {}
    /\ After(p)
    /\ UNCHANGED <<extVars, aggVars, dbVars, reqVars, histVars, faults>>

(* An error ends the whole update; later charts of it are not updated. *)
UpdateFails(p) ==
    /\ pc[p] = "updating" /\ purpose[p] # "set" /\ Fault("update")
    /\ After(p)
    /\ UNCHANGED <<extVars, aggVars, dbVars, reqVars, owed, early>>

(* BlockscoutMigrations::query_from_db fails: no update this time. *)
NoUpdate(p, why) ==
    /\ Fault("update")
    /\ pc' = [pc EXCEPT ![p] = IF p = Demand THEN "next" ELSE "idle"]
    /\ tracker' = IF why = "initial" THEN Mark(Members[p], CompletedInitialUpdate) ELSE tracker
    /\ purpose' = [purpose EXCEPT ![p] = why]
    /\ UNCHANGED <<owner, want, todo, reading>>

Update(p, why, S) ==
    \/ Begin(p, why, S) /\ tracker' = tracker /\ UNCHANGED faults
    \/ NoUpdate(p, why)

-----------------------------------------------------------------------------
(* The task of a group *)

StartGroup(g) ==
    /\ pc[g] = "pending"
    /\ pc' = [pc EXCEPT ![g] = "waiting"]
    /\ tracker' = Mark(Members[g], WaitingForStartingCondition)
    /\ UNCHANGED <<extVars, aggVars, dbVars, owner, purpose, want, todo, reading, reqVars,
                   histVars, faults>>

Defect_OwnRequirement(g) == \A c \in Members[g] : Meets(status, Requirement[c])

(* wait_for_start_condition: the requirements of the enabled members and    *)
(* all they depend on.                                                      *)
StartCondition(g) == \A c \in Closure(Members[g]) : Meets(status, Requirement[c])

QueueGroup(g) ==
    /\ pc[g] = "waiting" /\ StartCondition(g)
    /\ pc' = [pc EXCEPT ![g] = "queued"]
    /\ tracker' = Mark(Members[g], QueuedForInitialUpdate)
    /\ UNCHANGED <<extVars, aggVars, dbVars, owner, purpose, want, todo, reading, reqVars,
                   histVars, faults>>

HasPermit(g) == purpose[g] = "initial" /\ pc[g] \in {"locking", "updating"}

(* The permit of initial_update_semaphore is taken for the initial update.  *)
(* (force_update_on_start is set, as it is by default.)                     *)
RunInitialUpdate(g) ==
    /\ pc[g] = "queued"
    /\ Cardinality({h \in Groups : HasPermit(h)}) < Permits
    /\ \/ /\ Begin(g, "initial", Members[g])
          /\ tracker' = Mark(Members[g], RunningInitialUpdate)
          /\ UNCHANGED faults
       \/ NoUpdate(g, "initial")
    /\ UNCHANGED <<extVars, aggVars, dbVars, reqVars, owed, early>>

(* run_cron *)
RunCron(g) ==
    /\ pc[g] = "idle" /\ g \in Groups
    /\ Update(g, "cron", Members[g])
    /\ UNCHANGED <<extVars, aggVars, dbVars, reqVars, owed, early>>

-----------------------------------------------------------------------------
(* The on-demand executor *)

Enabled == UNION {Members[g] : g \in Groups}

(* handle_update_request *)
HandleUpdateRequest ==
    /\ made < MaxRequests
    /\ made' = made + 1
    /\ \E r \in Reupdates : r.charts # {} /\ requests' = requests \cup {r}
    /\ UNCHANGED <<extVars, aggVars, dbVars, taskVars, tracker, request, histVars, faults>>

ReceiveRequest ==
    /\ pc[Demand] = "idle"
    /\ \E r \in requests :
         /\ request' = [r EXCEPT !.charts = @ \cap Enabled]
         /\ requests' = requests \ {r}
    /\ pc' = [pc EXCEPT ![Demand] = "next"]
    /\ UNCHANGED <<extVars, aggVars, dbVars, owner, purpose, want, todo, reading, tracker, made, histVars,
                   faults>>

(* choose_the_best_matching_group: the same one each time, for one request. *)
Matching(g) == request.charts \cap Members[g]
BestGroup   ==
    CHOOSE g \in Groups : \A h \in Groups : Cardinality(Matching(h)) <= Cardinality(Matching(g))

(* The charts of the best group are set back first if a date is given, then *)
(* updated unless that is left to the schedule; then the other charts.      *)
NextGroup ==
    /\ pc[Demand] = "next" /\ request.charts # {}
    /\ LET g == BestGroup IN
         \/ /\ request.from /\ purpose[Demand] # "set"
            /\ Begin(Demand, "set", Matching(g))
            /\ UNCHANGED <<request, tracker, faults>>
         \/ /\ ~request.later /\ (request.from => purpose[Demand] = "set")
            /\ Update(Demand, "now", Matching(g))
            /\ request' = [request EXCEPT !.charts = @ \ Members[g]]
         \/ /\ request.later /\ (request.from => purpose[Demand] = "set")
            /\ request' = [request EXCEPT !.charts = @ \ Members[g]]
            /\ purpose' = [purpose EXCEPT ![Demand] = "now"]
            /\ UNCHANGED <<owner, pc, want, todo, reading, tracker, faults>>
    /\ UNCHANGED <<extVars, aggVars, dbVars, requests, made, owed, early>>

RequestDone ==
    /\ pc[Demand] = "next" /\ request.charts = {}
    /\ pc' = [pc EXCEPT ![Demand] = "idle"]
    /\ purpose' = [purpose EXCEPT ![Demand] = "now"]
    /\ request' = NoRequest
    /\ UNCHANGED <<extVars, aggVars, dbVars, owner, want, todo, reading, tracker, requests, made,
                   histVars, faults>>

(* set_next_update_from: charts that were updated before are set back.  An  *)
(* error leaves the rest as it is and is only logged.                       *)
SetNextUpdateFrom ==
    /\ pc[Demand] = "updating" /\ purpose[Demand] = "set"
    /\ \E S \in SUBSET todo[Demand] :
         /\ \/ S = todo[Demand] /\ UNCHANGED faults
            \/ S # todo[Demand] /\ Fault("update")
         /\ dirty' = dirty \cup {c \in S : val[c] # 0}
         /\ owed' = owed \cup {c \in S : val[c] # 0}
    /\ After(Demand)
    /\ UNCHANGED <<extVars, aggVars, val, reqVars, early>>

-----------------------------------------------------------------------------
Next ==
    \/ Index \/ NewData \/ CheckBlockscoutStatus \/ CheckUserOpsStatus \/ CheckFails \/ Crash
    \/ \E p \in Procs :
         \/ Lock(p) \/ WriteChart(p) \/ Updated(p) \/ UpdateFails(p)
         \/ \E c \in Charts : ReadChart(p, c)
    \/ \E g \in Groups : StartGroup(g) \/ QueueGroup(g) \/ RunInitialUpdate(g) \/ RunCron(g)
    \/ HandleUpdateRequest \/ ReceiveRequest \/ NextGroup \/ RequestDone \/ SetNextUpdateFrom

Spec == Init /\ [][Next]_vars

(* Blockscout indexes everything in the end; the runtime polls the tasks;   *)
(* the schedule fires; tokio's mutexes and semaphores are first come first  *)
(* served, so who waits for one that is freed again and again gets it.      *)
Fairness ==
    /\ WF_vars(Index) /\ WF_vars(CheckBlockscoutStatus) /\ WF_vars(CheckUserOpsStatus)
    /\ WF_vars(ReceiveRequest \/ NextGroup \/ RequestDone \/ SetNextUpdateFrom)
    /\ \A g \in Groups :
         /\ WF_vars(StartGroup(g)) /\ WF_vars(QueueGroup(g)) /\ WF_vars(RunCron(g))
         /\ SF_vars(RunInitialUpdate(g))
    /\ \A p \in Procs :
         /\ SF_vars(Lock(p))
         /\ WF_vars(WriteChart(p) \/ Updated(p) \/ \E c \in Charts : ReadChart(p, c))

FairSpec == Spec /\ Fairness

-----------------------------------------------------------------------------
(* Safety *)

Waits(p) == pc[p] = "locking"

(* "Deadlock-free": in any set of tasks that wait for mutexes, one waits    *)
(* for a mutex nobody else in the set holds, however their charts and       *)
(* dependencies overlap.                                                    *)
NoCircularWait ==
    \A S \in (SUBSET Procs) \ {{}} :
        (\A p \in S : Waits(p)) =>
            \E p \in S : \E c \in Missing(p) : NextMutex(p, c) /\ owner[c] \notin S

(* A chart that was set back stays so until it is recomputed: no update     *)
(* that read it before overwrites last_updated_at.                          *)
SetBackNotLost == owed \subseteq dirty

(* No group computes a chart before Blockscout has indexed what the chart   *)
(* needs, whether it is a member or a dependency.  (Updates on demand do    *)
(* not wait for the start condition.)                                       *)
ComputedWhenIndexed == early = {}

-----------------------------------------------------------------------------
(* What a step may never do *)

(* A chart never shows older data than before: two tasks do not update it   *)
(* at the same time, although each reads and writes it in separate steps.   *)
NeverOlder == [][\A c \in Charts : val'[c] >= val[c]]_vars

-----------------------------------------------------------------------------
(* Liveness *)

(* Every initial update is completed in the end, through failures, restarts *)
(* and requests.                                                            *)
InitialUpdatesComplete ==
    <>[](\A g \in Groups : \A c \in Members[g] : tracker[c] = CompletedInitialUpdate)

(* Whatever was set back is recomputed again and again, on demand or on     *)
(* schedule.                                                                *)
SetBackRecomputed == []<>(owed = {})
=============================================================================
