-------------------------- MODULE StatsUpdateProofs --------------------------
(***************************************************************************)
(* The mutexes of the charts: no circular wait, and what they are for,     *)
(* for any charts, dependencies, groups and requests.                      *)
(***************************************************************************)
EXTENDS StatsUpdate, FiniteSetTheorems, WellFoundedInduction, TLAPS

(* Who holds a mutex holds it for the update it is at, and has taken those  *)
(* of smaller ids before. *)
InOrder(p) ==
    /\ pc[p] \notin {"locking", "updating"} => want[p] = {}
    /\ \A c \in Charts : owner[c] = p => c \in want[p]
    /\ pc[p] = "locking" =>
         /\ Missing(p) # {}
         /\ \A c, d \in want[p] : owner[c] = p /\ owner[d] # p => c < d
    /\ pc[p] = "updating" => Missing(p) = {}

Locking == \A p \in Procs : InOrder(p)

(* Charts are read, and set back, while they are locked. *)
ReadsLocked(p) ==
    /\ todo[p] \subseteq want[p]
    /\ reading[p] # NoReading =>
         pc[p] = "updating" /\ purpose[p] # "set" /\ reading[p].chart \in todo[p]

UnderLock == \A p \in Procs : ReadsLocked(p)

(* A chart that is read has been set back just if the reader knows it. *)
RedoKnown ==
    \A p \in Procs :
        reading[p] # NoReading => (reading[p].redo <=> reading[p].chart \in dirty)

(* A chart is not newer than what it is computed from, and what has been    *)
(* read for it lies in between.                                             *)
Versions ==
    /\ \A c \in Charts : val[c] <= data /\ \A d \in DependsOn[c] : val[c] <= val[d]
    /\ \A p \in Procs : reading[p] # NoReading =>
         /\ val[reading[p].chart] <= reading[p].value
         /\ reading[p].value <= data
         /\ \A d \in DependsOn[reading[p].chart] \ {reading[p].chart} : reading[p].value <= val[d]

(* What the aggregator tells is behind what is indexed; a group is past its *)
(* wait when all it updates may be computed.                                *)
Started ==
    /\ Meets(indexed, status)
    /\ \A g \in Groups :
         /\ pc[g] \notin {"pending", "waiting"} =>
              \A c \in Closure(Members[g]) : Meets(indexed, Requirement[c])
         /\ want[g] \subseteq Closure(Members[g])

LEMMA Constants ==
    /\ Charts \subseteq Nat /\ IsFiniteSet(Charts)
    /\ Groups \subseteq Procs /\ Demand \in Procs /\ Demand \notin Groups /\ NoProc \notin Procs
    /\ \A g \in Groups : Members[g] \subseteq Charts
    /\ \A c \in Charts : DependsOn[c] \subseteq Charts /\ c \in DependsOn[c]
    /\ \A c \in Charts : Requirement[c] \in IndexingStatus
    /\ TopStatus.blockscout \in Nat /\ TopStatus.user_ops \in Nat
    /\ Retries \in Nat /\ MaxRequests \in Nat /\ MaxFaults \in Nat
    /\ Reupdates \subseteq Request
BY ConstantsAssumption DEF Procs, Demand, NoProc

LEMMA ClosureType ==
    ASSUME NEW S \in SUBSET Charts
    PROVE  Closure(S) \in SUBSET Charts
BY Constants DEF Closure

LEMMA MarkType ==
    ASSUME TypeOK, NEW S, NEW to \in Pending..CompletedInitialUpdate
    PROVE  Mark(S, to) \in [Charts -> Pending..CompletedInitialUpdate]
BY DEF Mark, TypeOK

(* What the tasks do to their own state. *)
TaskType ==
    /\ owner \in [Charts -> Procs \cup {NoProc}]
    /\ pc \in [Procs -> {"pending", "waiting", "queued", "locking", "updating", "idle", "next"}]
    /\ purpose \in [Procs -> {"initial", "cron", "set", "now"}]
    /\ want \in [Procs -> SUBSET Charts] /\ todo \in [Procs -> SUBSET Charts]
    /\ reading \in [Procs -> [chart : Charts, value : Nat, redo : BOOLEAN] \cup {NoReading}]

LEMMA BeginType ==
    ASSUME TaskType, NEW p \in Procs, NEW why \in {"initial", "cron", "set", "now"},
           NEW S \in SUBSET Charts, Begin(p, why, S)
    PROVE  TaskType'
<1>1. Closure(S) \in SUBSET Charts
  BY ClosureType
<1> QED BY <1>1 DEF TaskType, Begin, ToLock, ToUpdate

LEMMA AfterType ==
    ASSUME TypeOK, NEW p \in Procs, After(p)
    PROVE  TaskType' /\ tracker' \in [Charts -> Pending..CompletedInitialUpdate]
<1>1. owner' \in [Charts -> Procs \cup {NoProc}]
  BY DEF After, Unlocked, TypeOK
<1>2. tracker' \in [Charts -> Pending..CompletedInitialUpdate]
  <2>1. CompletedInitialUpdate \in Pending..CompletedInitialUpdate
    BY DEF CompletedInitialUpdate, Pending
  <2> QED BY <2>1, MarkType DEF After, TypeOK
<1> QED BY <1>1, <1>2 DEF TaskType, After, TypeOK

LEMMA NoUpdateType ==
    ASSUME TypeOK, NEW p \in Procs, NEW why \in {"initial", "cron", "set", "now"}, NoUpdate(p, why)
    PROVE  /\ TaskType' /\ tracker' \in [Charts -> Pending..CompletedInitialUpdate]
           /\ faults' \in 0..MaxFaults
<1>1. tracker' \in [Charts -> Pending..CompletedInitialUpdate]
  <2>1. CompletedInitialUpdate \in Pending..CompletedInitialUpdate
    BY DEF CompletedInitialUpdate, Pending
  <2> QED BY <2>1, MarkType DEF NoUpdate, TypeOK
<1>2. faults' \in 0..MaxFaults
  BY Constants DEF NoUpdate, Fault, TypeOK
<1> QED BY <1>1, <1>2 DEF TaskType, NoUpdate, TypeOK

LEMMA UpdateType ==
    ASSUME TypeOK, NEW p \in Procs, NEW why \in {"initial", "cron", "set", "now"},
           NEW S \in SUBSET Charts, Update(p, why, S)
    PROVE  /\ TaskType' /\ tracker' \in [Charts -> Pending..CompletedInitialUpdate]
           /\ faults' \in 0..MaxFaults
<1>1. TaskType
  BY DEF TypeOK, TaskType
<1>2. CASE Begin(p, why, S) /\ tracker' = tracker /\ UNCHANGED faults
  BY <1>1, <1>2, BeginType DEF TypeOK
<1>3. CASE NoUpdate(p, why)
  BY <1>3, NoUpdateType
<1> QED BY <1>2, <1>3 DEF Update

LEMMA FaultType ==
    ASSUME TypeOK, NEW k, Fault(k)
    PROVE  faults' \in 0..MaxFaults
BY Constants DEF Fault, TypeOK

LEMMA RestartType ==
    ASSUME TypeOK, Restart, faults' \in 0..MaxFaults
    PROVE  TypeOK'
<1>1. TaskType'
  BY DEF Restart, TaskType
<1>2. tracker' \in [Charts -> Pending..CompletedInitialUpdate]
  BY DEF Restart, Pending, CompletedInitialUpdate
<1>3. status' \in IndexingStatus
  BY Constants DEF Restart, InitialStatus, IndexingStatus
<1>4. requests' \subseteq Request /\ request' \in Request
  BY DEF Restart, NoRequest, Request
<1>5. errors' \in 0..Retries
  BY Constants DEF Restart
<1>6. <<indexed, data, val, dirty, made, owed, early>>' = <<indexed, data, val, dirty, made, owed, early>>
  BY DEF Restart, extVars, dbVars
<1> QED BY <1>1, <1>2, <1>3, <1>4, <1>5, <1>6 DEF TypeOK, TaskType

LEMMA ComputedType ==
    ASSUME TypeOK, NEW c \in Charts
    PROVE  Sources(c) \subseteq Nat /\ Computed(c) \subseteq Nat
<1>1. Sources(c) \subseteq Nat
  <2>1. DependsOn[c] \subseteq Charts
    BY Constants
  <2> QED BY <2>1 DEF Sources, TypeOK
<1> QED BY <1>1 DEF Computed, TypeOK

LEMMA MatchingType ==
    ASSUME TypeOK, NEW g
    PROVE  /\ Matching(g) \in SUBSET Charts
           /\ [request EXCEPT !.charts = @ \ Members[g]] \in Request
BY DEF Matching, TypeOK, Request

(* TypeOK without what the tasks have of their own. *)
OtherType ==
    /\ indexed \in IndexingStatus /\ status \in IndexingStatus
    /\ data \in Nat /\ errors \in 0..Retries
    /\ val \in [Charts -> Nat] /\ dirty \subseteq Charts
    /\ tracker \in [Charts -> Pending..CompletedInitialUpdate]
    /\ requests \subseteq Request /\ request \in Request /\ made \in 0..MaxRequests
    /\ owed \subseteq Charts /\ early \subseteq Charts
    /\ faults \in 0..MaxFaults

LEMMA Parts == TypeOK <=> TaskType /\ OtherType
BY DEF TypeOK, TaskType, OtherType

LEMMA InitType == Init => TypeOK
<1> SUFFICES ASSUME Init PROVE TypeOK
  OBVIOUS
<1>1. TaskType
  BY Constants DEF Init, TaskType
<1>2. OtherType
  BY Constants DEF Init, OtherType, InitialStatus, IndexingStatus, NoRequest, Request, Pending,
                   CompletedInitialUpdate
<1> QED BY <1>1, <1>2, Parts

LEMMA TypeStep ==
    ASSUME TypeOK, [Next]_vars
    PROVE  TypeOK'
<1> USE DEF extVars, aggVars, dbVars, reqVars, histVars
<1>0. TaskType /\ OtherType
  BY Parts
<1>1. CASE UNCHANGED vars
  BY <1>1 DEF vars, taskVars, TypeOK
<1>2. CASE Index \/ NewData \/ CheckBlockscoutStatus \/ CheckUserOpsStatus
  <2>1. TaskType'
    BY <1>0, <1>2 DEF TaskType, Index, NewData, CheckBlockscoutStatus, CheckUserOpsStatus, taskVars
  <2>2. indexed' \in IndexingStatus /\ status' \in IndexingStatus
    BY <1>2 DEF TypeOK, Index, NewData, CheckBlockscoutStatus, CheckUserOpsStatus, IndexingStatus
  <2>3. data' \in Nat /\ errors' \in 0..Retries
    BY <1>2, Constants DEF TypeOK, Index, NewData, CheckBlockscoutStatus, CheckUserOpsStatus
  <2>4. OtherType'
    BY <1>0, <1>2, <2>2, <2>3
       DEF OtherType, Index, NewData, CheckBlockscoutStatus, CheckUserOpsStatus
  <2> QED BY <2>1, <2>4 DEF TypeOK, TaskType, OtherType
<1>3. CASE CheckFails
  <2>1. CASE ~MoreErrors /\ Fault("api") /\ Restart
    BY <2>1, FaultType, RestartType
  <2>2. CASE MoreErrors /\ errors' = errors + 1
             /\ UNCHANGED <<extVars, status, dbVars, taskVars, tracker, reqVars, histVars, faults>>
    <3>1. errors' \in 0..Retries
      BY <2>2, Constants DEF MoreErrors, TypeOK
    <3> QED BY <2>2, <3>1 DEF TypeOK, taskVars
  <2> QED BY <1>3, <2>1, <2>2 DEF CheckFails
<1>4. CASE Crash
  BY <1>4, FaultType, RestartType DEF Crash
<1>5. ASSUME NEW p \in Procs, Lock(p)
      PROVE  TypeOK'
  <2>1. TaskType'
    BY <1>0, <1>5 DEF TaskType, Lock
  <2>2. OtherType'
    BY <1>0, <1>5 DEF OtherType, Lock
  <2> QED BY <2>1, <2>2 DEF TypeOK, TaskType, OtherType
<1>6. ASSUME NEW p \in Procs, WriteChart(p)
      PROVE  TypeOK'
  <2>1. reading[p].chart \in Charts /\ reading[p].value \in Nat
    BY <1>6 DEF WriteChart, TypeOK
  <2>2. TaskType'
    BY <1>0, <1>6 DEF TaskType, WriteChart
  <2>3. OtherType'
    BY <1>0, <1>6, <2>1 DEF OtherType, WriteChart
  <2> QED BY <2>2, <2>3 DEF TypeOK, TaskType, OtherType
<1>7. ASSUME NEW p \in Procs, Updated(p) \/ UpdateFails(p)
      PROVE  TypeOK'
  <2>1. TaskType' /\ tracker' \in [Charts -> Pending..CompletedInitialUpdate]
    BY <1>7, AfterType DEF Updated, UpdateFails
  <2>2. faults' \in 0..MaxFaults
    BY <1>7, FaultType DEF Updated, UpdateFails, TypeOK
  <2>3. OtherType'
    BY <1>0, <1>7, <2>1, <2>2 DEF OtherType, Updated, UpdateFails
  <2> QED BY <2>1, <2>3 DEF TypeOK, TaskType, OtherType
<1>8. ASSUME NEW p \in Procs, NEW c \in Charts, ReadChart(p, c)
      PROVE  TypeOK'
  <2>1. PICK v \in Computed(c) :
          reading' = [reading EXCEPT ![p] = [chart |-> c, value |-> v, redo |-> c \in dirty]]
    BY <1>8 DEF ReadChart
  <2>2. v \in Nat
    BY ComputedType
  <2>3. TaskType'
    BY <1>0, <1>8, <2>1, <2>2 DEF TaskType, ReadChart
  <2>4. OtherType'
    BY <1>0, <1>8 DEF OtherType, ReadChart
  <2> QED BY <2>3, <2>4 DEF TypeOK, TaskType, OtherType
<1>9. ASSUME NEW g \in Groups, StartGroup(g) \/ QueueGroup(g)
      PROVE  TypeOK'
  <2>1. TaskType'
    BY <1>0, <1>9, Constants DEF TaskType, StartGroup, QueueGroup
  <2>2. tracker' \in [Charts -> Pending..CompletedInitialUpdate]
    BY <1>9, MarkType DEF StartGroup, QueueGroup, Pending, CompletedInitialUpdate,
                          WaitingForStartingCondition, QueuedForInitialUpdate
  <2>3. OtherType'
    BY <1>0, <1>9, <2>2 DEF OtherType, StartGroup, QueueGroup
  <2> QED BY <2>1, <2>3 DEF TypeOK, TaskType, OtherType
<1>10. ASSUME NEW g \in Groups, RunInitialUpdate(g) \/ RunCron(g)
       PROVE  TypeOK'
  <2>1. g \in Procs /\ Members[g] \in SUBSET Charts
    BY Constants
  <2>2. /\ TaskType' /\ tracker' \in [Charts -> Pending..CompletedInitialUpdate]
        /\ faults' \in 0..MaxFaults
    <3>1. CASE /\ Begin(g, "initial", Members[g])
               /\ tracker' = Mark(Members[g], RunningInitialUpdate) /\ UNCHANGED faults
      <4>1. TaskType'
        BY <1>0, <2>1, <3>1, BeginType
      <4>2. RunningInitialUpdate \in Pending..CompletedInitialUpdate
        BY DEF RunningInitialUpdate, Pending, CompletedInitialUpdate
      <4> QED BY <3>1, <4>1, <4>2, MarkType DEF TypeOK
    <3>2. CASE NoUpdate(g, "initial")
      BY <2>1, <3>2, NoUpdateType
    <3>3. CASE Update(g, "cron", Members[g])
      BY <2>1, <3>3, UpdateType
    <3> QED BY <1>10, <3>1, <3>2, <3>3 DEF RunInitialUpdate, RunCron
  <2>3. OtherType'
    BY <1>0, <1>10, <2>2 DEF OtherType, RunInitialUpdate, RunCron
  <2> QED BY <2>2, <2>3 DEF TypeOK, TaskType, OtherType
<1>11. CASE HandleUpdateRequest
  <2>1. requests' \subseteq Request
    BY <1>11, Constants DEF HandleUpdateRequest, TypeOK
  <2>2. made' \in 0..MaxRequests
    BY <1>11, Constants DEF HandleUpdateRequest, TypeOK
  <2> QED BY <1>11, <2>1, <2>2 DEF HandleUpdateRequest, TypeOK, taskVars
<1>12. CASE ReceiveRequest
  <2>1. PICK r \in requests : /\ request' = [r EXCEPT !.charts = @ \cap Enabled]
                              /\ requests' = requests \ {r}
    BY <1>12 DEF ReceiveRequest
  <2>2. request' \in Request /\ requests' \subseteq Request
    BY <2>1 DEF TypeOK, Request
  <2>3. TaskType'
    BY <1>0, <1>12, Constants DEF TaskType, ReceiveRequest
  <2>4. OtherType'
    BY <1>0, <1>12, <2>2 DEF OtherType, ReceiveRequest
  <2> QED BY <2>3, <2>4 DEF TypeOK, TaskType, OtherType
<1>13. CASE NextGroup
  <2>1. PICK g : /\ g = BestGroup
                 /\ \/ /\ Begin(Demand, "set", Matching(g))
                       /\ UNCHANGED <<request, tracker, faults>>
                    \/ /\ Update(Demand, "now", Matching(g))
                       /\ request' = [request EXCEPT !.charts = @ \ Members[g]]
                    \/ /\ request' = [request EXCEPT !.charts = @ \ Members[g]]
                       /\ purpose' = [purpose EXCEPT ![Demand] = "now"]
                       /\ UNCHANGED <<owner, pc, want, todo, reading, tracker, faults>>
    BY <1>13 DEF NextGroup
  <2>2. Demand \in Procs /\ Matching(g) \in SUBSET Charts
    BY Constants, MatchingType
  <2>3. /\ TaskType' /\ tracker' \in [Charts -> Pending..CompletedInitialUpdate]
        /\ faults' \in 0..MaxFaults
    <3>1. CASE Begin(Demand, "set", Matching(g)) /\ UNCHANGED <<request, tracker, faults>>
      BY <1>0, <2>2, <3>1, BeginType DEF TypeOK
    <3>2. CASE Update(Demand, "now", Matching(g))
      BY <2>2, <3>2, UpdateType
    <3>3. CASE /\ purpose' = [purpose EXCEPT ![Demand] = "now"]
               /\ UNCHANGED <<owner, pc, want, todo, reading, tracker, faults>>
      BY <1>0, <3>3 DEF TaskType, TypeOK
    <3> QED BY <2>1, <3>1, <3>2, <3>3
  <2>4. request' \in Request
    BY <2>1, MatchingType DEF TypeOK
  <2>5. OtherType'
    BY <1>0, <1>13, <2>3, <2>4 DEF OtherType, NextGroup
  <2> QED BY <2>3, <2>5 DEF TypeOK, TaskType, OtherType
<1>14. CASE RequestDone
  <2>1. request' \in Request
    BY <1>14 DEF RequestDone, NoRequest, Request
  <2>2. TaskType'
    BY <1>0, <1>14, Constants DEF TaskType, RequestDone
  <2>3. OtherType'
    BY <1>0, <1>14, <2>1 DEF OtherType, RequestDone
  <2> QED BY <2>2, <2>3 DEF TypeOK, TaskType, OtherType
<1>15. CASE SetNextUpdateFrom
  <2>1. TaskType' /\ tracker' \in [Charts -> Pending..CompletedInitialUpdate]
    BY <1>15, Constants, AfterType DEF SetNextUpdateFrom
  <2>2. PICK S \in SUBSET todo[Demand] :
          /\ UNCHANGED faults \/ Fault("update")
          /\ dirty' = dirty \cup {c \in S : val[c] # 0}
          /\ owed' = owed \cup {c \in S : val[c] # 0}
    BY <1>15 DEF SetNextUpdateFrom
  <2>3. faults' \in 0..MaxFaults
    BY <2>2, FaultType DEF TypeOK
  <2>4. dirty' \subseteq Charts /\ owed' \subseteq Charts
    BY <2>2, Constants DEF TypeOK
  <2>5. OtherType'
    BY <1>0, <1>15, <2>1, <2>3, <2>4 DEF OtherType, SetNextUpdateFrom
  <2> QED BY <2>1, <2>5 DEF TypeOK, TaskType, OtherType
<1> QED
  BY <1>1, <1>2, <1>3, <1>4, <1>5, <1>6, <1>7, <1>8, <1>9, <1>10, <1>11, <1>12, <1>13, <1>14, <1>15
     DEF Next

(* Every variable of the update service keeps its type.  Nothing else is    *)
(* needed for it.                                                           *)
THEOREM TypeCorrect == Spec => []TypeOK
BY InitType, TypeStep, PTL DEF Spec

-----------------------------------------------------------------------------
(* The mutexes.  First what the steps of a task have in common. *)

LEMMA MoveKeeps ==
    ASSUME TypeOK, Locking, UnderLock, NEW p \in Procs,
           pc[p] \notin {"locking", "updating"},
           NEW x, x \notin {"locking", "updating"}, pc' = [pc EXCEPT ![p] = x],
           NEW w, purpose' = [purpose EXCEPT ![p] = w],
           UNCHANGED <<owner, want, todo, reading>>
    PROVE  Locking' /\ UnderLock'
<1> SUFFICES ASSUME NEW q \in Procs PROVE InOrder(q)' /\ ReadsLocked(q)'
  BY DEF Locking, UnderLock
<1>1. InOrder(q) /\ ReadsLocked(q) /\ Missing(q)' = Missing(q)
  BY DEF Locking, UnderLock, Missing
<1>2. CASE q = p
  BY <1>1, <1>2 DEF InOrder, ReadsLocked, TypeOK
<1>3. CASE q # p
  BY <1>1, <1>3 DEF InOrder, ReadsLocked, TypeOK
<1> QED BY <1>2, <1>3

LEMMA BeginKeeps ==
    ASSUME TypeOK, Locking, UnderLock, NEW p \in Procs,
           pc[p] \notin {"locking", "updating"}, NEW why, NEW S \in SUBSET Charts, Begin(p, why, S)
    PROVE  Locking' /\ UnderLock'
<1> SUFFICES ASSUME NEW q \in Procs PROVE InOrder(q)' /\ ReadsLocked(q)'
  BY DEF Locking, UnderLock
<1>1. InOrder(q) /\ ReadsLocked(q)
  BY DEF Locking, UnderLock
<1>2. CASE q = p
  <2>1. reading[p] = NoReading /\ \A c \in Charts : owner[c] # p
    BY <1>1, <1>2 DEF InOrder, ReadsLocked
  <2>2. want'[p] = Closure(S) /\ todo'[p] = Closure(S) /\ owner' = owner /\ reading' = reading
    BY DEF Begin, ToLock, ToUpdate, TypeOK
  <2>3. pc'[p] = IF Closure(S) = {} THEN "updating" ELSE "locking"
    BY DEF Begin, ToLock, TypeOK
  <2>4. want'[p] \subseteq Charts
    BY <2>2, ClosureType
  <2>5. Missing(p)' = want'[p]
    BY <2>1, <2>2, <2>4 DEF Missing
  <2> QED BY <1>2, <2>1, <2>2, <2>3, <2>4, <2>5 DEF InOrder, ReadsLocked
<1>3. CASE q # p
  <2>1. /\ want'[q] = want[q] /\ todo'[q] = todo[q] /\ pc'[q] = pc[q] /\ purpose'[q] = purpose[q]
        /\ owner' = owner /\ reading' = reading
    BY <1>3 DEF Begin, TypeOK
  <2>2. Missing(q)' = Missing(q)
    BY <2>1 DEF Missing
  <2> QED BY <1>1, <2>1, <2>2 DEF InOrder, ReadsLocked
<1> QED BY <1>2, <1>3

LEMMA AfterKeeps ==
    ASSUME TypeOK, Locking, UnderLock, NEW p \in Procs, After(p)
    PROVE  Locking' /\ UnderLock'
<1> SUFFICES ASSUME NEW q \in Procs PROVE InOrder(q)' /\ ReadsLocked(q)'
  BY DEF Locking, UnderLock
<1>1. InOrder(q) /\ ReadsLocked(q)
  BY DEF Locking, UnderLock
<1>2. q # NoProc
  BY Constants
<1>3. \A c \in Charts : owner'[c] = IF owner[c] = p THEN NoProc ELSE owner[c]
  BY DEF After, Unlocked
<1>4. CASE q = p
  <2>1. want'[p] = {} /\ todo'[p] = {} /\ reading'[p] = NoReading /\ pc'[p] \in {"next", "idle"}
    BY DEF After, TypeOK
  <2>2. \A c \in Charts : owner'[c] # p
    BY <1>2, <1>3, <1>4
  <2> QED BY <1>4, <2>1, <2>2 DEF InOrder, ReadsLocked
<1>5. CASE q # p
  <2>1. /\ want'[q] = want[q] /\ todo'[q] = todo[q] /\ pc'[q] = pc[q] /\ purpose'[q] = purpose[q]
        /\ reading'[q] = reading[q]
    BY <1>5 DEF After, TypeOK
  <2>2. \A c \in Charts : owner'[c] = q <=> owner[c] = q
    BY <1>2, <1>3, <1>5
  <2>3. want[q] \subseteq Charts
    BY DEF TypeOK
  <2>4. Missing(q)' = Missing(q)
    BY <2>1, <2>2, <2>3 DEF Missing
  <2> QED BY <1>1, <2>1, <2>2, <2>3, <2>4 DEF InOrder, ReadsLocked
<1> QED BY <1>4, <1>5

LEMMA RestartKeeps ==
    ASSUME Restart
    PROVE  Locking' /\ UnderLock'
<1> SUFFICES ASSUME NEW q \in Procs PROVE InOrder(q)' /\ ReadsLocked(q)'
  BY DEF Locking, UnderLock
<1>1. q # NoProc
  BY Constants
<1>2. /\ want'[q] = {} /\ todo'[q] = {} /\ reading'[q] = NoReading /\ pc'[q] \in {"pending", "idle"}
      /\ \A c \in Charts : owner'[c] = NoProc
  BY DEF Restart
<1> QED BY <1>1, <1>2 DEF InOrder, ReadsLocked

LEMMA LockKeeps ==
    ASSUME TypeOK, Locking, UnderLock, NEW p \in Procs, Lock(p)
    PROVE  Locking' /\ UnderLock'
<1>1. PICK c \in Missing(p) :
        /\ NextMutex(p, c) /\ owner[c] = NoProc
        /\ owner' = [owner EXCEPT ![c] = p]
        /\ pc' = [pc EXCEPT ![p] = IF Missing(p) = {c} THEN "updating" ELSE "locking"]
  BY DEF Lock
<1>2. pc[p] = "locking" /\ UNCHANGED <<want, todo, reading, purpose>>
  BY DEF Lock
<1>3. c \in want[p] /\ \A q \in Procs : want[q] \in SUBSET Charts
  BY DEF Missing, TypeOK
<1>4. c \in Charts /\ Charts \subseteq Nat
  BY <1>3, Constants
<1> SUFFICES ASSUME NEW q \in Procs PROVE InOrder(q)' /\ ReadsLocked(q)'
  BY DEF Locking, UnderLock
<1>5. InOrder(q) /\ ReadsLocked(q) /\ InOrder(p) /\ ReadsLocked(p)
  BY DEF Locking, UnderLock
<1>6. q # NoProc /\ want[q] \subseteq Charts
  BY Constants DEF TypeOK
<1>7. \A d \in Charts : owner'[d] = IF d = c THEN p ELSE owner[d]
  BY <1>1 DEF TypeOK
<1>8. CASE q = p
  <2>1. Missing(p)' = Missing(p) \ {c}
    BY <1>2, <1>6, <1>7, <1>8 DEF Missing
  <2>2. pc'[p] = IF Missing(p) = {c} THEN "updating" ELSE "locking"
    BY <1>1 DEF TypeOK
  <2>3. \A d \in Missing(p) \ {c} : c < d
    BY <1>1, <1>3, <1>4 DEF NextMutex, Missing
  <2>4. \A a, d \in want[p] : owner'[a] = p /\ owner'[d] # p => a < d
    <3> TAKE a, d \in want[p]
    <3>1. HAVE owner'[a] = p /\ owner'[d] # p
    <3>2. d # c /\ owner[d] # p /\ d \in Missing(p)
      BY <1>6, <1>7, <1>8, <3>1 DEF Missing
    <3>3. CASE a = c
      BY <2>3, <3>2, <3>3
    <3>4. CASE a # c
      <4>1. owner[a] = p
        BY <1>6, <1>7, <1>8, <3>1, <3>4
      <4> QED BY <1>2, <1>5, <3>2, <4>1 DEF InOrder
    <3> QED BY <3>3, <3>4
  <2>5. \A d \in Charts : owner'[d] = p => d \in want'[p]
    BY <1>2, <1>3, <1>5, <1>7 DEF InOrder
  <2>6. Missing(p)' = {} <=> Missing(p) = {c}
    BY <1>1, <2>1
  <2>7. InOrder(p)'
    BY <1>2, <2>2, <2>4, <2>5, <2>6 DEF InOrder
  <2>8. ReadsLocked(p)'
    BY <1>2, <1>5 DEF ReadsLocked
  <2> QED BY <1>8, <2>7, <2>8
<1>9. CASE q # p
  <2>1. pc'[q] = pc[q]
    BY <1>1, <1>9 DEF TypeOK
  <2>2. \A d \in Charts : owner'[d] = q <=> owner[d] = q
    BY <1>1, <1>6, <1>7, <1>9
  <2>3. Missing(q)' = Missing(q)
    BY <1>2, <1>6, <2>2 DEF Missing
  <2> QED BY <1>2, <1>5, <1>6, <2>1, <2>2, <2>3 DEF InOrder, ReadsLocked
<1> QED BY <1>8, <1>9

LEMMA SameKeeps ==
    ASSUME Locking, UnderLock, UNCHANGED taskVars
    PROVE  Locking' /\ UnderLock'
<1> SUFFICES ASSUME NEW q \in Procs PROVE InOrder(q)' /\ ReadsLocked(q)'
  BY DEF Locking, UnderLock
<1>1. InOrder(q) /\ ReadsLocked(q) /\ Missing(q)' = Missing(q)
  BY DEF Locking, UnderLock, Missing, taskVars
<1> QED BY <1>1 DEF InOrder, ReadsLocked, taskVars

LEMMA NoUpdateKeeps ==
    ASSUME TypeOK, Locking, UnderLock, NEW p \in Procs, pc[p] \notin {"locking", "updating"},
           NEW why, NoUpdate(p, why)
    PROVE  Locking' /\ UnderLock'
<1> DEFINE x == IF p = Demand THEN "next" ELSE "idle"
<1>1. /\ x \notin {"locking", "updating"} /\ pc' = [pc EXCEPT ![p] = x]
      /\ purpose' = [purpose EXCEPT ![p] = why] /\ UNCHANGED <<owner, want, todo, reading>>
  BY DEF NoUpdate
<1> HIDE DEF x
<1> QED BY <1>1, MoveKeeps

LEMMA UpdateKeeps ==
    ASSUME TypeOK, Locking, UnderLock, NEW p \in Procs, pc[p] \notin {"locking", "updating"},
           NEW why, NEW S \in SUBSET Charts, Update(p, why, S)
    PROVE  Locking' /\ UnderLock'
BY BeginKeeps, NoUpdateKeeps DEF Update

LEMMA WriteKeeps ==
    ASSUME TypeOK, Locking, UnderLock, NEW p \in Procs, WriteChart(p)
    PROVE  Locking' /\ UnderLock'
<1> SUFFICES ASSUME NEW q \in Procs PROVE InOrder(q)' /\ ReadsLocked(q)'
  BY DEF Locking, UnderLock
<1>1. InOrder(q) /\ ReadsLocked(q)
  BY DEF Locking, UnderLock
<1>2. UNCHANGED <<owner, pc, purpose, want>>
  BY DEF WriteChart
<1>3. todo'[q] \subseteq todo[q]
  BY DEF WriteChart, TypeOK
<1>4. q = p => reading'[q] = NoReading
  BY DEF WriteChart, TypeOK
<1>5. q # p => reading'[q] = reading[q] /\ todo'[q] = todo[q]
  BY DEF WriteChart, TypeOK
<1>6. InOrder(q)'
  BY <1>1, <1>2 DEF InOrder, Missing
<1> QED BY <1>1, <1>2, <1>3, <1>4, <1>5, <1>6 DEF ReadsLocked

LEMMA ReadKeeps ==
    ASSUME TypeOK, Locking, UnderLock, NEW p \in Procs, NEW c \in Charts, ReadChart(p, c)
    PROVE  Locking' /\ UnderLock'
<1> SUFFICES ASSUME NEW q \in Procs PROVE InOrder(q)' /\ ReadsLocked(q)'
  BY DEF Locking, UnderLock
<1>1. InOrder(q) /\ ReadsLocked(q)
  BY DEF Locking, UnderLock
<1>2. UNCHANGED <<owner, pc, purpose, want, todo>>
  BY DEF ReadChart
<1>3. q = p => pc[q] = "updating" /\ purpose[q] # "set" /\ reading'[q].chart = c /\ c \in todo[q]
  BY DEF ReadChart, Ready, TypeOK
<1>4. q # p => reading'[q] = reading[q]
  BY DEF ReadChart, TypeOK
<1>5. InOrder(q)'
  BY <1>1, <1>2 DEF InOrder, Missing
<1> QED BY <1>1, <1>2, <1>3, <1>4, <1>5 DEF ReadsLocked

LEMMA MutexStep ==
    ASSUME TypeOK, Locking, UnderLock, [Next]_vars
    PROVE  Locking' /\ UnderLock'
<1>1. CASE UNCHANGED taskVars
  BY <1>1, SameKeeps
<1>2. CASE CheckFails
  BY <1>1, <1>2, RestartKeeps DEF CheckFails
<1>3. CASE Crash
  BY <1>3, RestartKeeps DEF Crash
<1>4. ASSUME NEW p \in Procs,
             Lock(p) \/ WriteChart(p) \/ Updated(p) \/ UpdateFails(p) \/ \E c \in Charts : ReadChart(p, c)
      PROVE  Locking' /\ UnderLock'
  BY <1>4, LockKeeps, WriteKeeps, AfterKeeps, ReadKeeps DEF Updated, UpdateFails
<1>5. ASSUME NEW g \in Groups, StartGroup(g) \/ QueueGroup(g)
      PROVE  Locking' /\ UnderLock'
  <2>1. g \in Procs /\ purpose' = [purpose EXCEPT ![g] = purpose[g]]
    BY <1>5, Constants DEF StartGroup, QueueGroup, TypeOK
  <2>2. pc[g] \notin {"locking", "updating"} /\ UNCHANGED <<owner, want, todo, reading>>
    BY <1>5 DEF StartGroup, QueueGroup
  <2>3. pc' = [pc EXCEPT ![g] = "waiting"] \/ pc' = [pc EXCEPT ![g] = "queued"]
    BY <1>5 DEF StartGroup, QueueGroup
  <2> QED BY <2>1, <2>2, <2>3, MoveKeeps
<1>6. ASSUME NEW g \in Groups, RunInitialUpdate(g) \/ RunCron(g)
      PROVE  Locking' /\ UnderLock'
  <2>1. g \in Procs /\ Members[g] \in SUBSET Charts
    BY Constants
  <2>2. pc[g] \notin {"locking", "updating"}
    BY <1>6 DEF RunInitialUpdate, RunCron
  <2>3. \/ Begin(g, "initial", Members[g]) \/ NoUpdate(g, "initial")
        \/ Update(g, "cron", Members[g])
    BY <1>6 DEF RunInitialUpdate, RunCron
  <2> QED BY <2>1, <2>2, <2>3, BeginKeeps, NoUpdateKeeps, UpdateKeeps
<1>7. CASE ReceiveRequest \/ RequestDone
  <2>1. Demand \in Procs
    BY Constants
  <2>2. pc[Demand] \notin {"locking", "updating"} /\ UNCHANGED <<owner, want, todo, reading>>
    BY <1>7 DEF ReceiveRequest, RequestDone
  <2>3. CASE ReceiveRequest
    <3>1. /\ pc' = [pc EXCEPT ![Demand] = "next"]
          /\ purpose' = [purpose EXCEPT ![Demand] = purpose[Demand]]
      BY <2>3 DEF ReceiveRequest, TypeOK
    <3> QED BY <2>1, <2>2, <3>1, MoveKeeps
  <2>4. CASE RequestDone
    <3>1. pc' = [pc EXCEPT ![Demand] = "idle"] /\ purpose' = [purpose EXCEPT ![Demand] = "now"]
      BY <2>4 DEF RequestDone
    <3> QED BY <2>1, <2>2, <3>1, MoveKeeps
  <2> QED BY <1>7, <2>3, <2>4
<1>8. CASE NextGroup
  <2>1. PICK g : \/ Begin(Demand, "set", Matching(g))
                 \/ Update(Demand, "now", Matching(g))
                 \/ /\ purpose' = [purpose EXCEPT ![Demand] = "now"]
                    /\ UNCHANGED <<owner, pc, want, todo, reading>>
    BY <1>8 DEF NextGroup
  <2>2. Demand \in Procs /\ Matching(g) \in SUBSET Charts
    BY Constants, MatchingType
  <2>3. pc[Demand] \notin {"locking", "updating"} /\ pc = [pc EXCEPT ![Demand] = pc[Demand]]
    BY <1>8 DEF NextGroup, TypeOK
  <2>4. CASE Begin(Demand, "set", Matching(g))
    BY <2>2, <2>3, <2>4, BeginKeeps
  <2>5. CASE Update(Demand, "now", Matching(g))
    BY <2>2, <2>3, <2>5, UpdateKeeps
  <2>6. CASE /\ purpose' = [purpose EXCEPT ![Demand] = "now"]
             /\ UNCHANGED <<owner, pc, want, todo, reading>>
    <3>1. pc' = [pc EXCEPT ![Demand] = pc[Demand]]
      BY <2>3, <2>6
    <3> QED BY <2>2, <2>3, <2>6, <3>1, MoveKeeps
  <2> QED BY <2>1, <2>4, <2>5, <2>6
<1>9. CASE SetNextUpdateFrom
  BY <1>9, Constants, AfterKeeps DEF SetNextUpdateFrom
<1>10. (Index \/ NewData \/ CheckBlockscoutStatus \/ CheckUserOpsStatus \/ HandleUpdateRequest
        \/ UNCHANGED vars) => UNCHANGED taskVars
  BY DEF Index, NewData, CheckBlockscoutStatus, CheckUserOpsStatus, HandleUpdateRequest, vars
<1> QED
  BY <1>1, <1>2, <1>3, <1>4, <1>5, <1>6, <1>7, <1>8, <1>9, <1>10 DEF Next

LEMMA InitLocks == Init => Locking /\ UnderLock
<1> SUFFICES ASSUME Init, NEW q \in Procs PROVE InOrder(q) /\ ReadsLocked(q)
  BY DEF Locking, UnderLock
<1>1. q # NoProc
  BY Constants
<1>2. /\ want[q] = {} /\ todo[q] = {} /\ reading[q] = NoReading /\ pc[q] \in {"pending", "idle"}
      /\ \A c \in Charts : owner[c] = NoProc
  BY DEF Init
<1> QED BY <1>1, <1>2 DEF InOrder, ReadsLocked

(* Two tasks are never at the same chart. *)
LEMMA OneAtAChart ==
    ASSUME TypeOK, Locking, UnderLock, NEW p \in Procs, NEW q \in Procs, NEW c \in Charts,
           pc[p] = "updating", pc[q] = "updating", c \in want[p], c \in want[q]
    PROVE  p = q
BY DEF Locking, InOrder, Missing

-----------------------------------------------------------------------------
(* No circular wait *)

LEMMA NextExists ==
    ASSUME TypeOK, Locking, NEW p \in Procs, Waits(p)
    PROVE  \E c \in Missing(p) : NextMutex(p, c)
<1>1. Missing(p) \in SUBSET Nat /\ Missing(p) # {}
  BY Constants DEF Missing, TypeOK, Locking, InOrder, Waits
<1>2. IsWellFoundedOn(OpToRel(<, Nat), Nat)
  BY NatLessThanWellFounded
<1>3. PICK c \in Missing(p) : \A d \in Missing(p) : ~(<<d, c>> \in OpToRel(<, Nat))
  BY <1>1, <1>2, WFMin
<1>4. \A d \in Missing(p) : ~(d < c)
  BY <1>1, <1>3 DEF OpToRel
<1>5. \A d \in Missing(p) : c <= d
  <2> TAKE d \in Missing(p)
  <2>1. c \in Nat /\ d \in Nat /\ ~(d < c)
    BY <1>1, <1>4
  <2> QED BY <2>1
<1> QED BY <1>3, <1>5 DEF NextMutex

LEMMA GreatestExists ==
    ASSUME NEW T \in SUBSET Charts, T # {}
    PROVE  \E c \in T : \A d \in T : d <= c
<1> DEFINE above(c) == {d \in Charts : d > c}
           A == {above(c) : c \in T}
<1>1. A \subseteq FiniteSubsetsOf(Charts) /\ A # {}
  <2>1. \A c \in T : above(c) \subseteq Charts /\ IsFiniteSet(above(c))
    BY Constants, FS_Subset
  <2> QED BY <2>1 DEF FiniteSubsetsOf
<1>2. IsWellFoundedOn(StrictSubsetOrdering(Charts), FiniteSubsetsOf(Charts))
  BY FS_StrictSubsetOrderingWellFounded
<1>3. PICK a \in A : \A b \in A : ~(<<b, a>> \in StrictSubsetOrdering(Charts))
  <2> HIDE DEF A
  <2> QED BY <1>1, <1>2, WFMin
<1>4. PICK c \in T : a = above(c)
  BY <1>3
<1>5. Charts \subseteq Nat
  BY Constants
<1>6. \A d \in T : d <= c
  <2> SUFFICES ASSUME NEW d \in T, ~(d <= c) PROVE FALSE
    OBVIOUS
  <2>0. c \in Nat /\ d \in Nat /\ d > c
    <3>1. c \in Nat /\ d \in Nat
      BY <1>5
    <3> QED BY <3>1
  <2>1. above(d) \subseteq above(c) /\ d \in above(c) /\ d \notin above(d)
    <3>1. \A e \in Charts : e > d => e > c
      <4> TAKE e \in Charts
      <4>1. e \in Nat
        BY <1>5
      <4> QED BY <2>0, <4>1
    <3>2. ~(d > d) /\ d \in Charts
      BY <2>0
    <3> QED BY <2>0, <3>1, <3>2
  <2>2. above(d) \in A /\ above(d) \subseteq Charts /\ above(c) \subseteq Charts
    OBVIOUS
  <2>3. above(d) # above(c)
    BY <2>1
  <2> HIDE DEF above, A
  <2>4. <<above(d), above(c)>> \in StrictSubsetOrdering(Charts)
    BY <2>1, <2>2, <2>3 DEF StrictSubsetOrdering
  <2> QED BY <1>3, <1>4, <2>2, <2>4
<1> QED BY <1>6

(* Of the tasks that wait, take the one whose next mutex is greatest: a     *)
(* task that held it would wait for a greater one.                          *)
LEMMA OrderBreaksCycles == TypeOK /\ Locking => NoCircularWait
<1> SUFFICES ASSUME TypeOK, Locking, NEW S \in (SUBSET Procs) \ {{}}, \A p \in S : Waits(p)
             PROVE  \E p \in S : \E c \in Missing(p) : NextMutex(p, c) /\ owner[c] \notin S
  BY DEF NoCircularWait
<1> DEFINE T == {c \in Charts : \E p \in S : NextMutex(p, c)}
<1>1. T \in SUBSET Charts /\ T # {}
  <2>1. \A p \in Procs : Missing(p) \subseteq Charts
    BY DEF Missing, TypeOK
  <2> QED BY <2>1, NextExists
<1>2. PICK c \in T : \A d \in T : d <= c
  <2> HIDE DEF T
  <2> QED BY <1>1, GreatestExists
<1>3. PICK p \in S : NextMutex(p, c)
  BY <1>2
<1>4. owner[c] \notin S
  <2> SUFFICES ASSUME NEW q \in S, owner[c] = q PROVE FALSE
    OBVIOUS
  <2>1. PICK d \in Missing(q) : NextMutex(q, d)
    BY NextExists
  <2>2. d \in want[q] /\ owner[d] # q /\ d \in Charts /\ c \in Charts
    BY <2>1, <1>2 DEF Missing, TypeOK
  <2>3. c \in want[q] /\ (owner[c] = q /\ owner[d] # q => c < d)
    BY <2>2 DEF Locking, InOrder, Waits
  <2>4. d <= c
    BY <1>2, <2>1, <2>2
  <2> QED BY <2>2, <2>3, <2>4, Constants
<1> QED BY <1>3, <1>4 DEF NextMutex

(* "Deadlock-free": whatever the groups, their dependencies and the         *)
(* requests, lock_in_order never makes tasks wait for each other in a       *)
(* circle.                                                                  *)
THEOREM NeverDeadlocked == Spec => []NoCircularWait
<1>1. Init => TypeOK /\ Locking /\ UnderLock
  BY InitType, InitLocks
<1>2. TypeOK /\ Locking /\ UnderLock /\ [Next]_vars => (TypeOK /\ Locking /\ UnderLock)'
  BY TypeStep, MutexStep
<1> QED BY <1>1, <1>2, OrderBreaksCycles, PTL DEF Spec

(* While some task waits, a task is updating or the mutex that one of them  *)
(* needs next is free: the group updates never come to a stop as a whole.   *)
MutexesMove ==
    (\E p \in Procs : Waits(p)) =>
        \/ \E p \in Procs : pc[p] = "updating"
        \/ \E p \in Procs : Waits(p) /\ \E c \in Missing(p) : NextMutex(p, c) /\ owner[c] = NoProc

LEMMA FreeOrUpdating == TypeOK /\ Locking /\ NoCircularWait => MutexesMove
<1> SUFFICES ASSUME TypeOK, Locking, NoCircularWait, \E p \in Procs : Waits(p),
                    \A p \in Procs : pc[p] # "updating"
             PROVE  \E p \in Procs : Waits(p) /\ \E c \in Missing(p) : NextMutex(p, c) /\ owner[c] = NoProc
  BY DEF MutexesMove
<1> DEFINE S == {p \in Procs : Waits(p)}
<1>1. PICK p \in S : \E c \in Missing(p) : NextMutex(p, c) /\ owner[c] \notin S
  <2>1. S \in (SUBSET Procs) \ {{}} /\ \A p \in S : Waits(p)
    OBVIOUS
  <2> HIDE DEF S
  <2> QED BY <2>1 DEF NoCircularWait
<1>2. PICK c \in Missing(p) : NextMutex(p, c) /\ owner[c] \notin S
  BY <1>1
<1>3. c \in Charts
  BY <1>1, <1>2 DEF Missing, TypeOK
<1>4. \A q \in Procs : owner[c] = q => Waits(q)
  BY <1>3 DEF Locking, InOrder, Waits
<1>5. owner[c] = NoProc
  BY <1>2, <1>3, <1>4 DEF TypeOK
<1> QED BY <1>1, <1>2, <1>5

(* lock_in_order never leaves the update service waiting for itself: a task *)
(* that waits has one it may rely on to go on, for any groups, dependencies *)
(* and requests.                                                            *)
THEOREM SomeTaskGoesOn == Spec => []MutexesMove
<1>1. Init => TypeOK /\ Locking /\ UnderLock
  BY InitType, InitLocks
<1>2. TypeOK /\ Locking /\ UnderLock /\ [Next]_vars => (TypeOK /\ Locking /\ UnderLock)'
  BY TypeStep, MutexStep
<1> QED BY <1>1, <1>2, OrderBreaksCycles, FreeOrUpdating, PTL DEF Spec

-----------------------------------------------------------------------------
(* What charts show *)

(* The tables as they are, and at most forget what was read. *)
Quiet ==
    /\ UNCHANGED <<val, data, owed, dirty>>
    /\ \A p \in Procs : reading'[p] \in {reading[p], NoReading}

LEMMA DataSteps ==
    ASSUME TypeOK, [Next]_vars
    PROVE  \/ Quiet \/ NewData \/ SetNextUpdateFrom
           \/ \E p \in Procs : WriteChart(p) \/ \E c \in Charts : ReadChart(p, c)
<1> USE DEF extVars, dbVars, histVars
<1>1. ASSUME UNCHANGED <<extVars, dbVars, reading, owed>>
      PROVE  Quiet
  BY <1>1 DEF Quiet
<1>2. ASSUME Restart
      PROVE  Quiet
  BY <1>2 DEF Restart, Quiet
<1>3. ASSUME NEW p \in Procs, After(p), UNCHANGED <<extVars, dbVars, owed>>
      PROVE  Quiet
  BY <1>3 DEF After, Quiet, TypeOK
<1>4. ASSUME NEW p \in Procs, Lock(p) \/ Updated(p) \/ UpdateFails(p)
      PROVE  Quiet
  <2>1. CASE Lock(p)
    BY <1>1, <2>1 DEF Lock
  <2>2. CASE Updated(p) \/ UpdateFails(p)
    <3>1. After(p) /\ UNCHANGED <<extVars, dbVars, owed>>
      BY <2>2 DEF Updated, UpdateFails
    <3> QED BY <1>3, <3>1
  <2> QED BY <1>4, <2>1, <2>2
<1>5. ASSUME NEW p, NEW why, NEW S, Update(p, why, S) \/ Begin(p, why, S) \/ NoUpdate(p, why)
      PROVE  UNCHANGED reading
  BY <1>5 DEF Update, Begin, NoUpdate
<1>6. ASSUME NEW g \in Groups, StartGroup(g) \/ QueueGroup(g) \/ RunInitialUpdate(g) \/ RunCron(g)
      PROVE  Quiet
  <2>1. CASE StartGroup(g) \/ QueueGroup(g)
    BY <1>1, <2>1 DEF StartGroup, QueueGroup
  <2>2. CASE RunInitialUpdate(g) \/ RunCron(g)
    <3>1. \/ Begin(g, "initial", Members[g]) \/ NoUpdate(g, "initial")
          \/ Update(g, "cron", Members[g])
      BY <2>2 DEF RunInitialUpdate, RunCron
    <3>2. UNCHANGED reading
      BY <1>5, <3>1
    <3>3. UNCHANGED <<extVars, dbVars, owed>>
      BY <2>2 DEF RunInitialUpdate, RunCron
    <3> QED BY <3>2, <3>3 DEF Quiet
  <2> QED BY <1>6, <2>1, <2>2
<1>7. CASE NextGroup
  <2>1. PICK g : \/ Begin(Demand, "set", Matching(g)) \/ Update(Demand, "now", Matching(g))
                 \/ UNCHANGED reading
    BY <1>7 DEF NextGroup
  <2>2. UNCHANGED reading
    BY <1>5, <2>1
  <2>3. UNCHANGED <<extVars, dbVars, owed>>
    BY <1>7 DEF NextGroup
  <2> QED BY <2>2, <2>3 DEF Quiet
<1>8. CASE CheckFails \/ Crash
  BY <1>1, <1>2, <1>8 DEF CheckFails, Crash, taskVars
<1>9. CASE HandleUpdateRequest \/ ReceiveRequest \/ RequestDone
  BY <1>1, <1>9 DEF HandleUpdateRequest, ReceiveRequest, RequestDone, taskVars
<1>10. CASE Index \/ CheckBlockscoutStatus \/ CheckUserOpsStatus \/ UNCHANGED vars
  <2>1. UNCHANGED <<val, data, owed, dirty, reading>>
    BY <1>10 DEF Index, CheckBlockscoutStatus, CheckUserOpsStatus, vars, taskVars
  <2> QED BY <2>1 DEF Quiet
<1> QED BY <1>4, <1>6, <1>7, <1>8, <1>9, <1>10 DEF Next

LEMMA ReadingType ==
    ASSUME TypeOK, NEW p \in Procs, reading[p] # NoReading
    PROVE  reading[p].chart \in Charts /\ reading[p].value \in Nat /\ reading[p].redo \in BOOLEAN
BY DEF TypeOK

(* A chart another task reads is not the one that is read or set back. *)
LEMMA OthersApart ==
    ASSUME TypeOK, Locking, UnderLock, NEW p \in Procs, pc[p] = "updating",
           NEW q \in Procs, q # p, reading[q] # NoReading
    PROVE  reading[q].chart \notin todo[p]
<1>1. /\ pc[q] = "updating" /\ reading[q].chart \in todo[q]
      /\ todo[q] \subseteq want[q] /\ todo[p] \subseteq want[p]
  BY DEF UnderLock, ReadsLocked
<1>2. reading[q].chart \in Charts
  BY ReadingType
<1> QED BY <1>1, <1>2, OneAtAChart

LEMMA SetBackStep ==
    ASSUME TypeOK, Locking, UnderLock, RedoKnown, SetBackNotLost, [Next]_vars
    PROVE  RedoKnown' /\ SetBackNotLost'
<1>1. CASE Quiet
  BY <1>1 DEF Quiet, RedoKnown, SetBackNotLost
<1>2. CASE NewData
  BY <1>2 DEF NewData, RedoKnown, SetBackNotLost, dbVars, taskVars, histVars
<1>3. CASE SetNextUpdateFrom
  <2>0. Demand \in Procs /\ pc[Demand] = "updating" /\ purpose[Demand] = "set"
    BY <1>3, Constants DEF SetNextUpdateFrom
  <2>1. PICK S \in SUBSET todo[Demand] :
          /\ dirty' = dirty \cup {c \in S : val[c] # 0}
          /\ owed' = owed \cup {c \in S : val[c] # 0}
    BY <1>3 DEF SetNextUpdateFrom
  <2>2. \A q \in Procs : reading'[q] = IF q = Demand THEN NoReading ELSE reading[q]
    BY <1>3, <2>0 DEF SetNextUpdateFrom, After, TypeOK
  <2>3. SetBackNotLost'
    BY <2>1 DEF SetBackNotLost
  <2>4. RedoKnown'
    <3> SUFFICES ASSUME NEW q \in Procs, reading'[q] # NoReading
                 PROVE  reading'[q].redo <=> reading'[q].chart \in dirty'
      BY DEF RedoKnown
    <3>1. q # Demand /\ reading'[q] = reading[q]
      BY <2>2
    <3>2. reading[q].chart \notin todo[Demand]
      BY <2>0, <3>1, OthersApart
    <3> QED BY <2>1, <3>1, <3>2 DEF RedoKnown
  <2> QED BY <2>3, <2>4
<1>4. ASSUME NEW p \in Procs, WriteChart(p)
      PROVE  RedoKnown' /\ SetBackNotLost'
  <2> DEFINE c == reading[p].chart
  <2>1. /\ reading[p] # NoReading /\ pc[p] = "updating" /\ c \in todo[p]
        /\ reading[p].redo <=> c \in dirty
    BY <1>4 DEF WriteChart, UnderLock, ReadsLocked, RedoKnown
  <2>2. dirty' = dirty \ {c} /\ owed' = owed \ {c}
    BY <1>4, <2>1 DEF WriteChart, SetBackNotLost
  <2>3. \A q \in Procs : reading'[q] = IF q = p THEN NoReading ELSE reading[q]
    BY <1>4 DEF WriteChart, TypeOK
  <2>4. RedoKnown'
    <3> SUFFICES ASSUME NEW q \in Procs, reading'[q] # NoReading
                 PROVE  reading'[q].redo <=> reading'[q].chart \in dirty'
      BY DEF RedoKnown
    <3>1. q # p /\ reading'[q] = reading[q]
      BY <2>3
    <3>2. reading[q].chart \notin todo[p]
      BY <2>1, <3>1, OthersApart
    <3> QED BY <2>1, <2>2, <3>1, <3>2 DEF RedoKnown
  <2> QED BY <2>2, <2>4 DEF SetBackNotLost
<1>5. ASSUME NEW p \in Procs, NEW c \in Charts, ReadChart(p, c)
      PROVE  RedoKnown' /\ SetBackNotLost'
  <2>1. UNCHANGED <<owed, dirty>>
    BY <1>5 DEF ReadChart, dbVars
  <2>2. PICK v : reading' = [reading EXCEPT ![p] = [chart |-> c, value |-> v, redo |-> c \in dirty]]
    BY <1>5 DEF ReadChart
  <2>3. \A q \in Procs :
          reading'[q] = IF q = p THEN [chart |-> c, value |-> v, redo |-> c \in dirty] ELSE reading[q]
    BY <2>2 DEF TypeOK
  <2>4. ASSUME NEW q \in Procs, reading'[q] # NoReading
        PROVE  reading'[q].redo <=> reading'[q].chart \in dirty'
    <3>1. CASE q = p
      <4>1. reading'[q].redo = (c \in dirty) /\ reading'[q].chart = c
        BY <2>3, <3>1
      <4> QED BY <2>1, <4>1
    <3>2. CASE q # p
      <4>1. reading'[q] = reading[q]
        BY <2>3, <3>2
      <4> QED BY <2>1, <2>4, <4>1 DEF RedoKnown
    <3> QED BY <3>1, <3>2
  <2> QED BY <2>1, <2>4 DEF RedoKnown, SetBackNotLost
<1> QED BY <1>1, <1>2, <1>3, <1>4, <1>5, DataSteps

(* A chart that was set back stays so until it is recomputed: the mutex     *)
(* keeps set_next_update_from away from a chart that is being updated.      *)
THEOREM SetBackKept == Spec => []SetBackNotLost
<1> DEFINE I == TypeOK /\ Locking /\ UnderLock /\ RedoKnown /\ SetBackNotLost
<1>1. Init => I
  <2>1. Init => RedoKnown /\ SetBackNotLost
    BY DEF Init, RedoKnown, SetBackNotLost
  <2> QED BY <2>1, InitType, InitLocks
<1>2. I /\ [Next]_vars => I'
  BY TypeStep, MutexStep, SetBackStep
<1>3. I => SetBackNotLost
  OBVIOUS
<1> QED BY <1>1, <1>2, <1>3, PTL DEF Spec

LEMMA VersionsStep ==
    ASSUME TypeOK, Locking, UnderLock, Versions, [Next]_vars
    PROVE  Versions' /\ \A c \in Charts : val'[c] >= val[c]
<1> DEFINE Read(p) ==
      reading[p] # NoReading =>
         /\ val[reading[p].chart] <= reading[p].value
         /\ reading[p].value <= data
         /\ \A d \in DependsOn[reading[p].chart] \ {reading[p].chart} : reading[p].value <= val[d]
<1>0. \A c \in Charts : val[c] \in Nat /\ val[c] >= val[c] /\ DependsOn[c] \subseteq Charts
  <2>1. \A c \in Charts : val[c] \in Nat
    BY DEF TypeOK
  <2>2. \A n \in Nat : n >= n
    OBVIOUS
  <2>3. \A c \in Charts : DependsOn[c] \subseteq Charts
    BY Constants
  <2> QED BY <2>1, <2>2, <2>3
<1>1. CASE Quiet
  BY <1>0, <1>1 DEF Quiet, Versions
<1>2. CASE SetNextUpdateFrom
  <2>1. UNCHANGED <<val, data>> /\ \A p \in Procs : reading'[p] \in {reading[p], NoReading}
    BY <1>2 DEF SetNextUpdateFrom, extVars, After, TypeOK
  <2>2. \A p \in Procs : Read(p)'
    BY <2>1 DEF Versions
  <2> QED BY <1>0, <2>1, <2>2 DEF Versions
<1>3. CASE NewData
  <2>1. data \in Nat /\ data' = data + 1 /\ UNCHANGED <<val, reading>>
    BY <1>3 DEF NewData, dbVars, taskVars, TypeOK
  <2>2. \A n \in Nat : n <= data => n <= data'
    BY <2>1
  <2>3. \A c \in Charts : val'[c] <= data' /\ \A d \in DependsOn[c] : val'[c] <= val'[d]
    BY <1>0, <2>1, <2>2 DEF Versions
  <2>4. \A p \in Procs : Read(p)'
    BY <2>1, <2>2, ReadingType DEF Versions
  <2> QED BY <1>0, <2>1, <2>3, <2>4 DEF Versions
<1>4. ASSUME NEW p \in Procs, WriteChart(p)
      PROVE  Versions' /\ \A c \in Charts : val'[c] >= val[c]
  <2> DEFINE c == reading[p].chart
             v == reading[p].value
  <2>1. /\ reading[p] # NoReading /\ pc[p] = "updating" /\ c \in todo[p]
        /\ c \in Charts /\ v \in Nat /\ Read(p)
    BY <1>4, ReadingType DEF WriteChart, UnderLock, ReadsLocked, Versions
  <2>2. val[c] <= v /\ v <= data /\ (\A d \in DependsOn[c] \ {c} : v <= val[d]) /\ data \in Nat
    BY <2>1 DEF TypeOK
  <2>3. data' = data /\ \A d \in Charts : val'[d] = IF d = c THEN v ELSE val[d]
    BY <1>4 DEF WriteChart, TypeOK, extVars
  <2>4. \A q \in Procs : reading'[q] = IF q = p THEN NoReading ELSE reading[q]
    BY <1>4 DEF WriteChart, TypeOK
  <2> HIDE DEF c, v
  <2>5. \A d \in Charts : val'[d] \in Nat /\ val'[d] >= val[d]
    BY <1>0, <2>1, <2>2, <2>3
  <2>6. ASSUME NEW e \in Charts
        PROVE  val'[e] <= data' /\ \A d \in DependsOn[e] : val'[e] <= val'[d]
    <3>1. val[e] <= data /\ \A d \in DependsOn[e] : val[e] <= val[d]
      BY DEF Versions
    <3>2. val'[e] <= data'
      BY <2>2, <2>3, <3>1
    <3>3. ASSUME NEW d \in DependsOn[e]
          PROVE  val'[e] <= val'[d]
      <4>1. d \in Charts /\ val[e] \in Nat /\ val[d] \in Nat /\ val[e] <= val[d]
        BY <1>0, <3>1
      <4>2. CASE e = c /\ d = c
        BY <2>1, <2>3, <4>2
      <4>3. CASE e = c /\ d # c
        BY <2>2, <2>3, <4>1, <4>3
      <4>4. CASE e # c
        <5>1. val'[e] = val[e] /\ val'[d] \in Nat /\ val'[d] >= val[d]
          BY <2>3, <2>5, <4>1, <4>4
        <5> QED BY <4>1, <5>1
      <4> QED BY <4>2, <4>3, <4>4
    <3> QED BY <3>2, <3>3
  <2>7. ASSUME NEW q \in Procs
        PROVE  Read(q)'
    <3> SUFFICES ASSUME reading'[q] # NoReading
                 PROVE  /\ val'[reading'[q].chart] <= reading'[q].value
                        /\ reading'[q].value <= data'
                        /\ \A d \in DependsOn[reading'[q].chart] \ {reading'[q].chart} :
                              reading'[q].value <= val'[d]
      OBVIOUS
    <3>1. q # p /\ reading'[q] = reading[q] /\ Read(q)
      BY <2>4 DEF Versions
    <3>2. reading[q].chart \notin todo[p] /\ reading[q].chart \in Charts /\ reading[q].value \in Nat
      BY <2>1, <3>1, OthersApart, ReadingType
    <3>3. val'[reading[q].chart] = val[reading[q].chart]
      BY <2>1, <2>3, <3>2
    <3>4. ASSUME NEW d \in DependsOn[reading[q].chart] \ {reading[q].chart}
          PROVE  reading[q].value <= val'[d]
      <4>1. d \in Charts /\ reading[q].value <= val[d]
        BY <1>0, <3>1, <3>2
      <4>2. val[d] \in Nat /\ val'[d] \in Nat /\ val'[d] >= val[d]
        BY <1>0, <2>5, <4>1
      <4> QED BY <3>2, <4>1, <4>2
    <3> QED BY <2>3, <3>1, <3>3, <3>4
  <2> QED BY <2>5, <2>6, <2>7 DEF Versions
<1>5. ASSUME NEW p \in Procs, NEW c \in Charts, ReadChart(p, c)
      PROVE  Versions' /\ \A e \in Charts : val'[e] >= val[e]
  <2>1. UNCHANGED <<val, data>>
    BY <1>5 DEF ReadChart, dbVars, extVars
  <2>2. PICK v \in Computed(c) :
          reading' = [reading EXCEPT ![p] = [chart |-> c, value |-> v, redo |-> c \in dirty]]
    BY <1>5 DEF ReadChart
  <2>3. val[c] <= v /\ v <= data /\ \A d \in DependsOn[c] \ {c} : v <= val[d]
    <3>1. CASE Sources(c) = {}
      <4>1. v = data /\ data \in Nat
        BY <2>2, <3>1 DEF Computed, TypeOK
      <4>2. \A d \in DependsOn[c] \ {c} : FALSE
        BY <3>1 DEF Sources
      <4> QED BY <4>1, <4>2 DEF Versions
    <3>2. CASE Sources(c) # {}
      <4>1. v \in Sources(c) /\ \A w \in Sources(c) : v <= w
        BY <2>2, <3>2 DEF Computed
      <4>2. PICK d \in DependsOn[c] \ {c} : v = val[d]
        BY <4>1 DEF Sources
      <4>3. d \in Charts
        BY <1>0
      <4> QED BY <4>1, <4>2, <4>3 DEF Versions, Sources
    <3> QED BY <3>1, <3>2
  <2>4. ASSUME NEW q \in Procs
        PROVE  Read(q)'
    <3>1. CASE q = p
      <4>1. reading'[q].chart = c /\ reading'[q].value = v
        BY <2>2, <3>1 DEF TypeOK
      <4> QED BY <2>1, <2>3, <4>1
    <3>2. CASE q # p
      <4>1. reading'[q] = reading[q]
        BY <2>2, <3>2 DEF TypeOK
      <4> QED BY <2>1, <4>1 DEF Versions
    <3> QED BY <3>1, <3>2
  <2> QED BY <1>0, <2>1, <2>4 DEF Versions
<1> QED BY <1>1, <1>2, <1>3, <1>4, <1>5, DataSteps

(* A chart never shows older data than before, although each update reads   *)
(* and writes it in separate steps: a chart is as old as the oldest it is   *)
(* computed from, and nobody else writes it in between.                     *)
THEOREM ChartsNeverOlder == Spec => NeverOlder
<1> DEFINE I == TypeOK /\ Locking /\ UnderLock /\ Versions
<1>1. Init => I
  <2>1. Init => Versions
    <3> SUFFICES ASSUME Init PROVE Versions
      OBVIOUS
    <3>1. data = 1 /\ \A c \in Charts : val[c] = 0 /\ DependsOn[c] \subseteq Charts
      BY Constants DEF Init
    <3>2. \A p \in Procs : reading[p] = NoReading
      BY DEF Init
    <3> QED BY <3>1, <3>2 DEF Versions
  <2> QED BY <2>1, InitType, InitLocks
<1>2. I /\ [Next]_vars => I'
  BY TypeStep, MutexStep, VersionsStep
<1>3. I /\ [Next]_vars => [\A c \in Charts : val'[c] >= val[c]]_vars
  BY VersionsStep
<1> QED BY <1>1, <1>2, <1>3, PTL DEF Spec, NeverOlder

-----------------------------------------------------------------------------
(* The start condition *)

LEMMA MeetsTransitive ==
    ASSUME NEW a \in IndexingStatus, NEW b \in IndexingStatus, NEW c \in IndexingStatus,
           Meets(a, b), Meets(b, c)
    PROVE  Meets(a, c)
<1>1. \A s \in IndexingStatus : s.blockscout \in Nat /\ s.user_ops \in Nat
  BY Constants DEF IndexingStatus
<1> QED BY <1>1 DEF Meets

(* What a step does to a group past its wait. *)
LEMMA StartedFrame ==
    ASSUME TypeOK, Started, UNCHANGED <<indexed, status>>,
           \A g \in Groups :
             /\ pc'[g] \in {"pending", "waiting"} \/ pc[g] \notin {"pending", "waiting"}
             /\ want'[g] \subseteq want[g] \/ want'[g] \subseteq Closure(Members[g])
    PROVE  Started'
BY DEF Started

LEMMA StartedStep ==
    ASSUME TypeOK, Started, [Next]_vars
    PROVE  Started'
<1> USE DEF extVars, aggVars
<1>0. \A c \in Charts : Requirement[c] \in IndexingStatus
  BY Constants
<1>1. \A g \in Groups : g \in Procs /\ g # Demand /\ Closure(Members[g]) \subseteq Charts
  BY Constants, ClosureType
<1>2. CASE UNCHANGED <<indexed, status, pc, want>>
  BY <1>2 DEF Started
<1>3. CASE Index
  <2>1. /\ indexed \in IndexingStatus /\ indexed' \in IndexingStatus /\ status \in IndexingStatus
        /\ Meets(indexed', indexed) /\ UNCHANGED <<status, pc, want>>
    BY <1>3 DEF Index, TypeOK, taskVars
  <2>2. \A s \in IndexingStatus : Meets(indexed, s) => Meets(indexed', s)
    BY <2>1, MeetsTransitive
  <2> QED BY <1>0, <1>1, <2>1, <2>2 DEF Started
<1>4. CASE CheckBlockscoutStatus \/ CheckUserOpsStatus
  <2>1. indexed' = indexed /\ UNCHANGED <<pc, want>>
    BY <1>4 DEF CheckBlockscoutStatus, CheckUserOpsStatus, taskVars
  <2>2. Meets(indexed, status')
    <3>1. indexed.blockscout \in Nat /\ indexed.user_ops \in Nat
      BY Constants DEF TypeOK, IndexingStatus
    <3>2. /\ indexed.blockscout >= status.blockscout /\ indexed.user_ops >= status.user_ops
      BY DEF Started, Meets
    <3>3. \/ status'.blockscout = indexed.blockscout /\ status'.user_ops = status.user_ops
          \/ status'.user_ops = indexed.user_ops /\ status'.blockscout = status.blockscout
      BY <1>4 DEF CheckBlockscoutStatus, CheckUserOpsStatus, TypeOK, IndexingStatus
    <3> QED BY <3>1, <3>2, <3>3 DEF Meets
  <2> QED BY <2>1, <2>2 DEF Started
<1>5. ASSUME Restart
      PROVE  Started'
  <2>1. \A g \in Groups : pc'[g] = "pending" /\ want'[g] = {}
    BY <1>1, <1>5 DEF Restart
  <2>2. Meets(indexed', status')
    BY <1>5, Constants DEF Restart, InitialStatus, Meets, TypeOK, IndexingStatus
  <2> QED BY <2>1, <2>2 DEF Started
<1>6. CASE CheckFails \/ Crash
  <2>1. CASE UNCHANGED <<extVars, status, taskVars>>
    BY <1>2, <2>1 DEF taskVars
  <2> QED BY <1>5, <1>6, <2>1 DEF CheckFails, Crash
<1>7. ASSUME NEW p \in Procs, After(p), UNCHANGED <<indexed, status>>, pc[p] = "updating"
      PROVE  Started'
  BY <1>1, <1>7, StartedFrame DEF After, TypeOK
<1>8. ASSUME NEW p \in Procs,
             Lock(p) \/ WriteChart(p) \/ Updated(p) \/ UpdateFails(p) \/ \E c \in Charts : ReadChart(p, c)
      PROVE  Started'
  <2>1. CASE Lock(p)
    <3>1. UNCHANGED <<indexed, status, want>> /\ pc[p] = "locking"
      BY <2>1 DEF Lock
    <3>2. \A g \in Groups : pc'[g] = pc[g] \/ g = p
      BY <1>1, <2>1 DEF Lock, TypeOK
    <3> QED BY <3>1, <3>2, StartedFrame
  <2>2. CASE WriteChart(p) \/ \E c \in Charts : ReadChart(p, c)
    BY <1>2, <2>2 DEF WriteChart, ReadChart
  <2>3. CASE Updated(p) \/ UpdateFails(p)
    BY <1>7, <2>3 DEF Updated, UpdateFails
  <2> QED BY <1>8, <2>1, <2>2, <2>3
<1>9. ASSUME NEW g \in Groups, StartGroup(g)
      PROVE  Started'
  <2>1. UNCHANGED <<indexed, status, want>>
    BY <1>9 DEF StartGroup
  <2>2. \A h \in Groups : pc'[h] = pc[h] \/ pc'[h] = "waiting"
    BY <1>1, <1>9 DEF StartGroup, TypeOK
  <2> QED BY <2>1, <2>2, StartedFrame
<1>10. ASSUME NEW g \in Groups, QueueGroup(g)
       PROVE  Started'
  <2>1. UNCHANGED <<indexed, status, want>> /\ StartCondition(g)
    BY <1>10 DEF QueueGroup
  <2>2. \A h \in Groups : h # g => pc'[h] = pc[h]
    BY <1>1, <1>10 DEF QueueGroup, TypeOK
  <2>3. \A c \in Closure(Members[g]) : Meets(indexed, Requirement[c])
    <3> TAKE c \in Closure(Members[g])
    <3>1. Meets(status, Requirement[c]) /\ Meets(indexed, status)
      BY <2>1 DEF StartCondition, Started
    <3>2. Requirement[c] \in IndexingStatus /\ indexed \in IndexingStatus /\ status \in IndexingStatus
      BY <1>0, <1>1 DEF TypeOK
    <3> QED BY <3>1, <3>2, MeetsTransitive
  <2> QED BY <2>1, <2>2, <2>3 DEF Started
<1>11. ASSUME NEW g \in Groups, RunInitialUpdate(g) \/ RunCron(g)
       PROVE  Started'
  <2>1. \/ \E why : Begin(g, why, Members[g])
        \/ \E why : NoUpdate(g, why)
    BY <1>11 DEF RunInitialUpdate, RunCron, Update
  <2>2. UNCHANGED <<indexed, status>> /\ pc[g] \notin {"pending", "waiting"}
    BY <1>11 DEF RunInitialUpdate, RunCron
  <2>3. \A h \in Groups : pc'[h] = pc[h] \/ h = g
    BY <1>1, <2>1 DEF Begin, NoUpdate, TypeOK
  <2>4. \A h \in Groups : want'[h] = want[h] \/ want'[h] = Closure(Members[h])
    BY <1>1, <2>1 DEF Begin, NoUpdate, ToLock, TypeOK
  <2> QED BY <2>2, <2>3, <2>4, StartedFrame
<1>12. CASE NextGroup \/ ReceiveRequest \/ RequestDone
  <2>1. UNCHANGED <<indexed, status>>
    BY <1>12 DEF NextGroup, ReceiveRequest, RequestDone
  <2>2. \A g \in Groups : pc'[g] = pc[g] /\ want'[g] = want[g]
    BY <1>1, <1>12 DEF NextGroup, ReceiveRequest, RequestDone, Begin, Update, NoUpdate, TypeOK
  <2> QED BY <2>1, <2>2, StartedFrame
<1>13. CASE SetNextUpdateFrom
  BY <1>7, <1>13, Constants DEF SetNextUpdateFrom
<1>14. CASE NewData \/ HandleUpdateRequest \/ UNCHANGED vars
  BY <1>2, <1>14 DEF NewData, HandleUpdateRequest, vars, taskVars
<1> QED
  BY <1>3, <1>4, <1>6, <1>8, <1>9, <1>10, <1>11, <1>12, <1>13, <1>14 DEF Next

LEMMA EarlyStep ==
    ASSUME TypeOK, UnderLock, Started, ComputedWhenIndexed, [Next]_vars
    PROVE  ComputedWhenIndexed'
<1>1. CASE UNCHANGED early
  BY <1>1 DEF ComputedWhenIndexed
<1>2. ASSUME NEW p \in Procs, NEW c \in Charts, ReadChart(p, c)
      PROVE  ComputedWhenIndexed'
  <2>1. CASE p = Demand
    BY <1>2, <2>1 DEF ReadChart, ComputedWhenIndexed
  <2>2. CASE p \in Groups
    <3>1. pc[p] = "updating" /\ c \in todo[p] /\ todo[p] \subseteq want[p]
      BY <1>2 DEF ReadChart, Ready, UnderLock, ReadsLocked
    <3>2. Meets(indexed, Requirement[c])
      BY <2>2, <3>1 DEF Started
    <3> QED BY <1>2, <3>2 DEF ReadChart, ComputedWhenIndexed
  <2> QED BY <2>1, <2>2 DEF Procs
<1>3. ~(\E p \in Procs : \E c \in Charts : ReadChart(p, c)) => UNCHANGED early
  BY DEF Next, vars, histVars, Index, NewData, CheckBlockscoutStatus, CheckUserOpsStatus, CheckFails,
         Crash, Restart, Lock, WriteChart, Updated, UpdateFails, StartGroup, QueueGroup,
         RunInitialUpdate, RunCron, HandleUpdateRequest, ReceiveRequest, NextGroup, RequestDone,
         SetNextUpdateFrom
<1> QED BY <1>1, <1>2, <1>3

(* No group computes a chart before what the chart needs is indexed: the    *)
(* start condition looks at all the group updates, members or not, and what *)
(* is indexed stays so.                                                     *)
THEOREM GroupsStartInTime == Spec => []ComputedWhenIndexed
<1> DEFINE I == TypeOK /\ Locking /\ UnderLock /\ Started /\ ComputedWhenIndexed
<1>1. Init => I
  <2>1. Init => Started
    <3> SUFFICES ASSUME Init PROVE Started
      OBVIOUS
    <3>1. \A g \in Groups : pc[g] = "pending" /\ want[g] = {}
      BY Constants DEF Init
    <3>2. Meets(indexed, status)
      BY DEF Init, InitialStatus, Meets
    <3> QED BY <3>1, <3>2 DEF Started
  <2>2. Init => ComputedWhenIndexed
    BY DEF Init, ComputedWhenIndexed
  <2> QED BY <2>1, <2>2, InitType, InitLocks
<1>2. I /\ [Next]_vars => I'
  BY TypeStep, MutexStep, StartedStep, EarlyStep
<1>3. I => ComputedWhenIndexed
  OBVIOUS
<1> QED BY <1>1, <1>2, <1>3, PTL DEF Spec
=============================================================================
