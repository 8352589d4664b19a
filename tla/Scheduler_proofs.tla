-------------------------- MODULE Scheduler_proofs --------------------------
(***************************************************************************)
(* Proofs about scheduler-service for any number of instances, handlers,   *)
(* workers, monitors and checks.                                           *)
(***************************************************************************)
EXTENDS Scheduler, TLAPS

Items == Monitors \cup WorkerIds \cup CheckIds

WorkerRow == [status : WorkerStatus \cup {"NONE", "DELETED"},
              expired : BOOLEAN, stale : BOOLEAN]

CheckRow == [status : CheckStatus \cup {"NONE"}, monitor : Monitors \cup {None},
             worker : WorkerIds \cup {None}, priority : Priorities,
             overdue : BOOLEAN]

\* The rows that QueuedHasNoWorker allows.
GoodRow == {r \in CheckRow : /\ r.status = "PENDING" => r.worker = None
                             /\ r.status = "IN_PROGRESS" => r.worker # None}

\* The local variables; a process about to assign holds a worker, and one
\* inside ScheduleCheck works on monitors.
LocalOK ==
    /\ pc \in [Procs -> PCs]
    /\ todo \in [Procs -> SUBSET Items]
    /\ cur \in [Procs -> Items \cup {None}]
    /\ pick \in [Procs -> WorkerIds \cup {None}]
    /\ prio \in [Procs -> Priorities]
    /\ raced \subseteq Monitors \cup {None}
    /\ \A p \in Procs :
        /\ pc[p] = "assign" => pick[p] \in WorkerIds
        /\ pc[p] \in {"schedule", "listIdle", "create"} => todo[p] \subseteq Monitors
        /\ pc[p] \in {"listIdle", "create"} => cur[p] \in Monitors

TablesOK ==
    /\ workers \in [WorkerIds -> WorkerRow]
    /\ checks \in [CheckIds -> GoodRow]
    /\ lock \in [Jobs -> Instances \cup {None}]

RowInv == TablesOK /\ LocalOK

LEMMA RowInvImplies == RowInv => TypeOK /\ QueuedHasNoWorker
<1> SUFFICES ASSUME RowInv PROVE TypeOK /\ QueuedHasNoWorker
  OBVIOUS
<1>1. checks \in [CheckIds -> CheckRow]
  BY DEF RowInv, TablesOK, GoodRow
<1>2. TypeOK
  BY <1>1 DEF RowInv, TablesOK, LocalOK, TypeOK, WorkerRow, CheckRow, Items
<1>3. QueuedHasNoWorker
  BY DEF RowInv, TablesOK, GoodRow, QueuedHasNoWorker
<1> QED
  BY <1>2, <1>3

-----------------------------------------------------------------------------
(* What Goto, Finish and NextItem do to the local variables. *)

LEMMA MoveType ==
    ASSUME LocalOK, NEW p \in Procs, NEW l \in PCs, NEW list \in SUBSET Items,
           NEW item \in Items \cup {None}, NEW w \in WorkerIds \cup {None},
           l = "assign" => w \in WorkerIds,
           l \in {"schedule", "listIdle", "create"} => list \subseteq Monitors,
           l \in {"listIdle", "create"} => item \in Monitors,
           Move(p, l, list, item, w),
           raced' \subseteq Monitors \cup {None},
           prio' \in [Procs -> Priorities]
    PROVE  LocalOK'
  BY DEF LocalOK, Move

LEMMA GotoType ==
    ASSUME LocalOK, NEW p \in Procs, NEW l \in PCs, NEW list \in SUBSET Items,
           NEW item \in Items \cup {None}, NEW w \in WorkerIds \cup {None},
           l = "assign" => w \in WorkerIds,
           l \in {"schedule", "listIdle", "create"} => list \subseteq Monitors,
           l \in {"listIdle", "create"} => item \in Monitors,
           Goto(p, l, list, item, w),
           prio' \in [Procs -> Priorities]
    PROVE  LocalOK'
<1>1. Move(p, l, list, item, w) /\ raced' \subseteq Monitors \cup {None}
  BY DEF Goto, LocalOK
<1> QED
  BY <1>1, MoveType

LEMMA FinishType ==
    ASSUME LocalOK, NEW p \in Procs, Finish(p)
    PROVE  LocalOK'
<1>1. prio' \in [Procs -> Priorities]
  BY DEF LocalOK, Finish, Priorities
<1> QED
  BY <1>1, GotoType DEF Finish, PCs

LEMMA NextItemType ==
    ASSUME LocalOK, NEW p \in Procs, NEW list \in SUBSET Items,
           list \subseteq Monitors, NextItem(p, "schedule", list)
    PROVE  LocalOK'
<1>1. CASE p \in Handlers
  BY <1>1, FinishType DEF NextItem
<1>2. CASE p \notin Handlers
  <2>1. prio' \in [Procs -> Priorities]
    BY <1>2 DEF NextItem, LocalOK
  <2> QED
    BY <1>2, <2>1, GotoType DEF NextItem, PCs
<1> QED
  BY <1>1, <1>2

-----------------------------------------------------------------------------
(* The statements keep the tables well formed, whatever id they get. *)

LEMMA UpdateWorkerType ==
    ASSUME workers \in [WorkerIds -> WorkerRow], NEW w, NEW row \in WorkerRow
    PROVE  UpdateWorker(w, row) \in [WorkerIds -> WorkerRow]
  BY DEF UpdateWorker

LEMMA DeleteWorkerType ==
    ASSUME workers \in [WorkerIds -> WorkerRow], NEW w
    PROVE  DeleteWorker(w) \in [WorkerIds -> WorkerRow]
  BY DEF DeleteWorker, WorkerRow

LEMMA UpdateCheckType ==
    ASSUME checks \in [CheckIds -> GoodRow], NEW c, NEW w \in WorkerIds \cup {None},
           NEW status \in CheckStatus \ {"PENDING"},
           status = "IN_PROGRESS" => w # None
    PROVE  UpdateCheck(c, w, status) \in [CheckIds -> GoodRow]
  BY DEF UpdateCheck, GoodRow, CheckRow

LEMMA ReassignType ==
    ASSUME checks \in [CheckIds -> GoodRow], NEW w
    PROVE  ReassignByWorkerID(w) \in [CheckIds -> GoodRow]
<1> SUFFICES ASSUME NEW c \in CheckIds
             PROVE  (IF checks[c].worker = w /\ Active(c)
                     THEN [checks[c] EXCEPT !.worker = None, !.status = "PENDING"]
                     ELSE checks[c]) \in GoodRow
  BY DEF ReassignByWorkerID
<1> QED
  BY DEF GoodRow, CheckRow, CheckStatus

LEMMA UnlockType ==
    ASSUME NEW p, lock \in [Jobs -> Instances \cup {None}]
    PROVE  [j \in Jobs |-> IF lock[j] = p THEN None ELSE lock[j]]
             \in [Jobs -> Instances \cup {None}]
  OBVIOUS

-----------------------------------------------------------------------------
(* RowInv is inductive: one step per action. *)

LEMMA InitRowInv == Init => RowInv
<1> SUFFICES ASSUME Init PROVE RowInv
  OBVIOUS
<1>1. workers \in [WorkerIds -> WorkerRow]
  BY DEF Init, WorkerRow
<1>2. checks \in [CheckIds -> GoodRow]
  BY DEF Init, GoodRow, CheckRow, Priorities
<1>3. LocalOK
  BY DEF Init, LocalOK, PCs, Priorities
<1> QED
  BY <1>1, <1>2, <1>3 DEF Init, RowInv, TablesOK

LEMMA LoopRowInv ==
    ASSUME RowInv, NEW i \in Instances,
           LoopStep(i) \/ \E j \in Jobs : TryLock(i, j)
    PROVE  RowInv'
<1> USE DEF RowInv
<1>0. /\ i \in Procs /\ todo[i] \subseteq Items /\ todo[i] \in SUBSET Items
      /\ {} \in SUBSET Items
      /\ cur[i] \in Items \cup {None} /\ pick[i] \in WorkerIds \cup {None}
      /\ prio \in [Procs -> Priorities]
      /\ None \in Items \cup {None} /\ None \in WorkerIds \cup {None}
  BY DEF Procs, LocalOK
<1>1. ASSUME NEW j \in Jobs, TryLock(i, j) PROVE RowInv'
  <2>1. j \in PCs /\ j \notin {"assign", "schedule", "listIdle", "create"}
    BY DEF Jobs, PCs
  <2>2. LocalOK'
    BY <1>0, <1>1, <2>1, GotoType DEF TryLock
  <2>3. lock' \in [Jobs -> Instances \cup {None}]
    BY <1>1 DEF TryLock, TablesOK
  <2> QED
    BY <1>1, <2>2, <2>3 DEF TryLock, TablesOK
<1>2. CASE Unlock(i)
  <2>1. LocalOK'
    BY <1>0, <1>2, FinishType DEF Unlock
  <2>2. lock' \in [Jobs -> Instances \cup {None}]
    BY <1>2, UnlockType DEF Unlock, TablesOK
  <2> QED
    BY <1>2, <2>1, <2>2 DEF Unlock, TablesOK
<1>3. CASE scheduleChecks(i)
  <2>1. PICK due \in SUBSET Monitors : Goto(i, "schedule", due, None, None)
    BY <1>3 DEF scheduleChecks
  <2>2. due \in SUBSET Items /\ "schedule" \in PCs
    BY DEF Items, PCs
  <2>3. LocalOK'
    BY <1>0, <1>3, <2>1, <2>2, GotoType DEF scheduleChecks
  <2> QED
    BY <1>3, <2>3 DEF scheduleChecks, TablesOK
<1>4. CASE DetectOfflineWorkers(i)
  <2>1. ListExpired \in SUBSET Items /\ "expired" \in PCs
    BY DEF ListExpired, Items, PCs
  <2>2. LocalOK'
    BY <1>0, <1>4, <2>1, GotoType DEF DetectOfflineWorkers
  <2> QED
    BY <1>4, <2>2 DEF DetectOfflineWorkers, TablesOK
<1>5. CASE ReassignExpired(i)
  <2>1. PICK w \in todo[i] :
          /\ Goto(i, "markOffline", todo[i] \ {w}, w, None)
          /\ checks' = ReassignByWorkerID(w) \/ (Faults /\ UNCHANGED checks)
    BY <1>5 DEF ReassignExpired
  <2>2. todo[i] \ {w} \in SUBSET Items /\ w \in Items \cup {None} /\ "markOffline" \in PCs
    BY <1>0 DEF PCs
  <2>3. LocalOK'
    BY <1>0, <1>5, <2>1, <2>2, GotoType DEF ReassignExpired
  <2>4. checks' \in [CheckIds -> GoodRow]
    BY <2>1, ReassignType DEF TablesOK
  <2> QED
    BY <1>5, <2>3, <2>4 DEF ReassignExpired, TablesOK
<1>6. CASE MarkWorkerOffline(i)
  <2>1. MarkOffline \in WorkerRow /\ "expired" \in PCs
    BY DEF MarkOffline, WorkerRow, WorkerStatus, PCs
  <2>2. workers' \in [WorkerIds -> WorkerRow]
    BY <1>6, <2>1, UpdateWorkerType DEF MarkWorkerOffline, TablesOK
  <2>3. LocalOK'
    BY <1>0, <1>6, <2>1, GotoType DEF MarkWorkerOffline
  <2> QED
    BY <1>6, <2>2, <2>3 DEF MarkWorkerOffline, TablesOK
<1>7. CASE ReassignOverdueChecks(i)
  <2>1. ListOverdue \in SUBSET Items /\ "overdue" \in PCs
    BY DEF ListOverdue, Items, PCs
  <2>2. LocalOK'
    BY <1>0, <1>7, <2>1, GotoType DEF ReassignOverdueChecks
  <2> QED
    BY <1>7, <2>2 DEF ReassignOverdueChecks, TablesOK
<1>8. CASE PickForOverdue(i)
  <2>1. PICK c \in todo[i] :
          \/ \E w \in ListIdleByZone : Goto(i, "assign", todo[i] \ {c}, c, w)
          \/ Goto(i, "overdue", todo[i] \ {c}, None, None)
    BY <1>8 DEF PickForOverdue
  <2>2. todo[i] \ {c} \in SUBSET Items /\ c \in Items \cup {None}
        /\ "assign" \in PCs /\ "overdue" \in PCs /\ prio' = prio
    BY <1>0, <1>8 DEF PCs, PickForOverdue
  <2>3. ASSUME NEW w \in ListIdleByZone, Goto(i, "assign", todo[i] \ {c}, c, w)
        PROVE  LocalOK'
    <3>1. w \in WorkerIds
      BY DEF ListIdleByZone
    <3> QED
      BY <1>0, <2>2, <2>3, <3>1, GotoType
  <2>4. ASSUME Goto(i, "overdue", todo[i] \ {c}, None, None) PROVE LocalOK'
    BY <1>0, <2>2, <2>4, GotoType
  <2>5. LocalOK'
    BY <2>1, <2>3, <2>4
  <2> QED
    BY <1>8, <2>5 DEF PickForOverdue, TablesOK
<1>9. CASE AssignOverdue(i)
  <2>1. pick[i] \in WorkerIds /\ pick[i] # None
    BY <1>0, <1>9, SchedulerAssumption DEF AssignOverdue, LocalOK
  <2>2. "IN_PROGRESS" \in CheckStatus \ {"PENDING"} /\ "overdue" \in PCs
    BY DEF CheckStatus, PCs
  <2>3. checks' \in [CheckIds -> GoodRow]
    <3>1. UpdateCheck(cur[i], pick[i], "IN_PROGRESS") \in [CheckIds -> GoodRow]
      BY <2>1, <2>2, UpdateCheckType DEF TablesOK
    <3> QED
      BY <1>9, <3>1 DEF AssignOverdue, TablesOK
  <2>4. raced' \subseteq Monitors \cup {None}
    BY <1>9 DEF AssignOverdue, LocalOK, TablesOK, GoodRow, CheckRow
  <2>5. LocalOK'
    BY <1>0, <1>9, <2>2, <2>4, MoveType DEF AssignOverdue
  <2> QED
    BY <1>9, <2>3, <2>5 DEF AssignOverdue, TablesOK
<1>10. CASE CleanupOfflineWorkers(i)
  <2>1. ListOfflineForCleanup \in SUBSET Items /\ "offline" \in PCs
    BY DEF ListOfflineForCleanup, Items, PCs
  <2>2. LocalOK'
    BY <1>0, <1>10, <2>1, GotoType DEF CleanupOfflineWorkers
  <2> QED
    BY <1>10, <2>2 DEF CleanupOfflineWorkers, TablesOK
<1>11. CASE DeleteOffline(i)
  <2>1. PICK w \in todo[i] :
          /\ workers' = DeleteWorker(w) \/ (Faults /\ UNCHANGED workers)
          /\ Goto(i, "offline", todo[i] \ {w}, None, None)
    BY <1>11 DEF DeleteOffline
  <2>2. todo[i] \ {w} \in SUBSET Items /\ "offline" \in PCs
    BY <1>0 DEF PCs
  <2>3. workers' \in [WorkerIds -> WorkerRow]
    BY <2>1, DeleteWorkerType DEF TablesOK
  <2>4. LocalOK'
    BY <1>0, <1>11, <2>1, <2>2, GotoType DEF DeleteOffline
  <2> QED
    BY <1>11, <2>3, <2>4 DEF DeleteOffline, TablesOK
<1> QED
  BY <1>1, <1>2, <1>3, <1>4, <1>5, <1>6, <1>7, <1>8, <1>9, <1>10, <1>11 DEF LoopStep

LEMMA ScheduleRowInv ==
    ASSUME RowInv, NEW p \in Procs, ScheduleCheck(p)
    PROVE  RowInv'
<1> USE DEF RowInv
<1>0. /\ todo[p] \in SUBSET Items /\ cur[p] \in Items \cup {None}
      /\ pick[p] \in WorkerIds \cup {None} /\ prio[p] \in Priorities
      /\ prio \in [Procs -> Priorities]
      /\ None \in Items \cup {None} /\ None \in WorkerIds \cup {None}
  BY DEF LocalOK
<1>1. CASE CheckPending(p)
  <2>1. PICK m \in todo[p] :
          \/ Claim(p, m)
          \/ NextItem(p, "schedule", todo[p] \ {m})
    BY <1>1 DEF CheckPending
  <2>2. /\ todo[p] \ {m} \in SUBSET Items /\ todo[p] \ {m} \subseteq Monitors
        /\ m \in Items \cup {None} /\ m \in Monitors /\ "listIdle" \in PCs
    BY <1>0, <1>1 DEF PCs, CheckPending, LocalOK
  <2>3. CASE Claim(p, m)
    <3>1. raced' \subseteq Monitors \cup {None}
      BY <2>2, <2>3 DEF Claim, LocalOK
    <3>2. LocalOK'
      BY <1>0, <2>2, <2>3, <3>1, MoveType DEF Claim
    <3> QED
      BY <1>1, <3>2 DEF CheckPending, TablesOK
  <2>4. CASE NextItem(p, "schedule", todo[p] \ {m})
    BY <2>2, <2>4, NextItemType, <1>1 DEF CheckPending, TablesOK
  <2> QED
    BY <2>1, <2>3, <2>4
<1>2. CASE PickWorker(p)
  <2>1. PICK w \in WorkerIds \cup {None} : Goto(p, "create", todo[p], cur[p], w)
    BY <1>2 DEF PickWorker, ListIdleByZone
  <2>2. /\ "create" \in PCs /\ prio' = prio
        /\ todo[p] \subseteq Monitors /\ cur[p] \in Monitors
    BY <1>2 DEF PCs, PickWorker, LocalOK
  <2>3. LocalOK'
    BY <1>0, <2>1, <2>2, GotoType
  <2> QED
    BY <1>2, <2>3 DEF PickWorker, TablesOK
<1>3. CASE CreateCheck(p)
  <2>0. todo[p] \subseteq Monitors /\ cur[p] \in Monitors
    BY <1>3 DEF CreateCheck, LocalOK
  <2>1. LocalOK'
    BY <1>0, <1>3, <2>0, NextItemType DEF CreateCheck
  <2>2. checks' \in [CheckIds -> GoodRow]
    <3>1. CASE UNCHANGED checks
      BY <3>1 DEF TablesOK
    <3>2. ASSUME NEW c \in CheckIds,
                 checks' = [checks EXCEPT ![c] =
                              IF pick[p] = None
                              THEN NewScheduledCheck(cur[p], prio[p])
                              ELSE Assign(NewScheduledCheck(cur[p], prio[p]), pick[p])]
          PROVE  checks' \in [CheckIds -> GoodRow]
      <4>1. NewScheduledCheck(cur[p], prio[p]) \in GoodRow
        BY <1>0, <2>0 DEF NewScheduledCheck, GoodRow, CheckRow, CheckStatus
      <4>2. pick[p] # None => Assign(NewScheduledCheck(cur[p], prio[p]), pick[p]) \in GoodRow
        BY <1>0, <2>0 DEF NewScheduledCheck, Assign, GoodRow, CheckRow, CheckStatus
      <4> QED
        BY <3>2, <4>1, <4>2 DEF TablesOK
    <3> QED
      BY <1>3, <3>1, <3>2 DEF CreateCheck
  <2> QED
    BY <1>3, <2>1, <2>2 DEF CreateCheck, TablesOK
<1> QED
  BY <1>1, <1>2, <1>3 DEF ScheduleCheck

LEMMA HandlerRowInv ==
    ASSUME RowInv, NEW h \in Handlers, HandlerStep(h)
    PROVE  RowInv'
<1> USE DEF RowInv
<1>0. /\ h \in Procs /\ cur[h] \in Items \cup {None} /\ {} \in SUBSET Items
      /\ pick[h] \in WorkerIds \cup {None}
      /\ prio \in [Procs -> Priorities] /\ None \in WorkerIds \cup {None}
  BY DEF Procs, LocalOK
<1>1. ASSUME NEW w \in WorkerIds, WriteHeartbeat(h, w) PROVE RowInv'
  <2>1. PICK status \in WorkerStatus : workers' = UpdateWorker(w, UpdateHeartbeat(status))
    BY <1>1 DEF WriteHeartbeat
  <2>2. UpdateHeartbeat(status) \in WorkerRow
    BY DEF UpdateHeartbeat, WorkerRow, WorkerStatus
  <2>3. workers' \in [WorkerIds -> WorkerRow]
    BY <2>1, <2>2, UpdateWorkerType DEF TablesOK
  <2> QED
    BY <1>0, <1>1, <2>3, FinishType DEF WriteHeartbeat, TablesOK
<1>2. CASE WriteCompletion(h)
  <2>1. PICK status \in {"COMPLETED", "FAILED"} :
          checks' = UpdateCheck(cur[h], pick[h], status)
    BY <1>2 DEF WriteCompletion
  <2>2. status \in CheckStatus \ {"PENDING"} /\ status # "IN_PROGRESS"
    BY DEF CheckStatus
  <2>3. checks' \in [CheckIds -> GoodRow]
    BY <1>0, <2>1, <2>2, UpdateCheckType DEF TablesOK
  <2> QED
    BY <1>0, <1>2, <2>3, FinishType DEF WriteCompletion, TablesOK
<1>3. CASE ReassignUnregistered(h)
  <2>1. checks' \in [CheckIds -> GoodRow]
    BY <1>3, ReassignType DEF ReassignUnregistered, TablesOK
  <2>2. LocalOK'
    BY <1>0, <1>3, GotoType DEF ReassignUnregistered, PCs
  <2> QED
    BY <1>3, <2>1, <2>2 DEF ReassignUnregistered, TablesOK
<1>4. CASE DeleteUnregistered(h)
  <2>1. workers' \in [WorkerIds -> WorkerRow]
    BY <1>4, DeleteWorkerType DEF DeleteUnregistered, TablesOK
  <2> QED
    BY <1>0, <1>4, <2>1, FinishType DEF DeleteUnregistered, TablesOK
<1> QED
  BY <1>1, <1>2, <1>3, <1>4 DEF HandlerStep

LEMMA RequestRowInv ==
    ASSUME RowInv, NEW h \in Handlers, Request(h)
    PROVE  RowInv'
<1> USE DEF RowInv
<1>0. /\ h \in Procs /\ {} \in SUBSET Items
      /\ prio \in [Procs -> Priorities]
      /\ None \in Items \cup {None} /\ None \in WorkerIds \cup {None}
  BY DEF Procs, LocalOK
<1>1. CASE TriggerScheduledCheck(h)
  <2>1. PICK m \in Monitors : Goto(h, "schedule", {m}, None, None)
    BY <1>1 DEF TriggerScheduledCheck
  <2>2. {m} \in SUBSET Items /\ {m} \subseteq Monitors /\ "schedule" \in PCs
    BY DEF Items, PCs
  <2>3. prio' \in [Procs -> Priorities]
    BY <1>0, <1>1 DEF TriggerScheduledCheck
  <2>4. LocalOK'
    BY <1>0, <2>1, <2>2, <2>3, GotoType
  <2> QED
    BY <1>1, <2>4 DEF TriggerScheduledCheck, TablesOK
<1>2. CASE RegisterWorker(h)
  <2>1. NewWorker \in WorkerRow
    BY DEF NewWorker, WorkerRow, WorkerStatus
  <2>2. workers' \in [WorkerIds -> WorkerRow]
    BY <1>2, <2>1 DEF RegisterWorker, TablesOK
  <2> QED
    BY <1>2, <2>2 DEF RegisterWorker, TablesOK, LocalOK, local
<1>3. CASE CompleteCheck(h)
  <2>1. PICK c \in CheckIds : Goto(h, "complete", {}, c, checks[c].worker)
    BY <1>3 DEF CompleteCheck
  <2>2. c \in Items \cup {None} /\ checks[c].worker \in WorkerIds \cup {None}
        /\ "complete" \in PCs
    BY DEF Items, PCs, TablesOK, GoodRow, CheckRow
  <2>3. LocalOK'
    BY <1>0, <1>3, <2>1, <2>2, GotoType DEF CompleteCheck
  <2> QED
    BY <1>3, <2>3 DEF CompleteCheck, TablesOK
<1>4. CASE UnregisterWorker(h)
  <2>1. PICK w \in WorkerIds : Goto(h, "unregister", {}, w, None)
    BY <1>4 DEF UnregisterWorker
  <2>2. w \in Items \cup {None} /\ "unregister" \in PCs
    BY DEF Items, PCs
  <2>3. LocalOK'
    BY <1>0, <1>4, <2>1, <2>2, GotoType DEF UnregisterWorker
  <2> QED
    BY <1>4, <2>3 DEF UnregisterWorker, TablesOK
<1>5. ASSUME NEW w \in WorkerIds, Heartbeat(h, w) PROVE RowInv'
  <2>1. w \in Items \cup {None} /\ "heartbeat" \in PCs
    BY DEF Items, PCs
  <2>2. LocalOK'
    BY <1>0, <1>5, <2>1, GotoType DEF Heartbeat
  <2> QED
    BY <1>5, <2>2 DEF Heartbeat, TablesOK
<1> QED
  BY <1>1, <1>2, <1>3, <1>4, <1>5 DEF Request

LEMMA ClockRowInv ==
    ASSUME RowInv, Clock
    PROVE  RowInv'
<1> USE DEF RowInv
<1>1. ASSUME NEW w \in WorkerIds, HeartbeatExpires(w) \/ OfflineGrowsOld(w)
      PROVE  RowInv'
  <2>1. workers' \in [WorkerIds -> WorkerRow]
    BY <1>1 DEF HeartbeatExpires, OfflineGrowsOld, TablesOK, WorkerRow
  <2> QED
    BY <1>1, <2>1 DEF HeartbeatExpires, OfflineGrowsOld, TablesOK, LocalOK, local
<1>2. ASSUME NEW c \in CheckIds, CheckBecomesOverdue(c) PROVE RowInv'
  <2>1. checks' \in [CheckIds -> GoodRow]
    BY <1>2 DEF CheckBecomesOverdue, TablesOK, GoodRow, CheckRow
  <2> QED
    BY <1>2, <2>1 DEF CheckBecomesOverdue, TablesOK, LocalOK, local
<1> QED
  BY <1>1, <1>2 DEF Clock

LEMMA CrashRowInv ==
    ASSUME RowInv, NEW p \in Procs, Crash(p)
    PROVE  RowInv'
  BY FinishType, UnlockType DEF RowInv, Crash, TablesOK

LEMMA LockLostRowInv ==
    ASSUME RowInv, NEW j \in Jobs, LockLost(j)
    PROVE  RowInv'
<1>1. lock' \in [Jobs -> Instances \cup {None}]
  BY DEF LockLost, RowInv, TablesOK
<1> QED
  BY <1>1 DEF LockLost, RowInv, TablesOK, LocalOK, local

LEMMA NextRowInv == RowInv /\ [Next]_vars => RowInv'
<1> SUFFICES ASSUME RowInv, [Next]_vars PROVE RowInv'
  OBVIOUS
<1>1. CASE UNCHANGED vars
  BY <1>1 DEF vars, RowInv, TablesOK, LocalOK
<1> QED
  BY <1>1, LoopRowInv, ScheduleRowInv, HandlerRowInv, RequestRowInv, ClockRowInv,
     CrashRowInv, LockLostRowInv DEF Next

\* Both tables and all local variables keep their types in every interleaving
\* of loops, handlers, faults and crashes.
THEOREM TypeCorrect == Spec => []TypeOK
<1>1. Init => RowInv
  BY InitRowInv
<1>2. RowInv /\ [Next]_vars => RowInv'
  BY NextRowInv
<1>3. RowInv => TypeOK
  BY RowInvImplies
<1> QED
  BY <1>1, <1>2, <1>3, PTL DEF Spec

\* A queued check has no worker and a check in progress has one, for any number
\* of instances and handlers, failed statements and crashes included: no stale
\* Update separates the two columns that ReassignByWorkerID and Assign write.
THEOREM QueuedChecks == Spec => []QueuedHasNoWorker
<1>1. Init => RowInv
  BY InitRowInv
<1>2. RowInv /\ [Next]_vars => RowInv'
  BY NextRowInv
<1>3. RowInv => QueuedHasNoWorker
  BY RowInvImplies
<1> QED
  BY <1>1, <1>2, <1>3, PTL DEF Spec

-----------------------------------------------------------------------------
(* Duplicate checks.  The inductive invariant says of every monitor that has *)
(* not been raced for that it has at most one active check, that at most one *)
(* process is between HasPendingCheck and Create for it, and that while one  *)
(* is there is no active check.  The only statement that can put an ended    *)
(* check in progress is the Update of an overdue check, which is given rows  *)
(* that exist.                                                               *)

Drawn(c) == checks[c].status # "NONE"
ActiveOf(c, m) == Active(c) /\ checks[c].monitor = m

Alone(m) ==
    /\ \A c, d \in CheckIds : ActiveOf(c, m) /\ ActiveOf(d, m) => c = d
    /\ \A p \in Procs : Scheduling(p, m) => \A c \in CheckIds : ~ActiveOf(c, m)
    /\ \A p, q \in Procs : Scheduling(p, m) /\ Scheduling(q, m) => p = q

\* The overdue checks that p holds exist.
ListsDrawn(p) ==
    /\ pc[p] \in {"overdue", "assign"} => \A c \in todo[p] \cap CheckIds : Drawn(c)
    /\ pc[p] = "assign" => (cur[p] \in CheckIds => Drawn(cur[p]))

RaceInv ==
    /\ \A p \in Procs : ListsDrawn(p)
    /\ \A m \in (Monitors \cup {None}) \ raced : Alone(m)

\* The monitors of the checks stay, and none is made active or removed.
NoneActivated ==
    \A c \in CheckIds :
        /\ checks'[c].monitor = checks[c].monitor
        /\ Active(c)' => Active(c)
        /\ Drawn(c) => Drawn(c)'

\* ReassignByWorkerID turns active checks into queued ones only,
LEMMA ReassignActivatesNone ==
    ASSUME RowInv, NEW w, checks' = ReassignByWorkerID(w) \/ UNCHANGED checks
    PROVE  NoneActivated
<1>1. CASE UNCHANGED checks
  BY <1>1 DEF NoneActivated, Active, Drawn
<1>2. CASE checks' = ReassignByWorkerID(w)
  <2> SUFFICES ASSUME NEW c \in CheckIds
               PROVE  /\ checks'[c].monitor = checks[c].monitor
                      /\ Active(c)' => Active(c)
                      /\ Drawn(c) => Drawn(c)'
    BY DEF NoneActivated
  <2>1. checks[c] \in CheckRow
    BY DEF RowInv, TablesOK, GoodRow
  <2>2. checks'[c] = IF checks[c].worker = w /\ Active(c)
                     THEN [checks[c] EXCEPT !.worker = None, !.status = "PENDING"]
                     ELSE checks[c]
    BY <1>2 DEF ReassignByWorkerID
  <2>3. CASE checks[c].worker = w /\ Active(c)
    BY <2>1, <2>2, <2>3 DEF CheckRow, Drawn
  <2>4. CASE ~(checks[c].worker = w /\ Active(c))
    BY <2>2, <2>4 DEF Active, Drawn
  <2> QED BY <2>3, <2>4
<1> QED BY <1>1, <1>2

\* CompleteCheck ends a check,
LEMMA CompletionActivatesNone ==
    ASSUME RowInv, NEW k, NEW w \in WorkerIds \cup {None}, NEW status \in {"COMPLETED", "FAILED"},
           checks' = UpdateCheck(k, w, status)
    PROVE  NoneActivated
<1> SUFFICES ASSUME NEW c \in CheckIds
             PROVE  /\ checks'[c].monitor = checks[c].monitor
                    /\ Active(c)' => Active(c)
                    /\ Drawn(c) => Drawn(c)'
  BY DEF NoneActivated
<1>1. checks \in [CheckIds -> CheckRow] /\ checks[c] \in CheckRow
  BY DEF RowInv, TablesOK, GoodRow
<1>2. CASE c = k
  <2>1. checks'[c].monitor = checks[c].monitor /\ checks'[c].status = status
    BY <1>1, <1>2 DEF UpdateCheck, CheckRow
  <2> QED BY <2>1 DEF Active, Drawn
<1>3. CASE c # k
  <2>1. checks'[c] = checks[c]
    BY <1>1, <1>3 DEF UpdateCheck
  <2> QED BY <2>1 DEF Active, Drawn
<1> QED BY <1>2, <1>3

\* and the clock changes neither status nor monitor.
LEMMA OverdueActivatesNone ==
    ASSUME RowInv, NEW k \in CheckIds, CheckBecomesOverdue(k)
    PROVE  NoneActivated
<1> SUFFICES ASSUME NEW c \in CheckIds
             PROVE  /\ checks'[c].monitor = checks[c].monitor
                    /\ Active(c)' => Active(c)
                    /\ Drawn(c) => Drawn(c)'
  BY DEF NoneActivated
<1>1. checks \in [CheckIds -> CheckRow] /\ checks[c] \in CheckRow
  BY DEF RowInv, TablesOK, GoodRow
<1>2. checks'[c].monitor = checks[c].monitor /\ checks'[c].status = checks[c].status
  BY <1>1 DEF CheckBecomesOverdue, CheckRow
<1> QED BY <1>2 DEF Active, Drawn

\* Nothing is activated for m and nobody starts to schedule it.
LEMMA AloneStays ==
    ASSUME NEW m, Alone(m),
           \A c \in CheckIds : ActiveOf(c, m)' => ActiveOf(c, m),
           \A q \in Procs : Scheduling(q, m)' => Scheduling(q, m)
    PROVE  Alone(m)'
  BY DEF Alone

\* The process p changes none of the local variables of another,
LEMMA MoveOthers ==
    ASSUME LocalOK, NEW p \in Procs, NEW q \in Procs, q # p,
           NEW l, NEW list, NEW item, NEW w, Move(p, l, list, item, w)
    PROVE  pc'[q] = pc[q] /\ todo'[q] = todo[q] /\ cur'[q] = cur[q]
  BY DEF LocalOK, Move

\* and its own become what Move says.
LEMMA MoveSelf ==
    ASSUME LocalOK, NEW p \in Procs, NEW l, NEW list, NEW item, NEW w,
           Move(p, l, list, item, w)
    PROVE  pc'[p] = l /\ todo'[p] = list /\ cur'[p] = item
  BY DEF LocalOK, Move

\* The lists after a move to l, when checks stay drawn.
LEMMA ListsMove ==
    ASSUME RowInv, RaceInv, NEW p \in Procs,
           NEW l, NEW list, NEW item, NEW w, Move(p, l, list, item, w),
           \A c \in CheckIds : Drawn(c) => Drawn(c)',
           l \in {"overdue", "assign"} => \A c \in list \cap CheckIds : Drawn(c),
           l = "assign" => (item \in CheckIds => Drawn(item))
    PROVE  \A q \in Procs : ListsDrawn(q)'
<1> SUFFICES ASSUME NEW q \in Procs PROVE ListsDrawn(q)'
  OBVIOUS
<1>1. CASE q = p
  <2>1. pc'[p] = l /\ todo'[p] = list /\ cur'[p] = item
    BY MoveSelf DEF RowInv
  <2> QED
    BY <1>1, <2>1 DEF ListsDrawn, Drawn
<1>2. CASE q # p
  <2>1. pc'[q] = pc[q] /\ todo'[q] = todo[q] /\ cur'[q] = cur[q]
    BY <1>2, MoveOthers DEF RowInv
  <2> QED
    BY <2>1 DEF ListsDrawn, Drawn, RaceInv
<1> QED
  BY <1>1, <1>2

\* A process moves to l without activating a check, and schedules no monitor
\* that it was not scheduling before.
LEMMA RaceMoves ==
    ASSUME RowInv, RaceInv, NoneActivated, NEW p \in Procs,
           NEW l, NEW list, NEW item, NEW w, Goto(p, l, list, item, w),
           l \in {"listIdle", "create"} =>
              pc[p] \in {"listIdle", "create"} /\ item = cur[p],
           l \in {"overdue", "assign"} => \A c \in list \cap CheckIds : Drawn(c),
           l = "assign" => (item \in CheckIds => Drawn(item))
    PROVE  RaceInv'
<1>1. Move(p, l, list, item, w) /\ raced' = raced
  BY DEF Goto
<1>2. \A q \in Procs : ListsDrawn(q)'
  BY <1>1, ListsMove DEF NoneActivated
<1>3. ASSUME NEW m \in (Monitors \cup {None}) \ raced PROVE Alone(m)'
  <2>1. Alone(m)
    BY DEF RaceInv
  <2>2. \A c \in CheckIds : ActiveOf(c, m)' => ActiveOf(c, m)
    BY DEF NoneActivated, ActiveOf
  <2>3. ASSUME NEW q \in Procs, Scheduling(q, m)' PROVE Scheduling(q, m)
    <3>1. CASE q = p
      <4>1. pc'[p] = l /\ cur'[p] = item
        BY <1>1, MoveSelf DEF RowInv
      <4> QED
        BY <2>3, <3>1, <4>1 DEF Scheduling
    <3>2. CASE q # p
      <4>1. pc'[q] = pc[q] /\ cur'[q] = cur[q]
        BY <1>1, <3>2, MoveOthers DEF RowInv
      <4> QED
        BY <2>3, <4>1 DEF Scheduling
    <3> QED
      BY <3>1, <3>2
  <2> QED
    BY <2>1, <2>2, <2>3, AloneStays
<1> QED
  BY <1>1, <1>2, <1>3 DEF RaceInv

\* No process moves and no check is activated.
LEMMA RaceStays ==
    ASSUME RowInv, RaceInv, NoneActivated, UNCHANGED <<pc, todo, cur, raced>>
    PROVE  RaceInv'
<1>1. \A p \in Procs : ListsDrawn(p)'
  BY DEF RaceInv, ListsDrawn, NoneActivated, Drawn
<1>2. ASSUME NEW m \in (Monitors \cup {None}) \ raced PROVE Alone(m)'
  <2>1. Alone(m)
    BY DEF RaceInv
  <2>2. \A c \in CheckIds : ActiveOf(c, m)' => ActiveOf(c, m)
    BY DEF NoneActivated, ActiveOf
  <2>3. \A q \in Procs : Scheduling(q, m)' => Scheduling(q, m)
    BY DEF Scheduling
  <2> QED
    BY <2>1, <2>2, <2>3, AloneStays
<1> QED
  BY <1>1, <1>2 DEF RaceInv

LEMMA SameChecks ==
    ASSUME UNCHANGED checks
    PROVE  NoneActivated
  BY DEF NoneActivated, Active, Drawn

\* The loop's jobs.
LEMMA RaceLoop ==
    ASSUME RowInv, RaceInv, NEW i \in Instances,
           LoopStep(i) \/ \E j \in Jobs : TryLock(i, j)
    PROVE  RaceInv'
<1>0. i \in Procs
  BY DEF Procs
<1>1. CASE \E j \in Jobs : TryLock(i, j)
  <2>1. PICK j \in Jobs : Goto(i, j, {}, None, None) /\ UNCHANGED checks
    BY <1>1 DEF TryLock
  <2>2. j \notin {"listIdle", "create", "overdue", "assign"}
    BY DEF Jobs
  <2> QED BY <1>0, <2>1, <2>2, RaceMoves, SameChecks
<1>2. CASE Unlock(i)
  <2>1. Goto(i, "idle", {}, None, None) /\ UNCHANGED checks
    BY <1>2 DEF Unlock, Finish
  <2> QED BY <1>0, <2>1, RaceMoves, SameChecks
<1>3. CASE scheduleChecks(i)
  <2>1. PICK due \in SUBSET Monitors :
           Goto(i, "schedule", due, None, None) /\ UNCHANGED checks
    BY <1>3 DEF scheduleChecks
  <2> QED BY <1>0, <2>1, RaceMoves, SameChecks
<1>4. CASE DetectOfflineWorkers(i) \/ MarkWorkerOffline(i)
  <2>1. PICK list : Goto(i, "expired", list, None, None) /\ UNCHANGED checks
    BY <1>4 DEF DetectOfflineWorkers, MarkWorkerOffline
  <2> QED BY <1>0, <2>1, RaceMoves, SameChecks
<1>5. CASE ReassignExpired(i)
  <2>1. PICK w \in todo[i] :
          /\ Goto(i, "markOffline", todo[i] \ {w}, w, None)
          /\ checks' = ReassignByWorkerID(w) \/ UNCHANGED checks
    BY <1>5 DEF ReassignExpired
  <2>2. NoneActivated
    BY <2>1, ReassignActivatesNone
  <2> QED BY <1>0, <2>1, <2>2, RaceMoves
<1>6. CASE ReassignOverdueChecks(i)
  <2>1. Goto(i, "overdue", ListOverdue, None, None) /\ UNCHANGED checks
    BY <1>6 DEF ReassignOverdueChecks
  <2>2. \A c \in ListOverdue \cap CheckIds : Drawn(c)
    BY DEF ListOverdue, Drawn
  <2> QED BY <1>0, <2>1, <2>2, RaceMoves, SameChecks
<1>7. CASE PickForOverdue(i)
  <2>1. PICK c \in todo[i] :
          \/ \E w : Goto(i, "assign", todo[i] \ {c}, c, w)
          \/ Goto(i, "overdue", todo[i] \ {c}, None, None)
    BY <1>7 DEF PickForOverdue
  <2>2. UNCHANGED checks /\ \A d \in todo[i] \cap CheckIds : Drawn(d)
    BY <1>0, <1>7 DEF PickForOverdue, RaceInv, ListsDrawn
  <2>3. ASSUME NEW w, Goto(i, "assign", todo[i] \ {c}, c, w) PROVE RaceInv'
    BY <1>0, <2>2, <2>3, RaceMoves, SameChecks
  <2>4. CASE Goto(i, "overdue", todo[i] \ {c}, None, None)
    BY <1>0, <2>2, <2>4, RaceMoves, SameChecks
  <2> QED BY <2>1, <2>3, <2>4
<1>8. CASE AssignOverdue(i)
  <2>1. Move(i, "overdue", todo[i], None, None) /\ pc[i] = "assign"
    BY <1>8 DEF AssignOverdue
  <2>2. pick[i] \in WorkerIds \cup {None} /\ checks \in [CheckIds -> CheckRow]
    BY <1>0 DEF RowInv, LocalOK, TablesOK, GoodRow
  <2>3. \A c \in CheckIds :
          /\ checks'[c].monitor = checks[c].monitor
          /\ checks'[c].status \in {checks[c].status, "IN_PROGRESS"}
          /\ c # cur[i] => checks'[c] = checks[c]
    <3>1. CASE UNCHANGED checks
      BY <3>1
    <3>2. CASE checks' = UpdateCheck(cur[i], pick[i], "IN_PROGRESS")
      BY <2>2, <3>2 DEF UpdateCheck, CheckRow
    <3> QED BY <1>8, <3>1, <3>2 DEF AssignOverdue
  <2>4. \A q \in Procs : ListsDrawn(q)'
    <3>1. \A c \in CheckIds : Drawn(c) => Drawn(c)'
      BY <2>3 DEF Drawn
    <3>2. \A c \in todo[i] \cap CheckIds : Drawn(c)
      BY <1>0, <2>1 DEF RaceInv, ListsDrawn
    <3> QED BY <1>0, <2>1, <3>1, <3>2, ListsMove
  <2>5. raced \subseteq raced'
    BY <1>8 DEF AssignOverdue
  <2>6. ASSUME NEW m \in (Monitors \cup {None}) \ raced' PROVE Alone(m)'
    <3>1. Alone(m)
      BY <2>5 DEF RaceInv
    <3>2. ASSUME NEW c \in CheckIds, ActiveOf(c, m)' PROVE ActiveOf(c, m)
      <4>1. checks[c].monitor = m /\ Active(c)'
        BY <2>3, <3>2 DEF ActiveOf
      <4>2. ~Ended(c)
        <5>1. Ended(c) => checks[c].monitor \in raced'
          BY <1>8, <4>1 DEF AssignOverdue
        <5> QED BY <4>1, <5>1
      <4>3. CASE c = cur[i]
        <5>1. Drawn(c)
          BY <1>0, <2>1, <4>3 DEF RaceInv, ListsDrawn
        <5>2. checks[c].status \in CheckStatus \cup {"NONE"}
          BY <2>2 DEF CheckRow
        <5> QED
          BY <4>1, <4>2, <5>1, <5>2 DEF ActiveOf, Active, Ended, Drawn, CheckStatus
      <4>4. CASE c # cur[i]
        BY <2>3, <3>2, <4>4 DEF ActiveOf, Active
      <4> QED BY <4>3, <4>4
    <3>3. ASSUME NEW q \in Procs, Scheduling(q, m)' PROVE Scheduling(q, m)
      <4>1. pc'[i] = "overdue"
        BY <1>0, <2>1, MoveSelf DEF RowInv
      <4>2. q # i => pc'[q] = pc[q] /\ cur'[q] = cur[q]
        BY <1>0, <2>1, MoveOthers DEF RowInv
      <4> QED BY <3>3, <4>1, <4>2 DEF Scheduling
    <3> QED BY <3>1, <3>2, <3>3, AloneStays
  <2> QED BY <2>4, <2>6 DEF RaceInv
<1>9. CASE CleanupOfflineWorkers(i) \/ DeleteOffline(i)
  <2>1. PICK list : Goto(i, "offline", list, None, None) /\ UNCHANGED checks
    BY <1>9 DEF CleanupOfflineWorkers, DeleteOffline
  <2> QED BY <1>0, <2>1, RaceMoves, SameChecks
<1> QED
  BY <1>1, <1>2, <1>3, <1>4, <1>5, <1>6, <1>7, <1>8, <1>9 DEF LoopStep

\* HasPendingCheck said no: the claim is the only one, or the monitor is raced.
LEMMA RaceClaim ==
    ASSUME RowInv, RaceInv, NEW p \in Procs, NEW k \in Monitors, UNCHANGED checks,
           ~HasPendingCheck(k), Claim(p, k)
    PROVE  RaceInv'
<1>1. Move(p, "listIdle", todo[p] \ {k}, k, None) /\ NoneActivated /\ raced \subseteq raced'
  BY SameChecks DEF Claim
<1>2. \A q \in Procs : ListsDrawn(q)'
  BY <1>1, ListsMove DEF NoneActivated
<1>3. /\ pc'[p] = "listIdle" /\ cur'[p] = k
      /\ \A q \in Procs : q # p => pc'[q] = pc[q] /\ cur'[q] = cur[q]
  BY <1>1, MoveSelf, MoveOthers DEF RowInv
<1>4. ASSUME NEW m \in (Monitors \cup {None}) \ raced' PROVE Alone(m)'
  <2>1. Alone(m)
    BY <1>1 DEF RaceInv
  <2>2. \A c \in CheckIds : ActiveOf(c, m)' => ActiveOf(c, m)
    BY <1>1 DEF NoneActivated, ActiveOf
  <2>3. \A q \in Procs : q # p /\ Scheduling(q, m)' => Scheduling(q, m)
    BY <1>3 DEF Scheduling
  <2>4. CASE m = k
    <3>1. \A c \in CheckIds : ~ActiveOf(c, m)'
      BY <2>2, <2>4 DEF HasPendingCheck, ActiveOf
    <3>2. \A q \in Procs : q # p => ~Scheduling(q, m)
      <4>1. (\E q \in Procs \ {p} : Scheduling(q, k)) => k \in raced'
        BY DEF Claim
      <4> QED BY <2>4, <4>1
    <3>3. \A q \in Procs : Scheduling(q, m)' => q = p
      BY <2>3, <3>2
    <3> QED BY <3>1, <3>3 DEF Alone
  <2>5. CASE m # k
    <3>1. ~Scheduling(p, m)'
      BY <1>3, <2>5 DEF Scheduling
    <3> QED BY <2>1, <2>2, <2>3, <3>1, AloneStays
  <2> QED BY <2>4, <2>5
<1> QED BY <1>2, <1>4 DEF RaceInv

\* A process leaves ScheduleCheck, or goes on with its list.
LEMMA NextItemMoves ==
    ASSUME RowInv, RaceInv, NoneActivated, NEW p \in Procs, NEW list,
           NextItem(p, "schedule", list)
    PROVE  RaceInv'
<1>1. \/ Goto(p, "idle", {}, None, None)
      \/ Goto(p, "schedule", list, None, None)
  BY DEF NextItem, Finish
<1> QED BY <1>1, RaceMoves

LEMMA RaceSchedule ==
    ASSUME RowInv, RaceInv, NEW p \in Procs, ScheduleCheck(p)
    PROVE  RaceInv'
<1>1. CASE CheckPending(p)
  <2>1. PICK m \in todo[p] :
          \/ ~HasPendingCheck(m) /\ Claim(p, m)
          \/ NextItem(p, "schedule", todo[p] \ {m})
    BY <1>1 DEF CheckPending
  <2>2. UNCHANGED checks /\ m \in Monitors
    BY <1>1 DEF CheckPending, RowInv, LocalOK
  <2>3. CASE ~HasPendingCheck(m) /\ Claim(p, m)
    BY <2>2, <2>3, RaceClaim
  <2>4. CASE NextItem(p, "schedule", todo[p] \ {m})
    BY <2>2, <2>4, NextItemMoves, SameChecks
  <2> QED BY <2>1, <2>3, <2>4
<1>2. CASE PickWorker(p)
  <2>1. PICK w : Goto(p, "create", todo[p], cur[p], w)
    BY <1>2 DEF PickWorker
  <2>2. UNCHANGED checks /\ pc[p] = "listIdle"
    BY <1>2 DEF PickWorker
  <2> QED BY <2>1, <2>2, RaceMoves, SameChecks
<1>3. CASE CreateCheck(p)
  <2>1. NextItem(p, "schedule", todo[p]) /\ pc[p] = "create"
    BY <1>3 DEF CreateCheck
  <2>2. CASE UNCHANGED checks
    BY <2>1, <2>2, NextItemMoves, SameChecks
  <2>3. ASSUME NEW c \in CheckIds, checks[c].status = "NONE",
               checks' = [checks EXCEPT ![c] =
                            IF pick[p] = None
                            THEN NewScheduledCheck(cur[p], prio[p])
                            ELSE Assign(NewScheduledCheck(cur[p], prio[p]), pick[p])]
        PROVE  RaceInv'
    <3>1. PICK l, list, item, w :
            Goto(p, l, list, item, w) /\ l \in {"idle", "schedule"}
      BY <2>1 DEF NextItem, Finish
    <3>2. Move(p, l, list, item, w) /\ raced' = raced /\ pc'[p] = l
      BY <3>1, MoveSelf DEF Goto, RowInv
    <3>3. checks \in [CheckIds -> CheckRow]
      BY DEF RowInv, TablesOK, GoodRow
    <3>4. /\ checks'[c].monitor = cur[p] /\ Drawn(c)'
          /\ \A d \in CheckIds : d # c => checks'[d] = checks[d]
      BY <2>3, <3>3 DEF NewScheduledCheck, Assign, Drawn
    <3>5. \A q \in Procs : ListsDrawn(q)'
      <4>1. \A d \in CheckIds : Drawn(d) => Drawn(d)'
        BY <3>4 DEF Drawn
      <4> QED BY <3>1, <3>2, <4>1, ListsMove
    <3>6. ASSUME NEW q \in Procs, NEW m, Scheduling(q, m)'
          PROVE  q # p /\ Scheduling(q, m)
      <4>1. q # p
        BY <3>1, <3>2, <3>6 DEF Scheduling
      <4>2. pc'[q] = pc[q] /\ cur'[q] = cur[q]
        BY <3>2, <4>1, MoveOthers DEF RowInv
      <4> QED BY <3>6, <4>1, <4>2 DEF Scheduling
    <3>7. ASSUME NEW m \in (Monitors \cup {None}) \ raced PROVE Alone(m)'
      <4>1. Alone(m)
        BY DEF RaceInv
      <4>2. \A d \in CheckIds : d # c /\ ActiveOf(d, m)' => ActiveOf(d, m)
        BY <3>4 DEF ActiveOf, Active
      <4>3. CASE m = cur[p]
        <5>1. Scheduling(p, m)
          BY <2>1, <4>3 DEF Scheduling
        <5>2. \A d \in CheckIds : ActiveOf(d, m)' => d = c
          BY <4>1, <4>2, <5>1 DEF Alone
        <5>3. \A q \in Procs : ~Scheduling(q, m)'
          BY <3>6, <4>1, <5>1 DEF Alone
        <5> QED BY <5>2, <5>3 DEF Alone
      <4>4. CASE m # cur[p]
        <5>1. ~ActiveOf(c, m)'
          BY <3>4, <4>4 DEF ActiveOf
        <5> QED BY <3>6, <4>1, <4>2, <5>1, AloneStays
      <4> QED BY <4>3, <4>4
    <3> QED BY <3>2, <3>5, <3>7 DEF RaceInv
  <2> QED BY <1>3, <2>2, <2>3 DEF CreateCheck
<1> QED BY <1>1, <1>2, <1>3 DEF ScheduleCheck

LEMMA RaceHandler ==
    ASSUME RowInv, RaceInv, NEW h \in Handlers, HandlerStep(h) \/ Request(h)
    PROVE  RaceInv'
<1>1. h \in Procs /\ pick[h] \in WorkerIds \cup {None}
  BY DEF Procs, RowInv, LocalOK
<1>2. NoneActivated
  <2>1. \/ \E w : checks' = ReassignByWorkerID(w) \/ UNCHANGED checks
        \/ WriteCompletion(h)
    BY DEF HandlerStep, Request, WriteHeartbeat, ReassignUnregistered, DeleteUnregistered,
           TriggerScheduledCheck, RegisterWorker, CompleteCheck, UnregisterWorker, Heartbeat
  <2>2. CASE \E w : checks' = ReassignByWorkerID(w) \/ UNCHANGED checks
    BY <2>2, ReassignActivatesNone
  <2>3. CASE WriteCompletion(h)
    BY <2>3, <1>1, CompletionActivatesNone DEF WriteCompletion
  <2> QED BY <2>1, <2>2, <2>3
<1>3. \/ \E l, list, item, w :
           /\ Goto(h, l, list, item, w)
           /\ l \in {"idle", "schedule", "heartbeat", "complete", "unregister", "delete"}
      \/ UNCHANGED <<pc, todo, cur, raced>>
  BY DEF HandlerStep, Request, WriteHeartbeat, WriteCompletion,
         ReassignUnregistered, DeleteUnregistered, TriggerScheduledCheck, RegisterWorker,
         CompleteCheck, UnregisterWorker, Heartbeat, Finish, local
<1>4. ASSUME NEW l, NEW list, NEW item, NEW w, Goto(h, l, list, item, w),
             l \in {"idle", "schedule", "heartbeat", "complete", "unregister", "delete"}
      PROVE  RaceInv'
  BY <1>1, <1>2, <1>4, RaceMoves
<1> QED BY <1>2, <1>3, <1>4, RaceStays

LEMMA NextRaceInv == RowInv /\ RaceInv /\ [Next]_vars => RaceInv'
<1> SUFFICES ASSUME RowInv, RaceInv, [Next]_vars PROVE RaceInv'
  OBVIOUS
<1>1. CASE Clock
  <2>1. UNCHANGED <<pc, todo, cur, raced>>
    BY <1>1 DEF Clock, HeartbeatExpires, OfflineGrowsOld, CheckBecomesOverdue, local
  <2>2. UNCHANGED checks \/ \E c \in CheckIds : CheckBecomesOverdue(c)
    BY <1>1 DEF Clock, HeartbeatExpires, OfflineGrowsOld
  <2> QED BY <2>1, <2>2, SameChecks, OverdueActivatesNone, RaceStays
<1>2. ASSUME NEW p \in Procs, Crash(p) PROVE RaceInv'
  <2>1. Goto(p, "idle", {}, None, None) /\ UNCHANGED checks
    BY <1>2 DEF Crash, Finish
  <2> QED BY <2>1, RaceMoves, SameChecks
<1>3. CASE UNCHANGED vars \/ \E j \in Jobs : LockLost(j)
  BY <1>3, SameChecks, RaceStays DEF vars, LockLost, local
<1> QED
  BY <1>1, <1>2, <1>3, RaceLoop, RaceSchedule, RaceHandler DEF Next

\* A monitor gets a second active check only through one of the two races that
\* raced records, for any number of instances, handlers, monitors and workers,
\* with every RPC, failed statements, lost locks and crashes.
THEOREM DuplicatesAreRaces == Spec => []UniqueUnlessRaced
<1>1. Init => RowInv /\ RaceInv
  <2> SUFFICES ASSUME Init PROVE RaceInv
    BY InitRowInv
  <2>1. \A c \in CheckIds : ~Active(c)
    BY DEF Init, Active
  <2>2. \A p \in Procs : pc[p] = "idle"
    BY DEF Init
  <2> QED BY <2>1, <2>2 DEF RaceInv, ListsDrawn, Alone, ActiveOf, Scheduling
<1>2. RowInv /\ RaceInv /\ [Next]_vars => (RowInv /\ RaceInv)'
  BY NextRowInv, NextRaceInv
<1>3. RowInv /\ RaceInv => UniqueUnlessRaced
  <2> SUFFICES ASSUME RowInv, RaceInv, NEW c \in CheckIds, NEW d \in CheckIds,
                      Active2(c, d), checks[c].monitor \notin raced
               PROVE  FALSE
    BY DEF UniqueUnlessRaced
  <2>1. checks[c].monitor \in Monitors \cup {None}
    BY DEF RowInv, TablesOK, GoodRow, CheckRow
  <2>2. Alone(checks[c].monitor)
    BY <2>1 DEF RaceInv
  <2> QED BY <2>2 DEF Alone, ActiveOf, Active2
<1> QED
  BY <1>1, <1>2, <1>3, PTL DEF Spec
=============================================================================
