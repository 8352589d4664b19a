------------------------------ MODULE Scheduler ------------------------------
(***************************************************************************)
(* scheduler-service: worker registry, check queue and scheduling loop.    *)
(*                                                                         *)
(* The state that outlives a request is two PostgreSQL tables,             *)
(* scheduler_workers and scheduled_checks, and the advisory locks.  A      *)
(* process is the loop goroutine of one service instance or one gRPC       *)
(* handler goroutine.  Repository calls are single SQL statements without  *)
(* an enclosing transaction, so every call is one atomic step and anything *)
(* may happen between two calls of the same operation.                     *)
(*                                                                         *)
(* Time is abstracted to what the queries compare: whether a heartbeat is  *)
(* older than the timeout, an OFFLINE row older than the cleanup cutoff, a *)
(* check older than the overdue threshold.                                 *)
(***************************************************************************)
EXTENDS Integers

CONSTANTS
    Instances,       \* service instances, each with one SchedulingLoop
    Handlers,        \* gRPC handler goroutines
    Monitors,        \* the monitors that are not paused
    WorkerIds,       \* bound: ids RegisterWorker may draw (uuid.New)
    NameOf,          \* the name each of these ids is registered under
    CheckIds,        \* bound: ids NewScheduledCheck may draw (uuid.New)
    Rpcs,            \* the RPCs that clients call in this instance
    Faults,          \* whether statements fail and processes crash
    None             \* SQL NULL / uuid.Nil / no instance

Procs == Instances \cup Handlers
Jobs == {"scheduling", "offline-detection", "cleanup"}
WorkerStatus == {"IDLE", "BUSY", "OFFLINE"}
CheckStatus == {"PENDING", "IN_PROGRESS", "COMPLETED", "FAILED"}
Priorities == {"NORMAL", "HIGH"}

ASSUME SchedulerAssumption ==
    /\ Instances \cap Handlers = {}
    /\ None \notin Instances \cup Handlers \cup Monitors \cup WorkerIds \cup CheckIds
    /\ Faults \in BOOLEAN

VARIABLES
    workers,  \* scheduler_workers: id -> row; status "NONE" before the id is
              \* drawn and "DELETED" after the row is gone
    checks,   \* scheduled_checks: id -> row; status "NONE" before it is drawn
    lock,     \* advisory lock of each job -> the instance that holds it
    pc,       \* where each process is
    todo,     \* rows or monitors its current loop has still to visit
    cur,      \* the row or monitor it is visiting
    pick,     \* the worker id it has read for that visit
    prio,     \* the priority of the check it is scheduling
    raced     \* history: the monitors two processes scheduled at a time, or
              \* whose ended check a stale Update has put in progress again

vars == <<workers, checks, lock, pc, todo, cur, pick, prio, raced>>
local == <<todo, cur, pick, prio, raced>>

PCs == {"idle", "scheduling", "offline-detection", "cleanup",
        "schedule", "listIdle", "create", "expired", "markOffline", "overdue",
        "assign", "offline", "heartbeat", "complete", "unregister", "delete"}

\* Every table and local variable keeps its type; a row is never written
\* under a status that only stands for its absence.
TypeOK ==
    /\ workers \in [WorkerIds -> [status : WorkerStatus \cup {"NONE", "DELETED"},
                                  expired : BOOLEAN, stale : BOOLEAN]]
    /\ checks \in [CheckIds -> [status : CheckStatus \cup {"NONE"},
                                monitor : Monitors \cup {None},
                                worker : WorkerIds \cup {None},
                                priority : Priorities, overdue : BOOLEAN]]
    /\ lock \in [Jobs -> Instances \cup {None}]
    /\ pc \in [Procs -> PCs]
    /\ todo \in [Procs -> SUBSET (Monitors \cup WorkerIds \cup CheckIds)]
    /\ cur \in [Procs -> Monitors \cup WorkerIds \cup CheckIds \cup {None}]
    /\ pick \in [Procs -> WorkerIds \cup {None}]
    /\ prio \in [Procs -> Priorities]
    /\ raced \subseteq Monitors \cup {None}

-----------------------------------------------------------------------------
(* Domain rows (internal/model). *)

NewWorker == [status |-> "IDLE", expired |-> FALSE, stale |-> FALSE]

UpdateHeartbeat(status) == [status |-> status, expired |-> FALSE, stale |-> FALSE]

\* MarkOffline on a row read by ListExpired: status and updated_at change, the
\* heartbeat that Update writes back is the expired one that was read.
MarkOffline == [status |-> "OFFLINE", expired |-> TRUE, stale |-> FALSE]

NewScheduledCheck(m, priority) ==
    [status |-> "PENDING", monitor |-> m, worker |-> None,
     priority |-> priority, overdue |-> FALSE]

Assign(check, w) == [check EXCEPT !.worker = w, !.status = "IN_PROGRESS"]

-----------------------------------------------------------------------------
(* Queries and statements (internal/repository/postgres). *)

Registered(w) == workers[w].status \in WorkerStatus
Active(c) == checks[c].status \in {"PENDING", "IN_PROGRESS"}
Ended(c) == checks[c].status \in {"COMPLETED", "FAILED"}

ListIdleByZone == {w \in WorkerIds : workers[w].status = "IDLE"}

ListExpired == {w \in WorkerIds : /\ workers[w].status \in {"IDLE", "BUSY"}
                                  /\ workers[w].expired}
ListOfflineForCleanup == {w \in WorkerIds : /\ workers[w].status = "OFFLINE"
                                            /\ workers[w].stale}
ListOverdueInProgress ==
    {c \in CheckIds : checks[c].status = "IN_PROGRESS" /\ checks[c].overdue}

ListOverdue == {c \in CheckIds : checks[c].status = "PENDING" /\ checks[c].overdue}
HasPendingCheck(m) == \E c \in CheckIds : checks[c].monitor = m /\ Active(c)

\* UPDATE scheduler_workers ... WHERE id: no row, no effect.
UpdateWorker(w, row) ==
    IF Registered(w) THEN [workers EXCEPT ![w] = row] ELSE workers

DeleteWorker(w) ==
    IF Registered(w) THEN [workers EXCEPT ![w].status = "DELETED"] ELSE workers

\* UPDATE scheduled_checks: priority is not among the columns it sets.
UpdateCheck(c, w, status) ==
    [checks EXCEPT ![c].worker = w, ![c].status = status]

ReassignKeepsStatus(w) ==
    [c \in CheckIds |->
        IF checks[c].worker = w /\ Active(c)
        THEN [checks[c] EXCEPT !.worker = None]
        ELSE checks[c]]

ReassignByWorkerID(w) ==
    [c \in CheckIds |->
        IF checks[c].worker = w /\ Active(c)
        THEN [checks[c] EXCEPT !.worker = None, !.status = "PENDING"]
        ELSE checks[c]]

-----------------------------------------------------------------------------
Init ==
    /\ workers = [w \in WorkerIds |-> [status |-> "NONE", expired |-> FALSE,
                                       stale |-> FALSE]]
    /\ checks = [c \in CheckIds |-> [status |-> "NONE", monitor |-> None,
                                     worker |-> None, priority |-> "NORMAL",
                                     overdue |-> FALSE]]
    /\ lock = [j \in Jobs |-> None]
    /\ pc = [p \in Procs |-> "idle"]
    /\ todo = [p \in Procs |-> {}]
    /\ cur = [p \in Procs |-> None]
    /\ pick = [p \in Procs |-> None]
    /\ prio = [p \in Procs |-> "NORMAL"]
    /\ raced = {}

\* Process p moves to label l with the list, item and worker it holds there.
Move(p, l, list, item, w) ==
    /\ pc' = [pc EXCEPT ![p] = l]
    /\ todo' = [todo EXCEPT ![p] = list]
    /\ cur' = [cur EXCEPT ![p] = item]
    /\ pick' = [pick EXCEPT ![p] = w]

Goto(p, l, list, item, w) == Move(p, l, list, item, w) /\ UNCHANGED raced

\* The operation of p is over.
Finish(p) ==
    /\ Goto(p, "idle", {}, None, None)
    /\ prio' = [prio EXCEPT ![p] = "NORMAL"]

\* A loop goes on with its list; a handler made one call and returns.
NextItem(p, l, list) ==
    IF p \in Handlers THEN Finish(p)
    ELSE Goto(p, l, list, None, None) /\ UNCHANGED prio

-----------------------------------------------------------------------------
(* SchedulingLoop: run, withLock and the three jobs. *)

\* withLock: a job whose lock is taken is skipped until its next tick.
TryLock(i, j) ==
    /\ pc[i] = "idle"
    /\ lock[j] = None
    /\ lock' = [lock EXCEPT ![j] = i]
    /\ Goto(i, j, {}, None, None)
    /\ UNCHANGED <<workers, checks, prio>>

\* The job's list is done: unlock().
Unlock(i) ==
    /\ pc[i] \in {"schedule", "overdue", "offline"}
    /\ todo[i] = {}
    /\ lock' = [j \in Jobs |-> IF lock[j] = i THEN None ELSE lock[j]]
    /\ Finish(i)
    /\ UNCHANGED <<workers, checks>>

\* scheduleChecks: of the monitors that ListActiveMonitors reports (monitor-
\* service leaves out the paused ones for a SERVICE token) those that are due,
\* which is up to the clock and to last_check_at; an error schedules nothing.
scheduleChecks(i) ==
    /\ pc[i] = "scheduling"
    /\ \E due \in SUBSET Monitors : Goto(i, "schedule", due, None, None)
    /\ UNCHANGED <<workers, checks, lock, prio>>

\* DetectOfflineWorkers: ListExpired.
DetectOfflineWorkers(i) ==
    /\ pc[i] = "offline-detection"
    /\ Goto(i, "expired", ListExpired, None, None)
    /\ UNCHANGED <<workers, checks, lock, prio>>

\* One expired worker: its checks go back to the queue.  An error is logged
\* and the worker is still marked offline.
ReassignExpired(i) ==
    /\ pc[i] = "expired"
    /\ \E w \in todo[i] :
        /\ Goto(i, "markOffline", todo[i] \ {w}, w, None)
        /\ checks' = ReassignByWorkerID(w) \/ (Faults /\ UNCHANGED checks)
    /\ UNCHANGED <<workers, lock, prio>>

\* w.MarkOffline() and Update with the row as it was listed.
MarkWorkerOffline(i) ==
    /\ pc[i] = "markOffline"
    /\ workers' = UpdateWorker(cur[i], MarkOffline) \/ (Faults /\ UNCHANGED workers)
    /\ Goto(i, "expired", todo[i], None, None)
    /\ UNCHANGED <<checks, lock, prio>>

\* detectOfflineAndReassign continues with ReassignOverdueChecks: ListOverdue.
ReassignOverdueChecks(i) ==
    /\ pc[i] = "expired"
    /\ todo[i] = {}
    /\ Goto(i, "overdue", ListOverdue, None, None)
    /\ UNCHANGED <<workers, checks, lock, prio>>

\* One overdue check: with no idle worker (or an error) it is left for the
\* next pass.
PickForOverdue(i) ==
    /\ pc[i] = "overdue"
    /\ \E c \in todo[i] :
        \/ \E w \in ListIdleByZone : Goto(i, "assign", todo[i] \ {c}, c, w)
        \/ /\ ListIdleByZone = {} \/ Faults
           /\ Goto(i, "overdue", todo[i] \ {c}, None, None)
    /\ UNCHANGED <<workers, checks, lock, prio>>

\* Assign and Update, on the row as ListOverdue read it: whatever happened to
\* the check since is overwritten.
AssignOverdue(i) ==
    /\ pc[i] = "assign"
    /\ \/ checks' = UpdateCheck(cur[i], pick[i], "IN_PROGRESS")
       \/ Faults /\ UNCHANGED checks
    /\ Move(i, "overdue", todo[i], None, None)
    /\ raced' = raced \cup
         {checks[c].monitor : c \in {d \in CheckIds : Ended(d) /\ Active(d)'}}
    /\ UNCHANGED <<workers, lock, prio>>

\* CleanupOfflineWorkers: list, then delete one by one, without reassigning.
CleanupOfflineWorkers(i) ==
    /\ pc[i] = "cleanup"
    /\ Goto(i, "offline", ListOfflineForCleanup, None, None)
    /\ UNCHANGED <<workers, checks, lock, prio>>

DeleteOffline(i) ==
    /\ pc[i] = "offline"
    /\ \E w \in todo[i] :
        /\ workers' = DeleteWorker(w) \/ (Faults /\ UNCHANGED workers)
        /\ Goto(i, "offline", todo[i] \ {w}, None, None)
    /\ UNCHANGED <<checks, lock, prio>>

-----------------------------------------------------------------------------
(* CheckScheduler.ScheduleCheck, run by the loop for each due monitor and by *)
(* TriggerScheduledCheck for one.                                            *)

\* Process q has seen no active check of m and has not inserted its own yet.
Scheduling(q, m) == pc[q] \in {"listIdle", "create"} /\ cur[q] = m

\* HasPendingCheck(m) said no: p goes on with m.
Claim(p, m) ==
    /\ Move(p, "listIdle", todo[p] \ {m}, m, None)
    /\ raced' = IF \E q \in Procs \ {p} : Scheduling(q, m) THEN raced \cup {m}
                ELSE raced
    /\ UNCHANGED prio

CheckPendingNever(p) ==
    /\ pc[p] = "schedule"
    /\ \E m \in todo[p] : Claim(p, m)
    /\ UNCHANGED <<workers, checks, lock>>

\* HasPendingCheck: ErrCheckAlreadyPending (or an error) drops the monitor.
CheckPending(p) ==
    /\ pc[p] = "schedule"
    /\ \E m \in todo[p] :
        \/ ~HasPendingCheck(m) /\ Claim(p, m)
        \/ /\ HasPendingCheck(m) \/ Faults
           /\ NextItem(p, "schedule", todo[p] \ {m})
    /\ UNCHANGED <<workers, checks, lock>>

\* ListIdleByZone(""): the first by checks_completed, a number the workers
\* report; none, or an error, leaves the check unassigned.
PickWorker(p) ==
    /\ pc[p] = "listIdle"
    /\ \/ \E w \in ListIdleByZone : Goto(p, "create", todo[p], cur[p], w)
       \/ /\ ListIdleByZone = {} \/ Faults
          /\ Goto(p, "create", todo[p], cur[p], None)
    /\ UNCHANGED <<workers, checks, lock, prio>>

\* Create inserts the check, already assigned when a worker was found.  Once
\* the bound on ids is used up it fails, as it does on a database error.
CreateCheck(p) ==
    /\ pc[p] = "create"
    /\ \/ \E c \in CheckIds :
            /\ checks[c].status = "NONE"
            /\ LET new == NewScheduledCheck(cur[p], prio[p]) IN
               checks' = [checks EXCEPT ![c] =
                            IF pick[p] = None THEN new ELSE Assign(new, pick[p])]
       \/ /\ Faults \/ \A c \in CheckIds : checks[c].status # "NONE"
          /\ UNCHANGED checks
    /\ NextItem(p, "schedule", todo[p])
    /\ UNCHANGED <<workers, lock>>

-----------------------------------------------------------------------------
(* gRPC handlers. *)

\* TriggerScheduledCheck up to ScheduleCheck, for a monitor that is not paused;
\* a paused or unknown one is refused without effect.
TriggerScheduledCheck(h) ==
    /\ "Trigger" \in Rpcs
    /\ pc[h] = "idle"
    /\ \E m \in Monitors : Goto(h, "schedule", {m}, None, None)
    /\ \E p \in Priorities : prio' = [prio EXCEPT ![h] = p]
    /\ UNCHANGED <<workers, checks, lock>>

\* RegisterWorker: GetByName and the unique index on name refuse alike a name
\* that is taken, so the two statements have one outcome.
RegisterWorker(h) ==
    /\ "Register" \in Rpcs
    /\ pc[h] = "idle"
    /\ \E w \in WorkerIds :
        /\ workers[w].status = "NONE"
        /\ \A v \in WorkerIds : Registered(v) => NameOf[v] # NameOf[w]
        /\ workers' = [workers EXCEPT ![w] = NewWorker]
    /\ UNCHANGED <<checks, lock, pc, local>>

\* Heartbeat: GetByID, and then Update of the whole row, with any status that
\* ParseWorkerStatus accepts.  The check-worker of this repository reports IDLE
\* or BUSY; a worker that reports OFFLINE is no longer listed as expired.
Heartbeat(h, w) ==
    /\ "Heartbeat" \in Rpcs
    /\ pc[h] = "idle"
    /\ Registered(w)
    /\ Goto(h, "heartbeat", {}, w, None)
    /\ UNCHANGED <<workers, checks, lock, prio>>

WriteHeartbeat(h, w) ==
    /\ pc[h] = "heartbeat"
    /\ cur[h] = w
    /\ \E status \in WorkerStatus :
            workers' = UpdateWorker(w, UpdateHeartbeat(status))
    /\ Finish(h)
    /\ UNCHANGED <<checks, lock>>

\* CompleteCheck: GetByID, and then Update with the worker id that was read;
\* there is no condition on the status.
CompleteCheck(h) ==
    /\ "Complete" \in Rpcs
    /\ pc[h] = "idle"
    /\ \E c \in CheckIds :
        /\ checks[c].status # "NONE"
        /\ Goto(h, "complete", {}, c, checks[c].worker)
    /\ UNCHANGED <<workers, checks, lock, prio>>

WriteCompletion(h) ==
    /\ pc[h] = "complete"
    /\ \E status \in {"COMPLETED", "FAILED"} :
            checks' = UpdateCheck(cur[h], pick[h], status)
    /\ Finish(h)
    /\ UNCHANGED <<workers, lock>>

\* UnregisterWorker: GetByID, ReassignByWorkerID (an error is only logged),
\* Delete.
UnregisterWorker(h) ==
    /\ "Unregister" \in Rpcs
    /\ pc[h] = "idle"
    /\ \E w \in WorkerIds : Registered(w) /\ Goto(h, "unregister", {}, w, None)
    /\ UNCHANGED <<workers, checks, lock, prio>>

ReassignUnregistered(h) ==
    /\ pc[h] = "unregister"
    /\ checks' = ReassignByWorkerID(cur[h]) \/ (Faults /\ UNCHANGED checks)
    /\ Goto(h, "delete", {}, cur[h], None)
    /\ UNCHANGED <<workers, lock, prio>>

DeleteUnregistered(h) ==
    /\ pc[h] = "delete"
    /\ workers' = DeleteWorker(cur[h])
    /\ Finish(h)
    /\ UNCHANGED <<checks, lock>>

-----------------------------------------------------------------------------
(* Environment. *)

\* A process crashes, or its request fails or is cancelled, between two
\* statements; the lock transaction of a loop ends with its connection.
Crash(p) ==
    /\ Faults
    /\ pc[p] # "idle"
    /\ lock' = [j \in Jobs |-> IF lock[j] = p THEN None ELSE lock[j]]
    /\ Finish(p)
    /\ UNCHANGED <<workers, checks>>

\* The connection of the lock transaction dies while the job goes on through
\* the pool's other connections: nothing in the job notices.
LockLost(j) ==
    /\ Faults
    /\ lock[j] # None
    /\ lock' = [lock EXCEPT ![j] = None]
    /\ UNCHANGED <<workers, checks, pc, local>>

\* The clock passes the heartbeat timeout, the cleanup cutoff, the overdue
\* threshold.
HeartbeatExpires(w) ==
    /\ workers[w].status \in {"IDLE", "BUSY"} /\ ~workers[w].expired
    /\ workers' = [workers EXCEPT ![w].expired = TRUE]
    /\ UNCHANGED <<checks, lock, pc, local>>

OfflineGrowsOld(w) ==
    /\ workers[w].status = "OFFLINE" /\ ~workers[w].stale
    /\ workers' = [workers EXCEPT ![w].stale = TRUE]
    /\ UNCHANGED <<checks, lock, pc, local>>

CheckBecomesOverdue(c) ==
    /\ Active(c) /\ ~checks[c].overdue
    /\ checks' = [checks EXCEPT ![c].overdue = TRUE]
    /\ UNCHANGED <<workers, lock, pc, local>>

-----------------------------------------------------------------------------
LoopStep(i) ==
    \/ Unlock(i) \/ scheduleChecks(i)
    \/ DetectOfflineWorkers(i) \/ ReassignExpired(i) \/ MarkWorkerOffline(i)
    \/ ReassignOverdueChecks(i) \/ PickForOverdue(i) \/ AssignOverdue(i)
    \/ CleanupOfflineWorkers(i) \/ DeleteOffline(i)

ScheduleCheck(p) == CheckPending(p) \/ PickWorker(p) \/ CreateCheck(p)

HandlerStep(h) ==
    \/ \E w \in WorkerIds : WriteHeartbeat(h, w)
    \/ WriteCompletion(h) \/ ReassignUnregistered(h) \/ DeleteUnregistered(h)

Request(h) ==
    \/ TriggerScheduledCheck(h) \/ RegisterWorker(h) \/ CompleteCheck(h)
    \/ UnregisterWorker(h)
    \/ \E w \in WorkerIds : Heartbeat(h, w)

Clock ==
    \/ \E w \in WorkerIds : HeartbeatExpires(w) \/ OfflineGrowsOld(w)
    \/ \E c \in CheckIds : CheckBecomesOverdue(c)

Next ==
    \/ \E i \in Instances : LoopStep(i) \/ \E j \in Jobs : TryLock(i, j)
    \/ \E j \in Jobs : LockLost(j)
    \/ \E p \in Procs : ScheduleCheck(p) \/ Crash(p)
    \/ \E h \in Handlers : HandlerStep(h) \/ Request(h)
    \/ Clock

Spec == Init /\ [][Next]_vars

\* The tickers of a running loop fire again and again and select takes every
\* ready one in the end, so a lock that is free again and again is tried;
\* started operations go on; the clock advances.
Fairness ==
    /\ \A i \in Instances :
        /\ WF_vars(LoopStep(i))
        /\ \A j \in Jobs : SF_vars(TryLock(i, j))
    /\ \A p \in Procs : WF_vars(ScheduleCheck(p))
    /\ \A h \in Handlers : WF_vars(HandlerStep(h))
    /\ \A w \in WorkerIds : WF_vars(HeartbeatExpires(w))
    /\ \A c \in CheckIds : WF_vars(CheckBecomesOverdue(c))

FairSpec == Spec /\ Fairness

-----------------------------------------------------------------------------
(* Properties *)

\* Whatever statements of loops and handlers interleave, a queued check has no
\* worker and a check in progress has one: ReassignByWorkerID and Assign write
\* both columns, and no stale Update can separate them.
QueuedHasNoWorker ==
    \A c \in CheckIds :
        /\ checks[c].status = "PENDING" => checks[c].worker = None
        /\ checks[c].status = "IN_PROGRESS" => checks[c].worker # None

Active2(c, d) == /\ c # d
                 /\ Active(c) /\ Active(d)
                 /\ checks[c].monitor = checks[d].monitor

\* A monitor never has two checks queued or in progress: the next regular
\* check waits for the current one.
UniqueActiveCheck == ~ \E c, d \in CheckIds : Active2(c, d)

\* Of the many ways loops, handlers, failed statements, lost locks and crashes
\* interleave, two alone give a monitor a second active check: two processes
\* between HasPendingCheck and Create for it at a time, and the Update of an
\* overdue check on a row that has ended since ListOverdue.  Requeueing,
\* reassignment, late completions and retried jobs never do.
UniqueUnlessRaced ==
    \A c, d \in CheckIds : Active2(c, d) => checks[c].monitor \in raced

\* A check in progress belongs to a worker that is registered and not OFFLINE,
\* so offline detection will find it if the worker dies: OFFLINE and deleted
\* workers hold no check that nobody will ever requeue.
NoStrandedCheck ==
    \A c \in CheckIds :
        checks[c].status = "IN_PROGRESS" =>
            workers[checks[c].worker].status \in {"IDLE", "BUSY"}

\* A completed check stays completed: it is never handed to a worker again.
CompletedIsFinal ==
    [][\A c \in CheckIds :
         checks[c].status \in {"COMPLETED", "FAILED"} =>
             checks'[c].status \in {"COMPLETED", "FAILED"}]_vars

\* Reassigning an overdue check raises its priority to HIGH.
OverdueRaised ==
    [][\A i \in Instances : AssignOverdue(i) /\ checks' # checks =>
         checks'[cur[i]].priority = "HIGH"]_vars

\* Offline detection marks a worker OFFLINE only while its last heartbeat is
\* older than the timeout.
OnlyExpiredMarked ==
    [][\A i \in Instances :
         MarkWorkerOffline(i) /\ workers' # workers => workers[cur[i]].expired]_vars

\* With an idle worker around for good, every queued check is handed out in
\* the end, however often workers expire and checks are requeued.
QueueDrains ==
    \A c \in CheckIds :
        <>[](ListIdleByZone # {}) =>
            (checks[c].status = "PENDING" ~> checks[c].status # "PENDING")

\* The worker w sends no more heartbeats.
Silent(w) == <>[][\A h \in Handlers : ~WriteHeartbeat(h, w)]_vars

\* The row of w holds OFFLINE as a heartbeat reported it (a row that offline
\* detection marked has an expired heartbeat).
SaidOffline(w) == workers[w].status = "OFFLINE" /\ ~workers[w].expired

=============================================================================
