----------------------------- MODULE Monitoring -----------------------------
(***************************************************************************)
(* monitor-service: the scheduler loop, the check executor and the RPCs    *)
(* that pause, resume, edit and delete a monitor, next to the maintenance  *)
(* windows of module Maintenance.                                          *)
(*                                                                         *)
(* They share the table monitors.  A check reads the row, probes the URL   *)
(* for as long as the retries take, and writes the whole row back; so do   *)
(* the RPCs.  Every SQL statement is a step of its own.  Of last_check_at  *)
(* the model keeps the order between monitors (variable order) and whether *)
(* the interval has passed (field due).  Published events, audit entries   *)
(* and metrics have no reader here and are left out.                       *)
(***************************************************************************)
EXTENDS Maintenance, SequencesExt

CONSTANTS
    Calls,               \* RPCs on monitors, each made at most once
    Triggers,            \* calls of ScheduleCheck, each made at most once
    Outcomes,            \* the statuses that a probe may end with
    BatchSize,           \* batchSize
    MaxConcurrentChecks, \* maxConcurrentChecks
    MaxRetries           \* MaxRetries

ASSUME MonitoringAssumption ==
    /\ IsFiniteSet(Monitors) /\ Monitors # {} /\ Monitors \cap Triggers = {}
    /\ Outcomes \subseteq {"UP", "DOWN", "DEGRADED"}
    /\ BatchSize \in Nat \ {0} /\ MaxConcurrentChecks \in Nat \ {0}
    /\ MaxRetries \in Nat

VARIABLES
    monitor,   \* the table monitors
    order,     \* monitors by last_check_at, the oldest first
    call,      \* the RPCs under way
    check,     \* goroutines in executeCheck: one per monitor of a batch, one per trigger
    loop,      \* goroutine run: "none", "select" or "batch"
    running,   \* Scheduler.running
    stopping,  \* Stop holds the mutex and waits for run
    cancelled  \* the context given to Start is done

monitoringVars == <<monitor, order, call, check, loop, running, stopping, cancelled>>
allMonitorVars == <<maintenanceVars, monitoringVars>>

MonitorStatuses == {"PENDING", "UP", "DOWN", "DEGRADED", "PAUSED"}
MonitorRows == [status : MonitorStatuses \cup {"DELETED"}, hours : BOOLEAN, due : BOOLEAN]
Goroutines == Monitors \cup Triggers

NoRow == [status |-> "DELETED", hours |-> FALSE, due |-> FALSE]
NoCall == [stage |-> "free", mon |-> "none", row |-> NoRow]
NoCheck == [stage |-> "idle", mon |-> "none", old |-> "none", row |-> NoRow,
            result |-> "none", tries |-> 0]

CallStages == {"pause", "resume", "edit", "delete"}
CheckStages == {"queued", "start", "windows", "probe", "retry", "save", "write",
                "finish", "status"}

MonitoringTypeOK ==
    /\ monitor \in [Monitors -> MonitorRows]
    /\ order \in Seq(Monitors) /\ ToSet(order) = Monitors
    /\ call \in [Calls -> {NoCall, [NoCall EXCEPT !.stage = "done"]} \cup
                          [stage : CallStages, mon : Monitors, row : MonitorRows]]
    /\ \A g \in Goroutines :
         \/ check[g] \in {NoCheck, [NoCheck EXCEPT !.stage = "done"]}
         \/ check[g] \in [stage : CheckStages, mon : Monitors, old : MonitorStatuses,
                          row : MonitorRows, tries : 0..MaxRetries,
                          result : MonitorStatuses \cup {"none"}]
    /\ loop \in {"none", "select", "batch"}
    /\ {running, stopping, cancelled} \subseteq BOOLEAN

-----------------------------------------------------------------------------
(* model/monitor.go, monitor_status.go and monitor_repository.go *)

IsActive(s) == s # "PAUSED"

MonitorCanTransitionTo(from, to) ==
    \/ from # "PAUSED" /\ from # to /\ to # "PENDING"
    \/ from = "PAUSED" /\ to = "UP"

\* The stored times of day have the year 0 and are compared with the present
\* instant: a monitor with working hours is always past their end.
ShouldCheckNow(row) == row.status # "PAUSED" /\ ~row.hours

Stored(m) == monitor[m].status # "DELETED"

MonitorUpdate(m, row) ==
    monitor' = IF Stored(m) THEN [monitor EXCEPT ![m] = row] ELSE monitor

MonitorUpdateStatus(m, s) ==
    monitor' = IF Stored(m) THEN [monitor EXCEPT ![m].status = s] ELSE monitor

DueMonitors == {m \in Monitors : Stored(m) /\ IsActive(monitor[m].status) /\ monitor[m].due}

Place(m) == CHOOSE i \in DOMAIN order : order[i] = m

\* Mutant: ORDER BY last_check_at DESC.
ListDueForCheckMutant ==
    {m \in DueMonitors :
        Cardinality({n \in DueMonitors : Place(n) > Place(m)}) < BatchSize}

\* The first BatchSize of the due monitors.
ListDueForCheck ==
    {m \in DueMonitors :
        Cardinality({n \in DueMonitors : Place(n) < Place(m)}) < BatchSize}

\* last_check_at becomes the present instant.
MovedLast(m) == Append(Remove(order, m), m)

\* last_check_at becomes that of an older copy: m keeps its place or moves
\* forward.
Earlier(m) == {InsertAt(Remove(order, m), i, m) : i \in 1..Place(m)}

-----------------------------------------------------------------------------
(* Scheduler *)

LoopUnchanged == UNCHANGED <<loop, running, stopping, cancelled>>

Start ==
    /\ ~running /\ ~stopping
    /\ running' = TRUE /\ cancelled' = FALSE
    /\ loop' = "select"
    /\ UNCHANGED <<monitor, order, call, check, stopping>>

\* Stop up to wg.Wait; the mutex is held.
StopBegins ==
    /\ running /\ ~stopping
    /\ running' = FALSE /\ stopping' = TRUE
    /\ UNCHANGED <<monitor, order, call, check, loop, cancelled>>

StopReturns ==
    /\ stopping /\ loop = "none"
    /\ stopping' = FALSE
    /\ UNCHANGED <<monitor, order, call, check, loop, running, cancelled>>

CancelContext ==
    /\ loop # "none" /\ ~cancelled
    /\ cancelled' = TRUE
    /\ UNCHANGED <<monitor, order, call, check, loop, running, stopping>>

\* run leaves its loop; the select may also serve the ticker once more.
LoopEnds ==
    /\ loop = "select" /\ (stopping \/ cancelled)
    /\ loop' = "none" /\ running' = FALSE
    /\ UNCHANGED <<monitor, order, call, check, stopping, cancelled>>

\* scheduleBatch: a goroutine for every monitor that the query returns.
scheduleBatch ==
    /\ loop = "select" /\ ListDueForCheck # {}
    /\ loop' = "batch"
    /\ check' = [g \in Goroutines |->
                   IF g \in ListDueForCheck
                   THEN [NoCheck EXCEPT !.stage = "queued", !.mon = g,
                                        !.old = monitor[g].status]
                   ELSE check[g]]
    /\ UNCHANGED <<monitor, order, call, running, stopping, cancelled>>

\* Mutant: scheduleBatch does not wait for its goroutines.
batchEndsMutant ==
    /\ loop = "batch"
    /\ loop' = "select"
    /\ UNCHANGED <<monitor, order, call, check, running, stopping, cancelled>>

\* wg.Wait at the end of scheduleBatch.
batchEnds ==
    /\ loop = "batch" /\ \A m \in Monitors : check[m].stage = "idle"
    /\ loop' = "select"
    /\ UNCHANGED <<monitor, order, call, check, running, stopping, cancelled>>

\* The goroutine gets a place in the semaphore.
Acquire(m) ==
    /\ check[m].stage = "queued"
    /\ Cardinality({n \in Monitors : check[n].stage \notin {"idle", "queued"}})
         < MaxConcurrentChecks
    /\ check' = [check EXCEPT ![m].stage = "start"]
    /\ UNCHANGED <<monitor, order, call>> /\ LoopUnchanged

\* ScheduleCheck: the goroutine is not counted by anything.
ScheduleCheck(t, m) ==
    /\ check[t] = NoCheck
    /\ Stored(m) /\ ShouldCheckNow(monitor[m])
    /\ check' = [check EXCEPT ![t] = [NoCheck EXCEPT !.stage = "start", !.mon = m,
                                                     !.old = monitor[m].status]]
    /\ UNCHANGED <<monitor, order, call>> /\ LoopUnchanged

-----------------------------------------------------------------------------
(* CheckExecutor.ExecuteCheck and the rest of executeCheck *)

Ended(g) == IF g \in Monitors THEN NoCheck ELSE [NoCheck EXCEPT !.stage = "done"]

Goes(g, c) == check' = [check EXCEPT ![g] = c]

Background(ok) == Statement(ok) /\ UNCHANGED <<now, window, request, sweep>>

\* GetByID and the two tests that follow it; ok: the statement does not fail.
ReadMonitor(g, ok) ==
    LET c == check[g]
        row == monitor[c.mon]
    IN  /\ c.stage = "start"
        /\ Goes(g, IF ok /\ Stored(c.mon) /\ IsActive(row.status) /\ ShouldCheckNow(row)
                   THEN [c EXCEPT !.stage = "windows", !.row = row] ELSE Ended(g))
        /\ UNCHANGED <<monitor, order, call>> /\ LoopUnchanged /\ Background(ok)

\* An open window makes a result PAUSED that is not saved; a failing query is
\* logged and counts as no window.
CheckWindows(g, ok) ==
    LET c == check[g]
    IN  /\ c.stage = "windows"
        /\ Goes(g, IF ok /\ GetActiveWindowsForMonitor(c.mon) # {}
                   THEN [c EXCEPT !.stage = "finish", !.result = "PAUSED"]
                   ELSE [c EXCEPT !.stage = "probe"])
        /\ UNCHANGED <<monitor, order, call>> /\ LoopUnchanged /\ Background(ok)

executeHTTPCheck(g, s) ==
    LET c == check[g]
    IN  /\ c.stage = "probe"
        /\ Goes(g, IF s = "DOWN" /\ c.tries < MaxRetries
                   THEN [c EXCEPT !.stage = "retry", !.result = s]
                   ELSE [c EXCEPT !.stage = "save", !.result = s, !.tries = 0])
        /\ UNCHANGED <<monitor, order, call>> /\ LoopUnchanged /\ Background(TRUE)

Retry(g) ==
    LET c == check[g]
    IN  /\ c.stage = "retry"
        /\ Goes(g, [c EXCEPT !.stage = "probe", !.result = "none", !.tries = @ + 1])
        /\ UNCHANGED <<monitor, order, call>> /\ LoopUnchanged /\ Background(TRUE)

\* The context ends during the delay: the last result is returned unsaved.  The
\* context of a trigger is that of its caller.
RetryCancelled(g) ==
    /\ check[g].stage = "retry" /\ (g \in Monitors => cancelled)
    /\ Goes(g, [check[g] EXCEPT !.stage = "finish", !.tries = 0])
    /\ UNCHANGED <<monitor, order, call>> /\ LoopUnchanged /\ Background(TRUE)

SaveResult(g, ok) ==
    LET c == check[g]
    IN  /\ c.stage = "save"
        /\ Goes(g, IF ok THEN [c EXCEPT !.stage = "write"] ELSE Ended(g))
        /\ UNCHANGED <<monitor, order, call>> /\ LoopUnchanged /\ Background(ok)

\* UpdateLastCheck on the copy that ReadMonitor made, then the whole row.
WriteLastCheck(g, ok) ==
    LET c == check[g]
    IN  /\ c.stage = "write"
        /\ IF ok /\ Stored(c.mon)
           THEN /\ MonitorUpdate(c.mon, [c.row EXCEPT !.due = FALSE])
                /\ order' = MovedLast(c.mon)
           ELSE UNCHANGED <<monitor, order>>
        /\ Goes(g, [c EXCEPT !.stage = "finish"])
        /\ UNCHANGED call /\ LoopUnchanged /\ Background(ok)

\* ExecuteCheck has returned: executeCheck compares with the status it was
\* started with.
CompareStatus(g) ==
    LET c == check[g]
    IN  /\ c.stage = "finish"
        /\ Goes(g, IF c.result = c.old THEN Ended(g) ELSE [c EXCEPT !.stage = "status"])
        /\ UNCHANGED <<monitor, order, call>> /\ LoopUnchanged /\ Background(TRUE)

WriteStatus(g, ok) ==
    LET c == check[g]
    IN  /\ c.stage = "status"
        /\ IF ok THEN MonitorUpdateStatus(c.mon, c.result) ELSE UNCHANGED monitor
        /\ Goes(g, Ended(g))
        /\ UNCHANGED <<order, call>> /\ LoopUnchanged /\ Background(ok)

-----------------------------------------------------------------------------
(* MonitorService *)

Accepts(k, m) ==
    /\ Stored(m)
    /\ k = "pause" => MonitorCanTransitionTo(monitor[m].status, "PAUSED")
    /\ k = "resume" => MonitorCanTransitionTo(monitor[m].status, "UP")

Edited(k, row, h) ==
    CASE k = "pause" -> [row EXCEPT !.status = "PAUSED"]
      [] k = "resume" -> [row EXCEPT !.status = "UP"]
      [] k = "edit" -> [row EXCEPT !.hours = row.hours \/ h]
      [] OTHER -> row

\* PauseMonitor, ResumeMonitor, UpdateMonitor and DeleteMonitor up to their
\* write; h: the edit sets working hours.
CallReads(r, k, m, h) ==
    /\ call[r] = NoCall /\ Accepts(k, m)
    /\ call' = [call EXCEPT ![r] = [stage |-> k, mon |-> m,
                                    row |-> Edited(k, monitor[m], h)]]
    /\ UNCHANGED <<monitor, order, check>> /\ LoopUnchanged

CallWrites(r, ok) ==
    LET c == call[r]
    IN  /\ c.stage \in CallStages
        /\ call' = [call EXCEPT ![r] = [NoCall EXCEPT !.stage = "done"]]
        /\ IF ok /\ c.stage = "delete"
           THEN monitor' = [monitor EXCEPT ![c.mon] = NoRow] /\ UNCHANGED order
           ELSE IF ok /\ Stored(c.mon)
           THEN MonitorUpdate(c.mon, c.row) /\ order' \in Earlier(c.mon)
           ELSE UNCHANGED <<monitor, order>>
        /\ UNCHANGED check /\ LoopUnchanged

\* The interval has passed since last_check_at.
BecomesDue(m) ==
    /\ Stored(m) /\ ~monitor[m].due
    /\ monitor' = [monitor EXCEPT ![m].due = TRUE]
    /\ UNCHANGED <<order, call, check>> /\ LoopUnchanged

-----------------------------------------------------------------------------
MonitoringInit ==
    /\ monitor = [m \in Monitors |-> [status |-> "PENDING", hours |-> FALSE, due |-> TRUE]]
    /\ order \in SetToSeqs(Monitors)
    /\ call = [r \in Calls |-> NoCall]
    /\ check = [g \in Goroutines |-> NoCheck]
    /\ loop = "none" /\ running = FALSE /\ stopping = FALSE /\ cancelled = FALSE

CheckStep(g) ==
    \/ \E ok \in BOOLEAN : ReadMonitor(g, ok)
    \/ \E ok \in BOOLEAN : CheckWindows(g, ok)
    \/ \E s \in Outcomes : executeHTTPCheck(g, s)
    \/ Retry(g)
    \/ RetryCancelled(g)
    \/ \E ok \in BOOLEAN : SaveResult(g, ok)
    \/ \E ok \in BOOLEAN : WriteLastCheck(g, ok)
    \/ CompareStatus(g)
    \/ \E ok \in BOOLEAN : WriteStatus(g, ok)

SchedulerStep ==
    \/ Start \/ StopBegins \/ StopReturns \/ CancelContext \/ LoopEnds
    \/ scheduleBatch \/ batchEnds
    \/ \E m \in Monitors : Acquire(m) \/ BecomesDue(m)
    \/ \E t \in Triggers, m \in Monitors : ScheduleCheck(t, m)

CallStep(r) ==
    \/ \E k \in CallStages, m \in Monitors, h \in BOOLEAN : CallReads(r, k, m, h)
    \/ \E ok \in BOOLEAN : CallWrites(r, ok)

MonitoringNext ==
    \/ SchedulerStep /\ UNCHANGED maintenanceVars
    \/ \E g \in Goroutines : CheckStep(g)
    \/ \E r \in Calls : CallStep(r) /\ UNCHANGED maintenanceVars

\* The monitors and the maintenance windows together.
MonitoringSpec ==
    /\ MaintenanceInit /\ MonitoringInit
    /\ [][MonitoringNext \/ (MaintenanceNext /\ UNCHANGED monitoringVars)]_allMonitorVars

\* The ticker keeps firing and goroutines that can go on do.
MonitoringFairness ==
    /\ WF_allMonitorVars(scheduleBatch /\ UNCHANGED maintenanceVars)
    /\ WF_allMonitorVars(batchEnds /\ UNCHANGED maintenanceVars)
    /\ \A m \in Monitors :
         WF_allMonitorVars(CheckStep(m) \/ (Acquire(m) /\ UNCHANGED maintenanceVars))

-----------------------------------------------------------------------------
(* Properties *)

\* Once Stop has returned, or run has left its loop because its context ended,
\* no check of a batch is under way: scheduleBatch waits for its goroutines and
\* Stop for scheduleBatch.
StoppedMeansIdle ==
    ~running /\ ~stopping => \A m \in Monitors : check[m].stage = "idle"

\* While the scheduler runs, every monitor that is due is taken in the end, as
\* long as fewer than BatchSize monitors have working hours: those never get a
\* last_check_at and stay at the head of ListDueForCheck.
DueChecked ==
    \A m \in Monitors :
        []<>( \/ m \notin DueMonitors
              \/ ~running \/ cancelled
              \/ Cardinality({n \in Monitors : monitor[n].hours}) >= BatchSize )

\* A pause lasts until ResumeMonitor or DeleteMonitor.
PauseKept ==
    [][\A m \in Monitors :
          monitor[m].status = "PAUSED" /\ monitor'[m].status # "PAUSED" =>
             \E r \in Calls : /\ call[r].mon = m /\ call'[r] # call[r]
                              /\ call[r].stage \in {"resume", "delete"}]_allMonitorVars

\* "PAUSED: the monitor was paused by the user" (monitor_status.go): PAUSED is
\* written by an RPC only.
PausedByUser ==
    [][\A m \in Monitors :
          monitor[m].status # "PAUSED" /\ monitor'[m].status = "PAUSED" =>
             \E r \in Calls : call[r].mon = m /\ call[r].row.status = "PAUSED"]_allMonitorVars
=============================================================================
