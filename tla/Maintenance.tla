---------------------------- MODULE Maintenance ----------------------------
(***************************************************************************)
(* monitor-service: the maintenance windows of one account.                *)
(*                                                                         *)
(* The RPCs that create, update, cancel and delete a window and the two    *)
(* periodic jobs that open and close windows meet in the table             *)
(* maintenance_windows only.  Each reads rows with one SQL statement,      *)
(* changes its own copy and writes the copy back with another; the write   *)
(* carries the version it was computed from.  Every SQL statement is a     *)
(* step.  Time is counted in units of the shortest window.  Requests of    *)
(* users that do not own the window end in an error and are left out, and  *)
(* so are the names and flags of a window that no decision here reads.     *)
(***************************************************************************)
EXTENDS Integers, FiniteSets

CONSTANTS
    Windows,      \* the ids that uuid.New returns
    Monitors,     \* monitors of the account
    Requests,     \* RPCs that are served at the same time
    MaxWindows,   \* getMaxWindowsForTier
    MaxDuration,  \* MaxDurationHours
    MaxTime,      \* bound: the last instant of the history
    MaxVersion,   \* bound: updates of the details stop at this version
    MaxFaults     \* bound: failing statements of the background goroutines

ASSUME MaintenanceAssumption ==
    /\ IsFiniteSet(Windows) /\ IsFiniteSet(Requests) /\ Requests # {}
    /\ MaxWindows \in Nat /\ MaxDuration \in Nat \ {0}
    /\ MaxTime \in Nat /\ MaxVersion \in Nat /\ MaxFaults \in Nat

VARIABLES
    now,     \* the clock
    window,  \* the table maintenance_windows with its junction table
    request, \* the RPCs under way
    sweep,   \* the copies that each periodic job still has to write
    faults   \* statements of background goroutines that have failed

maintenanceVars == <<now, window, request, sweep, faults>>

Times == 0..MaxTime
Jobs == {"activate", "complete"}

\* "ABSENT": the id has not been used; "DELETED": the row is gone.
Statuses == {"SCHEDULED", "ACTIVE", "COMPLETED", "CANCELLED"}
Rows == [status : Statuses \cup {"ABSENT", "DELETED"}, start : Times, end : Times,
         global : BOOLEAN, monitors : SUBSET Monitors, version : Nat]
Copies == [id : Windows, row : Rows]

NoWindow == [status |-> "ABSENT", start |-> 0, end |-> 0, global |-> FALSE,
             monitors |-> {}, version |-> 0]

Stages == {"idle", "overlap", "insert", "update", "save", "delete"}
Idle == [stage |-> "idle", id |-> "none", row |-> NoWindow]

MaintenanceTypeOK ==
    /\ now \in Times
    /\ window \in [Windows -> Rows]
    /\ request \in [Requests -> {Idle} \cup [stage : Stages \ {"idle"}, id : Windows,
                                             row : Rows]]
    /\ sweep \in [Jobs -> SUBSET Copies]
    /\ faults \in 0..MaxFaults

Exists(w) == window[w].status \in Statuses

\* CountByUserID counts the rows, whatever their status.
CountByUserID == Cardinality({w \in Windows : Exists(w)})

-----------------------------------------------------------------------------
(* model/maintenance_window.go *)

validateTimeRange(s, e) == e > s
validateDuration(s, e) == e - s <= MaxDuration
validateNotInPast(s) == s >= now

NewMaintenanceWindow(s, e, g, ms) ==
    [status |-> "SCHEDULED", start |-> s, end |-> e, global |-> g,
     monitors |-> ms, version |-> 1]

Activate(c) == [c EXCEPT !.status = "ACTIVE", !.version = @ + 1]
Complete(c) == [c EXCEPT !.status = "COMPLETED", !.version = @ + 1]
Cancel(c) == [c EXCEPT !.status = "CANCELLED", !.version = @ + 1]
UpdateDetails(c, s, e) == [c EXCEPT !.start = s, !.end = e, !.version = @ + 1]

CanTransitionTo(from, to) ==
    \/ from = "SCHEDULED" /\ to \in {"ACTIVE", "CANCELLED"}
    \/ from = "ACTIVE" /\ to \in {"COMPLETED", "CANCELLED"}

\* The status that UpdateDetails asks for.
Updatable(c) == c.status = "SCHEDULED"

-----------------------------------------------------------------------------
(* repository/postgres/maintenance_window_repository.go *)

Overlaps(w, ms, s, e) ==
    /\ window[w].status \in {"SCHEDULED", "ACTIVE"}
    /\ window[w].start < e /\ window[w].end > s
    /\ window[w].global \/ window[w].monitors \cap ms # {}

CheckOverlap(ms, s, e, exclude) == \E w \in Windows \ exclude : Overlaps(w, ms, s, e)

\* What CheckExecutor asks before it checks monitor m.
GetActiveWindowsForMonitor(m) ==
    {w \in Windows : /\ window[w].status = "ACTIVE"
                     /\ window[w].start <= now /\ window[w].end > now
                     /\ window[w].global \/ m \in window[w].monitors}

\* Mutant: the UPDATE does not compare the version.
UpdateMutant(id, new) ==
    window' = IF Exists(id) THEN [window EXCEPT ![id] = new] ELSE window

\* UPDATE ... WHERE id = $1 AND version = $8: the copy replaces the row only if
\* the row still has the version that the copy was made from.
Update(id, new) ==
    window' = IF Exists(id) /\ window[id].version = new.version - 1
              THEN [window EXCEPT ![id] = new] ELSE window

\* Mutant: a window is due the instant after its end.
GetWindowsRequiringCompletionMutant ==
    {w \in Windows : window[w].status = "ACTIVE" /\ window[w].end < now}

GetWindowsRequiringActivation ==
    {w \in Windows : window[w].status = "SCHEDULED" /\ window[w].start <= now}

GetWindowsRequiringCompletion ==
    {w \in Windows : window[w].status = "ACTIVE" /\ window[w].end <= now}

-----------------------------------------------------------------------------
(* MaintenanceService: the requests *)

\* The repository record that is built from a window leaves MonitorIDs empty.
toRepoWindow(new) == [new EXCEPT !.monitors = {}]

Ends(r) == request' = [request EXCEPT ![r] = Idle]

\* Mutant: the limit may be reached once more.
BelowLimitMutant == CountByUserID <= MaxWindows

BelowLimit == CountByUserID < MaxWindows

Fresh(w) == /\ window[w].status = "ABSENT"
            /\ \A r \in Requests : request[r].id # w

\* CreateMaintenanceWindow as far as the overlap query: the count, then the
\* validation of NewMaintenanceWindow.
CreateMaintenanceWindow(r, w, s, e, g, ms) ==
    /\ request[r].stage = "idle" /\ Fresh(w)
    /\ BelowLimit
    /\ validateTimeRange(s, e) /\ validateDuration(s, e) /\ validateNotInPast(s)
    /\ request' = [request EXCEPT ![r] =
                     [stage |-> IF ms # {} /\ ~g THEN "overlap" ELSE "insert",
                      id |-> w, row |-> NewMaintenanceWindow(s, e, g, ms)]]
    /\ UNCHANGED <<now, window, sweep, faults>>

CreateCheckOverlap(r) ==
    LET c == request[r].row
    IN  /\ request[r].stage = "overlap"
        /\ request' = [request EXCEPT ![r] =
                         IF CheckOverlap(c.monitors, c.start, c.end, {})
                         THEN Idle ELSE [@ EXCEPT !.stage = "insert"]]
        /\ UNCHANGED <<now, window, sweep, faults>>

CreateInsert(r) ==
    /\ request[r].stage = "insert"
    /\ window' = [window EXCEPT ![request[r].id] = toRepoWindow(request[r].row)]
    /\ Ends(r)
    /\ UNCHANGED <<now, sweep, faults>>

\* UpdateMaintenanceWindow reads the row and edits its copy.  A request whose
\* version is not the row's ends here.
UpdateMaintenanceWindow(r, w, s, e) ==
    /\ request[r].stage = "idle" /\ Exists(w)
    /\ Updatable(window[w]) /\ window[w].version < MaxVersion
    /\ validateTimeRange(s, e) /\ validateDuration(s, e)
    /\ request' = [request EXCEPT ![r] = [stage |-> "update", id |-> w,
                                          row |-> UpdateDetails(window[w], s, e)]]
    /\ UNCHANGED <<now, window, sweep, faults>>

\* GetWindowMonitors and, when it returns monitors, the overlap query.
UpdateCheckOverlap(r) ==
    LET id == request[r].id
        ms == window[id].monitors
    IN  /\ request[r].stage = "update"
        /\ request' = [request EXCEPT ![r] =
                         IF /\ Exists(id) /\ ms # {}
                            /\ CheckOverlap(ms, @.row.start, @.row.end, {id})
                         THEN Idle ELSE [@ EXCEPT !.stage = "save"]]
        /\ UNCHANGED <<now, window, sweep, faults>>

CancelMaintenanceWindow(r, w) ==
    /\ request[r].stage = "idle" /\ Exists(w)
    /\ window[w].status \in {"SCHEDULED", "ACTIVE"}
    /\ request' = [request EXCEPT ![r] = [stage |-> "save", id |-> w,
                                          row |-> Cancel(window[w])]]
    /\ UNCHANGED <<now, window, sweep, faults>>

\* The Update that ends UpdateMaintenanceWindow and CancelMaintenanceWindow.
SaveRequest(r) ==
    /\ request[r].stage = "save"
    /\ Update(request[r].id, request[r].row)
    /\ Ends(r)
    /\ UNCHANGED <<now, sweep, faults>>

DeleteMaintenanceWindow(r, w) ==
    /\ request[r].stage = "idle" /\ Exists(w)
    /\ request' = [request EXCEPT ![r] = [stage |-> "delete", id |-> w,
                                          row |-> window[w]]]
    /\ UNCHANGED <<now, window, sweep, faults>>

DeleteRow(r) ==
    /\ request[r].stage = "delete"
    /\ window' = IF Exists(request[r].id)
                 THEN [window EXCEPT ![request[r].id].status = "DELETED"] ELSE window
    /\ Ends(r)
    /\ UNCHANGED <<now, sweep, faults>>

\* A statement fails: the RPC returns the error and has written nothing.
RequestFails(r) ==
    /\ request[r].stage # "idle"
    /\ Ends(r)
    /\ UNCHANGED <<now, window, sweep, faults>>

-----------------------------------------------------------------------------
(* MaintenanceService: the periodic jobs *)

\* A statement of a background goroutine succeeds or fails.
Statement(ok) ==
    /\ ok \/ faults < MaxFaults
    /\ faults' = IF ok THEN faults ELSE faults + 1

\* Both jobs read their rows in one statement.
ActivateScheduledWindows ==
    /\ sweep["activate"] = {} /\ GetWindowsRequiringActivation # {}
    /\ sweep' = [sweep EXCEPT !["activate"] =
                   {[id |-> w, row |-> Activate(window[w])] :
                        w \in GetWindowsRequiringActivation}]
    /\ UNCHANGED <<now, window, request, faults>>

CompleteActiveWindows ==
    /\ sweep["complete"] = {} /\ GetWindowsRequiringCompletion # {}
    /\ sweep' = [sweep EXCEPT !["complete"] =
                   {[id |-> w, row |-> Complete(window[w])] :
                        w \in GetWindowsRequiringCompletion}]
    /\ UNCHANGED <<now, window, request, faults>>

\* One turn of the loop over the rows: a version conflict or a failing statement
\* is logged and the loop goes on.
SweepOne(j, c, saved) ==
    /\ c \in sweep[j]
    /\ sweep' = [sweep EXCEPT ![j] = @ \ {c}]
    /\ IF saved THEN Update(c.id, c.row) ELSE UNCHANGED window
    /\ Statement(saved)
    /\ UNCHANGED <<now, request>>

Tick == /\ now < MaxTime
        /\ now' = now + 1
        /\ UNCHANGED <<window, request, sweep, faults>>

-----------------------------------------------------------------------------
MaintenanceInit ==
    /\ now = 0
    /\ window = [w \in Windows |-> NoWindow]
    /\ request = [r \in Requests |-> Idle]
    /\ sweep = [j \in Jobs |-> {}]
    /\ faults = 0

CreateStep(r) ==
    \E w \in Windows, s \in Times, e \in Times, g \in BOOLEAN, ms \in SUBSET Monitors :
        CreateMaintenanceWindow(r, w, s, e, g, ms)

UpdateStep(r) ==
    \E w \in Windows, s \in Times, e \in Times : UpdateMaintenanceWindow(r, w, s, e)

RequestNext(r) ==
    \/ CreateStep(r)
    \/ CreateCheckOverlap(r)
    \/ CreateInsert(r)
    \/ UpdateStep(r)
    \/ UpdateCheckOverlap(r)
    \/ \E w \in Windows : CancelMaintenanceWindow(r, w)
    \/ SaveRequest(r)
    \/ \E w \in Windows : DeleteMaintenanceWindow(r, w)
    \/ DeleteRow(r)
    \/ RequestFails(r)

Sweep(j) == \E c \in sweep[j], saved \in BOOLEAN : SweepOne(j, c, saved)

JobNext ==
    \/ ActivateScheduledWindows
    \/ CompleteActiveWindows
    \/ \E j \in Jobs : Sweep(j)

MaintenanceNext ==
    \/ \E r \in Requests : RequestNext(r)
    \/ JobNext
    \/ Tick

\* The job that closes windows runs from a timer and gets through its loop.
MaintenanceFairness ==
    /\ WF_maintenanceVars(CompleteActiveWindows)
    /\ WF_maintenanceVars(Sweep("complete"))

MaintenanceSpec ==
    MaintenanceInit /\ [][MaintenanceNext]_maintenanceVars /\ MaintenanceFairness

-----------------------------------------------------------------------------
(* Properties *)

\* However requests and jobs interleave between their reads and their writes, the
\* status that is stored only moves along CanTransitionTo: a cancelled window is
\* not opened by a job that read it before, and COMPLETED and CANCELLED are final.
\* And an edit of the times that was accepted is not undone by a job or a request
\* that still holds the row as it was: times change only while the window waits.
WindowLifecycle ==
    [][\A w \in Windows :
          Exists(w) /\ Exists(w)' =>
             /\ \/ window'[w].status = window[w].status
                \/ CanTransitionTo(window[w].status, window'[w].status)
             /\ \/ window'[w].start = window[w].start /\ window'[w].end = window[w].end
                \/ window[w].status = "SCHEDULED" /\ window'[w].status = "SCHEDULED"
      ]_maintenanceVars

\* The count and the INSERT of CreateMaintenanceWindow are two statements, so the
\* limit of the tier can be passed, but by no more than the other requests that
\* are served at the same time.
LimitBound == CountByUserID <= MaxWindows + Cardinality(Requests) - 1

\* No window stays open past its end: it is closed, cancelled, deleted or given a
\* later end, whatever conflicts and failing statements the jobs meet on the way.
WindowsEnd ==
    \A w \in Windows :
        []<>(window[w].status = "ACTIVE" => now < window[w].end)
=============================================================================
