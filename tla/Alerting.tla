------------------------------ MODULE Alerting ------------------------------
(***************************************************************************)
(* alert-service: the alerts of one monitor, from the results of its       *)
(* checks, its changes of status and the user's RPCs.                      *)
(*                                                                         *)
(* ProcessMonitorCheck resolves the active alerts after a success and      *)
(* creates one after enough failures, unless the last one is recent;       *)
(* RecordStatusChange creates one when the status changes too often.  Each *)
(* is a sequence of statements without a transaction, and several run at   *)
(* the same time, beside RPCs that read an alert and write back its whole  *)
(* row.  Alerts are numbered in the order of their creation, times are     *)
(* reduced to what is recent, and an alert's type and thresholds are left  *)
(* out.  The throttling service is left out: its result has another type   *)
(* than the one ProcessMonitorCheck takes, so that its own cooldown is     *)
(* what runs.                                                              *)
(***************************************************************************)
EXTENDS Integers, Sequences, FiniteSets, FiniteSetsExt

CONSTANTS
    Results,        \* goroutines that handle results of checks
    AlertCalls,     \* RPCs of the user, each served once
    MaxAlerts,      \* bound: alerts ever created, enough for all that may create one
    MaxFailing,     \* bound: failing results and changes of status
    FlapThreshold,  \* changes of status that make a monitor flap
    MaxAlertFaults  \* bound: failing statements

ASSUME AlertingAssumption ==
    /\ {MaxAlerts, FlapThreshold} \subseteq Nat \ {0}
    /\ {MaxFailing, MaxAlertFaults} \subseteq Nat
    /\ Results \cap AlertCalls = {} /\ IsFiniteSet(AlertCalls)
    /\ MaxAlerts > MaxFailing + Cardinality(AlertCalls)

VARIABLES
    alertRow,    \* rows of alerts
    recent,      \* the alerts created within the cooldown
    rule,        \* the monitor's row of alert_rules: its number, and whether it is there
    changes,     \* rows of monitor_status_changes within the window
    handler,     \* what each goroutine and RPC is doing
    failing,
    alertFaults

alertingVars == <<alertRow, recent, rule, changes, handler, failing, alertFaults>>

AlertIds == 1..MaxAlerts
Handlers == Results \cup AlertCalls

NoAlert == [status |-> "unused", enabled |-> FALSE]
NewAlert == [status |-> "triggered", enabled |-> TRUE]
IdleHandler == [stage |-> "idle"]
Over(p) == IF p \in Results THEN IdleHandler ELSE [stage |-> "over"]

AlertingTypeOK ==
    /\ alertRow \in [AlertIds -> [status : {"unused", "triggered", "acknowledged", "resolved", "gone"},
                                  enabled : BOOLEAN]]
    /\ recent \subseteq AlertIds
    /\ rule \in [row : Nat, there : BOOLEAN]
    /\ changes \in 0..FlapThreshold
    /\ DOMAIN handler = Handlers
    /\ failing \in 0..MaxFailing /\ alertFaults \in 0..MaxAlertFaults

\* The table is empty, or the user has created an alert by RPC.
AlertingInit ==
    /\ alertRow \in {[a \in AlertIds |-> NoAlert], [a \in AlertIds |-> IF a = 1 THEN NewAlert ELSE NoAlert]}
    /\ recent = {}
    /\ rule \in [row : {0}, there : BOOLEAN]
    /\ changes = 0
    /\ handler = [p \in Handlers |-> IdleHandler]
    /\ failing = 0 /\ alertFaults = 0

StoredAlerts == {a \in AlertIds : alertRow[a].status \notin {"unused", "gone"}}
Active == {a \in AlertIds : alertRow[a].status \in {"triggered", "acknowledged"}}

Step(p, r) == handler' = [handler EXCEPT ![p] = r]

-----------------------------------------------------------------------------
(* ProcessMonitorCheck after a success *)

\* Mutant: acknowledged alerts are not listed.
GetActiveAlertsForMonitorMutant ==
    {[id |-> a, row |-> alertRow[a]] : a \in {b \in Active : alertRow[b].status = "triggered"}}

GetActiveAlertsForMonitor == {[id |-> a, row |-> alertRow[a]] : a \in Active}

CheckSucceeded(p) ==
    /\ handler[p] = IdleHandler /\ GetActiveAlertsForMonitor # {}
    /\ Step(p, [stage |-> "resolve", todo |-> GetActiveAlertsForMonitor])
    /\ UNCHANGED <<alertRow, recent, rule, changes, failing, alertFaults>>

\* The newest first; an alert that the user has deleted meanwhile ends the loop
\* with an error.
ResolveNext(p) ==
    LET todo == handler[p].todo
        next == CHOOSE c \in todo : \A d \in todo : d.id <= c.id
    IN  /\ handler[p].stage = "resolve"
        /\ IF next.id \in StoredAlerts
           THEN /\ alertRow' = [alertRow EXCEPT ![next.id] = [next.row EXCEPT !.status = "resolved"]]
                /\ Step(p, IF todo = {next} THEN IdleHandler
                           ELSE [stage |-> "resolve", todo |-> todo \ {next}])
           ELSE UNCHANGED alertRow /\ Step(p, IdleHandler)
        /\ UNCHANGED <<recent, rule, changes, failing, alertFaults>>

-----------------------------------------------------------------------------
(* ProcessMonitorCheck after a failure *)

\* Without an enabled rule, or below its threshold, nothing happens.
CheckFailed(p) ==
    /\ handler[p] = IdleHandler /\ rule.there
    /\ failing < MaxFailing /\ failing' = failing + 1
    /\ Step(p, [stage |-> "cooldown", rule |-> {rule.row}])
    /\ UNCHANGED <<alertRow, recent, rule, changes, alertFaults>>

\* GetLastAlertTimeAnyStatus wraps "no rows" into an error that is not
\* ErrAlertNotFound, so that an empty table ends the handler too.
MayCreate == StoredAlerts # {} /\ Max(StoredAlerts) \notin recent

CheckCooldown(p) ==
    /\ handler[p].stage = "cooldown"
    /\ Step(p, IF MayCreate THEN [handler[p] EXCEPT !.stage = "create"] ELSE IdleHandler)
    /\ UNCHANGED <<alertRow, recent, rule, changes, failing, alertFaults>>

\* The row refers to the rule, if any, that the handler has read: the INSERT fails
\* when the rule has been deleted since.
CreateRow(p) ==
    LET unused == {a \in AlertIds : alertRow[a].status = "unused"}
    IN  /\ handler[p].stage = "create"
        /\ IF handler[p].rule \subseteq {n \in {rule.row} : rule.there}
           THEN /\ alertRow' = [alertRow EXCEPT ![Min(unused)] = NewAlert]
                /\ recent' = recent \cup {Min(unused)}
           ELSE UNCHANGED <<alertRow, recent>>
        /\ Step(p, Over(p))
        /\ UNCHANGED <<rule, changes, failing, alertFaults>>

-----------------------------------------------------------------------------
(* RecordStatusChange *)

RecordStatusChange(p) ==
    /\ handler[p] = IdleHandler
    /\ failing < MaxFailing /\ failing' = failing + 1
    /\ changes' = Min({changes + 1, FlapThreshold})
    /\ Step(p, [stage |-> "count"])
    /\ UNCHANGED <<alertRow, recent, rule, alertFaults>>

CheckFlapping(p) ==
    /\ handler[p].stage = "count"
    /\ Step(p, IF changes >= FlapThreshold THEN [stage |-> "create", rule |-> {}] ELSE IdleHandler)
    /\ UNCHANGED <<alertRow, recent, rule, changes, failing, alertFaults>>

-----------------------------------------------------------------------------
(* RPCs *)

CreateAlert(p) ==
    /\ handler[p] = IdleHandler
    /\ Step(p, [stage |-> "create", rule |-> {}])
    /\ UNCHANGED <<alertRow, recent, rule, changes, failing, alertFaults>>

ReadAlert(p, a, kind) ==
    /\ handler[p] = IdleHandler /\ a \in StoredAlerts
    /\ Step(p, [stage |-> kind, id |-> a, row |-> alertRow[a]])
    /\ UNCHANGED <<alertRow, recent, rule, changes, failing, alertFaults>>

\* These three write back the row that they read.
EnableAlert(p, a) == ReadAlert(p, a, "enable")
DisableAlert(p, a) == ReadAlert(p, a, "disable")
UpdateAlert(p, a) == \E k \in {"enable", "disable"} : ReadAlert(p, a, k)

WriteAlert(p) ==
    LET h == handler[p]
    IN  /\ h.stage \in {"enable", "disable"}
        /\ alertRow' = IF h.id \in StoredAlerts
                       THEN [alertRow EXCEPT ![h.id] = [h.row EXCEPT !.enabled = (h.stage = "enable")]]
                       ELSE alertRow
        /\ Step(p, Over(p))
        /\ UNCHANGED <<recent, rule, changes, failing, alertFaults>>

AcknowledgeAlert(p, a) ==
    /\ alertRow[a].status = "triggered"
    /\ ReadAlert(p, a, "acknowledge")

\* One guarded statement.
AcknowledgeWrite(p) ==
    LET h == handler[p]
    IN  /\ h.stage = "acknowledge"
        /\ alertRow' = IF alertRow[h.id].status = "triggered"
                       THEN [alertRow EXCEPT ![h.id].status = "acknowledged"] ELSE alertRow
        /\ Step(p, Over(p))
        /\ UNCHANGED <<recent, rule, changes, failing, alertFaults>>

DeleteAlert(p, a) ==
    /\ handler[p] = IdleHandler /\ a \in StoredAlerts
    /\ alertRow' = [alertRow EXCEPT ![a] = [NoAlert EXCEPT !.status = "gone"]]
    /\ Step(p, Over(p))
    /\ UNCHANGED <<recent, rule, changes, failing, alertFaults>>

\* CreateAlertRule and DeleteAlertRule.
SetRule(p) ==
    /\ handler[p] = IdleHandler
    /\ rule' = [row |-> rule.row + (IF rule.there THEN 0 ELSE 1), there |-> ~rule.there]
    /\ Step(p, Over(p))
    /\ UNCHANGED <<alertRow, recent, changes, failing, alertFaults>>

-----------------------------------------------------------------------------
(* Time, cleanup and failing statements *)

\* The cooldown and the flapping window pass.
WindowPasses ==
    /\ recent # {} \/ changes # 0
    /\ recent' = {} /\ changes' = 0
    /\ UNCHANGED <<alertRow, rule, handler, failing, alertFaults>>

\* Which resolved alerts have not been updated for the days of the retention is
\* left open; a recent one has.
CleanupOldResolvedAlerts ==
    \E old \in SUBSET {a \in AlertIds \ recent : alertRow[a].status = "resolved"} :
        /\ old # {}
        /\ alertRow' = [a \in AlertIds |-> IF a \in old THEN [NoAlert EXCEPT !.status = "gone"]
                                           ELSE alertRow[a]]
        /\ UNCHANGED <<recent, rule, changes, handler, failing, alertFaults>>

HandlerFails(p) ==
    /\ handler[p].stage \notin {"idle", "over"}
    /\ alertFaults < MaxAlertFaults /\ alertFaults' = alertFaults + 1
    /\ Step(p, Over(p))
    /\ UNCHANGED <<alertRow, recent, rule, changes, failing>>

-----------------------------------------------------------------------------

GoesOn(p) ==
    \/ ResolveNext(p) \/ CheckCooldown(p) \/ CreateRow(p) \/ CheckFlapping(p)
    \/ WriteAlert(p) \/ AcknowledgeWrite(p)

AlertCall(p) ==
    \/ CreateAlert(p)
    \/ \E a \in AlertIds : \/ UpdateAlert(p, a) \/ EnableAlert(p, a) \/ DisableAlert(p, a)
                          \/ AcknowledgeAlert(p, a) \/ DeleteAlert(p, a)
    \/ SetRule(p)

AlertingNext ==
    \/ \E p \in Results : CheckSucceeded(p) \/ CheckFailed(p) \/ RecordStatusChange(p)
    \/ \E p \in AlertCalls : AlertCall(p)
    \/ \E p \in Handlers : GoesOn(p) \/ HandlerFails(p)
    \/ WindowPasses \/ CleanupOldResolvedAlerts

\* A handler that has started goes on, and results of checks, successes from some
\* time on, keep arriving.
AlertingFairness ==
    /\ \A p \in Handlers : WF_alertingVars(GoesOn(p))
    /\ \A p \in Results : WF_alertingVars(CheckSucceeded(p))

AlertingSpec == AlertingInit /\ [][AlertingNext]_alertingVars /\ AlertingFairness

-----------------------------------------------------------------------------
(* Properties *)

\* Once checks only succeed, no alert of the monitor stays active, in spite of
\* failures that were handled late, RPCs that write back an older row, alerts that
\* are deleted while the others are being resolved, and failing statements.
AlertsClear == <>[](Active = {})

\* A resolved alert stays resolved.  EnableAlert, DisableAlert and UpdateAlert
\* write back the status that they read, so that one of them can reopen it.
ResolvedIsFinal ==
    [][\A a \in AlertIds :
          alertRow[a].status = "resolved" => alertRow'[a].status \in {"resolved", "gone"}]_alertingVars

\* A monitor's first alert: enough failures create one when there is none.
FirstAlertCreated ==
    [][\A p \in Results :
          handler[p].stage = "cooldown" /\ handler'[p] = IdleHandler => StoredAlerts # {}]_alertingVars
=============================================================================
