----------------------------- MODULE MCServices -----------------------------
(***************************************************************************)
(* Instances of Monitoring, Maintenance, Realtime, Team, Billing,          *)
(* WebhookDelivery, Alerting, Templates and GatewayPool for TLC.  The      *)
(* services share no state; the initial state chooses a scenario of one of *)
(* them, each small in what it does not ask about:                         *)
(*   limit   two requests create windows in an empty table;                *)
(*   edit    one window waits; two requests edit, cancel and delete it     *)
(*           while the jobs open and close it;                             *)
(*   pause   one monitor and two of: an RPC, batches, a triggered check;   *)
(*   skip    one monitor, batches, Start and Stop, and a global window     *)
(*           that opens and closes;                                        *)
(*   batch   two monitors, a batch of one, no RPC;                         *)
(*   hub     the dashboard's clients come and go while two events arrive,  *)
(*           without faults of the broker or the database;                 *)
(*   monitors, incidents  the dashboard's read model, without clients,     *)
(*           with a lost connection, a crash and a failing statement;      *)
(*   serial  the RPCs of a team of three, one at a time;                   *)
(*   failing one invitation that may expire, and a failing write;          *)
(*   invites two RPCs of InviteService at a time, three addresses;         *)
(*   orders  two orders, one RPC at a time, and a failing statement;       *)
(*   payment one order, RPCs and webhooks that overlap, a failing statement;*)
(*   pool    two webhooks, two alert events, a queue of one job;           *)
(*   restart one webhook and two events, a failing statement and a death;  *)
(*   hooks   one event while RPCs change, create and clone webhooks;       *)
(*   alerts  a monitor with a rule: two results of checks at a time, a     *)
(*           failure or change of status, an RPC;                          *)
(*   clears  one result at a time, with and without a rule, and a failing  *)
(*           statement;                                                    *)
(*   templates  two RPCs on the templates of a user;                       *)
(*   gateway two requests and a pool with room for one idle connection.    *)
(***************************************************************************)
EXTENDS Monitoring, Realtime, Team, Billing, WebhookDelivery, Alerting, Templates,
        GatewayPool, TLC

CONSTANTS s1, s2, s3, q1, u4, o1, v1, h1, e1, g1, l1

MCScript ==
    (s1 :> <<"monitor.created", "monitor.paused", "check.completed",
               "monitor.deleted">>) @@
    (s2 :> <<"incident.detected", "incident.resolved">>) @@
    (s3 :> <<"check.completed", "alert.triggered">>)

VARIABLE scenario

mcVars == <<maintenanceVars, monitoringVars, realtimeVars, teamVars, billingVars,
            webhookVars, alertingVars, templateVars, poolVars, scenario>>

FirstWindow == CHOOSE w \in Windows : TRUE
FirstMonitor == CHOOSE m \in Monitors : TRUE

Dashboard == {"hub", "monitors", "incidents"}
Organization == {"serial", "failing", "invites"}
Money == {"orders", "payment"}
Integration == {"pool", "restart", "hooks"}
Alarm == {"alerts", "clears"}

\* Rows that are not used are as if they had been deleted.
OneWindow(g) ==
    [w \in Windows |-> IF w = FirstWindow THEN NewMaintenanceWindow(0, 1, g, {})
                       ELSE [NoWindow EXCEPT !.status = "DELETED"]]

NoMoreCalls == [r \in Calls |-> [NoCall EXCEPT !.stage = "done"]]
NoMoreTriggers == [g \in Goroutines |-> Ended(g)]

UsesHook(h) == IF h = h1 THEN Integration ELSE {"pool"}
UsesAlert(e) == IF e = e1 THEN Integration ELSE {"pool", "restart"}

IntegrationInit ==
    /\ hook = [h \in Hooks |-> IF scenario \in UsesHook(h) THEN NewWebhook ELSE NoHook]
    /\ attempt = [a \in Attempts |-> "none"]
    /\ alert = [e \in Alerts |-> IF scenario \in UsesAlert(e) THEN "queued" ELSE "done"]
    /\ consumer = NoConsumer /\ jobQueue = <<>> /\ queueClosed = FALSE
    /\ poolWorker = [w \in PoolWorkers |-> NoJob]
    /\ hookCall = [c \in HookCalls |-> NoHookCall]
    /\ hookFaults = 0 /\ crashes = 0

AlarmInit ==
    /\ alertRow \in {[a \in AlertIds |-> NoAlert],
                     [a \in AlertIds |-> IF a = 1 THEN NewAlert ELSE NoAlert]}
    /\ rule \in [row : {0}, there : BOOLEAN]
    /\ scenario \notin Alarm => alertRow[1] = NoAlert
    /\ scenario # "clears" => rule.there
    /\ recent = {} /\ changes = 0 /\ failing = 0 /\ alertFaults = 0
    /\ handler = [p \in Handlers |-> IdleHandler]

MCInit ==
    /\ now = 0
    /\ request = [r \in Requests |-> Idle]
    /\ sweep = [j \in Jobs |-> {}] /\ faults = 0
    /\ order = SetToSeq(Monitors)
    /\ scenario \in {"limit", "edit", "pause", "skip", "batch"}
                      \cup Dashboard \cup Organization \cup Money \cup Integration \cup Alarm
                      \cup {"templates", "gateway"}
    /\ RealtimeInit /\ TeamInit /\ BillingInit /\ IntegrationInit /\ AlarmInit
    /\ TemplatesInit
    /\ scenario # "templates" => \A t \in Own : template[t] = NoTemplate
    /\ GatewayPoolInit /\ (scenario # "gateway" => idleConns[1] = l1)
    /\ running \in BOOLEAN
    /\ loop = IF running THEN "select" ELSE "none"
    /\ stopping = FALSE /\ cancelled = FALSE
    /\ window = IF scenario = "limit" THEN [w \in Windows |-> NoWindow]
                ELSE OneWindow(scenario = "skip")
    /\ call \in {NoMoreCalls, [r \in Calls |-> NoCall]}
    /\ check \in {NoMoreTriggers, [g \in Goroutines |-> NoCheck]}
    /\ IF scenario = "pause"
       THEN ~(running /\ call # NoMoreCalls /\ check # NoMoreTriggers)
       ELSE ~running /\ call = NoMoreCalls /\ check = NoMoreTriggers
    /\ monitor = [m \in Monitors |->
                    IF \/ scenario = "batch"
                       \/ scenario \in {"pause", "skip"} /\ m = FirstMonitor
                    THEN [status |-> "PENDING", hours |-> FALSE, due |-> TRUE] ELSE NoRow]

WindowNext ==
    \/ /\ scenario = "limit"
       /\ \E r \in Requests : \/ CreateStep(r) \/ CreateCheckOverlap(r)
                              \/ CreateInsert(r) \/ RequestFails(r)
    \/ scenario = "edit" /\ MaintenanceNext
    \/ scenario = "skip" /\ (JobNext \/ Tick)

CheckNext ==
    /\ scenario \in {"pause", "skip", "batch"}
    /\ MonitoringNext
    /\ scenario = "pause" => UNCHANGED <<running, stopping, cancelled>>

Published ==
    CASE scenario = "hub" -> {s2}
      [] scenario = "monitors" -> {s1}
      [] OTHER -> {s2, s3}

DashboardNext ==
    /\ scenario \in Dashboard
    /\ RealtimeNext
    /\ \A s \in Streams \ Published : published'[s] = 0
    /\ IF scenario = "hub" THEN linked' /\ restarts' = 0 /\ errors' = 0
       ELSE hub' = "running" /\ \A c \in Clients : reader'[c] = "none"

\* One request at a time, in a team of at most three.
OneByOne ==
    /\ \A q \in TeamRequests \ {q1} : rpc'[q] = NoRpc
    /\ "target" \in DOMAIN rpc'[q1] => rpc'[q1].target # u4
    /\ invite'[3].status = "unused"

\* InviteService only, and one role to invite for.
Inviting ==
    \A q \in TeamRequests :
        /\ rpc'[q].kind \in {"none", "invite", "revoke", "accept"}
        /\ rpc'[q].kind = "invite" => rpc'[q].new = "MEMBER"

TeamScenario ==
    /\ scenario \in Organization
    /\ TeamNext
    /\ scenario # "failing" => teamFaults' = 0 /\ \A i \in Invites : ~invite'[i].late
    /\ IF scenario = "invites" THEN Inviting ELSE OneByOne
    /\ scenario = "failing" => invite'[2].status = "unused"

BillingScenario ==
    /\ scenario \in Money
    /\ BillingNext
    /\ IF scenario = "payment" THEN \A o \in Orders \ {o1} : provider'[o] = "none"
       ELSE \A v \in Serving \ {v1} : work'[v] = NoWork

IntegrationScenario ==
    /\ scenario \in Integration
    /\ WebhookNext
    /\ scenario # "restart" => crashes' = 0 /\ hookFaults' = 0 /\ ~queueClosed'
    /\ scenario # "hooks" => \A c \in HookCalls : hookCall'[c] = NoHookCall

AlarmScenario ==
    /\ scenario \in Alarm
    /\ AlertingNext
    /\ IF scenario = "alerts" THEN alertFaults' = 0
       ELSE \A p \in Results \ {g1} : handler'[p] = IdleHandler

TemplateScenario == scenario = "templates" /\ TemplatesNext

GatewayScenario == scenario = "gateway" /\ GatewayPoolNext

windowVars == <<maintenanceVars, monitoringVars>>
moneyVars == <<teamVars, billingVars>>
alertVars == <<webhookVars, alertingVars>>
otherVars == <<templateVars, poolVars>>

MCNext ==
    /\ UNCHANGED scenario
    /\ \/ WindowNext /\ UNCHANGED <<monitoringVars, realtimeVars, moneyVars, alertVars, otherVars>>
       \/ CheckNext /\ UNCHANGED <<realtimeVars, moneyVars, alertVars, otherVars>>
       \/ DashboardNext /\ UNCHANGED <<windowVars, moneyVars, alertVars, otherVars>>
       \/ TeamScenario
          /\ UNCHANGED <<windowVars, realtimeVars, billingVars, alertVars, otherVars>>
       \/ BillingScenario
          /\ UNCHANGED <<windowVars, realtimeVars, teamVars, alertVars, otherVars>>
       \/ IntegrationScenario
          /\ UNCHANGED <<windowVars, realtimeVars, moneyVars, alertingVars, otherVars>>
       \/ AlarmScenario
          /\ UNCHANGED <<windowVars, realtimeVars, moneyVars, webhookVars, otherVars>>
       \/ TemplateScenario /\ UNCHANGED <<windowVars, realtimeVars, moneyVars, alertVars, poolVars>>
       \/ GatewayScenario
          /\ UNCHANGED <<windowVars, realtimeVars, moneyVars, alertVars, templateVars>>

MCSpec ==
    /\ MCInit /\ [][MCNext]_mcVars
    /\ MaintenanceFairness /\ MonitoringFairness /\ RealtimeFairness
    /\ WebhookFairness /\ AlertingFairness
=============================================================================
