-------------------------- MODULE WebhookDelivery --------------------------
(***************************************************************************)
(* integration-service: webhooks and the delivery of alerts to them.       *)
(*                                                                         *)
(* AlertConsumer takes an alert event from the broker (external), lists    *)
(* the active webhooks of the user, inserts one delivery attempt for each  *)
(* and puts a job into the bounded queue of the worker pool; the event is  *)
(* acknowledged when all jobs are in the queue.  A worker sends the job,   *)
(* writes the attempt's row and then the whole row of the webhook from the *)
(* copy that the listing read.  RPCs of the user read and write webhooks   *)
(* at the same time.  Severities, priorities, payloads and signatures are  *)
(* left out, and so is retryScheduler: it looks for rows in                *)
(* retry_scheduled, and no statement ever stores that status.              *)
(***************************************************************************)
EXTENDS Integers, Sequences, FiniteSets

CONSTANTS
    Hooks,            \* ids of webhooks
    Alerts,           \* alert events
    PoolWorkers,      \* goroutines of the worker pool
    JobCapacity,      \* WorkerQueueSize
    FailureLimit,     \* failures in a row that disable a webhook
    WebhookLimit,     \* webhooks that the user's tier allows
    HookCalls,        \* RPCs of the user, each served once
    MaxHookFaults,    \* bound: failing statements
    MaxCrashes        \* bound: deaths and restarts of the process

ASSUME WebhookAssumption ==
    /\ {JobCapacity, FailureLimit} \subseteq Nat \ {0}
    /\ {WebhookLimit, MaxHookFaults, MaxCrashes} \subseteq Nat

VARIABLES
    hook,        \* rows of webhook_integrations
    attempt,     \* status of the rows of webhook_delivery_attempts
    alert,       \* where each alert event is
    consumer,    \* what ProcessAlertEvent is doing
    jobQueue,    \* the channel of the worker pool
    queueClosed, \* Stop has closed it
    poolWorker,  \* what each worker is doing
    hookCall,    \* the RPCs
    hookFaults,
    crashes

tables == <<hook, attempt>>
goroutines == <<alert, consumer, jobQueue, queueClosed, poolWorker>>
webhookVars == <<tables, goroutines, hookCall, hookFaults, crashes>>

NoHook == [status |-> "none", enabled |-> FALSE, failures |-> 0]
NewWebhook == [status |-> "active", enabled |-> TRUE, failures |-> 0]
NoConsumer == [stage |-> "idle"]
NoJob == [stage |-> "idle"]
NoHookCall == [kind |-> "none"]

Attempts == Alerts \X Hooks \X (0..MaxCrashes)

WebhookTypeOK ==
    /\ hook \in [Hooks -> [status : {"none", "active", "failed", "disabled"},
                           enabled : BOOLEAN, failures : Nat]]
    /\ attempt \in [Attempts -> {"none", "pending", "sent", "failed"}]
    /\ alert \in [Alerts -> {"queued", "unacked", "done", "dropped"}]
    /\ Len(jobQueue) <= JobCapacity /\ queueClosed \in BOOLEAN
    /\ hookFaults \in 0..MaxHookFaults /\ crashes \in 0..MaxCrashes

WebhookInit ==
    /\ hook \in [Hooks -> {NoHook, NewWebhook}]
    /\ attempt = [a \in Attempts |-> "none"]
    /\ alert = [e \in Alerts |-> "queued"]
    /\ consumer = NoConsumer
    /\ jobQueue = <<>> /\ queueClosed = FALSE
    /\ poolWorker = [w \in PoolWorkers |-> NoJob]
    /\ hookCall = [c \in HookCalls |-> NoHookCall]
    /\ hookFaults = 0 /\ crashes = 0

HookStatementFails == hookFaults < MaxHookFaults /\ hookFaults' = hookFaults + 1
HookStatementWorks == UNCHANGED hookFaults

-----------------------------------------------------------------------------
(* AlertConsumer and ProcessAlertEvent *)

CanDeliver(h) == hook[h].enabled /\ hook[h].status = "active"

Receive(e) ==
    /\ consumer = NoConsumer /\ alert[e] = "queued"
    /\ alert' = [alert EXCEPT ![e] = "unacked"]
    /\ consumer' = [stage |-> "list", alert |-> e]
    /\ UNCHANGED <<tables, jobQueue, queueClosed, poolWorker, hookCall, hookFaults, crashes>>

\* A failing listing makes processMessage refuse the event for good.
ListActiveByUserID ==
    /\ consumer.stage = "list"
    /\ \/ /\ consumer' = [stage |-> "create", alert |-> consumer.alert,
                          job |-> NoJob,
                          todo |-> [h \in {g \in Hooks : CanDeliver(g)} |-> hook[h]]]
          /\ HookStatementWorks /\ UNCHANGED alert
       \/ /\ consumer' = NoConsumer /\ HookStatementFails
          /\ alert' = [alert EXCEPT ![consumer.alert] = "dropped"]
    /\ UNCHANGED <<tables, jobQueue, queueClosed, poolWorker, hookCall, crashes>>

Without(f, h) == [g \in DOMAIN f \ {h} |-> f[g]]

\* The row refers to its webhook, so the INSERT of an attempt for a webhook that
\* has been deleted fails; a failing INSERT passes on to the next webhook.
CreateAttempt(h) ==
    LET a == <<consumer.alert, h, crashes>>
    IN  /\ consumer.stage = "create" /\ h \in DOMAIN consumer.todo
        /\ \/ /\ hook[h] # NoHook /\ HookStatementWorks
              /\ attempt' = [attempt EXCEPT ![a] = "pending"]
              /\ consumer' = [consumer EXCEPT !.stage = "submit", !.todo = Without(@, h),
                                             !.job = [attempt |-> a, copy |-> consumer.todo[h]]]
           \/ /\ IF hook[h] = NoHook THEN HookStatementWorks ELSE HookStatementFails
              /\ consumer' = [consumer EXCEPT !.todo = Without(@, h)]
              /\ UNCHANGED attempt
        /\ UNCHANGED <<hook, alert, jobQueue, queueClosed, poolWorker, hookCall, crashes>>

\* Mutant: a job that finds the queue full is dropped.
SubmitMutant ==
    /\ consumer.stage = "submit" /\ ~queueClosed
    /\ jobQueue' = IF Len(jobQueue) < JobCapacity THEN Append(jobQueue, consumer.job)
                   ELSE jobQueue
    /\ consumer' = [consumer EXCEPT !.stage = "create", !.job = NoJob]
    /\ UNCHANGED <<tables, alert, queueClosed, poolWorker, hookCall, hookFaults, crashes>>

\* Submit blocks while the queue is full: its context is never cancelled.
Submit ==
    /\ consumer.stage = "submit" /\ ~queueClosed
    /\ Len(jobQueue) < JobCapacity
    /\ jobQueue' = Append(jobQueue, consumer.job)
    /\ consumer' = [consumer EXCEPT !.stage = "create", !.job = NoJob]
    /\ UNCHANGED <<tables, alert, queueClosed, poolWorker, hookCall, hookFaults, crashes>>

Ack ==
    /\ consumer.stage = "create" /\ DOMAIN consumer.todo = {}
    /\ alert' = [alert EXCEPT ![consumer.alert] = "done"]
    /\ consumer' = NoConsumer
    /\ UNCHANGED <<tables, jobQueue, queueClosed, poolWorker, hookCall, hookFaults, crashes>>

-----------------------------------------------------------------------------
(* The worker pool and DeliverWebhook *)

TakeJob(w) ==
    /\ poolWorker[w].stage = "idle" /\ jobQueue # <<>>
    /\ poolWorker' = [poolWorker EXCEPT ![w] = [stage |-> "send", job |-> Head(jobQueue)]]
    /\ jobQueue' = Tail(jobQueue)
    /\ UNCHANGED <<tables, alert, consumer, queueClosed, hookCall, hookFaults, crashes>>

WorkerEnds(w) ==
    /\ poolWorker[w].stage = "idle" /\ queueClosed /\ jobQueue = <<>>
    /\ poolWorker' = [poolWorker EXCEPT ![w] = [stage |-> "ended"]]
    /\ UNCHANGED <<tables, alert, consumer, jobQueue, queueClosed, hookCall, hookFaults, crashes>>

SendWebhook(w, outcome) ==
    LET p == poolWorker[w]
    IN  /\ p.stage = "send"
        /\ poolWorker' = [poolWorker EXCEPT ![w] =
                            [stage |-> "attempt", job |-> p.job, outcome |-> outcome]]
        /\ UNCHANGED <<tables, alert, consumer, jobQueue, queueClosed, hookCall, hookFaults, crashes>>

\* scheduleRetry sets retry_scheduled and then calls MarkAsFailed on the same
\* struct before it writes it: what is stored is failed.
SettledStatus(outcome) == IF outcome = "ok" THEN "sent" ELSE "failed"

\* After a success and after a permanent error the webhook's statistics are
\* written next, whether or not this statement worked.
SaveAttempt(w) ==
    LET p == poolWorker[w]
    IN  /\ p.stage = "attempt"
        /\ \/ /\ HookStatementWorks
              /\ attempt' = [attempt EXCEPT ![p.job.attempt] =
                                IF @ = "none" THEN @ ELSE SettledStatus(p.outcome)]
           \/ HookStatementFails /\ UNCHANGED attempt
        /\ poolWorker' = [poolWorker EXCEPT ![w] =
                            IF p.outcome = "transient" THEN NoJob ELSE [p EXCEPT !.stage = "hook"]]
        /\ UNCHANGED <<hook, alert, consumer, jobQueue, queueClosed, hookCall, crashes>>

MarkAsSuccessful(row) == [row EXCEPT !.failures = 0]

MarkAsFailed(row) ==
    IF row.failures + 1 >= FailureLimit
    THEN [status |-> "failed", enabled |-> FALSE, failures |-> row.failures + 1]
    ELSE [row EXCEPT !.failures = @ + 1]

SaveHook(w) ==
    LET p == poolWorker[w]
        h == p.job.attempt[2]
        row == IF p.outcome = "ok" THEN MarkAsSuccessful(p.job.copy) ELSE MarkAsFailed(p.job.copy)
    IN  /\ p.stage = "hook"
        /\ \/ /\ HookStatementWorks
              /\ hook' = [hook EXCEPT ![h] = IF @ = NoHook THEN @ ELSE row]
           \/ HookStatementFails /\ UNCHANGED hook
        /\ poolWorker' = [poolWorker EXCEPT ![w] = NoJob]
        /\ UNCHANGED <<attempt, alert, consumer, jobQueue, queueClosed, hookCall, crashes>>

-----------------------------------------------------------------------------
(* Shutdown, death and restart *)

\* run stops the pool with a context that is already cancelled, so it need not
\* wait for the workers before the process exits.
PoolStop ==
    /\ ~queueClosed /\ crashes < MaxCrashes
    /\ queueClosed' = TRUE
    /\ UNCHANGED <<tables, alert, consumer, jobQueue, poolWorker, hookCall, hookFaults, crashes>>

\* The process ends: after PoolStop, by a Submit to the closed queue, or in a
\* crash.  The broker delivers again what was not acknowledged.
ProcessRestart ==
    /\ crashes < MaxCrashes /\ crashes' = crashes + 1
    /\ consumer' = NoConsumer /\ jobQueue' = <<>> /\ queueClosed' = FALSE
    /\ poolWorker' = [w \in PoolWorkers |-> NoJob]
    /\ alert' = [e \in Alerts |-> IF alert[e] = "unacked" THEN "queued" ELSE alert[e]]
    /\ hookCall' = [c \in HookCalls |-> IF hookCall[c] = NoHookCall THEN NoHookCall
                                        ELSE [kind |-> "over"]]
    /\ UNCHANGED <<tables, hookFaults>>

-----------------------------------------------------------------------------
(* WebhookService *)

Owned == {h \in Hooks : hook[h] # NoHook}

\* An RPC has read row, and goes on to write webhook h.
HookCallReads(c, kind, h, row) ==
    /\ hookCall[c] = NoHookCall
    /\ hookCall' = [hookCall EXCEPT ![c] = [kind |-> kind, hook |-> h, row |-> row]]
    /\ UNCHANGED <<tables, goroutines, hookFaults, crashes>>

\* Only CreateWebhook looks at the tier's limit.
CreateWebhook(c, h) ==
    /\ hook[h] = NoHook /\ Cardinality(Owned) < WebhookLimit
    /\ HookCallReads(c, "create", h, NoHook)

CloneWebhook(c, h, g) ==
    /\ hook[h] = NoHook /\ hook[g] # NoHook
    /\ HookCallReads(c, "clone", h, hook[g])

UpdateWebhook(c, h) ==
    /\ hook[h] # NoHook
    /\ \E k \in {"switch_on", "switch_off"} : HookCallReads(c, k, h, hook[h])

EnableWebhook(c, h) == hook[h] # NoHook /\ HookCallReads(c, "enable", h, hook[h])

DisableWebhook(c, h) == hook[h] # NoHook /\ HookCallReads(c, "disable", h, hook[h])

DeleteWebhook(c, h) == hook[h] # NoHook /\ HookCallReads(c, "delete", h, hook[h])

\* What an RPC writes over the row that it has read.
Written(kind, row) ==
    CASE kind \in {"create", "enable"} -> NewWebhook
      [] kind = "clone" -> [row EXCEPT !.failures = 0]
      [] kind = "disable" -> [row EXCEPT !.status = "disabled", !.enabled = FALSE]
      [] kind = "switch_off" -> [row EXCEPT !.enabled = FALSE]
      [] kind = "switch_on" -> [row EXCEPT !.enabled = TRUE]

\* Deleting a webhook deletes its attempts.
HookCallWrites(c) ==
    LET r == hookCall[c]
    IN  /\ r.kind \notin {"none", "over"}
        /\ hookCall' = [hookCall EXCEPT ![c] = [kind |-> "over"]]
        /\ IF r.kind = "delete"
           THEN /\ hook' = [hook EXCEPT ![r.hook] = NoHook]
                /\ attempt' = [a \in Attempts |-> IF a[2] = r.hook THEN "none" ELSE attempt[a]]
           ELSE /\ hook' = [hook EXCEPT ![r.hook] =
                              IF (@ = NoHook) = (r.kind \in {"create", "clone"}) THEN Written(r.kind, r.row) ELSE @]
                /\ UNCHANGED attempt
        /\ UNCHANGED <<goroutines, hookFaults, crashes>>

WebhookCall(c) ==
    \/ \E h \in Hooks : \/ CreateWebhook(c, h) \/ UpdateWebhook(c, h) \/ EnableWebhook(c, h)
                       \/ DisableWebhook(c, h) \/ DeleteWebhook(c, h)
    \/ \E h, g \in Hooks : CloneWebhook(c, h, g)
    \/ HookCallWrites(c)

-----------------------------------------------------------------------------

AlertConsumerStep ==
    \/ \E e \in Alerts : Receive(e)
    \/ ListActiveByUserID
    \/ \E h \in Hooks : CreateAttempt(h)
    \/ Submit
    \/ Ack

WorkerStep(w) ==
    \/ TakeJob(w) \/ WorkerEnds(w) \/ SaveAttempt(w) \/ SaveHook(w)
    \/ \E o \in {"ok", "transient", "permanent"} : SendWebhook(w, o)

WebhookNext ==
    \/ AlertConsumerStep
    \/ \E w \in PoolWorkers : WorkerStep(w)
    \/ PoolStop \/ ProcessRestart
    \/ \E c \in HookCalls : WebhookCall(c)

\* The consumer and the workers are goroutines, the HTTP client has a timeout,
\* and a process that has closed its queue goes on to exit.
WebhookFairness ==
    /\ WF_webhookVars(AlertConsumerStep)
    /\ \A w \in PoolWorkers : WF_webhookVars(WorkerStep(w))
    /\ WF_webhookVars(queueClosed /\ ProcessRestart)

WebhookSpec == WebhookInit /\ [][WebhookNext]_webhookVars /\ WebhookFairness

-----------------------------------------------------------------------------
(* Properties *)

\* Every alert event is handled in the end, although the consumer blocks on the
\* full queue and events are delivered again after a restart, and then no attempt
\* that the living process made for it stays pending.
AlertsSettled ==
    \A e \in Alerts :
        <>[]( /\ alert[e] \in {"done", "dropped"}
              /\ hookFaults = 0 => \A h \in Hooks : attempt[<<e, h, crashes>>] # "pending" )

\* Only an RPC takes a webhook out of the status that the user gave it by
\* DisableWebhook.  A worker that writes back the copy of an earlier listing
\* violates it.
DisableHolds ==
    [][\A h \in Hooks :
          hook[h].status = "disabled" /\ hook'[h] # hook[h]
             => \E c \in HookCalls : hookCall'[c] # hookCall[c]]_webhookVars

\* ProcessAlertEvent does not submit to a closed queue: Go panics there.  PoolStop
\* violates it.
SubmitOpen == consumer.stage = "submit" => ~queueClosed
=============================================================================
