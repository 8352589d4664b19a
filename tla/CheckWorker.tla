---------------------------- MODULE CheckWorker ----------------------------
(***************************************************************************)
(* check-worker: the Worker's lifecycle, its connection state machine, its *)
(* reconnect manager and the goroutines that poll for and execute checks.  *)
(*                                                                         *)
(* A step is a stretch of code between two points where another goroutine  *)
(* can intervene: a lock, an atomic flag, a channel or a blocking call.    *)
(* Goroutines: main (Start, then Stop), monitorConnections, runPollLoop,   *)
(* one per check, and one per reconnectService call.  The heartbeat loop   *)
(* only reads this state and is left out.                                  *)
(*                                                                         *)
(* A service is reachable or not (link).  The Worker sees it only through  *)
(* its client's IsConnected flag.  The gRPC clients of this repository set *)
(* the flag in Connect, which dials lazily and does not need the service,  *)
(* and clear it in Close only: with them (Detect = FALSE) the reconnect    *)
(* code is never reached.  The Worker's logic is written against the       *)
(* interfaces SchedulerClient and MonitorClient, whose doubles in          *)
(* worker_test.go do report a loss; Detect = TRUE lets a client do that.   *)
(***************************************************************************)
EXTENDS Integers, FiniteSets

CONSTANTS
    Checks,         \* bound: scheduled checks the scheduler ever hands out
    Recs,           \* bound: reconnectService goroutines alive at once
    MaxConcurrent,  \* capacity of sem
    Detect          \* whether a client may report a lost connection by itself

ASSUME CheckWorkerAssumption ==
    /\ IsFiniteSet(Checks)
    /\ MaxConcurrent \in Nat \ {0}
    /\ Detect \in BOOLEAN

Services == {"scheduler", "monitor"}
ConnectionState == {"DISCONNECTED", "CONNECTING", "CONNECTED", "RECONNECTING",
                    "DEGRADED", "SHUTDOWN"}
\* Where StartReconnect may be: looping, waiting out the delay, inside
\* reconnectFunc, or about to run the deferred active = false.
InReconnect == {"loop", "wait", "try", "return"}
StopPCs == {"stopReconnect", "shutdown", "cancel", "wait", "unregister",
            "closeScheduler", "closeMonitor", "closing", "stopped"}

VARIABLES
    link,     \* is the service reachable
    client,   \* the client's connected flag
    conn,     \* ConnectionInfo.Connected of the state machine
    state,    \* ConnectionStateMachine.state
    active,   \* ReconnectManager.active
    stopChan, \* whether ReconnectManager.stopChan is closed
    rec,      \* the reconnectService goroutines
    mon,      \* the monitorConnections goroutine
    main,     \* Start and Stop
    running,  \* Worker.running
    ctxDone,  \* whether w.cancel has been called
    poll,     \* the runPollLoop goroutine
    batch,    \* the checks its current poll has still to start
    check,    \* the executeCheck goroutines
    checksCompleted, checksFailed

netVars == <<link, client>>
smVars == <<conn, state>>
recVars == <<active, stopChan, rec>>
mainVars == <<main, running, ctxDone>>
checkVars == <<poll, batch, check, checksCompleted, checksFailed>>
vars == <<netVars, smVars, recVars, mon, mainVars, checkVars>>

CheckPCs == {"new", "polled", "spawned", "gate", "exec", "submit", "done"}
\* Check goroutines activeChecks counts: added, Done not called yet.
InFlight == {k \in Checks : check[k] \in {"spawned", "gate", "exec", "submit"}}
\* Check goroutines that hold a slot of sem.
Holding == {k \in Checks : check[k] \in {"exec", "submit"}}

NetOK == link \in [Services -> BOOLEAN] /\ client \in [Services -> BOOLEAN]
SmOK == conn \in [Services -> BOOLEAN] /\ state \in ConnectionState
RecPCs == InReconnect \cup {"none", "start", "notify"}
RecRow == [pc : RecPCs, svc : Services, failed : BOOLEAN]
RecOK == active \in BOOLEAN /\ stopChan \in BOOLEAN /\ rec \in [Recs -> RecRow]
MonOK == mon \in [pc : {"idle", "read", "connected?", "degraded?", "act"},
                  svc : Services, up : BOOLEAN]
MainOK ==
    /\ main \in {"start", "startMonitor", "register", "running", "failed"} \cup StopPCs
    /\ running \in BOOLEAN
    /\ ctxDone \in BOOLEAN
CheckOK ==
    /\ poll \in {"idle", "get", "dispatch", "spawn", "exit"}
    /\ batch \in SUBSET Checks
    /\ check \in [Checks -> CheckPCs]
    /\ checksCompleted \in Nat
    /\ checksFailed \in Nat

\* Every variable keeps its type.
TypeOK == NetOK /\ SmOK /\ RecOK /\ MonOK /\ MainOK /\ CheckOK

-----------------------------------------------------------------------------
(* state_machine.go *)

\* Mutant: only the scheduler is looked at.
updateStateScheduler(st, cn) ==
    CASE st = "SHUTDOWN" -> "SHUTDOWN"
      [] st # "SHUTDOWN" /\ cn["scheduler"] -> "CONNECTED"
      [] OTHER -> "RECONNECTING"

\* updateState: the state that follows from the two flags.
updateState(st, cn) ==
    CASE st = "SHUTDOWN" -> "SHUTDOWN"
      [] st # "SHUTDOWN" /\ \A s \in Services : cn[s] -> "CONNECTED"
      [] st # "SHUTDOWN" /\ (\E s \in Services : cn[s])
                         /\ (\E s \in Services : ~cn[s]) -> "DEGRADED"
      [] st = "DISCONNECTED" /\ (\A s \in Services : ~cn[s]) -> "CONNECTING"
      [] OTHER -> "RECONNECTING"

\* OnSchedulerConnected, OnMonitorConnected.
OnConnected(s) ==
    /\ conn' = [conn EXCEPT ![s] = TRUE]
    /\ state' = updateState(state, conn')

\* OnSchedulerDisconnected, OnMonitorDisconnected.
OnDisconnected(s) ==
    /\ conn' = [conn EXCEPT ![s] = FALSE]
    /\ state' = updateState(state, conn')

\* Mutant: SHUTDOWN is not refused.
CanExecuteAlways == state # "RECONNECTING"

CanExecuteChecks ==
    IF state = "DEGRADED" THEN conn["monitor"] ELSE state = "CONNECTED"

\* Shutdown() of the state machine.
Shutdown ==
    /\ state' = "SHUTDOWN"
    /\ conn' = [s \in Services |-> FALSE]

-----------------------------------------------------------------------------
(* The network, and a client that reports a loss. *)

LinkChanges(s) ==
    /\ link' = [link EXCEPT ![s] = ~link[s]]
    /\ UNCHANGED <<client, smVars, recVars, mon, mainVars, checkVars>>

\* IsConnected() turns false without Close: no client of the repository.
LosesClient(s) ==
    /\ Detect /\ client[s]
    /\ client' = [client EXCEPT ![s] = FALSE]
    /\ UNCHANGED <<link, smVars, recVars, mon, mainVars, checkVars>>

-----------------------------------------------------------------------------
(* Start.  Connect retries grpc.NewClient and returns nil or an error. *)

StartScheduler ==
    /\ main = "start"
    /\ \/ /\ client' = [client EXCEPT !["scheduler"] = TRUE]
          /\ OnConnected("scheduler")
          /\ main' = "startMonitor"
       \/ /\ main' = "failed"
          /\ UNCHANGED <<client, smVars>>
    /\ UNCHANGED <<link, recVars, mon, running, ctxDone, checkVars>>

StartMonitor ==
    /\ main = "startMonitor"
    /\ \/ /\ client' = [client EXCEPT !["monitor"] = TRUE]
          /\ OnConnected("monitor")
          /\ main' = "register"
       \/ /\ main' = "failed"
          /\ UNCHANGED <<client, smVars>>
    /\ UNCHANGED <<link, recVars, mon, running, ctxDone, checkVars>>

\* RegisterWorker, then the three loops start.
Register ==
    /\ main = "register"
    /\ \/ /\ main' = "running"
          /\ running' = TRUE
       \/ /\ main' = "failed"
          /\ UNCHANGED running
    /\ UNCHANGED <<netVars, smVars, recVars, mon, ctxDone, checkVars>>

-----------------------------------------------------------------------------
(* Stop. *)

StopBegin ==
    /\ main = "running"
    /\ main' = "stopReconnect"
    /\ running' = FALSE
    /\ UNCHANGED <<netVars, smVars, recVars, mon, ctxDone, checkVars>>

\* ReconnectManager.Stop: closes the channel of a reconnect that is active.
StopReconnect ==
    /\ main = "stopReconnect"
    /\ main' = "shutdown"
    /\ stopChan' = (stopChan \/ active)
    /\ UNCHANGED <<netVars, smVars, active, rec, mon, running, ctxDone, checkVars>>

StopShutdown ==
    /\ main = "shutdown"
    /\ main' = "cancel"
    /\ Shutdown
    /\ UNCHANGED <<netVars, recVars, mon, running, ctxDone, checkVars>>

StopCancel ==
    /\ main = "cancel"
    /\ main' = "wait"
    /\ ctxDone' = TRUE
    /\ UNCHANGED <<netVars, smVars, recVars, mon, running, checkVars>>

\* activeChecks.Wait().
StopWait ==
    /\ main = "wait"
    /\ InFlight = {}
    /\ main' = "unregister"
    /\ UNCHANGED <<netVars, smVars, recVars, mon, running, ctxDone, checkVars>>

\* UnregisterWorker: bounded retries, an error is only logged.
StopUnregister ==
    /\ main = "unregister"
    /\ main' = "closeScheduler"
    /\ UNCHANGED <<netVars, smVars, recVars, mon, running, ctxDone, checkVars>>

CloseScheduler ==
    /\ main = "closeScheduler"
    /\ main' = "closeMonitor"
    /\ client' = [client EXCEPT !["scheduler"] = FALSE]
    /\ UNCHANGED <<link, smVars, recVars, mon, running, ctxDone, checkVars>>

\* monitorClient.Close clears its flag first ...
CloseMonitor ==
    /\ main = "closeMonitor"
    /\ main' = "closing"
    /\ client' = [client EXCEPT !["monitor"] = FALSE]
    /\ UNCHANGED <<link, smVars, recVars, mon, running, ctxDone, checkVars>>

\* ... then waits for the flush loop and flushes the queue, which may go on
\* for ever (ResultDelivery's CloseReturns).
CloseMonitorReturns ==
    /\ main = "closing"
    /\ main' = "stopped"
    /\ UNCHANGED <<netVars, smVars, recVars, mon, running, ctxDone, checkVars>>

-----------------------------------------------------------------------------
(* monitorConnections, checkConnections. *)

Started == main = "running" \/ main \in StopPCs

\* The ticker fires, or ctx.Done is the only case left to select.
MonitorTick ==
    /\ Started /\ ~ctxDone
    /\ mon.pc = "idle"
    /\ mon' = [mon EXCEPT !.pc = "read", !.svc = "scheduler"]
    /\ UNCHANGED <<netVars, smVars, recVars, mainVars, checkVars>>

NextService ==
    mon' = IF mon.svc = "scheduler"
           THEN [mon EXCEPT !.pc = "read", !.svc = "monitor"]
           ELSE [mon EXCEPT !.pc = "idle"]

MonitorRead ==
    /\ mon.pc = "read"
    /\ mon' = [mon EXCEPT !.pc = "connected?", !.up = client[mon.svc]]
    /\ UNCHANGED <<netVars, smVars, recVars, mainVars, checkVars>>

\* stateMachine.IsConnected() and IsDegraded(): two reads under two locks.
MonitorIsConnected ==
    /\ mon.pc = "connected?"
    /\ \/ state # "CONNECTED" /\ mon' = [mon EXCEPT !.pc = "degraded?"]
       \/ state = "CONNECTED" /\ mon.up /\ NextService
       \/ state = "CONNECTED" /\ ~mon.up /\ mon' = [mon EXCEPT !.pc = "act"]
    /\ UNCHANGED <<netVars, smVars, recVars, mainVars, checkVars>>

MonitorIsDegraded ==
    /\ mon.pc = "degraded?"
    /\ IF (state = "DEGRADED") = mon.up
       THEN NextService
       ELSE mon' = [mon EXCEPT !.pc = "act"]
    /\ UNCHANGED <<netVars, smVars, recVars, mainVars, checkVars>>

MonitorConnected ==
    /\ mon.pc = "act" /\ mon.up
    /\ OnConnected(mon.svc)
    /\ NextService
    /\ UNCHANGED <<netVars, recVars, mainVars, checkVars>>

\* ... and go reconnectService(ctx, svc).
MonitorDisconnected ==
    /\ mon.pc = "act" /\ ~mon.up
    /\ OnDisconnected(mon.svc)
    /\ \E r \in Recs :
          /\ rec[r].pc = "none"
          /\ rec' = [rec EXCEPT ![r] = [pc |-> "start", svc |-> mon.svc,
                                         failed |-> FALSE]]
    /\ NextService
    /\ UNCHANGED <<netVars, active, stopChan, mainVars, checkVars>>

-----------------------------------------------------------------------------
(* reconnectService and ReconnectManager.StartReconnect. *)

RecGoto(r, pc) == rec' = [rec EXCEPT ![r].pc = pc]

\* Mutant: the test of active is missing.
StartReconnectAgain(r) ==
    /\ rec[r].pc = "start"
    /\ active' = TRUE /\ stopChan' = FALSE /\ RecGoto(r, "loop")
    /\ UNCHANGED <<netVars, smVars, mon, mainVars, checkVars>>

StartReconnect(r) ==
    /\ rec[r].pc = "start"
    /\ \/ ~active /\ active' = TRUE /\ stopChan' = FALSE /\ RecGoto(r, "loop")
       \/ active /\ RecGoto(r, "none") /\ UNCHANGED <<active, stopChan>>
    /\ UNCHANGED <<netVars, smVars, mon, mainVars, checkVars>>

\* reconnectLoop: the select before the attempt.
LoopTop(r) ==
    /\ rec[r].pc = "loop"
    /\ ~ctxDone /\ ~stopChan
    /\ RecGoto(r, "wait")
    /\ UNCHANGED <<netVars, smVars, active, stopChan, mon, mainVars, checkVars>>

\* Either select returns an error: the worker's context is cancelled, the
\* channel closed, or the five minutes of reconnectCtx are over, which takes
\* failed attempts (the first one is made after a second).
LoopError(r) ==
    /\ rec[r].pc \in {"loop", "wait"}
    /\ ctxDone \/ stopChan \/ rec[r].failed
    /\ active' = FALSE
    /\ rec' = [rec EXCEPT ![r].pc = "none", ![r].failed = FALSE]
    /\ UNCHANGED <<netVars, smVars, stopChan, mon, mainVars, checkVars>>

\* time.After(delay): may win the second select even when others are ready.
LoopDelay(r) ==
    /\ rec[r].pc = "wait"
    /\ RecGoto(r, "try")
    /\ UNCHANGED <<netVars, smVars, active, stopChan, mon, mainVars, checkVars>>

\* reconnectFunc, which is the client's Connect.
Reconnect(r) ==
    /\ rec[r].pc = "try"
    /\ \/ /\ client' = [client EXCEPT ![rec[r].svc] = TRUE]
          /\ RecGoto(r, "return")
       \/ /\ rec' = [rec EXCEPT ![r].pc = "loop", ![r].failed = TRUE]
          /\ UNCHANGED client
    /\ UNCHANGED <<link, smVars, active, stopChan, mon, mainVars, checkVars>>

ReconnectReturn(r) ==
    /\ rec[r].pc = "return"
    /\ active' = FALSE
    /\ rec' = [rec EXCEPT ![r].pc = "notify", ![r].failed = FALSE]
    /\ UNCHANGED <<netVars, smVars, stopChan, mon, mainVars, checkVars>>

ReconnectNotify(r) ==
    /\ rec[r].pc = "notify"
    /\ OnConnected(rec[r].svc)
    /\ RecGoto(r, "none")
    /\ UNCHANGED <<netVars, active, stopChan, mon, mainVars, checkVars>>

-----------------------------------------------------------------------------
(* runPollLoop, pollAndExecuteChecks. *)

pollRest == <<netVars, smVars, recVars, mon, mainVars, checksCompleted, checksFailed>>

PollTick ==
    /\ Started
    /\ poll = "idle"
    /\ \/ ~ctxDone /\ running /\ poll' = "get"
       \/ (ctxDone \/ ~running) /\ poll' = "exit"
    /\ UNCHANGED <<batch, check, pollRest>>

\* GetScheduledChecks: an error or no checks, or checks not handed out before.
GetScheduledChecks ==
    /\ poll = "get"
    /\ \/ poll' = "idle" /\ UNCHANGED <<batch, check>>
       \/ \E B \in SUBSET {k \in Checks : check[k] = "new"} :
             /\ B # {}
             /\ batch' = B
             /\ check' = [k \in Checks |-> IF k \in B THEN "polled" ELSE check[k]]
             /\ poll' = "dispatch"
    /\ UNCHANGED pollRest

\* for _, check := range checks: the test of running, which Stop clears ...
Dispatch ==
    /\ poll = "dispatch"
    /\ \/ batch # {} /\ running /\ poll' = "spawn" /\ UNCHANGED batch
       \/ (batch = {} \/ ~running) /\ poll' = "idle" /\ batch' = {}
    /\ UNCHANGED <<check, pollRest>>

\* ... and activeChecks.Add(1), which may come after Stop has waited.
Spawn(k) ==
    /\ poll = "spawn"
    /\ k \in batch
    /\ poll' = "dispatch"
    /\ batch' = batch \ {k}
    /\ check' = [check EXCEPT ![k] = "spawned"]
    /\ UNCHANGED pollRest

-----------------------------------------------------------------------------
(* executeCheck. *)

checkRest == <<netVars, smVars, recVars, mon, mainVars, poll, batch>>

\* The CanExecuteChecks gate; a check that may not run is counted as failed.
Gate(k) ==
    /\ check[k] = "spawned"
    /\ \/ /\ CanExecuteChecks
          /\ check' = [check EXCEPT ![k] = "gate"]
          /\ UNCHANGED <<checksCompleted, checksFailed>>
       \/ /\ ~CanExecuteChecks
          /\ check' = [check EXCEPT ![k] = "done"]
          /\ checksFailed' = checksFailed + 1
          /\ UNCHANGED checksCompleted
    /\ UNCHANGED checkRest

\* w.sem <- struct{}{}
Acquire(k) ==
    /\ check[k] = "gate"
    /\ Cardinality(Holding) < MaxConcurrent
    /\ check' = [check EXCEPT ![k] = "exec"]
    /\ UNCHANGED <<checksCompleted, checksFailed, checkRest>>

\* GetMonitor or ExecuteCheck returns an error.
ExecuteError(k) ==
    /\ check[k] = "exec"
    /\ check' = [check EXCEPT ![k] = "done"]
    /\ checksFailed' = checksFailed + 1
    /\ UNCHANGED <<checksCompleted, checkRest>>

\* ExecuteCheck returns a response: the target is up or down.  (The error path
\* for a status code outside int32, which would count the check a second time,
\* is left out: net/http reads status codes of three digits.)
Execute(k) ==
    /\ check[k] = "exec"
    /\ check' = [check EXCEPT ![k] = "submit"]
    /\ \/ checksCompleted' = checksCompleted + 1 /\ UNCHANGED checksFailed
       \/ checksFailed' = checksFailed + 1 /\ UNCHANGED checksCompleted
    /\ UNCHANGED checkRest

\* Mutant: the deferred release is lost with the goroutine's Done.
SubmitHangs(k) ==
    /\ FALSE
    /\ check[k] = "submit"
    /\ check' = [check EXCEPT ![k] = "done"]
    /\ UNCHANGED <<checksCompleted, checksFailed, checkRest>>

\* SubmitCheckResult returns, sem is released, activeChecks.Done() is called.
Submit(k) ==
    /\ check[k] = "submit"
    /\ check' = [check EXCEPT ![k] = "done"]
    /\ UNCHANGED <<checksCompleted, checksFailed, checkRest>>

-----------------------------------------------------------------------------
\* NewWorker, NewConnectionStateMachine, NewReconnectManager.
Init ==
    /\ link \in [Services -> BOOLEAN]
    /\ client = [s \in Services |-> FALSE]
    /\ conn = [s \in Services |-> FALSE]
    /\ state = "DISCONNECTED"
    /\ active = FALSE
    /\ stopChan = FALSE
    /\ rec = [r \in Recs |-> [pc |-> "none", svc |-> "scheduler", failed |-> FALSE]]
    /\ mon = [pc |-> "idle", svc |-> "scheduler", up |-> FALSE]
    /\ main = "start"
    /\ running = FALSE
    /\ ctxDone = FALSE
    /\ poll = "idle"
    /\ batch = {}
    /\ check = [k \in Checks |-> "new"]
    /\ checksCompleted = 0
    /\ checksFailed = 0

StartStep == StartScheduler \/ StartMonitor \/ Register
StopStep == \/ StopReconnect \/ StopShutdown \/ StopCancel \/ StopWait
            \/ StopUnregister \/ CloseScheduler \/ CloseMonitor
MonitorStep == \/ MonitorTick \/ MonitorRead \/ MonitorIsConnected
               \/ MonitorIsDegraded \/ MonitorConnected \/ MonitorDisconnected
RecStep(r) == \/ StartReconnect(r) \/ LoopTop(r) \/ LoopDelay(r)
              \/ Reconnect(r) \/ ReconnectReturn(r) \/ ReconnectNotify(r)
PollStep == PollTick \/ GetScheduledChecks \/ Dispatch \/ \E k \in Checks : Spawn(k)
CheckStep(k) == \/ Gate(k) \/ Acquire(k) \/ ExecuteError(k) \/ Execute(k)
                \/ Submit(k)

\* The process exits, or waits for ever with nothing left to do.
Ended == main \in {"stopped", "failed"} /\ UNCHANGED vars

Next ==
    \/ \E s \in Services : LinkChanges(s) \/ LosesClient(s)
    \/ StartStep \/ StopBegin \/ StopStep \/ CloseMonitorReturns \/ MonitorStep \/ PollStep
    \/ \E r \in Recs : RecStep(r) \/ LoopError(r)
    \/ \E k \in Checks : CheckStep(k)
    \/ Ended

Spec == Init /\ [][Next]_vars

\* The Go scheduler runs every runnable goroutine and tickers keep ticking.
\* Nothing is assumed of the network, of the caller of Stop, of the last flush
\* of monitorClient.Close, or of a reconnect running out of time while it could
\* still go on; once its context or channel is done it does return.
Fairness ==
    /\ WF_vars(StartStep) /\ WF_vars(StopStep)
    /\ WF_vars(MonitorStep) /\ WF_vars(PollStep)
    /\ \A r \in Recs :
          /\ WF_vars(RecStep(r))
          /\ WF_vars((ctxDone \/ stopChan) /\ LoopError(r))
    /\ \A k \in Checks : WF_vars(CheckStep(k))

FairSpec == Spec /\ Fairness

-----------------------------------------------------------------------------
(* Properties. *)

\* ReconnectManager: at most one goroutine is inside StartReconnect, and
\* active says exactly whether one is, however many reconnectService calls
\* checkConnections has spawned and whenever Stop comes.
OneReconnect ==
    /\ \A r, q \in Recs :
          rec[r].pc \in InReconnect /\ rec[q].pc \in InReconnect => r = q
    /\ active <=> \E r \in Recs : rec[r].pc \in InReconnect

\* ConnectionStateMachine: the state is the one its two flags call for in
\* every interleaving of checkConnections, reconnectService and Shutdown; a
\* state other than SHUTDOWN never claims a connection the flags deny.
StateAgrees ==
    /\ state = "CONNECTED" <=> state # "SHUTDOWN" /\ \A s \in Services : conn[s]
    /\ state = "DEGRADED" <=> /\ state # "SHUTDOWN"
                              /\ \E s \in Services : conn[s]
                              /\ \E s \in Services : ~conn[s]

\* Stop: from the moment activeChecks.Wait() has returned, no check is past
\* the CanExecuteChecks gate, so none talks to a client that is being closed,
\* although Add(1) may come after Wait.
DrainedBeforeClose ==
    main \in {"unregister", "closeScheduler", "closeMonitor", "closing", "stopped"} =>
        \A k \in Checks : check[k] \notin {"gate", "exec", "submit"}

\* Graceful shutdown: Stop, once called, stops the reconnects, drains every
\* check in flight, also those added after its Wait began, unregisters, closes
\* the scheduler client and gets to the monitor client's final flush.
StopDrains == main = "stopReconnect" ~> main \in {"closing", "stopped"}

\* README "Потеря связи" is RECONNECTING: a service that stays away does not
\* leave the worker CONNECTED.
LossNoticed ==
    \A s \in Services :
        (main = "running" /\ ~link[s]) ~> (link[s] \/ main # "running" \/ state # "CONNECTED")

\* README "Автоматически переподключается": a client of a running worker that
\* reports a loss is connected again, or a reconnect of its service is tried.
LossRetried ==
    \A s \in Services :
        (main = "running" /\ ~client[s]) ~>
            \/ client[s] \/ main # "running"
            \/ \E r \in Recs : rec[r].svc = s /\ rec[r].pc \in InReconnect
=============================================================================
