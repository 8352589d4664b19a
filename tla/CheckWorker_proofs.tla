------------------------- MODULE CheckWorker_proofs -------------------------
(***************************************************************************)
(* Proofs about CheckWorker for every number of checks and of reconnect    *)
(* goroutines, every semaphore capacity, and both kinds of clients.        *)
(***************************************************************************)
EXTENDS CheckWorker, TLAPS

\* What updateState returns, in terms of the two connection flags.
LEMMA UpdateStateValue ==
    ASSUME NEW st \in ConnectionState, NEW cn \in [Services -> BOOLEAN]
    PROVE  /\ updateState(st, cn) \in ConnectionState
           /\ st = "SHUTDOWN" <=> updateState(st, cn) = "SHUTDOWN"
           /\ updateState(st, cn) = "CONNECTED" <=>
                 st # "SHUTDOWN" /\ cn["scheduler"] /\ cn["monitor"]
           /\ updateState(st, cn) = "DEGRADED" <=>
                 st # "SHUTDOWN" /\ cn["scheduler"] # cn["monitor"]
BY DEF updateState, ConnectionState, Services

\* Changing one field or two of a goroutine's record keeps it a record.
LEMMA RecRowUpdate ==
    ASSUME NEW row \in RecRow, NEW pc \in RecPCs, NEW f \in BOOLEAN
    PROVE  /\ [row EXCEPT !.pc = pc] \in RecRow
           /\ [row EXCEPT !.pc = pc, !.failed = f] \in RecRow
BY DEF RecRow

-----------------------------------------------------------------------------
(* Each part of TypeOK is kept by every step. *)

LEMMA NetType == TypeOK /\ [Next]_vars => NetOK'
<1> SUFFICES ASSUME TypeOK, [Next]_vars PROVE NetOK'
    OBVIOUS
<1> USE DEF TypeOK, NetOK, netVars
<1>1. ASSUME NEW s \in Services, LinkChanges(s) \/ LosesClient(s) PROVE NetOK'
  BY <1>1 DEF LinkChanges, LosesClient
<1>2. CASE StartStep
  BY <1>2 DEF StartStep, StartScheduler, StartMonitor, Register
<1>3. CASE StopBegin \/ StopStep \/ CloseMonitorReturns
  BY <1>3 DEF StopBegin, StopStep, StopReconnect, StopShutdown, StopCancel,
     StopWait, StopUnregister, CloseScheduler, CloseMonitor,
     CloseMonitorReturns
<1>4. CASE MonitorStep
  BY <1>4 DEF MonitorStep, MonitorTick, MonitorRead, MonitorIsConnected,
     MonitorIsDegraded, MonitorConnected, MonitorDisconnected
<1>5. CASE PollStep
  BY <1>5 DEF PollStep, PollTick, GetScheduledChecks, Dispatch, Spawn, pollRest
<1>6. ASSUME NEW r \in Recs, RecStep(r) \/ LoopError(r) PROVE NetOK'
  BY <1>6 DEF RecStep, StartReconnect, LoopTop, LoopDelay, Reconnect,
     ReconnectReturn, ReconnectNotify, LoopError
<1>7. ASSUME NEW k \in Checks, CheckStep(k) PROVE NetOK'
  BY <1>7 DEF CheckStep, Gate, Acquire, ExecuteError, Execute, Submit, checkRest
<1>8. CASE UNCHANGED vars
  BY <1>8 DEF vars
<1> QED
  BY <1>1, <1>2, <1>3, <1>4, <1>5, <1>6, <1>7, <1>8 DEF Next, Ended

\* Every step leaves the state machine alone, makes one of its three kinds of
\* updates, or is Shutdown.
LEMMA StateSteps ==
    ASSUME TypeOK, [Next]_vars
    PROVE  \/ UNCHANGED smVars
           \/ main = "shutdown" /\ main' = "cancel" /\ Shutdown
           \/ /\ main' = main \/ main = "start" \/ main = "startMonitor"
              /\ \E s \in Services : OnConnected(s) \/ OnDisconnected(s)
<1> USE DEF TypeOK
<1>0. "scheduler" \in Services /\ "monitor" \in Services
  BY DEF Services
<1>1. ASSUME NEW s \in Services, LinkChanges(s) \/ LosesClient(s) PROVE UNCHANGED smVars
  BY <1>1 DEF LinkChanges, LosesClient
<1>2. CASE StartStep
  BY <1>0, <1>2 DEF StartStep, StartScheduler, StartMonitor, Register
<1>3. CASE StopBegin \/ StopStep \/ CloseMonitorReturns
  BY <1>3 DEF StopBegin, StopStep, StopReconnect, StopShutdown, StopCancel,
     StopWait, StopUnregister, CloseScheduler, CloseMonitor,
     CloseMonitorReturns
<1>4. CASE MonitorStep
  BY <1>4 DEF MonitorStep, MonitorTick, MonitorRead, MonitorIsConnected,
     MonitorIsDegraded, MonitorConnected, MonitorDisconnected, MonOK, mainVars
<1>5. CASE PollStep
  BY <1>5 DEF PollStep, PollTick, GetScheduledChecks, Dispatch, Spawn, pollRest
<1>6. ASSUME NEW r \in Recs, RecStep(r) \/ LoopError(r)
      PROVE  \/ UNCHANGED smVars
             \/ /\ main' = main
                /\ \E s \in Services : OnConnected(s) \/ OnDisconnected(s)
  BY <1>6 DEF RecStep, StartReconnect, LoopTop, LoopDelay, Reconnect,
     ReconnectReturn, ReconnectNotify, LoopError, RecOK, RecRow, mainVars
<1>7. ASSUME NEW k \in Checks, CheckStep(k) PROVE UNCHANGED smVars
  BY <1>7 DEF CheckStep, Gate, Acquire, ExecuteError, Execute, Submit, checkRest
<1>8. CASE UNCHANGED vars
  BY <1>8 DEF vars
<1> QED
  BY <1>1, <1>2, <1>3, <1>4, <1>5, <1>6, <1>7, <1>8 DEF Next, Ended

\* An update of the state machine keeps its type and computes updateState.
LEMMA OnChange ==
    ASSUME SmOK, NEW s \in Services, OnConnected(s) \/ OnDisconnected(s)
    PROVE  /\ conn' \in [Services -> BOOLEAN]
           /\ state' = updateState(state, conn')
           /\ state' \in ConnectionState
<1>1. conn' \in [Services -> BOOLEAN] /\ state' = updateState(state, conn')
  BY DEF SmOK, OnConnected, OnDisconnected
<1> QED BY <1>1, UpdateStateValue DEF SmOK

LEMMA SmType == TypeOK /\ [Next]_vars => SmOK'
<1> SUFFICES ASSUME TypeOK, [Next]_vars PROVE SmOK'
    OBVIOUS
<1>1. CASE UNCHANGED smVars
  BY <1>1 DEF TypeOK, SmOK, smVars
<1>2. CASE Shutdown
  BY <1>2 DEF Shutdown, SmOK, ConnectionState
<1>3. ASSUME NEW s \in Services, OnConnected(s) \/ OnDisconnected(s) PROVE SmOK'
  BY <1>3, OnChange DEF TypeOK, SmOK
<1> QED BY <1>1, <1>2, <1>3, StateSteps

LEMMA RecType == TypeOK /\ [Next]_vars => RecOK'
<1> SUFFICES ASSUME TypeOK, [Next]_vars PROVE RecOK'
    OBVIOUS
<1> USE DEF TypeOK, RecOK, recVars
<1>1. ASSUME NEW s \in Services, LinkChanges(s) \/ LosesClient(s) PROVE RecOK'
  BY <1>1 DEF LinkChanges, LosesClient
<1>2. CASE StartStep
  BY <1>2 DEF StartStep, StartScheduler, StartMonitor, Register
<1>3. CASE StopBegin \/ StopStep \/ CloseMonitorReturns
  BY <1>3 DEF StopBegin, StopStep, StopReconnect, StopShutdown, StopCancel,
     StopWait, StopUnregister, CloseScheduler, CloseMonitor,
     CloseMonitorReturns
<1>4. CASE MonitorStep
  <2>1. CASE MonitorDisconnected
    <3>1. PICK r \in Recs :
             rec' = [rec EXCEPT ![r] = [pc |-> "start", svc |-> mon.svc,
                                         failed |-> FALSE]]
      BY <2>1 DEF MonitorDisconnected
    <3>2. [pc |-> "start", svc |-> mon.svc, failed |-> FALSE] \in RecRow
      BY DEF RecRow, RecPCs, MonOK
    <3> QED BY <2>1, <3>1, <3>2 DEF MonitorDisconnected
  <2>2. CASE ~MonitorDisconnected
    BY <1>4, <2>2 DEF MonitorStep, MonitorTick, MonitorRead, MonitorIsConnected,
       MonitorIsDegraded, MonitorConnected
  <2> QED BY <2>1, <2>2
<1>5. CASE PollStep
  BY <1>5 DEF PollStep, PollTick, GetScheduledChecks, Dispatch, Spawn, pollRest
<1>6. ASSUME NEW r \in Recs, RecStep(r) \/ LoopError(r) PROVE RecOK'
  <2>1. active' \in BOOLEAN /\ stopChan' \in BOOLEAN
    BY <1>6 DEF RecStep, StartReconnect, LoopTop, LoopDelay, Reconnect,
       ReconnectReturn, ReconnectNotify, LoopError
  <2>2. PICK pc \in RecPCs, f \in BOOLEAN :
           \/ rec' = [rec EXCEPT ![r] = [rec[r] EXCEPT !.pc = pc]]
           \/ rec' = [rec EXCEPT ![r] = [rec[r] EXCEPT !.pc = pc, !.failed = f]]
    BY <1>6 DEF RecStep, StartReconnect, LoopTop, LoopDelay, Reconnect,
       ReconnectReturn, ReconnectNotify, LoopError, RecGoto, RecPCs, InReconnect
  <2>3. rec[r] \in RecRow
    OBVIOUS
  <2> QED BY <2>1, <2>2, <2>3, RecRowUpdate
<1>7. ASSUME NEW k \in Checks, CheckStep(k) PROVE RecOK'
  BY <1>7 DEF CheckStep, Gate, Acquire, ExecuteError, Execute, Submit, checkRest
<1>8. CASE UNCHANGED vars
  BY <1>8 DEF vars
<1> QED
  BY <1>1, <1>2, <1>3, <1>4, <1>5, <1>6, <1>7, <1>8 DEF Next, Ended

LEMMA MonType == TypeOK /\ [Next]_vars => MonOK'
<1> SUFFICES ASSUME TypeOK, [Next]_vars PROVE MonOK'
    OBVIOUS
<1> USE DEF TypeOK, MonOK
<1>1. CASE MonitorStep
  <2>1. CASE NextService
    BY <2>1 DEF NextService, Services
  <2>2. CASE ~NextService
    BY <1>1, <2>2 DEF MonitorStep, MonitorTick, MonitorRead, MonitorIsConnected,
       MonitorIsDegraded, MonitorConnected, MonitorDisconnected, Services, NetOK
  <2> QED BY <2>1, <2>2
<1>2. CASE UNCHANGED mon
  BY <1>2
<1>3. ASSUME NEW s \in Services, LinkChanges(s) \/ LosesClient(s) PROVE UNCHANGED mon
  BY <1>3 DEF LinkChanges, LosesClient
<1>4. CASE StartStep \/ StopBegin \/ StopStep \/ CloseMonitorReturns
  BY <1>4 DEF StartStep, StartScheduler, StartMonitor, Register, StopBegin, StopStep,
     StopReconnect, StopShutdown, StopCancel, StopWait, StopUnregister,
     CloseScheduler, CloseMonitor,
     CloseMonitorReturns
<1>5. CASE PollStep
  BY <1>5 DEF PollStep, PollTick, GetScheduledChecks, Dispatch, Spawn, pollRest
<1>6. ASSUME NEW r \in Recs, RecStep(r) \/ LoopError(r) PROVE UNCHANGED mon
  BY <1>6 DEF RecStep, StartReconnect, LoopTop, LoopDelay, Reconnect,
     ReconnectReturn, ReconnectNotify, LoopError
<1>7. ASSUME NEW k \in Checks, CheckStep(k) PROVE UNCHANGED mon
  BY <1>7 DEF CheckStep, Gate, Acquire, ExecuteError, Execute, Submit, checkRest
<1>8. CASE UNCHANGED vars
  BY <1>8 DEF vars
<1> QED
  BY <1>1, <1>2, <1>3, <1>4, <1>5, <1>6, <1>7, <1>8 DEF Next, Ended

\* Only Start and Stop move main, and only the step named.
LEMMA MainSteps ==
    ASSUME TypeOK, [Next]_vars
    PROVE  UNCHANGED mainVars \/ StartStep \/ StopBegin \/ StopStep \/ CloseMonitorReturns
<1>1. ASSUME NEW s \in Services, LinkChanges(s) \/ LosesClient(s) PROVE UNCHANGED mainVars
  BY <1>1 DEF LinkChanges, LosesClient
<1>2. CASE MonitorStep
  BY <1>2 DEF MonitorStep, MonitorTick, MonitorRead, MonitorIsConnected,
     MonitorIsDegraded, MonitorConnected, MonitorDisconnected
<1>3. CASE PollStep
  BY <1>3 DEF PollStep, PollTick, GetScheduledChecks, Dispatch, Spawn, pollRest
<1>4. ASSUME NEW r \in Recs, RecStep(r) \/ LoopError(r) PROVE UNCHANGED mainVars
  BY <1>4 DEF RecStep, StartReconnect, LoopTop, LoopDelay, Reconnect,
     ReconnectReturn, ReconnectNotify, LoopError
<1>5. ASSUME NEW k \in Checks, CheckStep(k) PROVE UNCHANGED mainVars
  BY <1>5 DEF CheckStep, Gate, Acquire, ExecuteError, Execute, Submit, checkRest
<1>6. CASE UNCHANGED vars
  BY <1>6 DEF vars
<1> QED
  BY <1>1, <1>2, <1>3, <1>4, <1>5, <1>6 DEF Next, Ended

LEMMA MainType == TypeOK /\ [Next]_vars => MainOK'
<1> SUFFICES ASSUME TypeOK, [Next]_vars PROVE MainOK'
    OBVIOUS
<1> USE DEF TypeOK, MainOK
<1>1. CASE UNCHANGED mainVars
  BY <1>1 DEF mainVars
<1>2. CASE StartStep
  BY <1>2 DEF StartStep, StartScheduler, StartMonitor, Register
<1>3. CASE StopBegin \/ StopStep \/ CloseMonitorReturns
  BY <1>3 DEF StopBegin, StopStep, StopReconnect, StopShutdown, StopCancel,
     StopWait, StopUnregister, CloseScheduler, CloseMonitor,
     CloseMonitorReturns, StopPCs
<1> QED BY <1>1, <1>2, <1>3, MainSteps

\* Only the poll loop and the checks themselves move a check.
LEMMA CheckSteps ==
    ASSUME TypeOK, [Next]_vars
    PROVE  UNCHANGED checkVars \/ PollStep \/ \E k \in Checks : CheckStep(k)
<1>1. ASSUME NEW s \in Services, LinkChanges(s) \/ LosesClient(s) PROVE UNCHANGED checkVars
  BY <1>1 DEF LinkChanges, LosesClient
<1>2. CASE MonitorStep
  BY <1>2 DEF MonitorStep, MonitorTick, MonitorRead, MonitorIsConnected,
     MonitorIsDegraded, MonitorConnected, MonitorDisconnected
<1>3. CASE StartStep \/ StopBegin \/ StopStep \/ CloseMonitorReturns
  BY <1>3 DEF StartStep, StartScheduler, StartMonitor, Register, StopBegin, StopStep,
     StopReconnect, StopShutdown, StopCancel, StopWait, StopUnregister,
     CloseScheduler, CloseMonitor,
     CloseMonitorReturns
<1>4. ASSUME NEW r \in Recs, RecStep(r) \/ LoopError(r) PROVE UNCHANGED checkVars
  BY <1>4 DEF RecStep, StartReconnect, LoopTop, LoopDelay, Reconnect,
     ReconnectReturn, ReconnectNotify, LoopError
<1>6. CASE UNCHANGED vars
  BY <1>6 DEF vars
<1> QED
  BY <1>1, <1>2, <1>3, <1>4, <1>6 DEF Next, Ended

LEMMA CheckType == TypeOK /\ [Next]_vars => CheckOK'
<1> SUFFICES ASSUME TypeOK, [Next]_vars PROVE CheckOK'
    OBVIOUS
<1> USE DEF TypeOK, CheckOK
<1>1. CASE UNCHANGED checkVars
  BY <1>1 DEF checkVars
<1>2. CASE PollStep
  BY <1>2 DEF PollStep, PollTick, GetScheduledChecks, Dispatch, Spawn, pollRest, CheckPCs
<1>3. ASSUME NEW k \in Checks, CheckStep(k) PROVE CheckOK'
  BY <1>3 DEF CheckStep, Gate, Acquire, ExecuteError, Execute, Submit, checkRest, CheckPCs
<1> QED BY <1>1, <1>2, <1>3, CheckSteps

\* Every variable of the Worker keeps its type.
THEOREM TypeCorrect == Spec => []TypeOK
<1>1. Init => TypeOK
  <2> SUFFICES ASSUME Init PROVE TypeOK
      OBVIOUS
  <2>1. NetOK /\ SmOK
    BY DEF Init, NetOK, SmOK, ConnectionState
  <2>2. RecOK
    BY DEF Init, RecOK, RecRow, RecPCs, Services
  <2>3. MonOK /\ MainOK /\ CheckOK
    BY DEF Init, MonOK, MainOK, CheckOK, CheckPCs, Services
  <2> QED BY <2>1, <2>2, <2>3 DEF TypeOK
<1>2. TypeOK /\ [Next]_vars => TypeOK'
  BY NetType, SmType, RecType, MonType, MainType, CheckType DEF TypeOK
<1> QED BY <1>1, <1>2, PTL DEF Spec

-----------------------------------------------------------------------------
(* The connection state machine. *)

\* The state of the machine is the one its two flags call for, whichever of
\* checkConnections, reconnectService, Start and Stop moved them last.
THEOREM StateAgreement == Spec => []StateAgrees
<1>1. Init => StateAgrees
  BY DEF Init, StateAgrees, Services
<1>2. TypeOK /\ StateAgrees /\ [Next]_vars => StateAgrees'
  <2> SUFFICES ASSUME TypeOK, StateAgrees, [Next]_vars PROVE StateAgrees'
      OBVIOUS
  <2>1. CASE UNCHANGED smVars
    BY <2>1 DEF StateAgrees, smVars
  <2>2. CASE Shutdown
    BY <2>2 DEF Shutdown, StateAgrees
  <2>3. ASSUME NEW s \in Services, OnConnected(s) \/ OnDisconnected(s)
        PROVE  StateAgrees'
    <3>1. /\ conn' \in [Services -> BOOLEAN]
          /\ state' = updateState(state, conn')
      BY <2>3, OnChange DEF TypeOK
    <3>2. state \in ConnectionState
      BY DEF TypeOK, SmOK
    <3> QED BY <3>1, <3>2, UpdateStateValue DEF StateAgrees, Services
  <2> QED BY <2>1, <2>2, <2>3, StateSteps
<1> QED BY <1>1, <1>2, TypeCorrect, PTL DEF Spec

\* No step takes the machine out of SHUTDOWN.
LEMMA ShutdownStays ==
    ASSUME TypeOK, [Next]_vars, state = "SHUTDOWN"
    PROVE  state' = "SHUTDOWN"
<1>1. CASE UNCHANGED smVars
  BY <1>1 DEF smVars
<1>2. CASE Shutdown
  BY <1>2 DEF Shutdown
<1>3. ASSUME NEW s \in Services, OnConnected(s) \/ OnDisconnected(s)
      PROVE  state' = "SHUTDOWN"
  BY <1>3, OnChange, UpdateStateValue DEF TypeOK, SmOK
<1> QED BY <1>1, <1>2, <1>3, StateSteps

-----------------------------------------------------------------------------
(* Graceful shutdown. *)

\* Why Add(1) after Wait does no harm: Stop shuts the state machine down before
\* it waits, and the gate of executeCheck is closed in SHUTDOWN.
DrainInv ==
    /\ main \in {"cancel", "wait", "unregister", "closeScheduler", "closeMonitor",
                 "closing", "stopped"} => state = "SHUTDOWN"
    /\ DrainedBeforeClose

LEMMA DrainInductive == TypeOK /\ DrainInv /\ [Next]_vars => DrainInv'
<1> SUFFICES ASSUME TypeOK, DrainInv, [Next]_vars PROVE DrainInv'
    OBVIOUS
<1>1. (main \in {"cancel", "wait", "unregister", "closeScheduler", "closeMonitor",
                 "closing", "stopped"} => state = "SHUTDOWN")'
  <2>1. CASE main' = main
    BY <2>1, ShutdownStays DEF DrainInv
  <2>2. CASE StartStep \/ StopBegin
    BY <2>2 DEF StartStep, StartScheduler, StartMonitor, Register, StopBegin
  <2>3. CASE StopStep \/ CloseMonitorReturns
    BY <2>3, ShutdownStays DEF DrainInv, StopStep, StopReconnect, StopShutdown,
       StopCancel, StopWait, StopUnregister, CloseScheduler, CloseMonitor,
     CloseMonitorReturns, Shutdown
  <2> QED BY <2>1, <2>2, <2>3, MainSteps DEF mainVars
<1>2. DrainedBeforeClose'
  <2> USE DEF DrainedBeforeClose, DrainInv
  <2>1. CASE UNCHANGED checkVars
    <3>1. CASE UNCHANGED mainVars
      BY <2>1, <3>1 DEF checkVars, mainVars
    <3>2. CASE StartStep \/ StopBegin
      BY <3>2 DEF StartStep, StartScheduler, StartMonitor, Register, StopBegin
    <3>3. CASE StopStep \/ CloseMonitorReturns
      BY <2>1, <3>3 DEF StopStep, StopReconnect, StopShutdown, StopCancel, StopWait,
         StopUnregister, CloseScheduler, CloseMonitor, CloseMonitorReturns, InFlight, checkVars
    <3> QED BY <3>1, <3>2, <3>3, MainSteps
  <2>2. CASE PollStep
    BY <2>2 DEF PollStep, PollTick, GetScheduledChecks, Dispatch, Spawn, pollRest,
       mainVars, TypeOK, CheckOK
  <2>3. ASSUME NEW k \in Checks, CheckStep(k) PROVE DrainedBeforeClose'
    <3>1. main' = main
      BY <2>3 DEF CheckStep, Gate, Acquire, ExecuteError, Execute, Submit,
         checkRest, mainVars
    <3>2. \/ check[k] \in {"gate", "exec", "submit"}
          \/ state # "SHUTDOWN"
          \/ check' = [check EXCEPT ![k] = "done"]
      BY <2>3 DEF CheckStep, Gate, Acquire, ExecuteError, Execute, Submit,
         CanExecuteChecks
    <3>3. \A j \in Checks : j # k => check'[j] = check[j]
      BY <2>3 DEF CheckStep, Gate, Acquire, ExecuteError, Execute, Submit,
         TypeOK, CheckOK
    <3> QED BY <3>1, <3>2, <3>3 DEF TypeOK, CheckOK
  <2> QED BY <2>1, <2>2, <2>3, CheckSteps
<1> QED BY <1>1, <1>2 DEF DrainInv

\* Once activeChecks.Wait() has returned, no check uses the clients that Stop
\* goes on to close, for any number of checks polled at any time.
THEOREM DrainsBeforeClose == Spec => []DrainedBeforeClose
<1>1. Init => DrainInv
  BY DEF Init, DrainInv, DrainedBeforeClose
<1>2. DrainInv => DrainedBeforeClose
  BY DEF DrainInv
<1> QED BY <1>1, <1>2, DrainInductive, TypeCorrect, PTL DEF Spec

-----------------------------------------------------------------------------
(* The reconnect manager. *)

\* At most one reconnect is in progress and active tells whether one is.
THEOREM ReconnectExclusion == Spec => []OneReconnect
<1>1. Init => OneReconnect
  BY DEF Init, OneReconnect, InReconnect
<1>2. TypeOK /\ OneReconnect /\ [Next]_vars => OneReconnect'
  <2> SUFFICES ASSUME TypeOK, OneReconnect, [Next]_vars PROVE OneReconnect'
      OBVIOUS
  <2> USE DEF OneReconnect
  <2>1. CASE UNCHANGED <<active, rec>>
    BY <2>1
  <2>2. CASE MonitorDisconnected
    BY <2>2 DEF MonitorDisconnected, InReconnect, TypeOK, RecOK
  <2>3. ASSUME NEW r \in Recs, RecStep(r) \/ LoopError(r) PROVE OneReconnect'
    <3>1. \A q \in Recs : q # r => rec'[q] = rec[q]
      BY <2>3 DEF RecStep, StartReconnect, LoopTop, LoopDelay, Reconnect,
         ReconnectReturn, ReconnectNotify, LoopError, RecGoto, TypeOK, RecOK
    <3>2. \/ /\ rec[r].pc = "start" /\ ~active
             /\ active' /\ rec'[r].pc = "loop"
          \/ /\ rec[r].pc \notin InReconnect /\ rec'[r].pc \notin InReconnect
             /\ active' = active
          \/ /\ rec[r].pc \in InReconnect /\ rec'[r].pc \in InReconnect
             /\ active' = active
          \/ /\ rec[r].pc \in InReconnect /\ rec'[r].pc \notin InReconnect
             /\ ~active'
      <4>1. rec[r] \in RecRow /\ rec \in [Recs -> RecRow]
        BY DEF TypeOK, RecOK
      <4> QED BY <2>3, <4>1 DEF RecStep, StartReconnect, LoopTop, LoopDelay, Reconnect,
             ReconnectReturn, ReconnectNotify, LoopError, RecGoto, InReconnect, RecRow
    <3>3. "loop" \in InReconnect /\ "start" \notin InReconnect
      BY DEF InReconnect
    <3>4. active \in BOOLEAN
      BY DEF TypeOK, RecOK
    <3> QED BY <3>1, <3>2, <3>3, <3>4
  <2>4. CASE MonitorStep /\ ~MonitorDisconnected
    BY <2>4 DEF MonitorStep, MonitorTick, MonitorRead, MonitorIsConnected,
       MonitorIsDegraded, MonitorConnected, recVars
  <2>5. CASE StartStep \/ StopBegin \/ StopStep \/ CloseMonitorReturns
    BY <2>5 DEF StartStep, StartScheduler, StartMonitor, Register, StopBegin, StopStep,
       StopReconnect, StopShutdown, StopCancel, StopWait, StopUnregister,
     CloseScheduler, CloseMonitor,
     CloseMonitorReturns, recVars
  <2>6. CASE PollStep
    BY <2>6 DEF PollStep, PollTick, GetScheduledChecks, Dispatch, Spawn, pollRest, recVars
  <2>7. ASSUME NEW k \in Checks, CheckStep(k) PROVE UNCHANGED <<active, rec>>
    BY <2>7 DEF CheckStep, Gate, Acquire, ExecuteError, Execute, Submit, checkRest, recVars
  <2>8. ASSUME NEW s \in Services, LinkChanges(s) \/ LosesClient(s) PROVE UNCHANGED <<active, rec>>
    BY <2>8 DEF LinkChanges, LosesClient, recVars
  <2>9. CASE UNCHANGED vars
    BY <2>9 DEF vars, recVars
  <2> QED
    BY <2>1, <2>2, <2>3, <2>4, <2>5, <2>6, <2>7, <2>8, <2>9 DEF Next, Ended
<1> QED BY <1>1, <1>2, TypeCorrect, PTL DEF Spec
=============================================================================
