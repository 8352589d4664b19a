--------------------------- MODULE AlertDelivery ---------------------------
(***************************************************************************)
(* alert-service: delivery of one monitor's alerts and recoveries through  *)
(* notification channels.                                                  *)
(*                                                                         *)
(* A goroutine is a DeliverAlert or DeliverRecovery call, of which         *)
(* DeliverToAllChannels starts one per channel, or a background worker     *)
(* that calls ProcessPendingAttempts.  Every SQL statement and every send  *)
(* is a step of its own; goroutines meet in the tables alert_channels and  *)
(* delivery_attempts only.  A delivery creates at most one attempt, which  *)
(* therefore has its name.  Each goroutine works on a copy of the row and  *)
(* Update writes the whole copy.  The history fits into one rate-limit     *)
(* window.                                                                 *)
(***************************************************************************)
EXTENDS Integers, FiniteSets

CONSTANTS
    Deliveries,   \* bound: the DeliverAlert and DeliverRecovery calls
    Workers,      \* goroutines that run ProcessPendingAttempts
    Channels,     \* notification channels
    ChannelType,  \* their type column
    MaxRetries,   \* maxRetries of the service (3)
    MaxFailures,  \* maxChannelFailures (5)
    MaxPerWindow, \* maxDeliveriesPerRateLimitWindow (3)
    Errors,       \* bound: the error categories that sends meet
    MaxFaults,    \* bound: failing SQL statements and crashes
    Edits         \* bound: UpdateChannel and VerifyChannel calls

Types == {"email", "telegram", "webhook"}
Categories == {"transient", "permanent", "rate_limit", "timeout", "auth",
               "ssl_certificate", "unknown"}
Procs == Deliveries \cup Workers

ASSUME AlertDeliveryAssumption ==
    /\ IsFiniteSet(Deliveries) /\ IsFiniteSet(Workers)
    /\ Deliveries \cap Workers = {}
    /\ Channels # {} /\ ChannelType \in [Channels -> Types]
    /\ MaxRetries \in Nat /\ MaxFailures \in Nat \ {0} /\ MaxPerWindow \in Nat
    /\ Errors \subseteq Categories
    /\ MaxFaults \in Nat /\ Edits \in Nat

VARIABLES
    chan,         \* alert_channels: enabled, verified, failures
    row,          \* delivery_attempts
    proc,         \* the goroutines
    maintenance,  \* whether a maintenance window is active
    edit,         \* the UpdateChannel or VerifyChannel call under way
    edits,        \* how many there have been
    faults,       \* how many statements and processes have failed
    received,     \* ghost: attempts whose message the receiver has got
    streak,       \* ghost: failed sends of a channel since its last success,
                  \* up to MaxFailures
    result        \* what each delivery returned to DeliverToAllChannels

worldVars == <<maintenance, edit, edits>>
ghostVars == <<received, streak>>
vars == <<chan, row, proc, worldVars, faults, ghostVars, result>>

\* "none": the attempt has not been created.
Statuses == {"none", "pending", "success", "failed", "suppressed"}
\* next: next_retry_at is NULL, in the future, or past.
Row == [status : Statuses, retry : 0..MaxRetries, next : {"null", "future", "due"}]
ChannelRow == [enabled : BOOLEAN, verified : BOOLEAN, failures : Nat]
NewRow(st) == [status |-> st, retry |-> 0, next |-> "null"]

PCs == {"idle", "maint", "suppress", "limit", "create", "send", "retry", "fail",
        "disable", "update", "next", "done"}

\* The locals of a goroutine: the attempt (of a worker), the channel, the copy of
\* the row, the classified error, and the attempts the round has still to do;
\* ghost: whether the round began in a maintenance window.
Proc == [pc : PCs, att : Deliveries \cup {"none"}, ch : Channels \cup {"none"},
         recovery : BOOLEAN, copy : Row, err : Categories \cup {"none"},
         maint : BOOLEAN, todo : SUBSET (Deliveries \X Row)]

\* Every variable keeps its type; retry_count stays within the retry budget.
TypeOK ==
    /\ chan \in [Channels -> ChannelRow]
    /\ row \in [Deliveries -> Row]
    /\ proc \in [Procs -> Proc]
    /\ maintenance \in BOOLEAN
    /\ edit \in SUBSET (Channels \X ChannelRow) /\ edits \in 0..Edits
    /\ faults \in 0..MaxFaults
    /\ received \subseteq Deliveries /\ streak \in [Channels -> 0..MaxFailures]
    /\ result \in [Deliveries -> {"none", "success", "failed"}]

-----------------------------------------------------------------------------
(* model/delivery.go *)

Retryable(e) == e \in {"rate_limit", "transient", "timeout"}
ErrMaxRetries(e) == IF e = "rate_limit" THEN 5 ELSE 3

(* The repositories' queries. *)

\* Mutant: an attempt that was never scheduled is not listed.
ListPendingDue == {d \in Deliveries : row[d].status = "pending" /\ row[d].next = "due"}

ListPending ==
    {d \in Deliveries : row[d].status = "pending" /\ row[d].next \in {"null", "due"}}

\* The attempts of the window on channels of a type; all are of one monitor.
CountRecentByMonitorAndChannel(t) ==
    Cardinality({d \in Deliveries : row[d].status # "none"
                                    /\ ChannelType[proc[d].ch] = t})

\* isRateLimited passes "" as the type.
isRateLimited == CountRecentByMonitorAndChannel("") >= MaxPerWindow

-----------------------------------------------------------------------------
SetProc(p, q) == proc' = [proc EXCEPT ![p] = q]
Goto(p, pc) == SetProc(p, [proc[p] EXCEPT !.pc = pc])

\* A statement of goroutine p fails.
Fault == faults < MaxFaults /\ faults' = faults + 1

\* Goroutine p returns nil or an error and drops its copy.  A worker goes on
\* with the next attempt; DeliverToAllChannels records what a delivery returned.
Return(p, res) ==
    /\ SetProc(p, [proc[p] EXCEPT !.pc = IF p \in Workers THEN "next" ELSE "done",
                                  !.copy = NewRow("pending"), !.err = "none"])
    /\ result' = IF p \in Workers THEN result ELSE [result EXCEPT ![p] = res]

deliverRest == <<chan, worldVars, ghostVars>>

\* DeliverAlert and DeliverRecovery: the tests of the channel the caller has
\* read.  A recovery is not subject to maintenance and the rate limit.
Begin(d, c, recovery) ==
    /\ proc[d].pc = "idle"
    /\ \/ /\ ~(chan[c].enabled /\ chan[c].verified)
          /\ SetProc(d, [proc[d] EXCEPT !.pc = "done", !.ch = c])
          /\ result' = [result EXCEPT ![d] = "failed"]
       \/ /\ chan[c].enabled /\ chan[c].verified
          /\ SetProc(d, [proc[d] EXCEPT !.pc = IF recovery THEN "create" ELSE "maint",
                                        !.ch = c, !.recovery = recovery])
          /\ UNCHANGED result
    /\ UNCHANGED <<row, faults, deliverRest>>

\* IsUnderMaintenance; an error does not stop the delivery.
CheckMaintenance(d) ==
    /\ proc[d].pc = "maint"
    /\ \/ Goto(d, IF maintenance THEN "suppress" ELSE "limit") /\ UNCHANGED faults
       \/ Fault /\ Goto(d, "limit")
    /\ UNCHANGED <<row, result, deliverRest>>

\* A suppressed attempt is created; an error is only logged.
Suppress(d) ==
    /\ proc[d].pc = "suppress"
    /\ \/ row' = [row EXCEPT ![d] = NewRow("suppressed")] /\ UNCHANGED faults
       \/ Fault /\ UNCHANGED row
    /\ Return(d, "success")
    /\ UNCHANGED deliverRest

\* A failing count does not limit.
CheckRateLimit(d) ==
    /\ proc[d].pc = "limit"
    /\ \/ isRateLimited /\ Return(d, "failed") /\ UNCHANGED faults
       \/ ~isRateLimited /\ Goto(d, "create") /\ UNCHANGED <<faults, result>>
       \/ Fault /\ Goto(d, "create") /\ UNCHANGED result
    /\ UNCHANGED <<row, deliverRest>>

Create(d) ==
    /\ proc[d].pc = "create"
    /\ \/ row' = [row EXCEPT ![d] = proc[d].copy] /\ Goto(d, "send")
          /\ UNCHANGED <<faults, result>>
       \/ Fault /\ Return(d, "failed") /\ UNCHANGED row
    /\ UNCHANGED deliverRest

-----------------------------------------------------------------------------
(* ProcessPendingAttempts, processAttempt. *)

List(w) ==
    /\ proc[w].pc = "idle"
    /\ \/ /\ SetProc(w, [proc[w] EXCEPT !.pc = "next", !.maint = maintenance,
                              !.todo = {<<d, row[d]>> : d \in ListPending}])
          /\ UNCHANGED faults
       \/ Fault /\ UNCHANGED proc
    /\ UNCHANGED <<row, result, deliverRest>>

\* The next attempt of the list, its alert and its channel; if one of them
\* cannot be read the attempt is skipped.
NextAttempt(w) ==
    /\ proc[w].pc = "next"
    /\ \E a \in proc[w].todo :
          \/ /\ SetProc(w, [proc[w] EXCEPT !.pc = "send", !.todo = @ \ {a}, !.att = a[1],
                                           !.ch = proc[a[1]].ch, !.copy = a[2]])
             /\ UNCHANGED faults
          \/ Fault /\ SetProc(w, [proc[w] EXCEPT !.todo = @ \ {a}])
    /\ UNCHANGED <<row, result, deliverRest>>

RoundEnds(w) ==
    /\ proc[w].pc = "next" /\ proc[w].todo = {}
    /\ SetProc(w, [proc[w] EXCEPT !.pc = "idle", !.att = "none", !.ch = "none",
                                  !.maint = FALSE])
    /\ UNCHANGED <<row, result, faults, deliverRest>>

\* The attempt that goroutine p works on.
Attempt(p) == IF p \in Workers THEN proc[p].att ELSE p

\* Send succeeds.
SendOk(p) ==
    /\ proc[p].pc = "send"
    /\ received' = received \cup {Attempt(p)}
    /\ streak' = [streak EXCEPT ![proc[p].ch] = 0]
    /\ SetProc(p, [proc[p] EXCEPT !.pc = "update", !.copy.status = "success"])
    /\ UNCHANGED <<chan, row, worldVars, faults, result>>

RetryLeft(p, e) ==
    /\ p \in Workers /\ Retryable(e)
    /\ proc[p].copy.retry < MaxRetries /\ proc[p].copy.retry < ErrMaxRetries(e)

\* Mutant: the copy keeps the status of a delivery that went well.
SendErrorOptimistic(p, e) ==
    /\ proc[p].pc = "send"
    /\ received' \in {received, IF e = "timeout" THEN received \cup {Attempt(p)} ELSE received}
    /\ streak' = [streak EXCEPT ![proc[p].ch] = IF @ < MaxFailures THEN @ + 1 ELSE @]
    /\ SetProc(p, [proc[p] EXCEPT !.pc = IF RetryLeft(p, e) THEN "retry" ELSE "fail",
                                  !.copy.status = "success", !.err = e])
    /\ UNCHANGED <<chan, row, worldVars, faults, result>>

\* Send fails, classified as e; on a timeout the message may have arrived.
\* Only processAttempt schedules retries.
SendError(p, e) ==
    /\ proc[p].pc = "send"
    /\ received' \in {received, IF e = "timeout" THEN received \cup {Attempt(p)} ELSE received}
    /\ streak' = [streak EXCEPT ![proc[p].ch] = IF @ < MaxFailures THEN @ + 1 ELSE @]
    /\ SetProc(p, [proc[p] EXCEPT !.pc = IF RetryLeft(p, e) THEN "retry" ELSE "fail",
                                  !.copy.status = "failed", !.err = e])
    /\ UNCHANGED <<chan, row, worldVars, faults, result>>

\* The copy after ScheduleRetry: its status is still failed.
Scheduled(p) ==
    LET n == proc[p].copy.retry + 1 IN
    IF n >= MaxRetries \/ n >= ErrMaxRetries(proc[p].err)
    THEN [proc[p].copy EXCEPT !.retry = n]
    ELSE [proc[p].copy EXCEPT !.retry = n, !.next = "future"]

\* ScheduleRetry; when its Update fails, processAttempt returns at once.
ScheduleRetry(w) ==
    /\ proc[w].pc = "retry"
    /\ \/ /\ row' = [row EXCEPT ![proc[w].att] = Scheduled(w)]
          /\ SetProc(w, [proc[w] EXCEPT !.pc = "fail", !.copy = Scheduled(w)])
          /\ UNCHANGED <<faults, result>>
       \/ Fault /\ Return(w, "failed") /\ UNCHANGED row
    /\ UNCHANGED deliverRest

\* Mutant: the threshold is compared too late.
IncrementFailureCountLate(c, p) ==
    /\ chan' = [chan EXCEPT ![c].failures = @ + 1]
    /\ Goto(p, IF chan[c].failures >= MaxFailures THEN "disable" ELSE "update")

\* IncrementFailureCount returns the new count.
IncrementFailureCount(c, p) ==
    /\ chan' = [chan EXCEPT ![c].failures = @ + 1]
    /\ Goto(p, IF chan'[c].failures >= MaxFailures THEN "disable" ELSE "update")

\* handleChannelFailure: an auth error disables the channel at once.
handleChannelFailure(p) ==
    /\ proc[p].pc = "fail"
    /\ \/ proc[p].err = "auth" /\ Goto(p, "disable") /\ UNCHANGED <<chan, faults>>
       \/ /\ proc[p].err # "auth"
          /\ \/ IncrementFailureCount(proc[p].ch, p) /\ UNCHANGED faults
             \/ Fault /\ Goto(p, "update") /\ UNCHANGED chan
    /\ UNCHANGED <<row, worldVars, ghostVars, result>>

DisableChannel(p) ==
    /\ proc[p].pc = "disable"
    /\ \/ chan' = [chan EXCEPT ![proc[p].ch].enabled = FALSE] /\ UNCHANGED faults
       \/ Fault /\ UNCHANGED chan
    /\ Goto(p, "update")
    /\ UNCHANGED <<row, worldVars, ghostVars, result>>

\* The final Update.  A failed send is no error of the delivery.
Update(p) ==
    /\ proc[p].pc = "update"
    /\ \/ /\ row' = [row EXCEPT ![Attempt(p)] = proc[p].copy]
          /\ Return(p, "success") /\ UNCHANGED faults
       \/ Fault /\ Return(p, "failed") /\ UNCHANGED row
    /\ UNCHANGED deliverRest

-----------------------------------------------------------------------------
(* channel_service.go: read, change and write the whole channel row. *)

EditBegin(c) ==
    /\ edit = {} /\ edits < Edits
    /\ edit' = {<<c, chan[c]>>}
    /\ edits' = edits + 1
    /\ UNCHANGED <<chan, row, proc, maintenance, faults, ghostVars, result>>

\* UpdateChannel; failure_count is written back as it was read.
UpdateChannel(enabled) ==
    /\ \E e \in edit : chan' = [chan EXCEPT ![e[1]] = [e[2] EXCEPT !.enabled = enabled]]
    /\ edit' = {}
    /\ UNCHANGED <<row, proc, maintenance, edits, faults, ghostVars, result>>

\* VerifyChannel: nothing to do for a verified channel.
VerifyChannel ==
    /\ \E e \in edit :
          chan' = IF e[2].verified THEN chan
                  ELSE [chan EXCEPT ![e[1]] = [e[2] EXCEPT !.verified = TRUE,
                                                           !.failures = 0]]
    /\ edit' = {}
    /\ UNCHANGED <<row, proc, maintenance, edits, faults, ghostVars, result>>

\* validateChannel refuses the new fields, or the write fails.
EditFails ==
    /\ edit # {} /\ edit' = {}
    /\ UNCHANGED <<chan, row, proc, maintenance, edits, faults, ghostVars, result>>

-----------------------------------------------------------------------------
\* A maintenance window begins or ends.
MaintenanceChanges ==
    /\ maintenance' = ~maintenance
    /\ UNCHANGED <<chan, row, proc, edit, edits, faults, ghostVars, result>>

\* next_retry_at passes.
RetryDue(d) ==
    /\ row[d].next = "future"
    /\ row' = [row EXCEPT ![d].next = "due"]
    /\ UNCHANGED <<chan, proc, worldVars, faults, ghostVars, result>>

\* The process dies.  A delivery is not repeated; the worker starts again.
Crash(p) ==
    /\ proc[p].pc \notin {"idle", "done"}
    /\ Fault
    /\ SetProc(p, [proc[p] EXCEPT !.pc = IF p \in Workers THEN "idle" ELSE "done",
                                  !.copy = NewRow("pending"), !.err = "none",
                                  !.todo = {}])
    /\ UNCHANGED <<row, result, deliverRest>>

\* Channels as CreateChannel leaves them, or verified since.
Init ==
    /\ \E v \in [Channels -> BOOLEAN] :
          chan = [c \in Channels |-> [enabled |-> TRUE, verified |-> v[c], failures |-> 0]]
    /\ row = [d \in Deliveries |-> NewRow("none")]
    /\ proc = [p \in Procs |->
                 [pc |-> "idle", att |-> "none", ch |-> "none", recovery |-> FALSE,
                  copy |-> NewRow("pending"), err |-> "none", maint |-> FALSE,
                  todo |-> {}]]
    /\ maintenance = FALSE
    /\ edit = {} /\ edits = 0
    /\ faults = 0
    /\ received = {}
    /\ streak = [c \in Channels |-> 0]
    /\ result = [d \in Deliveries |-> "none"]

Sending(p) == SendOk(p) \/ \E e \in Errors : SendError(p, e)
FailureStep(p) == handleChannelFailure(p) \/ DisableChannel(p)
AlertStep(d) == \/ CheckMaintenance(d) \/ Suppress(d) \/ CheckRateLimit(d) \/ Create(d)
                \/ Sending(d) \/ FailureStep(d) \/ Update(d)
WorkerStep(w) == \/ List(w) \/ NextAttempt(w) \/ RoundEnds(w) \/ ScheduleRetry(w)
                 \/ Sending(w) \/ FailureStep(w) \/ Update(w)

Next ==
    \/ \E d \in Deliveries :
          \/ \E c \in Channels, recovery \in BOOLEAN : Begin(d, c, recovery)
          \/ AlertStep(d) \/ RetryDue(d)
    \/ \E w \in Workers : WorkerStep(w)
    \/ \E p \in Procs : Crash(p)
    \/ \E c \in Channels : EditBegin(c)
    \/ \E enabled \in BOOLEAN : UpdateChannel(enabled)
    \/ VerifyChannel \/ EditFails
    \/ MaintenanceChanges

Spec == Init /\ [][Next]_vars

\* Goroutines run, statements and sends return, time passes; doc.go's background
\* worker calls ProcessPendingAttempts again and again.  The bound MaxFaults
\* stands for a database that does not fail for ever.
Fairness ==
    /\ \A d \in Deliveries : WF_vars(AlertStep(d)) /\ WF_vars(RetryDue(d))
    /\ \A w \in Workers : WF_vars(WorkerStep(w))

FairSpec == Spec /\ Fairness

-----------------------------------------------------------------------------
(* Properties. *)

\* An attempt that is recorded as a success did reach the receiver, whichever
\* of DeliverAlert and processAttempt wrote the row last.
SuccessWasSent ==
    \A d \in Deliveries : row[d].status = "success" => d \in received

\* handleChannelFailure: unless a statement has failed, a process has died or
\* somebody has edited the channel, a channel at the threshold is disabled, or the
\* goroutine that took it there is about to disable it, whichever goroutines
\* count failures at the same time.
DisabledAtThreshold ==
    \A c \in Channels : faults = 0 /\ edits = 0 /\ chan[c].failures >= MaxFailures =>
        \/ ~chan[c].enabled
        \/ \E p \in Procs : proc[p].pc = "disable" /\ proc[p].ch = c

\* Crash recovery: an attempt does not stay pending, although the process that
\* created it may have died, or failed to write its outcome.
AttemptSettled ==
    \A d \in Deliveries : row[d].status = "pending" ~> row[d].status # "pending"

\* Feature uc_02_03_07, "rate limit active": within one window no more alerts
\* are delivered than the limit.
RateLimited ==
    Cardinality({d \in Deliveries : d \in received /\ ~proc[d].recovery}) <= MaxPerWindow

\* Feature uc_02_03_09, "retry #1 scheduled": an attempt that failed for a
\* transient reason and has a retry scheduled is sent again, unless its channel
\* has been disabled.
RetryHappens ==
    \A d \in Deliveries :
        (row[d].status = "failed" /\ row[d].next = "due")
            ~> ((\E p \in Procs : Attempt(p) = d /\ proc[p].pc = "send")
                    \/ \E c \in Channels : proc[d].ch = c /\ ~chan[c].enabled)

\* Feature uc_02_01_34, "N последовательных ошибок": a channel is disabled for
\* failures only when that many came in a row.
OnlyConsecutive ==
    [][\A p \in Procs : DisableChannel(p) /\ proc[p].err # "auth" =>
          streak[proc[p].ch] >= MaxFailures]_vars

\* Feature uc_02_02_38, "доставка в канал помечена как FAILED": a delivery that
\* DeliverToAllChannels counts as successful was sent or suppressed.
ResultTruthful ==
    \A d \in Deliveries : result[d] = "success" =>
        d \in received \/ row[d].status = "suppressed"

\* Feature uc_02_03 "Подавление алертов во время maintenance window": a round of
\* ProcessPendingAttempts that starts in a window sends no alert during it.
MaintenanceSilent ==
    [][\A w \in Workers : SendOk(w) /\ proc[w].maint /\ maintenance =>
          proc[Attempt(w)].recovery]_vars
=============================================================================
