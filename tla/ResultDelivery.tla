--------------------------- MODULE ResultDelivery ---------------------------
(***************************************************************************)
(* check-worker: how a check result reaches monitor-service.               *)
(*                                                                         *)
(* MonitorClient.SubmitCheckResult sends a result; when the call fails it  *)
(* puts the result into ResultQueue, a bounded FIFO with a time to live.   *)
(* flushQueue, under a mutex, sends the queue in batches and puts what     *)
(* fails back at the end.  It runs in a ticker loop, in a goroutine that   *)
(* every successful submission starts, and once more in Close.             *)
(*                                                                         *)
(* A call through retry.DoWithRetryAndIsRetryable is one step with the     *)
(* outcome of its last attempt: nil, or an error, and then the service may *)
(* or may not have received the result.  Time is counted in units of which *)
(* TTL make up the queue's ttl.                                            *)
(***************************************************************************)
EXTENDS Integers, Sequences, FiniteSets

CONSTANTS
    Results,    \* bound: the results submitted, one per executed check
    Unknown,    \* those whose monitor has been deleted (NotFound)
    MaxSize,    \* maxSize of the queue
    BatchSize,  \* batchSize of flushQueue (10)
    TTL,        \* ttl of the queue
    MaxNow,     \* bound: how long time passes
    None        \* the mutex is free

Loop == "loop"
Final == "final"
\* The goroutines that call flushQueue: the ticker loop, Close, and one for
\* every result whose submission succeeded.
Flushers == {Loop, Final} \cup Results

ASSUME ResultDeliveryAssumption ==
    /\ IsFiniteSet(Results) /\ Unknown \subseteq Results
    /\ {Loop, Final, None} \cap Results = {} /\ None \notin {Loop, Final}
    /\ MaxSize \in Nat \ {0} /\ BatchSize \in Nat \ {0}
    /\ TTL \in Nat \ {0} /\ MaxNow \in Nat

VARIABLES
    items,    \* ResultQueue.items, oldest first
    dropped,  \* ResultQueue.dropped
    now,      \* time.Now()
    up,       \* monitor-service answers
    ctxDone,  \* the worker's context is cancelled (Worker.Stop)
    sub,      \* where the submission of each result is
    mutex,    \* queueFlushMutex
    fl,       \* the flushQueue calls
    closing,  \* MonitorClient.Close
    received, \* ghost: results monitor-service has received
    expired,  \* ghost: number of items removed by the TTL
    ticket,   \* ghost: the order in which results were first queued
    flushed   \* ghost: the latest ticket a flush has delivered

queueVars == <<items, dropped, expired>>
ghostVars == <<received, ticket, flushed>>
vars == <<queueVars, now, up, ctxDone, sub, mutex, fl, closing, ghostVars>>

Item == [res : Results, at : 0..MaxNow]

\* Every variable keeps its type and the queue its bound.
TypeOK ==
    /\ items \in Seq(Item) /\ Len(items) <= MaxSize
    /\ dropped \in Nat /\ expired \in Nat
    /\ now \in 0..MaxNow
    /\ up \in BOOLEAN /\ ctxDone \in BOOLEAN
    /\ sub \in [Results -> {"new", "sending", "done"}]
    /\ mutex \in Flushers \cup {None}
    /\ fl \in [Flushers -> [pc : {"idle", "lock", "take", "send", "done"},
                            batch : Seq(Item), full : BOOLEAN]]
    /\ closing \in {"open", "wait", "flush", "failed", "closed", "closedDirty"}
    /\ received \subseteq Results
    /\ ticket \in [Results -> Nat] /\ flushed \in Nat

-----------------------------------------------------------------------------
(* result_queue.go *)

\* cleanupLocked: how many items at the head are not after the cutoff.  The
\* scan stops at the first fresh one.
cleanupCount(q) ==
    CHOOSE n \in 0..Len(q) :
        /\ \A i \in 1..n : q[i].at <= now - TTL
        /\ n < Len(q) => q[n + 1].at > now - TTL

cleanupLocked(q) == SubSeq(q, cleanupCount(q) + 1, Len(q))

\* Mutant: the evicted result is not counted.
EnqueueUncounted(r) ==
    LET q == cleanupLocked(items)
        over == Len(q) >= MaxSize
    IN  /\ items' = Append(IF over THEN Tail(q) ELSE q, [res |-> r, at |-> now])
        /\ UNCHANGED dropped
        /\ expired' = expired + cleanupCount(items)

\* Enqueue: cleanup, then evict the oldest item if the queue is full.
Enqueue(r) ==
    LET q == cleanupLocked(items)
        over == Len(q) >= MaxSize
    IN  /\ items' = Append(IF over THEN Tail(q) ELSE q, [res |-> r, at |-> now])
        /\ dropped' = IF over THEN dropped + 1 ELSE dropped
        /\ expired' = expired + cleanupCount(items)

\* DequeueBatch: its result, and what it leaves in the queue.
BatchLen == IF BatchSize > Len(items) THEN Len(items) ELSE BatchSize
DequeueBatch == SubSeq(items, 1, BatchLen)

\* Mutant: the batch is copied out of the queue and not removed.
AfterDequeueKeeps == items

AfterDequeue == SubSeq(items, BatchLen + 1, Len(items))

-----------------------------------------------------------------------------
(* The RPC, as the retry loop reports it. *)

\* A cancelled context fails the call before it leaves the worker; the final
\* flush of Close uses context.Background().
Cancelled(p) == ctxDone /\ p # Final

SendOk(p, r) ==
    /\ up /\ ~Cancelled(p) /\ r \notin Unknown
    /\ received' = received \cup {r}

SendError(p, r) ==
    \/ /\ Cancelled(p) \/ r \in Unknown
       /\ UNCHANGED received
    \/ /\ ~up /\ ~Cancelled(p) /\ r \notin Unknown
       /\ received' \in {received, received \cup {r}}

-----------------------------------------------------------------------------
(* SubmitCheckResult. *)

SubmitBegin(r) ==
    /\ sub[r] = "new" /\ ~ctxDone
    /\ sub' = [sub EXCEPT ![r] = "sending"]
    /\ UNCHANGED <<queueVars, now, up, ctxDone, mutex, fl, closing, ghostVars>>

\* Sent: go c.flushQueue(ctx).
SubmitOk(r) ==
    /\ sub[r] = "sending"
    /\ SendOk(r, r)
    /\ sub' = [sub EXCEPT ![r] = "done"]
    /\ fl' = [fl EXCEPT ![r].pc = "lock"]
    /\ UNCHANGED <<queueVars, now, up, ctxDone, mutex, closing, ticket, flushed>>

\* Not sent: queued.
SubmitQueue(r) ==
    /\ sub[r] = "sending"
    /\ SendError(r, r)
    /\ Enqueue(r)
    /\ sub' = [sub EXCEPT ![r] = "done"]
    /\ ticket' = [ticket EXCEPT ![r] =
                    1 + Cardinality({q \in Results : ticket[q] # 0})]
    /\ UNCHANGED <<now, up, ctxDone, mutex, fl, closing, flushed>>

-----------------------------------------------------------------------------
(* flushQueue, startFlushLoop. *)

\* Mutant: the deferred unlock is missing.
FlushReturnLocked(p, cl) ==
    /\ UNCHANGED mutex
    /\ fl' = [fl EXCEPT ![p] = [pc |-> IF p = Loop THEN "idle" ELSE "done",
                                batch |-> <<>>, full |-> FALSE]]
    /\ closing' = CASE p = Final /\ cl = "flush" -> "closed"
                    [] p = Final /\ cl = "failed" -> "closedDirty"
                    [] OTHER -> cl

\* flushQueue returns in goroutine p; for Close that is the end, cl telling
\* whether a send of its flush has failed.
FlushReturn(p, cl) ==
    /\ mutex' = None
    /\ fl' = [fl EXCEPT ![p] = [pc |-> IF p = Loop THEN "idle" ELSE "done",
                                batch |-> <<>>, full |-> FALSE]]
    /\ closing' = CASE p = Final /\ cl = "flush" -> "closed"
                    [] p = Final /\ cl = "failed" -> "closedDirty"
                    [] OTHER -> cl

\* The ticker fires in the loop; it may also win over flushCtx.Done.
FlushTick ==
    /\ fl[Loop].pc = "idle"
    /\ fl' = [fl EXCEPT ![Loop].pc = "lock"]
    /\ UNCHANGED <<queueVars, now, up, ctxDone, sub, mutex, closing, ghostVars>>

\* flushCtx.Done: the loop returns.
FlushLoopExit ==
    /\ fl[Loop].pc = "idle"
    /\ ctxDone
    /\ fl' = [fl EXCEPT ![Loop].pc = "done"]
    /\ UNCHANGED <<queueVars, now, up, ctxDone, sub, mutex, closing, ghostVars>>

\* Mutant: the queue's size is looked at before the mutex is taken.
FlushLockPeeks(p) ==
    /\ fl[p].pc = "lock"
    /\ \/ /\ items = <<>>
          /\ fl' = [fl EXCEPT ![p].pc = IF p = Loop THEN "idle" ELSE "done"]
          /\ closing' = IF p = Final THEN "closed" ELSE closing
          /\ UNCHANGED mutex
       \/ /\ items # <<>> /\ mutex = None
          /\ mutex' = p
          /\ fl' = [fl EXCEPT ![p].pc = "take"]
          /\ UNCHANGED closing
    /\ UNCHANGED <<queueVars, now, up, ctxDone, sub, ghostVars>>

\* Take the mutex; nothing to do when Stats says the queue is empty.
FlushLock(p) ==
    /\ fl[p].pc = "lock"
    /\ mutex = None
    /\ \/ /\ items = <<>>
          /\ FlushReturn(p, closing)
       \/ /\ items # <<>>
          /\ mutex' = p
          /\ fl' = [fl EXCEPT ![p].pc = "take"]
          /\ UNCHANGED closing
    /\ UNCHANGED <<queueVars, now, up, ctxDone, sub, ghostVars>>

\* DequeueBatch(batchSize); an empty batch ends the loop.
FlushTake(p) ==
    /\ fl[p].pc = "take"
    /\ \/ /\ items = <<>>
          /\ FlushReturn(p, closing)
          /\ UNCHANGED items
       \/ /\ items # <<>>
          /\ items' = AfterDequeue
          /\ fl' = [fl EXCEPT ![p] = [pc |-> "send", batch |-> DequeueBatch,
                                      full |-> BatchLen = BatchSize]]
          /\ UNCHANGED <<mutex, closing>>
    /\ UNCHANGED <<dropped, expired, now, up, ctxDone, sub, ghostVars>>

\* After the item at the head of p's batch: the next item, the next batch, or
\* the end when this batch was shorter than batchSize.
NextItem(p, cl) ==
    \/ /\ Len(fl[p].batch) > 1
       /\ fl' = [fl EXCEPT ![p].batch = Tail(fl[p].batch)]
       /\ closing' = cl
       /\ UNCHANGED mutex
    \/ /\ Len(fl[p].batch) = 1 /\ fl[p].full
       /\ fl' = [fl EXCEPT ![p] = [pc |-> "take", batch |-> <<>>, full |-> FALSE]]
       /\ closing' = cl
       /\ UNCHANGED mutex
    \/ /\ Len(fl[p].batch) = 1 /\ ~fl[p].full
       /\ FlushReturn(p, cl)

FlushSent(p) ==
    /\ fl[p].pc = "send"
    /\ LET r == Head(fl[p].batch).res IN
          /\ SendOk(p, r)
          /\ flushed' = IF ticket[r] > flushed THEN ticket[r] ELSE flushed
    /\ NextItem(p, closing)
    /\ UNCHANGED <<queueVars, now, up, ctxDone, sub, ticket>>

\* Mutant: a failed item is not put back.
FlushFailedForgets(p) ==
    /\ fl[p].pc = "send"
    /\ SendError(p, Head(fl[p].batch).res)
    /\ NextItem(p, IF p = Final THEN "failed" ELSE closing)
    /\ UNCHANGED <<queueVars, now, up, ctxDone, sub, ticket, flushed>>

\* A failed item is put back at the end of the queue.
FlushFailed(p) ==
    /\ fl[p].pc = "send"
    /\ SendError(p, Head(fl[p].batch).res)
    /\ Enqueue(Head(fl[p].batch).res)
    /\ NextItem(p, IF p = Final THEN "failed" ELSE closing)
    /\ UNCHANGED <<now, up, ctxDone, sub, ticket, flushed>>

-----------------------------------------------------------------------------
(* Worker.Stop and Close. *)

\* w.cancel(): the submissions and the flush loop share that context.
Cancel ==
    /\ ~ctxDone
    /\ ctxDone' = TRUE
    /\ UNCHANGED <<queueVars, now, up, sub, mutex, fl, closing, ghostVars>>

\* Close, called after activeChecks.Wait(), waits for the flush loop.
CloseBegin ==
    /\ closing = "open" /\ ctxDone
    /\ \A r \in Results : sub[r] # "sending"
    /\ closing' = "wait"
    /\ UNCHANGED <<queueVars, now, up, ctxDone, sub, mutex, fl, ghostVars>>

\* flushWg.Wait() returns; the final flush starts.
CloseFlush ==
    /\ closing = "wait"
    /\ fl[Loop].pc = "done"
    /\ closing' = "flush"
    /\ fl' = [fl EXCEPT ![Final].pc = "lock"]
    /\ UNCHANGED <<queueVars, now, up, ctxDone, sub, mutex, ghostVars>>

-----------------------------------------------------------------------------
Tick ==
    /\ now < MaxNow
    /\ now' = now + 1
    /\ UNCHANGED <<queueVars, up, ctxDone, sub, mutex, fl, closing, ghostVars>>

\* monitor-service goes away or comes back.
ServiceChanges ==
    /\ up' = ~up
    /\ UNCHANGED <<queueVars, now, ctxDone, sub, mutex, fl, closing, ghostVars>>

Init ==
    /\ items = <<>> /\ dropped = 0 /\ expired = 0
    /\ now = 0 /\ up \in BOOLEAN /\ ctxDone = FALSE
    /\ sub = [r \in Results |-> "new"]
    /\ mutex = None
    /\ fl = [p \in Flushers |-> [pc |-> "idle", batch |-> <<>>, full |-> FALSE]]
    /\ closing = "open"
    /\ received = {} /\ ticket = [r \in Results |-> 0] /\ flushed = 0

FlushStep(p) == FlushLock(p) \/ FlushTake(p) \/ FlushSent(p) \/ FlushFailed(p)
LoopStep == FlushTick \/ FlushLoopExit
CloseStep == CloseBegin \/ CloseFlush
Submission(r) == SubmitOk(r) \/ SubmitQueue(r)

Next ==
    \/ \E r \in Results : SubmitBegin(r) \/ Submission(r)
    \/ \E p \in Flushers : FlushStep(p)
    \/ LoopStep \/ Cancel \/ CloseStep \/ Tick \/ ServiceChanges

Spec == Init /\ [][Next]_vars

\* Calls return and goroutines run; the mutex is not handed out in order, but a
\* flusher that finds it free again and again gets it.  Nothing is assumed of
\* the service or of when the worker is stopped.
Fairness ==
    /\ \A r \in Results : WF_vars(Submission(r))
    /\ \A p \in Flushers : SF_vars(FlushLock(p)) /\ WF_vars(FlushStep(p))
    /\ WF_vars(LoopStep) /\ SF_vars(FlushLoopExit) /\ WF_vars(CloseStep)

FairSpec == Spec /\ Fairness

-----------------------------------------------------------------------------
(* Properties. *)

Held == {r \in Results : \E p \in Flushers :
            \E i \in DOMAIN fl[p].batch : fl[p].batch[i].res = r}
Queued == {r \in Results : \E i \in DOMAIN items : items[i].res = r}

\* No silent loss: a result that was submitted and that monitor-service does
\* not have is in the queue or in a batch being flushed, except for as many as
\* the dropped counter and the TTL account for.
LossesCounted ==
    Cardinality({r \in Results : sub[r] = "done"} \ (received \cup Held \cup Queued))
        <= dropped + expired

\* A result is in the queue or in a flush's hands at most once, so a flush that
\* races a submission or another flush never doubles it.
HeldOnce ==
    /\ Held \cap Queued = {}
    /\ \A i, j \in DOMAIN items : items[i].res = items[j].res => i = j
    /\ \A p \in Flushers : \A i, j \in DOMAIN fl[p].batch :
          fl[p].batch[i].res = fl[p].batch[j].res => i = j

\* Graceful shutdown: when Close returns and no send of its final flush failed,
\* nothing is left behind, neither in the queue nor with a straggling flush.
CleanClose == closing = "closed" => items = <<>> /\ Held = {}

\* Feature uc_10_03_06: with the service back for good and the worker running,
\* the queue is emptied of all it accepts, again and again, although refused
\* results are queued again behind them.
QueueEmptied ==
    <>[](up /\ ~ctxDone) => []<>(Queued \subseteq Unknown)

\* Feature uc_10_01_03: a stopping worker finishes, so Close returns.
CloseReturns == closing = "wait" ~> closing \in {"closed", "closedDirty"}

\* Feature uc_10_03_06, "в порядке FIFO": a flush does not deliver a result
\* that was queued before one that has already been flushed.
FlushedInOrder ==
    [][\A p \in Flushers : FlushSent(p) =>
         ticket[Head(fl[p].batch).res] > flushed]_vars

\* Feature uc_10_03_01e, "результат отброшен": a result that monitor-service
\* refused as MONITOR_NOT_FOUND is not queued.
UnknownDiscarded == \A r \in Unknown : r \notin Queued \cup Held
=============================================================================
