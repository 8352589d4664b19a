--------------------------- MODULE ResultBatcher ---------------------------
(***************************************************************************)
(* check-worker: ResultBatcher collects results by check id and submits    *)
(* them in batches, ignoring ids it has already sent.                      *)
(*                                                                         *)
(* flush takes the pending map under the mutex, submits it without the     *)
(* mutex, and takes the mutex again to put the batch back or to mark it as *)
(* sent, so flushes overlap with additions and with each other.  A result  *)
(* is a version number: reports of one check id are numbered as they come. *)
(* The counters, which nothing but GetStats reads, are left out.           *)
(***************************************************************************)
EXTENDS Integers, FiniteSets

CONSTANTS
    Ids,       \* check ids
    Versions,  \* bound: how often each id is reported
    MaxBatch,  \* config.MaxBatchSize
    Spawned    \* bound: flush goroutines of AddResult and Flush callers at once

Loop == "loop"
Final == "final"
Flushers == {Loop, Final} \cup Spawned
Reports == 0..Versions
NoResult == 0
Empty == [i \in Ids |-> NoResult]

ASSUME ResultBatcherAssumption ==
    /\ IsFiniteSet(Ids) /\ Versions \in Nat \ {0} /\ MaxBatch \in Nat \ {0}
    /\ {Loop, Final} \cap Spawned = {}

VARIABLES
    pending,  \* pendingResults: id -> result, NoResult when absent
    sent,     \* the keys of sentCheckIDs
    fl,       \* the flush calls, each with the batch it has taken
    closing,  \* Close
    added     \* how often each id has been reported to AddResult

vars == <<pending, sent, fl, closing, added>>

Keys(m) == {i \in Ids : m[i] # NoResult}

\* Every variable keeps its type; a flush carries results only while it sends.
TypeOK ==
    /\ pending \in [Ids -> Reports]
    /\ sent \subseteq Ids
    /\ fl \in [Flushers -> [pc : {"idle", "take", "send", "done"},
                            results : [Ids -> Reports]]]
    /\ \A p \in Flushers : fl[p].pc # "send" => fl[p].results = Empty
    /\ closing \in {"open", "drain", "last", "flush", "closed"}
    /\ added \in [Ids -> Reports]

-----------------------------------------------------------------------------
\* go b.flush(ctx), when the batch is full.
StartFlush(p) == fl' = [fl EXCEPT ![p] = [pc |-> "take", results |-> Empty]]

\* Nothing refuses a result while Close is under way or after it.
AddResult(i) ==
    /\ added[i] < Versions
    /\ added' = [added EXCEPT ![i] = @ + 1]
    /\ \/ i \in sent /\ UNCHANGED <<pending, fl>>
       \/ /\ i \notin sent
          /\ pending' = [pending EXCEPT ![i] = added'[i]]
          /\ \/ Cardinality(Keys(pending')) < MaxBatch /\ UNCHANGED fl
             \/ /\ Cardinality(Keys(pending')) >= MaxBatch
                /\ \E p \in Spawned : fl[p].pc = "idle" /\ StartFlush(p)
    /\ UNCHANGED <<sent, closing>>

\* The ticker fires; select may prefer it to flushCtx.Done.
FlushTick ==
    /\ fl[Loop].pc = "idle"
    /\ StartFlush(Loop)
    /\ UNCHANGED <<pending, sent, closing, added>>

\* Flush is called, also during and after Close.
Flush(p) ==
    /\ fl[p].pc = "idle"
    /\ StartFlush(p)
    /\ UNCHANGED <<pending, sent, closing, added>>

\* Where goroutine p is after flush has returned: the loop goes on, or has made
\* its last flush.
Returned(p) ==
    IF p = Final \/ (p = Loop /\ closing = "last") THEN "done" ELSE "idle"

\* Mutant: a batch that is not full is left for later.
FlushTakeFull(p) ==
    /\ fl[p].pc = "take"
    /\ IF Cardinality(Keys(pending)) < MaxBatch
       THEN /\ fl' = [fl EXCEPT ![p] = [pc |-> Returned(p), results |-> Empty]]
            /\ UNCHANGED pending
       ELSE /\ fl' = [fl EXCEPT ![p] = [pc |-> "send", results |-> pending]]
            /\ pending' = Empty
    /\ UNCHANGED <<sent, closing, added>>

\* flush, first critical section: take the map.
FlushTake(p) ==
    /\ fl[p].pc = "take"
    /\ pending' = Empty
    /\ fl' = [fl EXCEPT ![p] =
                IF pending = Empty
                THEN [pc |-> Returned(p), results |-> Empty]
                ELSE [pc |-> "send", results |-> pending]]
    /\ UNCHANGED <<sent, closing, added>>

PutBack(p) ==
    /\ pending' = [i \in Ids |-> IF fl[p].results[i] # NoResult
                                 THEN fl[p].results[i] ELSE pending[i]]
    /\ fl' = [fl EXCEPT ![p] = [pc |-> Returned(p), results |-> Empty]]

\* Mutant: a failed batch is not put back.
FlushErrorForgets(p) ==
    /\ fl[p].pc = "send"
    /\ fl' = [fl EXCEPT ![p] = [pc |-> Returned(p), results |-> Empty]]
    /\ UNCHANGED <<pending, sent, closing, added>>

\* SubmitCheckResults returned an error: second critical section, put back.
FlushError(p) ==
    /\ fl[p].pc = "send"
    /\ PutBack(p)
    /\ UNCHANGED <<sent, closing, added>>

\* It returned nil: second critical section, mark the ids as sent.
FlushOk(p) ==
    /\ fl[p].pc = "send"
    /\ sent' = sent \cup Keys(fl[p].results)
    /\ fl' = [fl EXCEPT ![p] = [pc |-> Returned(p), results |-> Empty]]
    /\ UNCHANGED <<pending, closing, added>>

\* Close: flushCancel ...
CloseBegin ==
    /\ closing = "open"
    /\ closing' = "drain"
    /\ UNCHANGED <<pending, sent, fl, added>>

\* ... flushCtx.Done in the loop, which flushes a last time ...
LoopDone ==
    /\ closing = "drain"
    /\ fl[Loop].pc = "idle"
    /\ closing' = "last"
    /\ StartFlush(Loop)
    /\ UNCHANGED <<pending, sent, added>>

\* ... flushWg.Wait(), and Close's own flush.
CloseFlush ==
    /\ closing = "last"
    /\ fl[Loop].pc = "done"
    /\ closing' = "flush"
    /\ StartFlush(Final)
    /\ UNCHANGED <<pending, sent, added>>

\* cleanupOldRecords keeps what was sent within a day; Close returns.
CloseReturn ==
    /\ closing = "flush"
    /\ fl[Final].pc = "done"
    /\ closing' = "closed"
    /\ UNCHANGED <<pending, sent, fl, added>>

-----------------------------------------------------------------------------
Init ==
    /\ pending = Empty
    /\ sent = {}
    /\ fl = [p \in Flushers |-> [pc |-> "idle", results |-> Empty]]
    /\ closing = "open"
    /\ added = Empty

FlushStep(p) == FlushTake(p) \/ FlushError(p) \/ FlushOk(p)
CloseStep == LoopDone \/ CloseFlush \/ CloseReturn

Next ==
    \/ \E i \in Ids : AddResult(i)
    \/ FlushTick
    \/ \E p \in Spawned : Flush(p)
    \/ \E p \in Flushers : FlushStep(p)
    \/ CloseBegin \/ CloseStep
    \/ closing = "closed" /\ UNCHANGED vars

Spec == Init /\ [][Next]_vars

\* Goroutines run and the ticker ticks.  Nothing is assumed of the service, of
\* the callers of AddResult, Flush and Close, or of what select prefers.
Fairness ==
    /\ \A p \in Flushers : WF_vars(FlushStep(p))
    /\ WF_vars(FlushTick)

FairSpec == Spec /\ Fairness

-----------------------------------------------------------------------------
(* Properties. *)

InFlight(i) == \E p \in Flushers : fl[p].results[i] # NoResult

\* No loss: an id that AddResult accepted is pending, in the hands of a flush,
\* or sent, at every point of overlapping additions, flushes and failures.
KeptUntilSent ==
    \A i \in Ids : added[i] # 0 => pending[i] # NoResult \/ InFlight(i) \/ i \in sent

\* The ids with a result that is pending or in the hands of a flush.
Held == {i \in Ids : pending[i] # NoResult \/ InFlight(i)}

Intake == INSTANCE ResultIntake
          WITH Items <- Ids,
               accepted <- {i \in Ids : added[i] # NoResult},
               held <- Held,
               delivered <- sent,
               open <- closing = "open"

\* A submission that is repeated for ever does not fail for ever.
ServiceRecovers == \A p \in Flushers : SF_vars(FlushOk(p))

\* The batcher implements the abstract intake: through overlapping additions,
\* flushes, failures and Close it never drops an id that AddResult accepted, also
\* one accepted during or after Close, and every other step leaves what is held
\* and what is sent as it was; and if the service recovers, an id is not kept for
\* ever while the batcher is open.
AtLeastOnce == Intake!IntakeSafe /\ (ServiceRecovers => Intake!IntakeFairness)

\* README "с дедупликацией": the service does not take the same check twice
\* when no submission failed.
SentOnce ==
    [][\A i \in Ids : i \in sent =>
         \A p \in Flushers : ~(FlushOk(p) /\ fl[p].results[i] # NoResult)]_vars

\* Close "отправляет оставшиеся результаты": when it returns, no batch is still
\* on its way.
NothingInFlightAfterClose ==
    closing = "closed" => \A i \in Ids : ~InFlight(i)
=============================================================================
