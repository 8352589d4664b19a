------------------------ MODULE AlertDelivery_proofs ------------------------
(***************************************************************************)
(* Proofs about AlertDelivery for any number of deliveries, workers,       *)
(* channels, faults and channel edits.                                     *)
(*                                                                         *)
(* Every action but the edits of channels, the clock and the maintenance   *)
(* windows replaces the locals of one goroutine.  StepFacts lists what the *)
(* invariant asks of such a replacement; each action is shown to meet it,  *)
(* and StepLemma draws the conclusion once.                                *)
(***************************************************************************)
EXTENDS AlertDelivery, TLAPS

\* Where a goroutine works on an attempt.
Busy == {"send", "retry", "fail", "disable", "update"}

\* The locals q of goroutine p name its channel and, if p is a worker, its attempt,
\* whose delivery has begun.
Placed(p, q) ==
    /\ q.ch \in Channels
    /\ p \in Workers => q.att \in Deliveries /\ proc[q.att].pc # "idle"

\* A goroutine at work knows its attempt and its channel, and so does everyone
\* who may hand an attempt to a worker; retries are scheduled by workers that
\* have some left.
ProcOK ==
    /\ \A p \in Procs : proc[p].pc \in Busy => Placed(p, proc[p])
    /\ \A p \in Procs : proc[p].pc = "retry" =>
          p \in Workers /\ proc[p].copy.retry < MaxRetries
    /\ \A d \in Deliveries : proc[d].pc # "idle" => proc[d].ch \in Channels
    /\ \A d \in Deliveries : row[d].status # "none" => proc[d].pc # "idle"
    /\ \A p \in Procs : \A a \in proc[p].todo : proc[a[1]].pc # "idle"

\* A copy or a row says "success" only after the send; workers are handed rows
\* that were pending.
SentOK ==
    /\ SuccessWasSent
    /\ \A p \in Procs : proc[p].copy.status = "success" =>
          proc[p].pc = "update" /\ Attempt(p) \in received
    /\ \A p \in Procs : \A a \in proc[p].todo : a[2].status = "pending"

Inv == TypeOK /\ ProcOK /\ SentOK

\* The types of everything but the goroutines.
TablesOK ==
    /\ chan \in [Channels -> ChannelRow]
    /\ row \in [Deliveries -> Row]
    /\ maintenance \in BOOLEAN
    /\ edit \in SUBSET (Channels \X ChannelRow) /\ edits \in 0..Edits
    /\ faults \in 0..MaxFaults
    /\ received \subseteq Deliveries /\ streak \in [Channels -> 0..MaxFailures]
    /\ result \in [Deliveries -> {"none", "success", "failed"}]

\* What the new locals q of goroutine p have to satisfy.
LocalFacts(p, q) ==
    /\ q \in Proc
    /\ p \in Deliveries => q.pc # "idle" /\ q.ch \in Channels
    /\ q.pc \in Busy => Placed(p, q)
    /\ q.pc = "retry" => p \in Workers /\ q.copy.retry < MaxRetries
    /\ \A a \in q.todo : a[2].status = "pending" /\ proc[a[1]].pc # "idle"

StepFacts(p, q) ==
    /\ SetProc(p, q)
    /\ LocalFacts(p, q)
    /\ q.copy.status = "success" =>
          q.pc = "update" /\ (IF p \in Workers THEN q.att ELSE p) \in received'
    /\ received \subseteq received'
    /\ \A d \in Deliveries : row'[d].status # "none" => proc[d].pc # "idle"
    /\ \A d \in Deliveries : row'[d].status = "success" => d \in received'

USE DEF Procs, Placed

-----------------------------------------------------------------------------
LEMMA NewRowType == \A st \in Statuses : NewRow(st) \in Row /\ NewRow(st).status = st
BY AlertDeliveryAssumption DEF NewRow, Row, Statuses

LEMMA InitInv == Init => Inv
<1> SUFFICES ASSUME Init PROVE Inv
  OBVIOUS
<1>1. TypeOK
  <2>1. chan \in [Channels -> ChannelRow]
    BY DEF Init, ChannelRow
  <2>2. row \in [Deliveries -> Row]
    BY NewRowType DEF Init, Statuses
  <2>3. proc \in [Procs -> Proc]
    BY NewRowType DEF Init, Proc, PCs, Statuses
  <2>4. streak \in [Channels -> 0..MaxFailures] /\ faults \in 0..MaxFaults /\ edits \in 0..Edits
    BY AlertDeliveryAssumption DEF Init
  <2> QED
    BY <2>1, <2>2, <2>3, <2>4 DEF Init, TypeOK
<1>2. ProcOK
  BY DEF Init, ProcOK, Busy, NewRow
<1>3. SentOK
  BY DEF Init, SentOK, SuccessWasSent, NewRow
<1> QED
  BY <1>1, <1>2, <1>3 DEF Inv

LEMMA StepLemma ==
    ASSUME Inv, NEW p \in Procs, NEW q, StepFacts(p, q), TablesOK'
    PROVE  Inv'
<1> USE AlertDeliveryAssumption
<1>1. /\ proc' \in [Procs -> Proc] /\ proc'[p] = q
      /\ \A r \in Procs : r # p => proc'[r] = proc[r]
  BY DEF StepFacts, LocalFacts, SetProc, Inv, TypeOK
<1>2. TypeOK'
  BY <1>1 DEF TablesOK, TypeOK
<1>3. \A d \in Deliveries : proc[d].pc # "idle" => proc'[d].pc # "idle"
  BY <1>1 DEF StepFacts, LocalFacts
<1>4. \A r \in Procs : \A a \in proc'[r].todo : a[1] \in Deliveries /\ a[2] \in Row
  BY <1>1 DEF Proc
<1>5. \A r \in Procs : \A a \in proc'[r].todo :
         a[2].status = "pending" /\ proc'[a[1]].pc # "idle"
  <2> TAKE r \in Procs
  <2> TAKE a \in proc'[r].todo
  <2>1. proc[a[1]].pc # "idle" /\ a[2].status = "pending"
    BY <1>1 DEF StepFacts, LocalFacts, Inv, ProcOK, SentOK
  <2> QED
    BY <2>1, <1>3, <1>4
<1>6. ProcOK'
  BY <1>1, <1>3, <1>5 DEF StepFacts, LocalFacts, Inv, ProcOK
<1>7. SentOK'
  BY <1>1, <1>5 DEF StepFacts, Inv, SentOK, SuccessWasSent, Attempt
<1> QED
  BY <1>2, <1>6, <1>7 DEF Inv

\* What a step that leaves the row table and the messages alone has to show.
LEMMA LocalStep ==
    ASSUME Inv, NEW p \in Procs, NEW q, SetProc(p, q), LocalFacts(p, q), TablesOK',
           q.copy.status # "success" \/ (q.copy = proc[p].copy /\ q.att = proc[p].att
                                            /\ q.pc = proc[p].pc),
           UNCHANGED <<row, received>>
    PROVE  Inv'
<1>1. q.copy.status = "success" =>
        q.pc = "update" /\ (IF p \in Workers THEN q.att ELSE p) \in received'
  BY DEF Inv, SentOK, Attempt
<1>2. StepFacts(p, q)
  BY <1>1 DEF StepFacts, Inv, ProcOK, SentOK, SuccessWasSent
<1> QED BY <1>2, StepLemma

\* Changing the pc alone.
LEMMA GotoFacts ==
    ASSUME Inv, NEW p \in Procs, NEW x \in PCs, x # "idle", x # "retry",
           p \in Deliveries => proc[p].pc # "idle",
           x \in Busy => Placed(p, proc[p])
    PROVE  LocalFacts(p, [proc[p] EXCEPT !.pc = x])
<1>1. [proc[p] EXCEPT !.pc = x] \in Proc
  BY DEF Inv, TypeOK, Proc
<1> QED
  BY <1>1 DEF LocalFacts, Inv, TypeOK, ProcOK, SentOK, Proc

\* Return.
LEMMA ReturnFacts ==
    ASSUME Inv, NEW p \in Procs, p \in Deliveries => proc[p].pc # "idle",
           NEW x \in {"next", "done"},
           NEW q, q = [proc[p] EXCEPT !.pc = x, !.copy = NewRow("pending"), !.err = "none"]
    PROVE  LocalFacts(p, q) /\ q.copy.status = "pending"
<1>1. NewRow("pending") \in Row /\ NewRow("pending").status = "pending"
  BY NewRowType DEF Statuses
<1>a. proc[p] \in Proc
  BY DEF Inv, TypeOK
<1>2. q \in Proc
  BY <1>1, <1>a DEF Proc, PCs
<1>3. q.pc = x /\ q.ch = proc[p].ch /\ q.todo = proc[p].todo /\ q.copy = NewRow("pending")
  BY DEF Inv, TypeOK, Proc
<1> QED
  BY <1>1, <1>2, <1>3 DEF LocalFacts, Inv, ProcOK, SentOK, Busy

LEMMA ReturnInv ==
    ASSUME Inv, NEW p \in Procs, p \in Deliveries => proc[p].pc # "idle",
           NEW res \in {"success", "failed"}, Return(p, res),
           UNCHANGED received,
           \A d \in Deliveries : row'[d].status # "none" => proc[d].pc # "idle",
           \A d \in Deliveries : row'[d].status = "success" => d \in received,
           result' \in [Deliveries -> {"none", "success", "failed"}] => TablesOK'
    PROVE  Inv'
<1> DEFINE x == IF p \in Workers THEN "next" ELSE "done"
<1> DEFINE q == [proc[p] EXCEPT !.pc = x, !.copy = NewRow("pending"), !.err = "none"]
<1>1. x \in {"next", "done"}
  OBVIOUS
<1>2. SetProc(p, q)
  BY DEF Return
<1>3. LocalFacts(p, q) /\ q.copy.status = "pending"
  BY <1>1, ReturnFacts
<1>4. TablesOK'
  BY DEF Return, Inv, TypeOK
<1> HIDE DEF x, q
<1>5. StepFacts(p, q)
  BY <1>2, <1>3 DEF StepFacts
<1> QED
  BY <1>4, <1>5, StepLemma

USE DEF deliverRest, worldVars, ghostVars

\* DeliverAlert and DeliverRecovery up to the send.
LEMMA BeginInv ==
    ASSUME Inv, NEW d \in Deliveries, NEW c \in Channels, NEW recovery \in BOOLEAN,
           Begin(d, c, recovery)
    PROVE  Inv'
<1> DEFINE q1 == [proc[d] EXCEPT !.pc = "done", !.ch = c]
           q2 == [proc[d] EXCEPT !.pc = IF recovery THEN "create" ELSE "maint",
                                 !.ch = c, !.recovery = recovery]
<1>1. TablesOK'
  BY DEF Begin, Inv, TypeOK, TablesOK
<1>2. proc[d] \in Proc
  BY DEF Inv, TypeOK
<1>3. /\ q1 \in Proc /\ q1.pc = "done" /\ q1.ch = c /\ q1.todo = proc[d].todo
      /\ q1.copy = proc[d].copy
  BY <1>2 DEF Proc, PCs
<1>4. /\ q2 \in Proc /\ q2.pc \in {"create", "maint"} /\ q2.ch = c
      /\ q2.todo = proc[d].todo /\ q2.copy = proc[d].copy
  BY <1>2 DEF Proc, PCs
<1>5. SetProc(d, q1) \/ SetProc(d, q2)
  BY DEF Begin
<1>6. proc[d].copy.status # "success" /\ UNCHANGED <<row, received>>
  BY DEF Begin, Inv, SentOK
<1> HIDE DEF q1, q2
<1>7. LocalFacts(d, q1) /\ LocalFacts(d, q2)
  BY <1>3, <1>4 DEF LocalFacts, Inv, ProcOK, SentOK, Busy
<1> QED
  BY <1>1, <1>3, <1>4, <1>5, <1>6, <1>7, LocalStep

LEMMA CheckMaintenanceInv ==
    ASSUME Inv, NEW d \in Deliveries, CheckMaintenance(d)
    PROVE  Inv'
<1>1. PICK x \in {"suppress", "limit"} : Goto(d, x)
  BY DEF CheckMaintenance
<1>2. TablesOK'
  BY AlertDeliveryAssumption DEF CheckMaintenance, Fault, Inv, TypeOK, TablesOK
<1>3. LocalFacts(d, [proc[d] EXCEPT !.pc = x])
  BY <1>1, GotoFacts DEF CheckMaintenance, PCs, Busy
<1>4. /\ [proc[d] EXCEPT !.pc = x].copy = proc[d].copy /\ proc[d].copy.status # "success"
      /\ UNCHANGED <<row, received>>
  BY DEF CheckMaintenance, Inv, TypeOK, SentOK, Proc
<1> QED
  BY <1>1, <1>2, <1>3, <1>4, LocalStep DEF Goto

LEMMA SuppressInv ==
    ASSUME Inv, NEW d \in Deliveries, Suppress(d)
    PROVE  Inv'
<1>1. NewRow("suppressed") \in Row /\ NewRow("suppressed").status = "suppressed"
  BY NewRowType DEF Statuses
<1>2. result' \in [Deliveries -> {"none", "success", "failed"}] => TablesOK'
  BY <1>1, AlertDeliveryAssumption DEF Suppress, Fault, Inv, TypeOK, TablesOK
<1>3. /\ \A e \in Deliveries : row'[e].status # "none" => proc[e].pc # "idle"
      /\ \A e \in Deliveries : row'[e].status = "success" => e \in received
  BY <1>1 DEF Suppress, Inv, TypeOK, ProcOK, SentOK, SuccessWasSent
<1> QED
  BY <1>2, <1>3, ReturnInv DEF Suppress

LEMMA CheckRateLimitInv ==
    ASSUME Inv, NEW d \in Deliveries, CheckRateLimit(d)
    PROVE  Inv'
<1>1. result' \in [Deliveries -> {"none", "success", "failed"}] => TablesOK'
  BY AlertDeliveryAssumption DEF CheckRateLimit, Fault, Inv, TypeOK, TablesOK
<1>2. CASE Return(d, "failed")
  BY <1>1, <1>2, ReturnInv DEF CheckRateLimit, Inv, ProcOK, SentOK, SuccessWasSent
<1>3. CASE Goto(d, "create") /\ UNCHANGED result
  <2>1. LocalFacts(d, [proc[d] EXCEPT !.pc = "create"])
    BY GotoFacts DEF CheckRateLimit, PCs, Busy
  <2>2. /\ [proc[d] EXCEPT !.pc = "create"].copy = proc[d].copy
        /\ proc[d].copy.status # "success" /\ UNCHANGED <<row, received>>
    BY DEF CheckRateLimit, Inv, TypeOK, SentOK, Proc
  <2>3. TablesOK'
    BY <1>1, <1>3 DEF Inv, TypeOK
  <2> QED
    BY <1>3, <2>1, <2>2, <2>3, LocalStep DEF Goto
<1> QED
  BY <1>2, <1>3 DEF CheckRateLimit

LEMMA CreateInv ==
    ASSUME Inv, NEW d \in Deliveries, Create(d)
    PROVE  Inv'
<1>1. proc[d].copy \in Row /\ proc[d].copy.status # "success"
  BY DEF Create, Inv, TypeOK, SentOK, Proc
<1>2. result' \in [Deliveries -> {"none", "success", "failed"}] => TablesOK'
  BY <1>1, AlertDeliveryAssumption DEF Create, Fault, Inv, TypeOK, TablesOK
<1>3. /\ \A e \in Deliveries : row'[e].status # "none" => proc[e].pc # "idle"
      /\ \A e \in Deliveries : row'[e].status = "success" => e \in received
  BY <1>1 DEF Create, Inv, TypeOK, ProcOK, SentOK, SuccessWasSent
<1>4. CASE Return(d, "failed")
  BY <1>2, <1>3, <1>4, ReturnInv DEF Create
<1>5. CASE Goto(d, "send") /\ UNCHANGED result
  <2>1. LocalFacts(d, [proc[d] EXCEPT !.pc = "send"])
    BY AlertDeliveryAssumption, GotoFacts DEF Create, PCs, Inv, ProcOK
  <2>2. [proc[d] EXCEPT !.pc = "send"].copy = proc[d].copy
    BY DEF Inv, TypeOK, Proc
  <2>3. TablesOK'
    BY <1>2, <1>5 DEF Inv, TypeOK
  <2>4. StepFacts(d, [proc[d] EXCEPT !.pc = "send"])
    BY <1>1, <1>3, <1>5, <2>1, <2>2 DEF StepFacts, Goto, Create
  <2> QED
    BY <2>3, <2>4, StepLemma
<1> QED
  BY <1>4, <1>5 DEF Create

-----------------------------------------------------------------------------
\* A step of goroutine p that changes its pc and nothing else of its locals.
LEMMA GotoInv ==
    ASSUME Inv, NEW p \in Procs, NEW x \in PCs, x # "idle", x # "retry", Goto(p, x),
           p \in Deliveries => proc[p].pc # "idle",
           x \in Busy => Placed(p, proc[p]),
           proc[p].copy.status # "success", UNCHANGED <<row, received>>, TablesOK'
    PROVE  Inv'
<1>1. LocalFacts(p, [proc[p] EXCEPT !.pc = x])
  BY GotoFacts
<1>2. [proc[p] EXCEPT !.pc = x].copy = proc[p].copy
  BY DEF Inv, TypeOK, Proc
<1> QED
  BY <1>1, <1>2, LocalStep DEF Goto

\* ProcessPendingAttempts and processAttempt up to the send.
LEMMA ListInv ==
    ASSUME Inv, NEW w \in Workers, List(w), proc' # proc
    PROVE  Inv'
<1> DEFINE todo == {<<d, row[d]>> : d \in ListPending}
<1> DEFINE q == [proc[w] EXCEPT !.pc = "next", !.maint = maintenance, !.todo = todo]
<1>1. TablesOK'
  BY DEF List, Inv, TypeOK, TablesOK
<1>2. proc[w] \in Proc /\ w \notin Deliveries
  BY AlertDeliveryAssumption DEF Inv, TypeOK
<1>3. /\ todo \subseteq Deliveries \X Row
      /\ \A a \in todo : a[2].status = "pending" /\ proc[a[1]].pc # "idle"
  BY DEF ListPending, Inv, TypeOK, ProcOK
<1>4. SetProc(w, q) /\ UNCHANGED <<row, received>> /\ proc[w].copy.status # "success"
  BY DEF List, Inv, SentOK
<1> HIDE DEF todo
<1>5. q \in Proc /\ q.pc = "next" /\ q.todo = todo /\ q.copy = proc[w].copy
  BY <1>2, <1>3 DEF Proc, PCs, Inv, TypeOK
<1> HIDE DEF q
<1>6. LocalFacts(w, q)
  BY <1>2, <1>3, <1>5 DEF LocalFacts, Busy
<1> QED
  BY <1>1, <1>4, <1>5, <1>6, LocalStep

LEMMA NextAttemptInv ==
    ASSUME Inv, NEW w \in Workers, NextAttempt(w)
    PROVE  Inv'
<1>1. TablesOK'
  BY AlertDeliveryAssumption DEF NextAttempt, Fault, Inv, TypeOK, TablesOK
<1>2. proc[w] \in Proc /\ w \notin Deliveries
  BY AlertDeliveryAssumption DEF Inv, TypeOK
<1>3. PICK a \in proc[w].todo :
         \/ SetProc(w, [proc[w] EXCEPT !.pc = "send", !.todo = @ \ {a}, !.att = a[1],
                                       !.ch = proc[a[1]].ch, !.copy = a[2]])
         \/ SetProc(w, [proc[w] EXCEPT !.todo = @ \ {a}])
  BY DEF NextAttempt
<1> DEFINE q1 == [proc[w] EXCEPT !.pc = "send", !.todo = @ \ {a}, !.att = a[1],
                                 !.ch = proc[a[1]].ch, !.copy = a[2]]
           q2 == [proc[w] EXCEPT !.todo = @ \ {a}]
<1>4. a[1] \in Deliveries /\ a[2] \in Row
  BY <1>2 DEF Proc
<1>5. a[2].status = "pending" /\ proc[a[1]].ch \in Channels
  BY <1>4 DEF Inv, ProcOK, SentOK
<1>6. /\ q1 \in Proc /\ q1.pc = "send" /\ q1.todo = proc[w].todo \ {a}
      /\ q1.att = a[1] /\ q1.ch = proc[a[1]].ch /\ q1.copy = a[2]
  BY <1>2, <1>4, <1>5 DEF Proc, PCs
<1>7. /\ q2 \in Proc /\ q2.pc = "next" /\ q2.todo = proc[w].todo \ {a}
      /\ q2.copy = proc[w].copy
  BY <1>2 DEF Proc, NextAttempt
<1>8. UNCHANGED <<row, received>> /\ proc[w].copy.status # "success"
  BY DEF NextAttempt, Inv, SentOK
<1>9. SetProc(w, q1) \/ SetProc(w, q2)
  BY <1>3
<1> HIDE DEF q1, q2
<1>10. LocalFacts(w, q1) /\ LocalFacts(w, q2)
  BY <1>2, <1>4, <1>5, <1>6, <1>7 DEF LocalFacts, Inv, ProcOK, SentOK, Busy
<1> QED
  BY <1>1, <1>5, <1>6, <1>7, <1>8, <1>9, <1>10, LocalStep

LEMMA RoundEndsInv ==
    ASSUME Inv, NEW w \in Workers, RoundEnds(w)
    PROVE  Inv'
<1> DEFINE q == [proc[w] EXCEPT !.pc = "idle", !.att = "none", !.ch = "none", !.maint = FALSE]
<1>1. TablesOK'
  BY DEF RoundEnds, Inv, TypeOK, TablesOK
<1>2. proc[w] \in Proc /\ w \notin Deliveries
  BY AlertDeliveryAssumption DEF Inv, TypeOK
<1>3. q \in Proc /\ q.pc = "idle" /\ q.todo = {} /\ q.copy = proc[w].copy
  BY <1>2 DEF Proc, PCs, RoundEnds
<1>4. SetProc(w, q) /\ UNCHANGED <<row, received>> /\ proc[w].copy.status # "success"
  BY DEF RoundEnds, Inv, SentOK
<1> HIDE DEF q
<1>5. LocalFacts(w, q)
  BY <1>2, <1>3 DEF LocalFacts, Busy
<1> QED
  BY <1>1, <1>3, <1>4, <1>5, LocalStep

\* Sending.  A success is recorded in the copy together with the message.
LEMMA SendOkInv ==
    ASSUME Inv, NEW p \in Procs, SendOk(p)
    PROVE  Inv'
<1> DEFINE q == [proc[p] EXCEPT !.pc = "update", !.copy.status = "success"]
<1>1. proc[p] \in Proc /\ proc[p].copy \in Row /\ (p \in Deliveries => p \notin Workers)
  BY AlertDeliveryAssumption DEF Inv, TypeOK, Proc
<1>2. Placed(p, proc[p]) /\ Attempt(p) \in Deliveries
  BY DEF SendOk, Inv, ProcOK, Busy, Attempt
<1>3. TablesOK'
  BY <1>2, AlertDeliveryAssumption DEF SendOk, Inv, TypeOK, TablesOK
<1>4. [proc[p].copy EXCEPT !.status = "success"] \in Row
  BY <1>1 DEF Row, Statuses
<1>5. /\ q \in Proc /\ q.pc = "update" /\ q.ch = proc[p].ch /\ q.att = proc[p].att
      /\ q.todo = proc[p].todo
  BY <1>1, <1>4 DEF Proc, PCs
<1>6. SetProc(p, q)
  BY DEF SendOk
<1> HIDE DEF q
<1>7. LocalFacts(p, q)
  BY <1>2, <1>5 DEF LocalFacts, Inv, ProcOK, SentOK
<1>8. StepFacts(p, q)
  BY <1>5, <1>6, <1>7 DEF SendOk, StepFacts, Inv, ProcOK, SentOK, SuccessWasSent, Attempt
<1> QED
  BY <1>3, <1>8, StepLemma

LEMMA SendErrorInv ==
    ASSUME Inv, NEW p \in Procs, NEW e \in Errors, SendError(p, e)
    PROVE  Inv'
<1> DEFINE x == IF RetryLeft(p, e) THEN "retry" ELSE "fail"
<1> DEFINE q == [proc[p] EXCEPT !.pc = x, !.copy.status = "failed", !.err = e]
<1>1. proc[p] \in Proc /\ proc[p].copy \in Row /\ (p \in Deliveries => p \notin Workers)
  BY AlertDeliveryAssumption DEF Inv, TypeOK, Proc
<1>2. Placed(p, proc[p]) /\ Attempt(p) \in Deliveries
  BY DEF SendError, Inv, ProcOK, Busy, Attempt
<1>3. TablesOK'
  <2>1. received' \subseteq Deliveries
    BY <1>2 DEF SendError, Inv, TypeOK
  <2>2. streak' \in [Channels -> 0..MaxFailures]
    BY <1>2, AlertDeliveryAssumption DEF SendError, Inv, TypeOK
  <2> QED
    BY <2>1, <2>2 DEF SendError, Inv, TypeOK, TablesOK
<1>4. /\ [proc[p].copy EXCEPT !.status = "failed"] \in Row
      /\ [proc[p].copy EXCEPT !.status = "failed"].status = "failed"
      /\ [proc[p].copy EXCEPT !.status = "failed"].retry = proc[p].copy.retry
  BY <1>1 DEF Row, Statuses
<1>5. x \in {"retry", "fail"} /\ (x = "retry" => p \in Workers /\ proc[p].copy.retry < MaxRetries)
  BY DEF RetryLeft
<1>6. SetProc(p, q)
  BY DEF SendError
<1> HIDE DEF x
<1>7. /\ q \in Proc /\ q.pc = x /\ q.ch = proc[p].ch /\ q.att = proc[p].att
      /\ q.todo = proc[p].todo
      /\ q.copy = [proc[p].copy EXCEPT !.status = "failed"]
  BY <1>1, <1>4, <1>5, AlertDeliveryAssumption DEF Proc, PCs
<1> HIDE DEF q
<1>8. LocalFacts(p, q)
  BY <1>2, <1>4, <1>5, <1>7 DEF LocalFacts, Inv, ProcOK, SentOK
<1>9. StepFacts(p, q)
  BY <1>4, <1>6, <1>7, <1>8
  DEF SendError, StepFacts, Inv, ProcOK, SentOK, SuccessWasSent
<1> QED
  BY <1>3, <1>9, StepLemma

\* What follows a failed send.
LEMMA ScheduleRetryInv ==
    ASSUME Inv, NEW w \in Workers, ScheduleRetry(w)
    PROVE  Inv'
<1> DEFINE s == Scheduled(w)
<1> DEFINE q == [proc[w] EXCEPT !.pc = "fail", !.copy = s]
<1>1. proc[w] \in Proc /\ proc[w].copy \in Row /\ w \notin Deliveries
  BY AlertDeliveryAssumption DEF Inv, TypeOK, Proc
<1>2. /\ proc[w].ch \in Channels /\ proc[w].att \in Deliveries
      /\ proc[w].copy.retry < MaxRetries /\ proc[w].copy.status # "success"
  BY DEF ScheduleRetry, Inv, ProcOK, SentOK, Busy
<1>3. s \in Row /\ s.status = proc[w].copy.status
  <2> DEFINE n == proc[w].copy.retry + 1
  <2>1. n \in 0..MaxRetries
    BY <1>1, <1>2, AlertDeliveryAssumption DEF Row
  <2>2. Scheduled(w) \in {[proc[w].copy EXCEPT !.retry = n],
                         [proc[w].copy EXCEPT !.retry = n, !.next = "future"]}
    BY DEF Scheduled
  <2> HIDE DEF n
  <2> QED
    BY <1>1, <2>1, <2>2 DEF Row
<1>4. proc[proc[w].att].pc # "idle"
  BY <1>2 DEF ScheduleRetry, Inv, ProcOK, Busy
<1>5. result' \in [Deliveries -> {"none", "success", "failed"}] => TablesOK'
  BY <1>2, <1>3, AlertDeliveryAssumption DEF ScheduleRetry, Fault, Inv, TypeOK, TablesOK
<1>6. /\ \A d \in Deliveries : row'[d].status # "none" => proc[d].pc # "idle"
      /\ \A d \in Deliveries : row'[d].status = "success" => d \in received
  BY <1>2, <1>3, <1>4 DEF ScheduleRetry, Inv, TypeOK, ProcOK, SentOK, SuccessWasSent
<1>7. CASE Return(w, "failed")
  BY <1>1, <1>5, <1>6, <1>7, ReturnInv DEF ScheduleRetry
<1>8. CASE SetProc(w, q) /\ UNCHANGED result
  <2>1. /\ q \in Proc /\ q.pc = "fail" /\ q.ch = proc[w].ch /\ q.att = proc[w].att
        /\ q.todo = proc[w].todo /\ q.copy = s
    <3> HIDE DEF s
    <3> QED BY <1>1, <1>3 DEF Proc, PCs
  <2>2. TablesOK'
    BY <1>5, <1>8 DEF Inv, TypeOK
  <2>3. SetProc(w, q)
    BY <1>8
  <2> HIDE DEF q, s
  <2>4. LocalFacts(w, q)
    BY <1>1, <1>2, <1>4, <2>1 DEF LocalFacts, Inv, ProcOK, SentOK
  <2>5. StepFacts(w, q)
    BY <1>2, <1>3, <1>6, <2>1, <2>3, <2>4 DEF StepFacts, ScheduleRetry
  <2> QED
    BY <2>2, <2>5, StepLemma
<1> QED
  BY <1>7, <1>8 DEF ScheduleRetry

LEMMA FailureInv ==
    ASSUME Inv, NEW p \in Procs, handleChannelFailure(p)
    PROVE  Inv'
<1>1. Placed(p, proc[p]) /\ proc[p].copy.status # "success" /\ proc[p].pc # "idle"
  BY DEF handleChannelFailure, Inv, ProcOK, SentOK, Busy
<1>2. PICK x \in {"disable", "update"} : Goto(p, x)
  BY DEF handleChannelFailure, IncrementFailureCount
<1>3. chan' \in [Channels -> ChannelRow]
  <2>1. /\ chan[proc[p].ch].failures + 1 \in Nat
        /\ chan[proc[p].ch] \in ChannelRow
    BY <1>1 DEF Inv, TypeOK, ChannelRow
  <2>2. [chan[proc[p].ch] EXCEPT !.failures = chan[proc[p].ch].failures + 1] \in ChannelRow
    BY <2>1 DEF ChannelRow
  <2>3. chan' = chan \/ chan' = [chan EXCEPT ![proc[p].ch] =
            [chan[proc[p].ch] EXCEPT !.failures = chan[proc[p].ch].failures + 1]]
    BY DEF handleChannelFailure, IncrementFailureCount
  <2> QED
    BY <2>2, <2>3 DEF Inv, TypeOK
<1>4. TablesOK'
  BY <1>3, AlertDeliveryAssumption DEF handleChannelFailure, Fault, Inv, TypeOK, TablesOK
<1> QED
  BY <1>1, <1>2, <1>4, GotoInv DEF handleChannelFailure, PCs

LEMMA DisableChannelInv ==
    ASSUME Inv, NEW p \in Procs, DisableChannel(p)
    PROVE  Inv'
<1>1. Placed(p, proc[p]) /\ proc[p].copy.status # "success" /\ proc[p].pc # "idle"
  BY DEF DisableChannel, Inv, ProcOK, SentOK, Busy
<1>2. [chan[proc[p].ch] EXCEPT !.enabled = FALSE] \in ChannelRow
  BY <1>1 DEF Inv, TypeOK, ChannelRow
<1>3. TablesOK'
  BY <1>2, AlertDeliveryAssumption DEF DisableChannel, Fault, Inv, TypeOK, TablesOK
<1> QED
  BY <1>1, <1>3, GotoInv DEF DisableChannel, PCs

LEMMA UpdateInv ==
    ASSUME Inv, NEW p \in Procs, Update(p)
    PROVE  Inv'
<1>1. /\ Placed(p, proc[p]) /\ Attempt(p) \in Deliveries /\ proc[Attempt(p)].pc # "idle"
      /\ proc[p].copy.status = "success" => Attempt(p) \in received
  BY DEF Update, Inv, ProcOK, SentOK, Busy, Attempt
<1>2. proc[p].copy \in Row
  BY DEF Inv, TypeOK, Proc
<1>3. result' \in [Deliveries -> {"none", "success", "failed"}] => TablesOK'
  BY <1>1, <1>2, AlertDeliveryAssumption DEF Update, Fault, Inv, TypeOK, TablesOK
<1>4. /\ \A d \in Deliveries : row'[d].status # "none" => proc[d].pc # "idle"
      /\ \A d \in Deliveries : row'[d].status = "success" => d \in received
  BY <1>1, <1>2 DEF Update, Inv, TypeOK, ProcOK, SentOK, SuccessWasSent
<1> QED
  BY <1>3, <1>4, ReturnInv DEF Update

LEMMA CrashInv ==
    ASSUME Inv, NEW p \in Procs, Crash(p)
    PROVE  Inv'
<1> DEFINE x == IF p \in Workers THEN "idle" ELSE "done"
<1> DEFINE q == [proc[p] EXCEPT !.pc = x, !.copy = NewRow("pending"), !.err = "none",
                                !.todo = {}]
<1>1. proc[p] \in Proc /\ (p \in Deliveries => p \notin Workers)
  BY AlertDeliveryAssumption DEF Inv, TypeOK
<1>2. NewRow("pending") \in Row /\ NewRow("pending").status = "pending"
  BY NewRowType DEF Statuses
<1>3. TablesOK'
  BY AlertDeliveryAssumption DEF Crash, Fault, Inv, TypeOK, TablesOK
<1>4. x \in {"idle", "done"} /\ (p \in Deliveries => x # "idle")
  BY <1>1
<1>5. /\ SetProc(p, q) /\ UNCHANGED <<row, received>>
      /\ p \in Deliveries => proc[p].ch \in Channels
  BY DEF Crash, Inv, ProcOK
<1> HIDE DEF x
<1>6. /\ q \in Proc /\ q.pc = x /\ q.ch = proc[p].ch /\ q.todo = {}
      /\ q.copy = NewRow("pending")
  BY <1>1, <1>2, <1>4 DEF Proc, PCs
<1> HIDE DEF q
<1>7. LocalFacts(p, q)
  BY <1>4, <1>5, <1>6 DEF LocalFacts, Busy
<1> QED
  BY <1>2, <1>3, <1>5, <1>6, <1>7, LocalStep

\* Steps that leave the goroutines alone: a failing list, edits of a channel,
\* maintenance windows, and the clock.
LEMMA OtherInv ==
    ASSUME Inv, UNCHANGED <<proc, received>>, TablesOK',
           \A d \in Deliveries : row'[d].status = row[d].status
    PROVE  Inv'
BY DEF Inv, TypeOK, TablesOK, ProcOK, SentOK, SuccessWasSent, Attempt

LEMMA EditInv ==
    ASSUME Inv,
           \/ \E c \in Channels : EditBegin(c)
           \/ \E enabled \in BOOLEAN : UpdateChannel(enabled)
           \/ VerifyChannel \/ EditFails
           \/ MaintenanceChanges
    PROVE  Inv'
<1>1. UNCHANGED <<row, proc, received>>
  BY DEF EditBegin, UpdateChannel, VerifyChannel, EditFails, MaintenanceChanges
<1>2. CASE \E c \in Channels : EditBegin(c)
  <2>1. TablesOK'
    BY <1>2, AlertDeliveryAssumption DEF EditBegin, Inv, TypeOK, TablesOK
  <2> QED BY <1>1, <2>1, OtherInv
<1>3. CASE \E enabled \in BOOLEAN : UpdateChannel(enabled)
  <2>1. PICK enabled \in BOOLEAN, e \in edit :
           chan' = [chan EXCEPT ![e[1]] = [e[2] EXCEPT !.enabled = enabled]]
    BY <1>3 DEF UpdateChannel
  <2>2. [e[2] EXCEPT !.enabled = enabled] \in ChannelRow
    BY DEF Inv, TypeOK, ChannelRow
  <2>3. TablesOK'
    BY <1>3, <2>1, <2>2 DEF UpdateChannel, Inv, TypeOK, TablesOK
  <2> QED BY <1>1, <2>3, OtherInv
<1>4. CASE VerifyChannel
  <2>1. PICK e \in edit :
           chan' = IF e[2].verified THEN chan
                   ELSE [chan EXCEPT ![e[1]] = [e[2] EXCEPT !.verified = TRUE,
                                                            !.failures = 0]]
    BY <1>4 DEF VerifyChannel
  <2>2. [e[2] EXCEPT !.verified = TRUE, !.failures = 0] \in ChannelRow
    BY DEF Inv, TypeOK, ChannelRow
  <2>3. TablesOK'
    BY <1>4, <2>1, <2>2 DEF VerifyChannel, Inv, TypeOK, TablesOK
  <2> QED BY <1>1, <2>3, OtherInv
<1>5. CASE MaintenanceChanges \/ EditFails
  BY <1>1, <1>5, OtherInv DEF MaintenanceChanges, EditFails, Inv, TypeOK, TablesOK
<1> QED
  BY <1>2, <1>3, <1>4, <1>5

LEMMA RetryDueInv ==
    ASSUME Inv, NEW d \in Deliveries, RetryDue(d)
    PROVE  Inv'
<1>1. [row[d] EXCEPT !.next = "due"] \in Row /\ [row[d] EXCEPT !.next = "due"].status = row[d].status
  BY DEF Inv, TypeOK, Row
<1>2. row' = [row EXCEPT ![d] = [row[d] EXCEPT !.next = "due"]]
  BY DEF RetryDue
<1>3. TablesOK' /\ \A e \in Deliveries : row'[e].status = row[e].status
  BY <1>1, <1>2 DEF RetryDue, Inv, TypeOK, TablesOK
<1> QED
  BY <1>3, OtherInv DEF RetryDue

LEMMA NextInv == Inv /\ [Next]_vars => Inv'
<1> SUFFICES ASSUME Inv, [Next]_vars PROVE Inv'
  OBVIOUS
<1>1. ASSUME NEW p \in Procs, Sending(p) \/ FailureStep(p) \/ Update(p) \/ Crash(p)
      PROVE  Inv'
  BY <1>1, SendOkInv, SendErrorInv, FailureInv, DisableChannelInv, UpdateInv, CrashInv
  DEF Sending, FailureStep
<1>2. ASSUME NEW d \in Deliveries,
             \/ \E c \in Channels, recovery \in BOOLEAN : Begin(d, c, recovery)
             \/ AlertStep(d) \/ RetryDue(d)
      PROVE  Inv'
  BY <1>1, <1>2, BeginInv, CheckMaintenanceInv, SuppressInv, CheckRateLimitInv, CreateInv,
     RetryDueInv
  DEF AlertStep
<1>3. ASSUME NEW w \in Workers, WorkerStep(w)
      PROVE  Inv'
  <2>1. CASE List(w) /\ UNCHANGED proc
    BY <2>1, AlertDeliveryAssumption, OtherInv DEF List, Fault, Inv, TypeOK, TablesOK
  <2>2. CASE List(w) /\ proc' # proc
    BY <2>2, ListInv
  <2> QED
    BY <1>1, <1>3, <2>1, <2>2, NextAttemptInv, RoundEndsInv, ScheduleRetryInv
    DEF WorkerStep
<1>4. CASE UNCHANGED vars
  BY <1>4, OtherInv DEF vars, Inv, TypeOK, TablesOK
<1> QED
  BY <1>1, <1>2, <1>3, <1>4, EditInv DEF Next

\* Every variable keeps its type and retry_count the retry budget, in every
\* behaviour of the delivery service.
THEOREM TypeCorrect == Spec => []TypeOK
<1>1. Inv => TypeOK
  BY DEF Inv
<1> QED
  BY InitInv, NextInv, <1>1, PTL DEF Spec

\* A delivery attempt that the table says succeeded has reached its receiver,
\* although DeliverAlert and the background workers may write the same row from
\* stale copies, statements fail and processes die.
THEOREM SuccessIsSent == Spec => []SuccessWasSent
<1>1. Inv => SuccessWasSent
  BY DEF Inv, SentOK
<1> QED
  BY InitInv, NextInv, <1>1, PTL DEF Spec

-----------------------------------------------------------------------------
\* The threshold.  A failing statement, a crash and an edit of the channel can each
\* leave it enabled, so the property speaks of behaviours without them; that they
\* have not happened so far is what its two counters say.
ThresholdInv == Inv /\ (edits = 0 => edit = {}) /\ DisabledAtThreshold

\* A step that does not change alert_channels and takes no goroutine away from
\* DisableChannel.
LEMMA ThresholdKept ==
    ASSUME DisabledAtThreshold, UNCHANGED chan, faults = 0, edits = 0,
           \A p \in Procs : proc[p].pc = "disable" =>
              proc'[p].pc = "disable" /\ proc'[p].ch = proc[p].ch
    PROVE  DisabledAtThreshold'
BY DEF DisabledAtThreshold

\* The same for a step that replaces the locals of one goroutine.
LEMMA ThresholdStep ==
    ASSUME Inv, DisabledAtThreshold, UNCHANGED chan, faults = 0, edits = 0,
           NEW r \in Procs, NEW q, SetProc(r, q), proc[r].pc # "disable"
    PROVE  DisabledAtThreshold'
<1>1. \A p \in Procs : p # r => proc'[p] = proc[p]
  BY DEF SetProc, Inv, TypeOK
<1> QED
  BY <1>1, ThresholdKept

\* A step after which nothing has failed or been edited.
LEMMA ThresholdNext ==
    ASSUME ThresholdInv, [Next]_vars, faults' = 0, edits' = 0
    PROVE  DisabledAtThreshold'
<1>1. ~Fault
  BY DEF Fault, ThresholdInv, Inv, TypeOK
<1>2. \A c \in Channels : ~EditBegin(c)
  BY DEF EditBegin, ThresholdInv, Inv, TypeOK
<1>3. faults = 0 /\ edits = 0
  BY <1>1, <1>2
  DEF Next, AlertStep, WorkerStep, Sending, FailureStep, Begin, CheckMaintenance, Suppress,
      CheckRateLimit, Create, List, NextAttempt, RoundEnds, SendOk, SendError,
      ScheduleRetry, handleChannelFailure, DisableChannel, Update, MaintenanceChanges,
      UpdateChannel, VerifyChannel, EditFails, RetryDue, Crash, vars
<1>4. (\A enabled \in BOOLEAN : ~UpdateChannel(enabled)) /\ ~VerifyChannel /\ ~EditFails
  BY <1>3 DEF UpdateChannel, VerifyChannel, EditFails, ThresholdInv
<1>6. ASSUME NEW p \in Procs, handleChannelFailure(p) PROVE DisabledAtThreshold'
  <2>1. /\ proc[p].ch \in Channels /\ proc[p] \in Proc
        /\ \A r \in Procs : r # p => proc'[r] = proc[r]
        /\ proc'[p].ch = proc[p].ch
    BY <1>6 DEF handleChannelFailure, IncrementFailureCount, Goto, SetProc, ThresholdInv,
        Inv, TypeOK, ProcOK, Busy, Proc
  <2>2. CASE proc[p].err = "auth"
    BY <1>3, <1>6, <2>1, <2>2, ThresholdKept DEF handleChannelFailure, ThresholdInv
  <2>3. CASE proc[p].err # "auth"
    <3>1. IncrementFailureCount(proc[p].ch, p)
      BY <1>1, <1>6, <2>3 DEF handleChannelFailure
    <3>2. chan'[proc[p].ch].failures >= MaxFailures => proc'[p].pc = "disable"
      BY <2>1, <3>1 DEF IncrementFailureCount, Goto, SetProc, ThresholdInv, Inv, TypeOK, Proc
    <3>3. \A c \in Channels : c # proc[p].ch => chan'[c] = chan[c]
      BY <3>1 DEF IncrementFailureCount, ThresholdInv, Inv, TypeOK
    <3>4. \A r \in Procs : proc[r].pc = "disable" => r # p
      BY <1>6 DEF handleChannelFailure
    <3> QED
      BY <1>3, <2>1, <3>2, <3>3, <3>4 DEF DisabledAtThreshold, ThresholdInv
  <2> QED
    BY <2>2, <2>3
<1>7. ASSUME NEW p \in Procs, DisableChannel(p) PROVE DisabledAtThreshold'
  <2>1. /\ proc[p].ch \in Channels
        /\ \A r \in Procs : r # p => proc'[r] = proc[r]
    BY <1>7 DEF DisableChannel, Goto, SetProc, ThresholdInv, Inv, TypeOK, ProcOK, Busy
  <2>2. /\ ~chan'[proc[p].ch].enabled
        /\ \A c \in Channels : c # proc[p].ch => chan'[c] = chan[c]
    BY <1>1, <1>7, <2>1 DEF DisableChannel, ThresholdInv, Inv, TypeOK, ChannelRow
  <2> QED
    BY <1>3, <2>1, <2>2 DEF DisabledAtThreshold, ThresholdInv
<1>8. ASSUME NEW p \in Procs, Sending(p) \/ Update(p) PROVE DisabledAtThreshold'
  BY <1>3, <1>8, ThresholdStep
  DEF Sending, SendOk, SendError, Update, Return, Fault, ThresholdInv
<1>9. ASSUME NEW d \in Deliveries,
             \/ \E c \in Channels, recovery \in BOOLEAN : Begin(d, c, recovery)
             \/ AlertStep(d) \/ RetryDue(d)
      PROVE  DisabledAtThreshold'
  <2>1. CASE RetryDue(d)
    BY <1>3, <2>1, ThresholdKept DEF RetryDue, ThresholdInv
  <2>2. CASE \E c \in Channels, recovery \in BOOLEAN : Begin(d, c, recovery)
    BY <1>3, <2>2, ThresholdStep DEF Begin, ThresholdInv
  <2>3. CASE CheckMaintenance(d) \/ Suppress(d) \/ CheckRateLimit(d) \/ Create(d)
    BY <1>3, <2>3, ThresholdStep
    DEF CheckMaintenance, Suppress, CheckRateLimit, Create, Goto, Return, ThresholdInv
  <2> QED
    BY <1>6, <1>7, <1>8, <1>9, <2>1, <2>2, <2>3 DEF AlertStep, FailureStep
<1>10. ASSUME NEW w \in Workers, WorkerStep(w) PROVE DisabledAtThreshold'
  <2>1. CASE List(w) \/ RoundEnds(w) \/ ScheduleRetry(w)
    BY <1>1, <1>3, <2>1, ThresholdStep DEF List, RoundEnds, ScheduleRetry, ThresholdInv
  <2>2. CASE NextAttempt(w)
    BY <1>1, <1>3, <2>2, ThresholdStep DEF NextAttempt, ThresholdInv
  <2> QED
    BY <1>6, <1>7, <1>8, <1>10, <2>1, <2>2 DEF WorkerStep, FailureStep
<1>11. ASSUME MaintenanceChanges \/ UNCHANGED vars PROVE DisabledAtThreshold'
  BY <1>3, <1>11, ThresholdKept DEF MaintenanceChanges, vars, ThresholdInv
<1>12. \A p \in Procs : ~Crash(p)
  BY <1>1 DEF Crash
<1> QED
  BY <1>2, <1>4, <1>9, <1>10, <1>11, <1>12 DEF Next

\* However many goroutines count failures of a channel at the same time, a
\* channel at the threshold is disabled or about to be.
THEOREM ThresholdDisables == Spec => []DisabledAtThreshold
<1>1. Init => ThresholdInv
  <2> SUFFICES ASSUME Init PROVE ThresholdInv
    OBVIOUS
  <2>1. \A c \in Channels : chan[c].failures = 0
    BY DEF Init
  <2>2. DisabledAtThreshold
    BY <2>1, AlertDeliveryAssumption DEF DisabledAtThreshold
  <2> QED
    BY <2>2, InitInv DEF Init, ThresholdInv
<1>2. ThresholdInv /\ [Next]_vars => ThresholdInv'
  <2> SUFFICES ASSUME ThresholdInv, [Next]_vars PROVE ThresholdInv'
    OBVIOUS
  <2>1. Inv'
    BY NextInv DEF ThresholdInv
  <2>2. edits' = 0 => edit' = {}
    <3>1. CASE \E c \in Channels : EditBegin(c)
      BY <3>1 DEF EditBegin, ThresholdInv, Inv, TypeOK
    <3>2. CASE UNCHANGED <<edit, edits>> \/ edit' = {}
      BY <3>2 DEF ThresholdInv
    <3> QED
      BY <3>1, <3>2
      DEF Next, AlertStep, WorkerStep, Sending, FailureStep, Begin, CheckMaintenance,
          Suppress, CheckRateLimit, Create, List, NextAttempt, RoundEnds, SendOk,
          SendError, ScheduleRetry, handleChannelFailure, DisableChannel, Update,
          MaintenanceChanges, UpdateChannel, VerifyChannel, EditFails, RetryDue, Crash, vars
  <2>3. DisabledAtThreshold'
    BY ThresholdNext DEF DisabledAtThreshold
  <2> QED
    BY <2>1, <2>2, <2>3 DEF ThresholdInv
<1>3. ThresholdInv => DisabledAtThreshold
  BY DEF ThresholdInv
<1> QED
  BY <1>1, <1>2, <1>3, PTL DEF Spec
=============================================================================
