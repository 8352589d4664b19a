-------------------------- MODULE Monitoring_proofs --------------------------
(***************************************************************************)
(* Proofs about Maintenance and Monitoring, for every number of windows,   *)
(* monitors, requests, RPCs and triggered checks.                          *)
(*                                                                         *)
(* Windows: WindowInv says what the copies that requests and jobs hold     *)
(* have to do with the rows, which is what the comparison of versions in   *)
(* Update is for; LimitInv counts the rows together with the requests that *)
(* are about to insert one.  Monitors: LoopInv is about the goroutines of  *)
(* a batch.                                                                *)
(***************************************************************************)
EXTENDS Monitoring, FiniteSetTheorems, TLAPS

Served == [stage : Stages \ {"idle"}, id : Windows, row : Rows]

WindowTypes ==
    /\ now \in Times
    /\ window \in [Windows -> Rows]
    /\ request \in [Requests -> {Idle} \cup Served]
    /\ sweep \in [Jobs -> SUBSET Copies]

\* What may become of a row that is stored.
Legal(old, new) ==
    /\ old.status = new.status \/ CanTransitionTo(old.status, new.status)
    /\ \/ old.start = new.start /\ old.end = new.end
       \/ old.status = "SCHEDULED" /\ new.status = "SCHEDULED"

\* A copy is at most one version ahead of its row, and if it is, the row is still
\* the one that the copy was made from.
CopyOK(id, row) ==
    /\ row.status \in Statuses /\ row.version > 0
    /\ window[id].status # "ABSENT"
    /\ row.version - 1 <= window[id].version
    /\ Exists(id) /\ window[id].version = row.version - 1 => Legal(window[id], row)

Inserting(r) == request[r].stage \in {"overlap", "insert"}
Saving(r) == request[r].stage \in {"update", "save"}

WindowInv ==
    /\ WindowTypes
    /\ \A r \in Requests : Inserting(r) =>
         window[request[r].id].status = "ABSENT" /\ request[r].row.status = "SCHEDULED"
    /\ \A r, q \in Requests : Inserting(r) /\ Inserting(q) /\ request[r].id = request[q].id => r = q
    /\ \A r \in Requests : Saving(r) => CopyOK(request[r].id, request[r].row)
    /\ \A j \in Jobs : \A c \in sweep[j] : CopyOK(c.id, c.row)

\* A request under way has an id and a row.
LEMMA RequestRows ==
    ASSUME WindowTypes, NEW r \in Requests, request[r].stage # "idle"
    PROVE  /\ request[r] \in Served /\ request[r].id \in Windows /\ request[r].row \in Rows
           /\ request[r].stage \in Stages \ {"idle"}
BY DEF WindowTypes, Served, Idle

\* The entry of a request that is not under way.
LEMMA IdleRow == Idle.stage = "idle" /\ Idle \in {Idle} \cup Served
BY DEF Idle

\* A request ends.
LEMMA EndsRequest ==
    ASSUME WindowTypes, NEW r \in Requests, Ends(r)
    PROVE  /\ request' \in [Requests -> {Idle} \cup Served]
           /\ request'[r].stage = "idle" /\ \A q \in Requests \ {r} : request'[q] = request[q]
BY IdleRow DEF WindowTypes, Ends

\* The editing methods keep the type of a row, and are legal from the statuses that
\* their callers ask for.
LEMMA ActivateRow ==
    ASSUME NEW c \in Rows, c.status = "SCHEDULED"
    PROVE  /\ Activate(c) \in Rows /\ Activate(c).status = "ACTIVE"
           /\ Activate(c).version = c.version + 1
           /\ Legal(c, Activate(c))
<1>1. PICK n \in Nat : n = c.version + 1
  BY DEF Rows
<1>2. PICK st \in Statuses : st = "ACTIVE"
  BY DEF Statuses
<1>3. [c EXCEPT !.status = st, !.version = n] \in Rows
  BY DEF Rows
<1>4. Activate(c) \in Rows
  BY <1>1, <1>2, <1>3 DEF Activate
<1>5. /\ Activate(c).status = "ACTIVE" /\ Activate(c).version = c.version + 1
      /\ Activate(c).start = c.start /\ Activate(c).end = c.end
  BY DEF Rows, Activate
<1> QED BY <1>4, <1>5 DEF Legal, CanTransitionTo

\* Complete, ...
LEMMA CompleteRow ==
    ASSUME NEW c \in Rows, c.status = "ACTIVE"
    PROVE  /\ Complete(c) \in Rows /\ Complete(c).status = "COMPLETED"
           /\ Complete(c).version = c.version + 1
           /\ Legal(c, Complete(c))
<1>1. PICK n \in Nat : n = c.version + 1
  BY DEF Rows
<1>2. PICK st \in Statuses : st = "COMPLETED"
  BY DEF Statuses
<1>3. [c EXCEPT !.status = st, !.version = n] \in Rows
  BY DEF Rows
<1>4. Complete(c) \in Rows
  BY <1>1, <1>2, <1>3 DEF Complete
<1>5. /\ Complete(c).status = "COMPLETED" /\ Complete(c).version = c.version + 1
      /\ Complete(c).start = c.start /\ Complete(c).end = c.end
  BY DEF Rows, Complete
<1> QED BY <1>4, <1>5 DEF Legal, CanTransitionTo

\* Cancel, ...
LEMMA CancelRow ==
    ASSUME NEW c \in Rows, c.status \in {"SCHEDULED", "ACTIVE"}
    PROVE  /\ Cancel(c) \in Rows /\ Cancel(c).status = "CANCELLED"
           /\ Cancel(c).version = c.version + 1
           /\ Legal(c, Cancel(c))
<1>1. PICK n \in Nat : n = c.version + 1
  BY DEF Rows
<1>2. PICK st \in Statuses : st = "CANCELLED"
  BY DEF Statuses
<1>3. [c EXCEPT !.status = st, !.version = n] \in Rows
  BY DEF Rows
<1>4. Cancel(c) \in Rows
  BY <1>1, <1>2, <1>3 DEF Cancel
<1>5. /\ Cancel(c).status = "CANCELLED" /\ Cancel(c).version = c.version + 1
      /\ Cancel(c).start = c.start /\ Cancel(c).end = c.end
  BY DEF Rows, Cancel
<1> QED BY <1>4, <1>5 DEF Legal, CanTransitionTo

\* ... and UpdateDetails.
LEMMA UpdateDetailsRow ==
    ASSUME NEW c \in Rows, NEW s \in Times, NEW e \in Times, c.status = "SCHEDULED"
    PROVE  /\ UpdateDetails(c, s, e) \in Rows /\ UpdateDetails(c, s, e).status = c.status
           /\ UpdateDetails(c, s, e).version = c.version + 1
           /\ Legal(c, UpdateDetails(c, s, e))
<1>1. PICK n \in Nat : n = c.version + 1
  BY DEF Rows
<1>2. [c EXCEPT !.start = s, !.end = e, !.version = n] \in Rows
  BY DEF Rows
<1>3. UpdateDetails(c, s, e) \in Rows
  BY <1>1, <1>2 DEF UpdateDetails
<1>4. /\ UpdateDetails(c, s, e).status = c.status
      /\ UpdateDetails(c, s, e).version = c.version + 1
  BY DEF Rows, UpdateDetails
<1> QED BY <1>3, <1>4 DEF Legal

\* A copy that has just been made from its row.
LEMMA FreshCopy ==
    ASSUME WindowTypes, NEW w \in Windows, NEW row \in Rows, row.status \in Statuses,
           Exists(w), row.version = window[w].version + 1, Legal(window[w], row)
    PROVE  CopyOK(w, row)
BY DEF WindowTypes, CopyOK, Exists, Rows, Statuses

\* What a step may do to a row so that copies of it stay as they should be.
RowMoves(w) ==
    \/ window'[w] = window[w]
    \/ Exists(w) /\ window'[w].version = window[w].version + 1 /\ Exists(w)'
    \/ window'[w].status = "DELETED" /\ window'[w].version = window[w].version
    \/ window[w].status = "ABSENT"

\* A copy stays as it should be while its row moves.
LEMMA CopyKept ==
    ASSUME WindowTypes, WindowTypes', NEW w \in Windows, RowMoves(w), NEW row \in Rows,
           CopyOK(w, row)
    PROVE  CopyOK(w, row)'
<1>1. window[w].version \in Nat /\ window'[w].version \in Nat /\ row.version \in Nat
  BY DEF WindowTypes, Rows
<1>2. CASE window'[w] = window[w]
  BY <1>2 DEF CopyOK, Exists
<1>3. CASE Exists(w) /\ window'[w].version = window[w].version + 1 /\ Exists(w)'
  BY <1>1, <1>3 DEF CopyOK, Exists, Statuses
<1>4. CASE window'[w].status = "DELETED" /\ window'[w].version = window[w].version
  BY <1>1, <1>4 DEF CopyOK, Exists, Statuses
<1>5. CASE window[w].status = "ABSENT"
  BY <1>5 DEF CopyOK
<1> QED BY <1>2, <1>3, <1>4, <1>5 DEF RowMoves

\* The copies that are held after a step are as they should be if they were as they
\* should be with respect to the rows before it.
LEMMA CopiesKept ==
    ASSUME WindowTypes, WindowTypes', \A w \in Windows : RowMoves(w),
           \A r \in Requests : Saving(r)' => CopyOK(request'[r].id, request'[r].row),
           \A j \in Jobs : \A c \in sweep'[j] : CopyOK(c.id, c.row)
    PROVE  /\ (\A r \in Requests : Saving(r) => CopyOK(request[r].id, request[r].row))'
           /\ (\A j \in Jobs : \A c \in sweep[j] : CopyOK(c.id, c.row))'
<1>1. ASSUME NEW r \in Requests, Saving(r)'
      PROVE  CopyOK(request[r].id, request[r].row)'
  <2>1. request'[r].id \in Windows /\ request'[r].row \in Rows
    BY <1>1 DEF WindowTypes, Served, Saving, Idle
  <2>2. CopyOK(request'[r].id, request'[r].row)
    BY <1>1
  <2>3. PICK w \in Windows, row \in Rows : w = request'[r].id /\ row = request'[r].row
    BY <2>1
  <2>4. CopyOK(w, row) /\ RowMoves(w)
    BY <2>2, <2>3
  <2>5. CopyOK(w, row)'
    BY <2>4, CopyKept
  <2> QED BY <2>3, <2>5
<1>2. ASSUME NEW j \in Jobs, NEW c \in sweep'[j]
      PROVE  CopyOK(c.id, c.row)'
  <2>1. c.id \in Windows /\ c.row \in Rows
    BY DEF WindowTypes, Copies
  <2> QED BY <2>1, CopyKept
<1> QED BY <1>1, <1>2

\* A request goes on.
LEMMA RequestPut ==
    ASSUME WindowTypes, NEW r \in Requests, NEW new \in {Idle} \cup Served,
           request' = [request EXCEPT ![r] = new]
    PROVE  /\ request' \in [Requests -> {Idle} \cup Served]
           /\ request'[r] = new /\ \A q \in Requests \ {r} : request'[q] = request[q]
BY DEF WindowTypes

\* A request goes on with the same row.
LEMMA StageMoved ==
    ASSUME WindowTypes, NEW r \in Requests, request[r].stage # "idle",
           NEW st \in Stages \ {"idle"}
    PROVE  LET new == [request[r] EXCEPT !.stage = st]
           IN  new \in Served /\ new.stage = st /\ new.id = request[r].id /\ new.row = request[r].row
<1>1. request[r] \in Served
  BY RequestRows
<1> QED BY <1>1 DEF Served

\* An accepted UPDATE is a legal move of its row.
LEMMA UpdateMoves ==
    ASSUME WindowTypes, NEW id \in Windows, NEW new \in Rows, CopyOK(id, new), Update(id, new)
    PROVE  /\ window' \in [Windows -> Rows]
           /\ \A w \in Windows :
                \/ window'[w] = window[w]
                \/ /\ Exists(w) /\ Exists(w)' /\ window'[w].version = window[w].version + 1
                   /\ Legal(window[w], window'[w])
<1>1. CASE Exists(id) /\ window[id].version = new.version - 1
  <2>1. window' = [window EXCEPT ![id] = new]
    BY <1>1 DEF Update
  <2>2. new.status \in Statuses /\ Legal(window[id], new) /\ new.version \in Nat
    BY <1>1 DEF CopyOK, Rows
  <2>3. window[id].version \in Nat
    BY DEF WindowTypes, Rows
  <2>4. new.version = window[id].version + 1
    BY <1>1, <2>2, <2>3
  <2>5. window' \in [Windows -> Rows] /\ window'[id] = new
        /\ \A w \in Windows \ {id} : window'[w] = window[w]
    BY <2>1 DEF WindowTypes
  <2> QED BY <1>1, <2>2, <2>4, <2>5 DEF Exists
<1>2. CASE ~(Exists(id) /\ window[id].version = new.version - 1)
  BY <1>2 DEF Update, WindowTypes
<1> QED BY <1>1, <1>2

\* What a step does to the rows.
LegalStep ==
    \A w \in Windows : \/ window[w].status = "ABSENT"
                       \/ window'[w].status = "DELETED"
                       \/ Legal(window[w], window'[w])

\* A request that inserts keeps its id and its row, and nobody else uses the id.
LEMMA InsertsKept ==
    ASSUME WindowInv,
           \A r \in Requests : Inserting(r)' =>
              /\ Inserting(r) /\ request'[r].id = request[r].id
              /\ request'[r].row.status = request[r].row.status
              /\ window'[request[r].id] = window[request[r].id]
    PROVE  /\ (\A r \in Requests : Inserting(r) =>
                 window[request[r].id].status = "ABSENT" /\ request[r].row.status = "SCHEDULED")'
           /\ (\A r, q \in Requests :
                 Inserting(r) /\ Inserting(q) /\ request[r].id = request[q].id => r = q)'
<1>1. ASSUME NEW r \in Requests, Inserting(r)'
      PROVE  window'[request'[r].id].status = "ABSENT" /\ request'[r].row.status = "SCHEDULED"
  BY <1>1 DEF WindowInv
<1>2. ASSUME NEW r \in Requests, NEW q \in Requests, Inserting(r)', Inserting(q)',
             request'[r].id = request'[q].id
      PROVE  r = q
  BY <1>2 DEF WindowInv
<1> QED BY <1>1, <1>2

\* The steps that leave the rows alone.
LEMMA QuietStep ==
    ASSUME WindowInv, WindowTypes', UNCHANGED window,
           \A r \in Requests : Inserting(r)' =>
              /\ Inserting(r) /\ request'[r].id = request[r].id
              /\ request'[r].row.status = request[r].row.status,
           \A r \in Requests : Saving(r)' => CopyOK(request'[r].id, request'[r].row),
           \A j \in Jobs : \A c \in sweep'[j] : CopyOK(c.id, c.row)
    PROVE  WindowInv' /\ LegalStep
<1>1. \A w \in Windows : RowMoves(w)
  BY DEF RowMoves
<1>2. LegalStep
  BY DEF LegalStep, Legal
<1>3. WindowTypes
  BY DEF WindowInv
<1>4. /\ (\A r \in Requests : Saving(r) => CopyOK(request[r].id, request[r].row))'
      /\ (\A j \in Jobs : \A c \in sweep[j] : CopyOK(c.id, c.row))'
  BY <1>1, <1>3, CopiesKept
<1>5. /\ (\A r \in Requests : Inserting(r) =>
            window[request[r].id].status = "ABSENT" /\ request[r].row.status = "SCHEDULED")'
      /\ (\A r, q \in Requests :
            Inserting(r) /\ Inserting(q) /\ request[r].id = request[q].id => r = q)'
  BY InsertsKept
<1> QED BY <1>2, <1>4, <1>5 DEF WindowInv

\* CreateMaintenanceWindow: the id is fresh, so no other request inserts it.
LEMMA CreateKeeps ==
    ASSUME WindowInv, NEW r \in Requests, CreateStep(r)
    PROVE  WindowInv' /\ LegalStep
<1>0. WindowTypes
  BY DEF WindowInv
<1>1. PICK w \in Windows, s \in Times, e \in Times, g \in BOOLEAN, ms \in SUBSET Monitors :
         CreateMaintenanceWindow(r, w, s, e, g, ms)
  BY DEF CreateStep
<1> DEFINE st == IF ms # {} /\ ~g THEN "overlap" ELSE "insert"
           row == NewMaintenanceWindow(s, e, g, ms)
           new == [stage |-> st, id |-> w, row |-> row]
<1>2. /\ st \in {"overlap", "insert"} /\ row \in Rows /\ row.status = "SCHEDULED"
      /\ Fresh(w) /\ UNCHANGED <<now, window, sweep>> /\ request' = [request EXCEPT ![r] = new]
  BY <1>1 DEF CreateMaintenanceWindow, NewMaintenanceWindow, Rows, Statuses
<1> HIDE DEF st, row
<1>3. new \in Served /\ new.stage = st /\ new.id = w /\ new.row = row
  BY <1>2 DEF Served, Stages
<1> HIDE DEF new
<1>4. /\ request' \in [Requests -> {Idle} \cup Served]
      /\ request'[r] = new /\ \A q \in Requests \ {r} : request'[q] = request[q]
  BY <1>0, <1>2, <1>3, RequestPut
<1>5. WindowTypes'
  BY <1>0, <1>2, <1>4 DEF WindowTypes
<1>6. \A q \in Requests : Saving(q)' => CopyOK(request'[q].id, request'[q].row)
  BY <1>2, <1>3, <1>4 DEF WindowInv, Saving
<1>7. \A j \in Jobs : \A c \in sweep'[j] : CopyOK(c.id, c.row)
  BY <1>2 DEF WindowInv
<1>8. \A v \in Windows : RowMoves(v)
  BY <1>2 DEF RowMoves
<1>9. /\ (\A q \in Requests : Saving(q) => CopyOK(request[q].id, request[q].row))'
      /\ (\A j \in Jobs : \A c \in sweep[j] : CopyOK(c.id, c.row))'
  BY <1>0, <1>5, <1>6, <1>7, <1>8, CopiesKept
<1>10. \A q \in Requests : request[q].id # w
  BY <1>2 DEF Fresh
<1>11. ASSUME NEW q \in Requests, Inserting(q)'
       PROVE  window'[request'[q].id].status = "ABSENT" /\ request'[q].row.status = "SCHEDULED"
  BY <1>2, <1>3, <1>4, <1>11 DEF WindowInv, Inserting, Fresh
<1>12. ASSUME NEW p \in Requests, NEW q \in Requests, Inserting(p)', Inserting(q)',
              request'[p].id = request'[q].id
       PROVE  p = q
  BY <1>3, <1>4, <1>10, <1>12 DEF WindowInv, Inserting
<1>13. LegalStep
  BY <1>2 DEF LegalStep, Legal
<1> QED BY <1>5, <1>9, <1>11, <1>12, <1>13 DEF WindowInv

\* A request that reads a row, or that ends without writing: only its own entry
\* changes, and what it then holds is a proper copy.
LEMMA ReadStep ==
    ASSUME WindowInv, NEW r \in Requests, NEW new \in {Idle} \cup Served,
           request' = [request EXCEPT ![r] = new], UNCHANGED <<now, window, sweep>>,
           new.stage \in {"overlap", "insert"} =>
              Inserting(r) /\ new.id = request[r].id /\ new.row.status = request[r].row.status,
           new.stage \in {"update", "save"} => CopyOK(new.id, new.row)
    PROVE  WindowInv' /\ LegalStep
<1>0. WindowTypes
  BY DEF WindowInv
<1>1. /\ request' \in [Requests -> {Idle} \cup Served]
      /\ request'[r] = new /\ \A q \in Requests \ {r} : request'[q] = request[q]
  BY <1>0, RequestPut
<1>2. WindowTypes'
  BY <1>0, <1>1 DEF WindowTypes
<1>3. \A q \in Requests : Inserting(q)' =>
         /\ Inserting(q) /\ request'[q].id = request[q].id
         /\ request'[q].row.status = request[q].row.status
  BY <1>1 DEF Inserting
<1>4. \A q \in Requests : Saving(q)' => CopyOK(request'[q].id, request'[q].row)
  BY <1>1 DEF WindowInv, Saving
<1>5. \A j \in Jobs : \A c \in sweep'[j] : CopyOK(c.id, c.row)
  BY DEF WindowInv
<1> QED BY <1>2, <1>3, <1>4, <1>5, QuietStep

\* The overlap queries.
LEMMA OverlapKeeps ==
    ASSUME WindowInv, NEW r \in Requests, CreateCheckOverlap(r) \/ UpdateCheckOverlap(r)
    PROVE  WindowInv' /\ LegalStep
<1>0. WindowTypes
  BY DEF WindowInv
<1>1. PICK st \in {"insert", "save"} :
         /\ request[r].stage = IF st = "insert" THEN "overlap" ELSE "update"
         /\ \/ request' = [request EXCEPT ![r] = Idle]
            \/ request' = [request EXCEPT ![r] = [request[r] EXCEPT !.stage = st]]
         /\ UNCHANGED <<now, window, sweep>>
  <2>1. CASE CreateCheckOverlap(r)
    BY <2>1 DEF CreateCheckOverlap
  <2>2. CASE UpdateCheckOverlap(r)
    BY <2>2 DEF UpdateCheckOverlap
  <2> QED BY <2>1, <2>2
<1>2. CASE request' = [request EXCEPT ![r] = Idle]
  <2>1. Idle.stage = "idle"
    BY IdleRow
  <2> QED BY <1>1, <1>2, <2>1, ReadStep
<1>3. CASE request' = [request EXCEPT ![r] = [request[r] EXCEPT !.stage = st]]
  <2> DEFINE new == [request[r] EXCEPT !.stage = st]
  <2>1. new \in Served /\ new.stage = st /\ new.id = request[r].id /\ new.row = request[r].row
    BY <1>0, <1>1, StageMoved DEF Stages
  <2>2. request' = [request EXCEPT ![r] = new]
    BY <1>3
  <2> HIDE DEF new
  <2>3. new.stage \in {"overlap", "insert"} =>
           Inserting(r) /\ new.id = request[r].id /\ new.row.status = request[r].row.status
    BY <1>1, <2>1 DEF Inserting
  <2>4. new.stage \in {"update", "save"} => CopyOK(new.id, new.row)
    BY <1>1, <2>1 DEF Saving, WindowInv
  <2> QED BY <1>1, <2>1, <2>2, <2>3, <2>4, ReadStep
<1> QED BY <1>1, <1>2, <1>3

\* UpdateMaintenanceWindow, CancelMaintenanceWindow and DeleteMaintenanceWindow.
LEMMA ReadsKeep ==
    ASSUME WindowInv, NEW r \in Requests,
           \/ UpdateStep(r)
           \/ \E w \in Windows : CancelMaintenanceWindow(r, w) \/ DeleteMaintenanceWindow(r, w)
    PROVE  WindowInv' /\ LegalStep
<1>0. WindowTypes /\ \A w \in Windows : window[w] \in Rows
  BY DEF WindowInv, WindowTypes
<1>1. CASE UpdateStep(r)
  <2>1. PICK w \in Windows, s \in Times, e \in Times : UpdateMaintenanceWindow(r, w, s, e)
    BY <1>1 DEF UpdateStep
  <2> DEFINE row == UpdateDetails(window[w], s, e)
             new == [stage |-> "update", id |-> w, row |-> row]
  <2>2. /\ Exists(w) /\ window[w].status = "SCHEDULED"
        /\ request' = [request EXCEPT ![r] = new] /\ UNCHANGED <<now, window, sweep>>
    BY <2>1 DEF UpdateMaintenanceWindow, Updatable
  <2>3. /\ row \in Rows /\ row.status \in Statuses /\ row.version = window[w].version + 1
        /\ Legal(window[w], row)
    BY <1>0, <2>2, UpdateDetailsRow DEF Statuses
  <2> HIDE DEF row
  <2>4. CopyOK(w, row)
    BY <1>0, <2>2, <2>3, FreshCopy
  <2>5. new \in Served /\ new.stage = "update" /\ new.id = w /\ new.row = row
    BY <2>3 DEF Served, Stages
  <2> HIDE DEF new
  <2> QED BY <2>2, <2>4, <2>5, ReadStep
<1>2. ASSUME NEW w \in Windows, CancelMaintenanceWindow(r, w)
      PROVE  WindowInv' /\ LegalStep
  <2> DEFINE row == Cancel(window[w])
             new == [stage |-> "save", id |-> w, row |-> row]
  <2>2. /\ Exists(w) /\ window[w].status \in {"SCHEDULED", "ACTIVE"}
        /\ request' = [request EXCEPT ![r] = new] /\ UNCHANGED <<now, window, sweep>>
    BY <1>2 DEF CancelMaintenanceWindow
  <2>3. /\ row \in Rows /\ row.status \in Statuses /\ row.version = window[w].version + 1
        /\ Legal(window[w], row)
    BY <1>0, <2>2, CancelRow DEF Statuses
  <2> HIDE DEF row
  <2>4. CopyOK(w, row)
    BY <1>0, <2>2, <2>3, FreshCopy
  <2>5. new \in Served /\ new.stage = "save" /\ new.id = w /\ new.row = row
    BY <2>3 DEF Served, Stages
  <2> HIDE DEF new
  <2> QED BY <2>2, <2>4, <2>5, ReadStep
<1>3. ASSUME NEW w \in Windows, DeleteMaintenanceWindow(r, w)
      PROVE  WindowInv' /\ LegalStep
  <2> DEFINE new == [stage |-> "delete", id |-> w, row |-> window[w]]
  <2>2. request' = [request EXCEPT ![r] = new] /\ UNCHANGED <<now, window, sweep>>
    BY <1>3 DEF DeleteMaintenanceWindow
  <2>3. new \in Served /\ new.stage = "delete"
    BY <1>0 DEF Served, Stages
  <2> HIDE DEF new
  <2> QED BY <2>2, <2>3, ReadStep
<1> QED BY <1>1, <1>2, <1>3

\* A statement of a request fails.
LEMMA FailsKeeps ==
    ASSUME WindowInv, NEW r \in Requests, RequestFails(r)
    PROVE  WindowInv' /\ LegalStep
<1>1. Idle.stage = "idle" /\ Idle \in {Idle} \cup Served
  BY IdleRow
<1>2. request' = [request EXCEPT ![r] = Idle] /\ UNCHANGED <<now, window, sweep>>
  BY DEF RequestFails, Ends
<1> QED BY <1>1, <1>2, ReadStep

\* A request that writes and ends.
LEMMA WriteStep ==
    ASSUME WindowInv, NEW r \in Requests, Ends(r), UNCHANGED <<now, sweep>>,
           window' \in [Windows -> Rows], \A w \in Windows : RowMoves(w),
           \A q \in Requests \ {r} : Inserting(q) =>
              window'[request[q].id] = window[request[q].id]
    PROVE  WindowInv'
<1>0. WindowTypes
  BY DEF WindowInv
<1>1. /\ request' \in [Requests -> {Idle} \cup Served]
      /\ request'[r].stage = "idle" /\ \A q \in Requests \ {r} : request'[q] = request[q]
  BY <1>0, EndsRequest
<1>2. WindowTypes'
  BY <1>0, <1>1 DEF WindowTypes
<1>3. \A q \in Requests : Saving(q)' => CopyOK(request'[q].id, request'[q].row)
  BY <1>1 DEF WindowInv, Saving
<1>4. \A j \in Jobs : \A c \in sweep'[j] : CopyOK(c.id, c.row)
  BY DEF WindowInv
<1>5. /\ (\A q \in Requests : Saving(q) => CopyOK(request[q].id, request[q].row))'
      /\ (\A j \in Jobs : \A c \in sweep[j] : CopyOK(c.id, c.row))'
  BY <1>0, <1>2, <1>3, <1>4, CopiesKept
<1>6. \A q \in Requests : Inserting(q)' =>
         /\ Inserting(q) /\ request'[q].id = request[q].id
         /\ request'[q].row.status = request[q].row.status
         /\ window'[request[q].id] = window[request[q].id]
  BY <1>1 DEF Inserting
<1>7. /\ (\A q \in Requests : Inserting(q) =>
            window[request[q].id].status = "ABSENT" /\ request[q].row.status = "SCHEDULED")'
      /\ (\A p, q \in Requests :
            Inserting(p) /\ Inserting(q) /\ request[p].id = request[q].id => p = q)'
  BY <1>6, InsertsKept
<1> QED BY <1>2, <1>5, <1>7 DEF WindowInv

\* The INSERT of a new window.
LEMMA InsertKeeps ==
    ASSUME WindowInv, NEW r \in Requests, CreateInsert(r)
    PROVE  WindowInv' /\ LegalStep
<1>0. WindowTypes
  BY DEF WindowInv
<1>1. request[r].id \in Windows /\ request[r].row \in Rows
  BY <1>0, RequestRows DEF CreateInsert
<1>2. PICK id \in Windows, row \in Rows : id = request[r].id /\ row = request[r].row
  BY <1>1
<1>3. toRepoWindow(row) \in Rows
  BY DEF toRepoWindow, Rows
<1>4. PICK new \in Rows : new = toRepoWindow(row)
  BY <1>3
<1>5. /\ window' = [window EXCEPT ![id] = new] /\ Ends(r)
      /\ UNCHANGED <<now, sweep>> /\ Inserting(r)
  BY <1>2, <1>4 DEF CreateInsert, Inserting
<1>6. window[id].status = "ABSENT"
  BY <1>2, <1>5 DEF WindowInv
<1>7. window' \in [Windows -> Rows] /\ \A w \in Windows \ {id} : window'[w] = window[w]
  BY <1>0, <1>5 DEF WindowTypes
<1>8. \A w \in Windows : RowMoves(w)
  BY <1>6, <1>7 DEF RowMoves
<1>9. ASSUME NEW q \in Requests \ {r}, Inserting(q)
      PROVE  window'[request[q].id] = window[request[q].id]
  <2>1. request[q].id # id
    BY <1>2, <1>5, <1>9 DEF WindowInv
  <2>2. request[q].id \in Windows
    BY <1>0, <1>9, RequestRows DEF Inserting
  <2> QED BY <1>7, <2>1, <2>2
<1>10. LegalStep
  BY <1>6, <1>7 DEF LegalStep, Legal
<1>11. WindowInv'
  BY <1>5, <1>7, <1>8, <1>9, WriteStep
<1> QED BY <1>10, <1>11

\* The UPDATE of an edited or a cancelled window.
LEMMA SaveKeeps ==
    ASSUME WindowInv, NEW r \in Requests, SaveRequest(r)
    PROVE  WindowInv' /\ LegalStep
<1>0. WindowTypes
  BY DEF WindowInv
<1>1. request[r].id \in Windows /\ request[r].row \in Rows
  BY <1>0, RequestRows DEF SaveRequest
<1>2. PICK id \in Windows, row \in Rows : id = request[r].id /\ row = request[r].row
  BY <1>1
<1>3. CopyOK(id, row) /\ Update(id, row) /\ Ends(r) /\ UNCHANGED <<now, sweep>>
  BY <1>2 DEF SaveRequest, WindowInv, Saving
<1>4. /\ window' \in [Windows -> Rows]
      /\ \A w \in Windows :
           \/ window'[w] = window[w]
           \/ /\ Exists(w) /\ Exists(w)' /\ window'[w].version = window[w].version + 1
              /\ Legal(window[w], window'[w])
  BY <1>0, <1>3, UpdateMoves
<1>5. \A w \in Windows : RowMoves(w)
  BY <1>4 DEF RowMoves
<1>6. LegalStep
  BY <1>4 DEF LegalStep, Legal
<1>7. ASSUME NEW q \in Requests \ {r}, Inserting(q)
      PROVE  window'[request[q].id] = window[request[q].id]
  <2>1. window[request[q].id].status = "ABSENT" /\ request[q].id \in Windows
    BY <1>0, <1>7, RequestRows DEF WindowInv, Inserting
  <2>2. ~Exists(request[q].id)
    BY <2>1 DEF Exists, Statuses
  <2> QED BY <1>4, <2>1, <2>2
<1>8. WindowInv'
  BY <1>3, <1>4, <1>5, <1>7, WriteStep
<1> QED BY <1>6, <1>8

\* The DELETE.
LEMMA DeleteKeeps ==
    ASSUME WindowInv, NEW r \in Requests, DeleteRow(r)
    PROVE  WindowInv' /\ LegalStep
<1>0. WindowTypes
  BY DEF WindowInv
<1>1. request[r].id \in Windows
  BY <1>0, RequestRows DEF DeleteRow
<1>2. PICK id \in Windows : id = request[r].id
  BY <1>1
<1>3. PICK new \in Rows : /\ new.status = "DELETED" /\ new.version = window[id].version
                          /\ new = [window[id] EXCEPT !.status = "DELETED"]
  BY <1>0 DEF WindowTypes, Rows
<1>4. /\ window' = IF Exists(id) THEN [window EXCEPT ![id] = new] ELSE window
      /\ Ends(r) /\ UNCHANGED <<now, sweep>>
  BY <1>2, <1>3 DEF DeleteRow
<1>5. /\ window' \in [Windows -> Rows]
      /\ \A w \in Windows :
           \/ window'[w] = window[w]
           \/ /\ Exists(w) /\ window'[w].status = "DELETED"
              /\ window'[w].version = window[w].version
  BY <1>0, <1>3, <1>4 DEF WindowTypes
<1>6. \A w \in Windows : RowMoves(w)
  BY <1>5 DEF RowMoves
<1>7. LegalStep
  BY <1>5 DEF LegalStep, Legal
<1>8. ASSUME NEW q \in Requests \ {r}, Inserting(q)
      PROVE  window'[request[q].id] = window[request[q].id]
  <2>1. window[request[q].id].status = "ABSENT" /\ request[q].id \in Windows
    BY <1>0, <1>8, RequestRows DEF WindowInv, Inserting
  <2>2. ~Exists(request[q].id)
    BY <2>1 DEF Exists, Statuses
  <2> QED BY <1>5, <2>1, <2>2
<1>9. WindowInv'
  BY <1>4, <1>5, <1>6, <1>8, WriteStep
<1> QED BY <1>7, <1>9

\* The two queries of the periodic jobs.
LEMMA QueryKeeps ==
    ASSUME WindowInv, NEW j \in Jobs, NEW cs \in SUBSET Copies,
           \A c \in cs : CopyOK(c.id, c.row),
           sweep' = [sweep EXCEPT ![j] = cs], UNCHANGED <<now, window, request>>
    PROVE  WindowInv' /\ LegalStep
<1>1. /\ sweep' \in [Jobs -> SUBSET Copies] /\ sweep'[j] = cs
      /\ \A k \in Jobs \ {j} : sweep'[k] = sweep[k]
  BY DEF WindowInv, WindowTypes
<1>2. WindowTypes'
  BY <1>1 DEF WindowInv, WindowTypes
<1>3. \A r \in Requests : Inserting(r)' =>
         /\ Inserting(r) /\ request'[r].id = request[r].id
         /\ request'[r].row.status = request[r].row.status
  BY DEF Inserting
<1>4. \A r \in Requests : Saving(r)' => CopyOK(request'[r].id, request'[r].row)
  BY DEF WindowInv, Saving
<1>5. \A k \in Jobs : \A c \in sweep'[k] : CopyOK(c.id, c.row)
  BY <1>1 DEF WindowInv
<1> QED BY <1>2, <1>3, <1>4, <1>5, QuietStep

\* ActivateScheduledWindows reads its rows, ...
LEMMA ActivateKeeps ==
    ASSUME WindowInv, ActivateScheduledWindows
    PROVE  WindowInv' /\ LegalStep
<1> DEFINE cs == {[id |-> w, row |-> Activate(window[w])] : w \in GetWindowsRequiringActivation}
<1>1. ASSUME NEW w \in GetWindowsRequiringActivation
      PROVE  Activate(window[w]) \in Rows /\ CopyOK(w, Activate(window[w])) /\ w \in Windows
  <2>1. /\ w \in Windows /\ window[w] \in Rows /\ window[w].status = "SCHEDULED" /\ Exists(w)
        /\ WindowTypes
    BY DEF GetWindowsRequiringActivation, WindowInv, WindowTypes, Exists, Statuses
  <2>2. /\ Activate(window[w]) \in Rows /\ Activate(window[w]).status \in Statuses
        /\ Activate(window[w]).version = window[w].version + 1
        /\ Legal(window[w], Activate(window[w]))
    BY <2>1, ActivateRow DEF Statuses
  <2> QED BY <2>1, <2>2, FreshCopy
<1>2. cs \in SUBSET Copies /\ \A c \in cs : CopyOK(c.id, c.row)
  BY <1>1 DEF Copies
<1>3. sweep' = [sweep EXCEPT !["activate"] = cs] /\ UNCHANGED <<now, window, request>>
  BY DEF ActivateScheduledWindows
<1> HIDE DEF cs
<1> QED BY <1>2, <1>3, QueryKeeps DEF Jobs

\* ... and CompleteActiveWindows.
LEMMA CompleteKeeps ==
    ASSUME WindowInv, CompleteActiveWindows
    PROVE  WindowInv' /\ LegalStep
<1> DEFINE cs == {[id |-> w, row |-> Complete(window[w])] : w \in GetWindowsRequiringCompletion}
<1>1. ASSUME NEW w \in GetWindowsRequiringCompletion
      PROVE  Complete(window[w]) \in Rows /\ CopyOK(w, Complete(window[w])) /\ w \in Windows
  <2>1. /\ w \in Windows /\ window[w] \in Rows /\ window[w].status = "ACTIVE" /\ Exists(w)
        /\ WindowTypes
    BY DEF GetWindowsRequiringCompletion, WindowInv, WindowTypes, Exists, Statuses
  <2>2. /\ Complete(window[w]) \in Rows /\ Complete(window[w]).status \in Statuses
        /\ Complete(window[w]).version = window[w].version + 1
        /\ Legal(window[w], Complete(window[w]))
    BY <2>1, CompleteRow DEF Statuses
  <2> QED BY <2>1, <2>2, FreshCopy
<1>2. cs \in SUBSET Copies /\ \A c \in cs : CopyOK(c.id, c.row)
  BY <1>1 DEF Copies
<1>3. sweep' = [sweep EXCEPT !["complete"] = cs] /\ UNCHANGED <<now, window, request>>
  BY DEF CompleteActiveWindows
<1> HIDE DEF cs
<1> QED BY <1>2, <1>3, QueryKeeps DEF Jobs

\* One turn of a job's loop.
LEMMA SweepKeeps ==
    ASSUME WindowInv, NEW j \in Jobs, Sweep(j)
    PROVE  WindowInv' /\ LegalStep
<1>0. WindowTypes
  BY DEF WindowInv
<1>1. PICK c \in sweep[j], saved \in BOOLEAN : SweepOne(j, c, saved)
  BY DEF Sweep
<1>2. c \in Copies /\ CopyOK(c.id, c.row)
  BY <1>0 DEF WindowInv, WindowTypes
<1>3. PICK id \in Windows, row \in Rows : id = c.id /\ row = c.row
  BY <1>2 DEF Copies
<1>4. /\ sweep' = [sweep EXCEPT ![j] = @ \ {c}]
      /\ IF saved THEN Update(id, row) ELSE UNCHANGED window
      /\ UNCHANGED <<now, request>>
  BY <1>1, <1>3 DEF SweepOne
<1>5. /\ window' \in [Windows -> Rows]
      /\ \A w \in Windows :
           \/ window'[w] = window[w]
           \/ /\ Exists(w) /\ Exists(w)' /\ window'[w].version = window[w].version + 1
              /\ Legal(window[w], window'[w])
  <2>1. CASE saved
    BY <1>0, <1>2, <1>3, <1>4, <2>1, UpdateMoves
  <2>2. CASE ~saved
    BY <1>0, <1>4, <2>2 DEF WindowTypes
  <2> QED BY <2>1, <2>2
<1>6. sweep' \in [Jobs -> SUBSET Copies] /\ \A k \in Jobs : sweep'[k] \subseteq sweep[k]
  BY <1>0, <1>4 DEF WindowTypes
<1>7. WindowTypes'
  BY <1>0, <1>4, <1>5, <1>6 DEF WindowTypes
<1>8. \A w \in Windows : RowMoves(w)
  BY <1>5 DEF RowMoves
<1>9. LegalStep
  BY <1>5 DEF LegalStep, Legal
<1>10. /\ (\A r \in Requests : Saving(r) => CopyOK(request[r].id, request[r].row))'
       /\ (\A k \in Jobs : \A d \in sweep[k] : CopyOK(d.id, d.row))'
  <2>1. \A r \in Requests : Saving(r)' => CopyOK(request'[r].id, request'[r].row)
    BY <1>4 DEF WindowInv, Saving
  <2>2. \A k \in Jobs : \A d \in sweep'[k] : CopyOK(d.id, d.row)
    BY <1>6 DEF WindowInv
  <2> QED BY <1>0, <1>7, <1>8, <2>1, <2>2, CopiesKept
<1>11. ASSUME NEW r \in Requests, Inserting(r)'
       PROVE  /\ Inserting(r) /\ request'[r].id = request[r].id
              /\ request'[r].row.status = request[r].row.status
              /\ window'[request[r].id] = window[request[r].id]
  <2>1. Inserting(r) /\ request' = request
    BY <1>4, <1>11 DEF Inserting
  <2>2. window[request[r].id].status = "ABSENT" /\ request[r].id \in Windows
    BY <1>0, <2>1, RequestRows DEF WindowInv, Inserting
  <2>3. ~Exists(request[r].id)
    BY <2>2 DEF Exists, Statuses
  <2> QED BY <1>5, <2>1, <2>2, <2>3
<1>12. /\ (\A r \in Requests : Inserting(r) =>
             window[request[r].id].status = "ABSENT" /\ request[r].row.status = "SCHEDULED")'
       /\ (\A r, q \in Requests :
             Inserting(r) /\ Inserting(q) /\ request[r].id = request[q].id => r = q)'
  BY <1>11, InsertsKept
<1> QED BY <1>7, <1>9, <1>10, <1>12 DEF WindowInv

\* The clock, and steps of others.
LEMMA IdleKeeps ==
    ASSUME WindowInv, Tick \/ UNCHANGED maintenanceVars
    PROVE  WindowInv' /\ LegalStep
<1>1. now' \in Times
  BY MaintenanceAssumption DEF WindowInv, WindowTypes, Tick, Times, maintenanceVars
<1>2. UNCHANGED <<window, request, sweep>>
  BY DEF Tick, maintenanceVars
<1>3. WindowTypes'
  BY <1>1, <1>2 DEF WindowInv, WindowTypes
<1>4. \A r \in Requests : Inserting(r)' =>
         /\ Inserting(r) /\ request'[r].id = request[r].id
         /\ request'[r].row.status = request[r].row.status
  BY <1>2 DEF Inserting
<1>5. \A r \in Requests : Saving(r)' => CopyOK(request'[r].id, request'[r].row)
  BY <1>2 DEF WindowInv, Saving
<1>6. \A j \in Jobs : \A c \in sweep'[j] : CopyOK(c.id, c.row)
  BY <1>2 DEF WindowInv
<1> QED BY <1>2, <1>3, <1>4, <1>5, <1>6, QuietStep

\* The invariant holds of the empty table ...
LEMMA WindowStart == MaintenanceInit => WindowInv
<1> SUFFICES ASSUME MaintenanceInit PROVE WindowInv
  OBVIOUS
<1>1. NoWindow \in Rows /\ Idle.stage = "idle" /\ 0 \in Times
  BY MaintenanceAssumption DEF NoWindow, Rows, Idle, Times
<1>2. WindowTypes
  BY <1>1 DEF MaintenanceInit, WindowTypes
<1> QED BY <1>1, <1>2 DEF MaintenanceInit, WindowInv, Inserting, Saving

\* ... and every statement keeps it and moves the rows legally.
LEMMA WindowStep ==
    ASSUME WindowInv, [MaintenanceNext]_maintenanceVars
    PROVE  WindowInv' /\ LegalStep
<1>1. ASSUME NEW r \in Requests, RequestNext(r)
      PROVE  WindowInv' /\ LegalStep
  BY <1>1, CreateKeeps, OverlapKeeps, InsertKeeps, ReadsKeep, SaveKeeps, DeleteKeeps, FailsKeeps
     DEF RequestNext
<1>2. CASE JobNext
  BY <1>2, ActivateKeeps, CompleteKeeps, SweepKeeps DEF JobNext
<1>3. CASE Tick \/ UNCHANGED maintenanceVars
  BY <1>3, IdleKeeps
<1> QED BY <1>1, <1>2, <1>3 DEF MaintenanceNext

\* The invariant of the windows.
LEMMA WindowsInvariant == MaintenanceSpec => []WindowInv
<1>1. WindowInv /\ [MaintenanceNext]_maintenanceVars => WindowInv'
  BY WindowStep
<1> QED BY WindowStart, <1>1, PTL DEF MaintenanceSpec

\* The stored status moves along CanTransitionTo only, and times change only while
\* the window waits.
THEOREM WindowsMoveLegally == MaintenanceSpec => WindowLifecycle
<1> DEFINE Moves == \A w \in Windows :
          Exists(w) /\ Exists(w)' =>
             /\ \/ window'[w].status = window[w].status
                \/ CanTransitionTo(window[w].status, window'[w].status)
             /\ \/ window'[w].start = window[w].start /\ window'[w].end = window[w].end
                \/ window[w].status = "SCHEDULED" /\ window'[w].status = "SCHEDULED"
<1>1. WindowInv /\ [MaintenanceNext]_maintenanceVars => [Moves]_maintenanceVars
  <2> SUFFICES ASSUME WindowInv, [MaintenanceNext]_maintenanceVars
               PROVE  Moves
    OBVIOUS
  <2>1. LegalStep
    BY WindowStep
  <2> QED BY <2>1 DEF LegalStep, Legal, Exists, Statuses
<1>2. [][WindowInv /\ [MaintenanceNext]_maintenanceVars]_maintenanceVars => [][Moves]_maintenanceVars
  <2>1. [WindowInv /\ [MaintenanceNext]_maintenanceVars]_maintenanceVars => [Moves]_maintenanceVars
    BY <1>1
  <2> QED BY <2>1, PTL
<1> QED BY <1>2, WindowsInvariant, PTL DEF MaintenanceSpec, WindowLifecycle

Used == {w \in Windows : Exists(w)}
Creating == {r \in Requests : Inserting(r)}

\* The rows and the requests that have passed the count together.
LimitInv == Cardinality(Used) + Cardinality(Creating) <= MaxWindows + Cardinality(Requests) - 1

\* The sets that are counted are finite, ...
LEMMA Finite ==
    /\ IsFiniteSet(Used) /\ Cardinality(Used) \in Nat
    /\ IsFiniteSet(Creating) /\ Cardinality(Creating) \in Nat
    /\ Cardinality(Creating) <= Cardinality(Requests) /\ Cardinality(Requests) \in Nat
    /\ MaxWindows \in Nat
<1>1. Used \subseteq Windows /\ Creating \subseteq Requests
  BY DEF Used, Creating
<1>2. IsFiniteSet(Windows) /\ IsFiniteSet(Requests) /\ MaxWindows \in Nat
  BY MaintenanceAssumption
<1>3. IsFiniteSet(Used) /\ IsFiniteSet(Creating) /\ Cardinality(Creating) <= Cardinality(Requests)
  BY <1>1, <1>2, FS_Subset
<1> QED BY <1>2, <1>3, FS_CardinalityType

\* ... after the step too.
LEMMA FiniteNext ==
    /\ IsFiniteSet(Used') /\ Cardinality(Used') \in Nat
    /\ IsFiniteSet(Creating') /\ Cardinality(Creating') \in Nat
    /\ Cardinality(Creating') <= Cardinality(Requests)
<1>1. Used' \subseteq Windows /\ Creating' \subseteq Requests
  BY DEF Used, Creating
<1>2. IsFiniteSet(Windows) /\ IsFiniteSet(Requests)
  BY MaintenanceAssumption
<1>3. IsFiniteSet(Used') /\ IsFiniteSet(Creating') /\ Cardinality(Creating') <= Cardinality(Requests)
  BY <1>1, <1>2, FS_Subset
<1> QED BY <1>2, <1>3, FS_CardinalityType

\* Nothing is counted at first.
LEMMA LimitStart == MaintenanceInit => LimitInv
<1> SUFFICES ASSUME MaintenanceInit PROVE LimitInv
  OBVIOUS
<1>1. Used = {} /\ Creating = {}
  <2>1. \A w \in Windows : ~Exists(w)
    BY DEF MaintenanceInit, Exists, NoWindow, Statuses
  <2>2. \A r \in Requests : ~Inserting(r)
    BY DEF MaintenanceInit, Inserting, Idle
  <2> QED BY <2>1, <2>2 DEF Used, Creating
<1>2. Cardinality(Used) = 0 /\ Cardinality(Creating) = 0
  BY <1>1, FS_EmptySet
<1>3. Cardinality(Requests) > 0
  BY MaintenanceAssumption, FS_EmptySet, FS_CardinalityType
<1> QED BY <1>2, <1>3, Finite DEF LimitInv

\* Steps that add neither a row nor a creating request.
LEMMA LimitShrinks ==
    ASSUME LimitInv, \A w \in Windows : Exists(w)' => Exists(w),
           \A r \in Requests : Inserting(r)' => Inserting(r)
    PROVE  LimitInv'
<1>1. Used' \subseteq Used /\ Creating' \subseteq Creating
  BY DEF Used, Creating
<1>2. Cardinality(Used') <= Cardinality(Used) /\ Cardinality(Creating') <= Cardinality(Creating)
  BY <1>1, Finite, FS_Subset
<1>3. Cardinality(Used') + Cardinality(Creating') <= MaxWindows + Cardinality(Requests) - 1
  BY <1>2, Finite, FiniteNext DEF LimitInv
<1> QED BY <1>3 DEF LimitInv

\* A request passes the count: all the others may have passed it before.
LEMMA LimitCreate ==
    ASSUME LimitInv, NEW r \in Requests, CreateStep(r)
    PROVE  LimitInv'
<1>1. BelowLimit /\ window' = window
  BY DEF CreateStep, CreateMaintenanceWindow
<1>2. Used' = Used /\ CountByUserID = Cardinality(Used)
  BY <1>1 DEF Used, Exists, CountByUserID
<1>3. Cardinality(Used') < MaxWindows
  BY <1>1, <1>2 DEF BelowLimit
<1>4. Cardinality(Used') + Cardinality(Creating') <= MaxWindows + Cardinality(Requests) - 1
  BY <1>3, Finite, FiniteNext
<1> QED BY <1>4 DEF LimitInv

\* A request inserts its row and no longer counts itself.
LEMMA LimitInsert ==
    ASSUME LimitInv, WindowInv, NEW r \in Requests, CreateInsert(r)
    PROVE  LimitInv'
<1>0. WindowTypes
  BY DEF WindowInv
<1>1. PICK id \in Windows : id = request[r].id
  BY <1>0, RequestRows DEF CreateInsert
<1>2. \A w \in Windows \ {id} : window'[w] = window[w]
  BY <1>0, <1>1 DEF CreateInsert, WindowTypes
<1>3. request'[r].stage = "idle" /\ \A q \in Requests \ {r} : request'[q] = request[q]
  BY <1>0, EndsRequest DEF CreateInsert
<1>4. Inserting(r) /\ ~Exists(id)
  BY <1>1 DEF CreateInsert, Inserting, WindowInv, Exists, Statuses
<1>5. Used' \subseteq Used \cup {id} /\ id \notin Used
  BY <1>2, <1>4 DEF Used, Exists
<1>6. Creating' = Creating \ {r} /\ r \in Creating
  BY <1>3, <1>4 DEF Creating, Inserting
<1>7. Cardinality(Creating') = Cardinality(Creating) - 1
  BY <1>6, Finite, FS_RemoveElement
<1>8. Cardinality(Used \cup {id}) = Cardinality(Used) + 1 /\ IsFiniteSet(Used \cup {id})
  BY <1>5, Finite, FS_AddElement
<1>9. Cardinality(Used') <= Cardinality(Used) + 1
  BY <1>5, <1>8, FS_Subset
<1>10. Cardinality(Used') + Cardinality(Creating') <= MaxWindows + Cardinality(Requests) - 1
  BY <1>7, <1>9, Finite, FiniteNext DEF LimitInv
<1> QED BY <1>10 DEF LimitInv

\* A statement that updates or deletes stores no new row.
LEMMA NoNewRow ==
    ASSUME WindowTypes, NEW w \in Windows, NEW id, NEW new, NEW r,
           Update(id, new) \/ window' = window \/ DeleteRow(r), Exists(w)'
    PROVE  Exists(w)
BY DEF WindowTypes, Update, DeleteRow, Exists

\* Every step keeps the bound.
LEMMA LimitStep ==
    ASSUME LimitInv, WindowInv, [MaintenanceNext]_maintenanceVars
    PROVE  LimitInv'
<1>0. WindowTypes
  BY DEF WindowInv
<1>1. ASSUME NEW r \in Requests, RequestNext(r), ~CreateStep(r), ~CreateInsert(r)
      PROVE  LimitInv'
  <2>1. \A w \in Windows : Exists(w)' => Exists(w)
    <3>1. \/ window' = window \/ DeleteRow(r)
          \/ \E id, new : Update(id, new)
      BY <1>1 DEF RequestNext, CreateCheckOverlap, UpdateStep, UpdateMaintenanceWindow,
                  UpdateCheckOverlap, CancelMaintenanceWindow, SaveRequest,
                  DeleteMaintenanceWindow, RequestFails
    <3> QED BY <1>0, <3>1, NoNewRow
  <2>2. \A q \in Requests \ {r} : request'[q] = request[q]
    BY <1>0, <1>1 DEF RequestNext, CreateCheckOverlap, UpdateStep, UpdateMaintenanceWindow,
                  UpdateCheckOverlap, CancelMaintenanceWindow, SaveRequest, DeleteRow,
                  DeleteMaintenanceWindow, RequestFails, Ends, WindowTypes
  <2>3. Inserting(r)' => Inserting(r)
    <3>1. CASE CreateCheckOverlap(r)
      BY <3>1 DEF CreateCheckOverlap, Inserting
    <3>2. CASE UpdateStep(r)
      BY <1>0, <3>2 DEF UpdateStep, UpdateMaintenanceWindow, Inserting, WindowTypes
    <3>3. CASE UpdateCheckOverlap(r)
      <4>1. request[r] \in Served
        BY <1>0, <3>3, RequestRows DEF UpdateCheckOverlap
      <4> QED BY <1>0, <3>3, <4>1 DEF UpdateCheckOverlap, Inserting, WindowTypes, Idle, Served
    <3>4. CASE \E w \in Windows : CancelMaintenanceWindow(r, w) \/ DeleteMaintenanceWindow(r, w)
      BY <1>0, <3>4 DEF CancelMaintenanceWindow, DeleteMaintenanceWindow, Inserting, WindowTypes
    <3>5. CASE SaveRequest(r) \/ DeleteRow(r) \/ RequestFails(r)
      <4>1. request'[r].stage = "idle"
        BY <1>0, <3>5, EndsRequest DEF SaveRequest, DeleteRow, RequestFails
      <4> QED BY <4>1 DEF Inserting
    <3> QED BY <1>1, <3>1, <3>2, <3>3, <3>4, <3>5 DEF RequestNext
  <2>4. \A q \in Requests : Inserting(q)' => Inserting(q)
    BY <2>2, <2>3 DEF Inserting
  <2> QED BY <2>1, <2>4, LimitShrinks
<1>2. CASE JobNext \/ Tick \/ UNCHANGED maintenanceVars
  <2>1. request' = request
    BY <1>2 DEF JobNext, ActivateScheduledWindows, CompleteActiveWindows, Sweep, SweepOne,
                Tick, maintenanceVars
  <2>2. window' = window \/ \E id, new : Update(id, new)
    BY <1>2 DEF JobNext, ActivateScheduledWindows, CompleteActiveWindows, Sweep, SweepOne,
                Tick, maintenanceVars
  <2>3. \A w \in Windows : Exists(w)' => Exists(w)
    BY <1>0, <2>2, NoNewRow
  <2>4. \A r \in Requests : Inserting(r)' => Inserting(r)
    BY <2>1 DEF Inserting
  <2> QED BY <2>3, <2>4, LimitShrinks
<1> QED BY <1>1, <1>2, LimitCreate, LimitInsert DEF MaintenanceNext

\* The limit of the tier is passed by no more than the other requests.
THEOREM LimitHolds == MaintenanceSpec => []LimitBound
<1>1. LimitInv /\ WindowInv /\ [MaintenanceNext]_maintenanceVars => LimitInv'
  BY LimitStep
<1>2. LimitInv => LimitBound
  <2> SUFFICES ASSUME LimitInv PROVE LimitBound
    OBVIOUS
  <2>1. CountByUserID = Cardinality(Used)
    BY DEF CountByUserID, Used
  <2> QED BY <2>1, Finite DEF LimitInv, LimitBound
<1> QED BY <1>1, <1>2, LimitStart, WindowsInvariant, PTL DEF MaintenanceSpec

-----------------------------------------------------------------------------
\* Where the scheduler's goroutine is says whether goroutines of a batch exist.
LoopInv ==
    /\ DOMAIN check = Goroutines /\ check = [g \in Goroutines |-> check[g]]
    /\ loop # "batch" => \A m \in Monitors : check[m].stage = "idle"
    /\ ~running /\ ~stopping => loop = "none"

\* The entry of a goroutine that does not exist.
LEMMA NoCheckIdle == NoCheck.stage = "idle" /\ \A m \in Monitors : Ended(m).stage = "idle"
BY DEF NoCheck, Ended

\* A goroutine goes on.
LEMMA GoesTo ==
    ASSUME LoopInv, NEW g \in Goroutines, NEW c, Goes(g, c)
    PROVE  /\ DOMAIN check' = Goroutines /\ check' = [h \in Goroutines |-> check'[h]]
           /\ check'[g] = c /\ \A h \in Goroutines \ {g} : check'[h] = check[h]
BY DEF LoopInv, Goes

\* A step of executeCheck: of a goroutine that has begun, and only its own entry.
LEMMA CheckStepShape ==
    ASSUME LoopInv, NEW g \in Goroutines, CheckStep(g)
    PROVE  /\ check[g].stage \in CheckStages /\ LoopUnchanged
           /\ \E c : Goes(g, c)
BY DEF CheckStep, ReadMonitor, CheckWindows, executeHTTPCheck, Retry, RetryCancelled,
       SaveResult, WriteLastCheck, CompareStatus, WriteStatus, CheckStages

\* Every step keeps LoopInv.
LEMMA LoopStep ==
    ASSUME LoopInv, [MonitoringNext \/ (MaintenanceNext /\ UNCHANGED monitoringVars)]_allMonitorVars
    PROVE  LoopInv'
<1>1. CASE SchedulerStep
  <2>1. CASE Start \/ StopBegins \/ StopReturns \/ CancelContext \/ LoopEnds
    BY <2>1 DEF LoopInv, Start, StopBegins, StopReturns, CancelContext, LoopEnds
  <2>2. CASE scheduleBatch \/ batchEnds
    BY <2>2 DEF LoopInv, scheduleBatch, batchEnds
  <2>3. ASSUME NEW m \in Monitors, Acquire(m)
        PROVE  LoopInv'
    <3>1. loop = "batch"
      BY <2>3 DEF Acquire, LoopInv
    <3> QED BY <2>3, <3>1 DEF Acquire, LoopInv, LoopUnchanged
  <2>4. ASSUME NEW m \in Monitors, BecomesDue(m)
        PROVE  LoopInv'
    BY <2>4 DEF BecomesDue, LoopInv, LoopUnchanged
  <2>5. ASSUME NEW t \in Triggers, NEW m \in Monitors, ScheduleCheck(t, m)
        PROVE  LoopInv'
    <3>1. \A n \in Monitors : n # t /\ n \in Goroutines /\ t \in Goroutines
      BY MonitoringAssumption DEF Goroutines
    <3>2. \E c : Goes(t, c)
      BY <2>5 DEF ScheduleCheck, Goes
    <3>3. /\ DOMAIN check' = Goroutines /\ check' = [h \in Goroutines |-> check'[h]]
          /\ \A h \in Goroutines \ {t} : check'[h] = check[h]
      BY <3>1, <3>2, GoesTo DEF Goroutines
    <3>4. LoopUnchanged
      BY <2>5 DEF ScheduleCheck
    <3> QED BY <3>1, <3>3, <3>4 DEF LoopInv, LoopUnchanged
  <2> QED BY <1>1, <2>1, <2>2, <2>3, <2>4, <2>5 DEF SchedulerStep
<1>2. ASSUME NEW g \in Goroutines, CheckStep(g)
      PROVE  LoopInv'
  <2>1. check[g].stage \in CheckStages /\ LoopUnchanged /\ \E c : Goes(g, c)
    BY <1>2, CheckStepShape
  <2>2. /\ DOMAIN check' = Goroutines /\ check' = [h \in Goroutines |-> check'[h]]
        /\ \A h \in Goroutines \ {g} : check'[h] = check[h]
    BY <2>1, GoesTo
  <2>3. loop # "batch" => g \notin Monitors
    BY <2>1 DEF LoopInv, CheckStages
  <2> QED BY <2>1, <2>2, <2>3 DEF LoopInv, LoopUnchanged, Goroutines
<1>3. ASSUME NEW r \in Calls, CallStep(r)
      PROVE  LoopInv'
  BY <1>3 DEF CallStep, CallReads, CallWrites, LoopUnchanged, LoopInv
<1>4. CASE UNCHANGED monitoringVars
  BY <1>4 DEF monitoringVars, LoopInv
<1> QED BY <1>1, <1>2, <1>3, <1>4 DEF MonitoringNext, allMonitorVars

\* Once Stop has returned no check of a batch is under way.
THEOREM StopWaits == MonitoringSpec => []StoppedMeansIdle
<1>1. MonitoringInit => LoopInv
  BY NoCheckIdle DEF MonitoringInit, LoopInv, Goroutines
<1>2. LoopInv /\ [MonitoringNext \/ (MaintenanceNext /\ UNCHANGED monitoringVars)]_allMonitorVars
        => LoopInv'
  BY LoopStep
<1>3. LoopInv => StoppedMeansIdle
  BY DEF LoopInv, StoppedMeansIdle
<1> QED BY <1>1, <1>2, <1>3, PTL DEF MonitoringSpec
=============================================================================
