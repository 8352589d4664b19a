------------------------ MODULE ResultBatcher_proofs ------------------------
(***************************************************************************)
(* Proofs about ResultBatcher for every set of ids, batch size and number  *)
(* of concurrent flushes.                                                  *)
(***************************************************************************)
EXTENDS ResultBatcher, TLAPS

FlusherRow == [pc : {"idle", "take", "send", "done"}, results : [Ids -> Reports]]

\* The type invariant by parts: one for the maps, one for the flush calls.
MapsOK ==
    /\ pending \in [Ids -> Reports]
    /\ sent \subseteq Ids
    /\ closing \in {"open", "drain", "last", "flush", "closed"}
    /\ added \in [Ids -> Reports]
FlushesOK ==
    /\ fl \in [Flushers -> FlusherRow]
    /\ \A p \in Flushers : fl[p].pc # "send" => fl[p].results = Empty

LEMMA TypeParts == TypeOK <=> MapsOK /\ FlushesOK
BY DEF TypeOK, MapsOK, FlushesOK, FlusherRow

LEMMA EmptyType == Empty \in [Ids -> Reports] /\ \A i \in Ids : Empty[i] = NoResult
BY ResultBatcherAssumption DEF Empty, Reports, NoResult

LEMMA StartType ==
    ASSUME FlushesOK, NEW p \in Flushers, StartFlush(p)
    PROVE  FlushesOK'
<1>1. [pc |-> "take", results |-> Empty] \in FlusherRow
  BY EmptyType DEF FlusherRow
<1> QED BY <1>1 DEF FlushesOK, StartFlush

\* Starting a flush keeps the flushes well formed.
LEMMA StartFlushType ==
    ASSUME FlushesOK, NEW p \in Flushers, fl[p].pc # "send", StartFlush(p)
    PROVE  /\ FlushesOK'
           /\ \A q \in Flushers : fl'[q].results = fl[q].results
<1>1. fl[p].results = Empty
  BY DEF FlushesOK
<1> QED BY <1>1, StartType DEF FlushesOK, StartFlush, FlusherRow

\* So does ending one.
LEMMA ReturnType ==
    ASSUME FlushesOK, NEW p \in Flushers,
           fl' = [fl EXCEPT ![p] = [pc |-> Returned(p), results |-> Empty]]
    PROVE  FlushesOK'
<1>1. [pc |-> Returned(p), results |-> Empty] \in FlusherRow
  BY EmptyType DEF FlusherRow, Returned
<1> QED BY <1>1 DEF FlushesOK, Returned

LEMMA SpecialFlushers == Loop \in Flushers /\ Final \in Flushers /\ Spawned \subseteq Flushers
BY DEF Flushers

FlushCalled == FlushTick \/ \E p \in Spawned : Flush(p)

\* The ticker and a caller of Flush start a flush and change nothing else.
LEMMA FlushCalledStarts ==
    ASSUME FlushCalled
    PROVE  /\ \E p \in Flushers : p # Final /\ fl[p].pc # "send" /\ StartFlush(p)
           /\ UNCHANGED <<pending, sent, closing, added>>
BY SpecialFlushers, ResultBatcherAssumption DEF FlushCalled, FlushTick, Flush, Loop, Final

\* AddResult by cases: a duplicate, or a new entry of the pending map.
LEMMA AddType ==
    ASSUME MapsOK, FlushesOK, NEW i \in Ids, AddResult(i)
    PROVE  /\ MapsOK' /\ FlushesOK'
           /\ \A q \in Flushers : fl'[q].results = fl[q].results
           /\ \A j \in Ids : pending[j] # NoResult => pending'[j] # NoResult
           /\ \A j \in Ids : j # i => added'[j] = added[j]
           /\ i \in sent \/ pending'[i] # NoResult
           /\ sent' = sent
<1>1. /\ added' \in [Ids -> Reports] /\ added'[i] # NoResult
      /\ \A j \in Ids : j # i => added'[j] = added[j]
  BY ResultBatcherAssumption DEF AddResult, MapsOK, Reports, NoResult
<1>2. CASE i \in sent /\ UNCHANGED <<pending, fl>>
  BY <1>1, <1>2 DEF AddResult, MapsOK, FlushesOK
<1>3. CASE i \notin sent /\ pending' = [pending EXCEPT ![i] = added'[i]]
  <2>1. /\ pending' \in [Ids -> Reports] /\ pending'[i] # NoResult
        /\ \A j \in Ids : pending[j] # NoResult => pending'[j] # NoResult
    BY <1>1, <1>3 DEF MapsOK
  <2>2. CASE UNCHANGED fl
    BY <1>1, <1>3, <2>1, <2>2 DEF AddResult, MapsOK, FlushesOK
  <2>3. CASE \E p \in Spawned : fl[p].pc = "idle" /\ StartFlush(p)
    <3>1. PICK p \in Spawned : fl[p].pc = "idle" /\ StartFlush(p)
      BY <2>3
    <3>2. p \in Flushers /\ fl[p].pc # "send"
      BY <3>1, SpecialFlushers
    <3>3. FlushesOK' /\ \A q \in Flushers : fl'[q].results = fl[q].results
      BY <3>1, <3>2, StartFlushType
    <3> QED BY <1>1, <1>3, <2>1, <3>3 DEF AddResult, MapsOK
  <2> QED BY <1>3, <2>2, <2>3 DEF AddResult
<1> QED BY <1>2, <1>3 DEF AddResult

LEMMA TypeInductive == TypeOK /\ [Next]_vars => TypeOK'
<1> SUFFICES ASSUME MapsOK, FlushesOK, [Next]_vars PROVE MapsOK' /\ FlushesOK'
    BY DEF TypeOK, MapsOK, FlushesOK, FlusherRow
<1>1. ASSUME NEW i \in Ids, AddResult(i) PROVE MapsOK' /\ FlushesOK'
  BY <1>1, AddType
<1>2. ASSUME FlushCalled PROVE MapsOK' /\ FlushesOK'
  BY <1>2, FlushCalledStarts, StartType DEF MapsOK
<1>3. ASSUME NEW p \in Flushers, FlushTake(p) PROVE MapsOK' /\ FlushesOK'
  <2>1. MapsOK'
    BY <1>3, EmptyType DEF FlushTake, MapsOK
  <2>2. CASE pending = Empty
    BY <1>3, <2>1, <2>2, ReturnType DEF FlushTake
  <2>3. CASE pending # Empty
    <3>1. fl' = [fl EXCEPT ![p] = [pc |-> "send", results |-> pending]]
      BY <1>3, <2>3 DEF FlushTake
    <3>2. [pc |-> "send", results |-> pending] \in FlusherRow
      BY DEF FlusherRow, MapsOK
    <3> QED BY <2>1, <3>1, <3>2 DEF FlushesOK
  <2> QED BY <2>1, <2>2, <2>3
<1>4. ASSUME NEW p \in Flushers, FlushError(p) PROVE MapsOK' /\ FlushesOK'
  <2>1. fl[p].results \in [Ids -> Reports]
    BY DEF FlushesOK, FlusherRow
  <2>2. MapsOK'
    BY <1>4, <2>1 DEF FlushError, PutBack, MapsOK
  <2> QED BY <1>4, <2>2, ReturnType DEF FlushError, PutBack
<1>5. ASSUME NEW p \in Flushers, FlushOk(p) PROVE MapsOK' /\ FlushesOK'
  <2>1. MapsOK'
    BY <1>5 DEF FlushOk, MapsOK, Keys
  <2> QED BY <1>5, <2>1, ReturnType DEF FlushOk
<1>6. CASE CloseBegin
  BY <1>6 DEF CloseBegin, MapsOK, FlushesOK
<1>7. CASE CloseStep
  <2>1. CASE LoopDone
    BY <2>1, StartType, SpecialFlushers DEF LoopDone, MapsOK
  <2>2. CASE CloseFlush
    BY <2>2, StartType, SpecialFlushers DEF CloseFlush, MapsOK
  <2>3. CASE CloseReturn
    BY <2>3 DEF CloseReturn, MapsOK, FlushesOK
  <2> QED BY <1>7, <2>1, <2>2, <2>3 DEF CloseStep
<1>8. CASE UNCHANGED vars
  BY <1>8 DEF vars, MapsOK, FlushesOK
<1> QED
  BY <1>1, <1>2, <1>3, <1>4, <1>5, <1>6, <1>7, <1>8 DEF Next, FlushStep, FlushCalled

\* Every variable of the batcher keeps its type.
THEOREM TypeCorrect == Spec => []TypeOK
<1>1. Init => TypeOK
  <2> SUFFICES ASSUME Init PROVE MapsOK /\ FlushesOK
      BY TypeParts
  <2>1. MapsOK
    BY EmptyType DEF Init, MapsOK
  <2>2. [pc |-> "idle", results |-> Empty] \in FlusherRow
    BY EmptyType DEF FlusherRow
  <2> QED BY <2>1, <2>2 DEF Init, FlushesOK
<1> QED BY <1>1, TypeInductive, PTL DEF Spec

-----------------------------------------------------------------------------
(* No loss. *)

\* Close's own flush has not begun before closing says so.
FinalIdle == closing \notin {"flush", "closed"} => fl[Final].pc = "idle"

LEMMA FinalIdleInductive == TypeOK /\ FinalIdle /\ [Next]_vars => FinalIdle'
<1> SUFFICES ASSUME MapsOK, FlushesOK, FinalIdle, [Next]_vars PROVE FinalIdle'
    BY TypeParts
<1> USE DEF FinalIdle
<1>0. Final \notin {Loop} \cup Spawned /\ Final \in Flushers
  BY ResultBatcherAssumption DEF Flushers, Final, Loop
<1>1. ASSUME NEW p \in Flushers, p # Final, StartFlush(p) PROVE fl'[Final] = fl[Final]
  BY <1>0, <1>1 DEF StartFlush, FlushesOK
<1>2. ASSUME NEW i \in Ids, AddResult(i) PROVE FinalIdle'
  BY <1>0, <1>1, <1>2, SpecialFlushers DEF AddResult
<1>3. CASE FlushCalled
  BY <1>1, <1>3, FlushCalledStarts
<1>4. ASSUME NEW p \in Flushers, FlushStep(p) PROVE FinalIdle'
  <2>1. closing' = closing /\ fl[p].pc # "idle"
    BY <1>4 DEF FlushStep, FlushTake, FlushError, FlushOk
  <2>2. p # Final => fl'[Final] = fl[Final]
    BY <1>0, <1>4 DEF FlushStep, FlushTake, FlushError, PutBack, FlushOk, FlushesOK
  <2> QED BY <2>1, <2>2
<1>5. CASE CloseBegin \/ CloseStep
  BY <1>0, <1>1, <1>5, SpecialFlushers
  DEF CloseBegin, CloseStep, LoopDone, CloseFlush, CloseReturn
<1>6. CASE UNCHANGED vars
  BY <1>6 DEF vars
<1> QED BY <1>2, <1>3, <1>4, <1>5, <1>6 DEF Next, FlushCalled

\* KeptUntilSent is inductive relative to the type invariant: an entry leaves
\* pending only for a batch, and a batch only for sent or back for pending.
LEMMA KeptInductive ==
    TypeOK /\ FinalIdle /\ KeptUntilSent /\ [Next]_vars => KeptUntilSent'
<1> SUFFICES ASSUME MapsOK, FlushesOK, FinalIdle, KeptUntilSent, [Next]_vars
             PROVE  KeptUntilSent'
    BY TypeParts
<1> USE DEF KeptUntilSent, InFlight, MapsOK
<1>1. ASSUME NEW i \in Ids, AddResult(i) PROVE KeptUntilSent'
  BY <1>1, AddType
<1>2. ASSUME NEW p \in Flushers, FlushTake(p) PROVE KeptUntilSent'
  <2>1. CASE pending = Empty
    <3>1. fl[p].results = Empty
      BY <1>2 DEF FlushTake, FlushesOK
    <3>2. \A q \in Flushers : fl'[q].results = fl[q].results
      BY <1>2, <2>1, <3>1 DEF FlushTake, FlushesOK, FlusherRow
    <3> QED BY <1>2, <2>1, <3>2 DEF FlushTake
  <2>2. CASE pending # Empty
    <3>1. fl' = [fl EXCEPT ![p] = [pc |-> "send", results |-> pending]]
      BY <1>2, <2>2 DEF FlushTake
    <3>2. fl'[p].results = pending /\ \A q \in Flushers : q # p => fl'[q] = fl[q]
      BY <3>1 DEF FlushesOK
    <3>3. \A i \in Ids : fl[p].results[i] = NoResult
      BY <1>2, EmptyType DEF FlushTake, FlushesOK
    <3> QED BY <1>2, <3>2, <3>3 DEF FlushTake
  <2> QED BY <2>1, <2>2
<1>3. ASSUME NEW p \in Flushers, FlushError(p) PROVE KeptUntilSent'
  <2>1. \A q \in Flushers : q # p => fl'[q] = fl[q]
    BY <1>3 DEF FlushError, PutBack, FlushesOK
  <2>2. \A i \in Ids : pending'[i] = IF fl[p].results[i] # NoResult
                                     THEN fl[p].results[i] ELSE pending[i]
    BY <1>3 DEF FlushError, PutBack
  <2> QED BY <1>3, <2>1, <2>2 DEF FlushError
<1>4. ASSUME NEW p \in Flushers, FlushOk(p) PROVE KeptUntilSent'
  <2>1. \A q \in Flushers : q # p => fl'[q] = fl[q]
    BY <1>4 DEF FlushOk, FlushesOK
  <2>2. \A i \in Ids : i \in sent \/ fl[p].results[i] # NoResult => i \in sent'
    BY <1>4 DEF FlushOk, Keys
  <2> QED BY <1>4, <2>1, <2>2 DEF FlushOk
<1>5. ASSUME NEW p \in Flushers, fl[p].pc # "send", StartFlush(p),
             UNCHANGED <<pending, sent, added>>
      PROVE  KeptUntilSent'
  BY <1>5, StartFlushType
<1>6. CASE FlushCalled
  BY <1>5, <1>6, FlushCalledStarts
<1>7. CASE LoopDone
  BY <1>7, <1>5, SpecialFlushers DEF LoopDone
<1>8. CASE CloseFlush
  BY <1>8, <1>5, SpecialFlushers DEF CloseFlush, FinalIdle
<1>9. CASE UNCHANGED <<pending, sent, fl, added>>
  BY <1>9
<1> QED
  BY <1>1, <1>2, <1>3, <1>4, <1>6, <1>7, <1>8, <1>9
  DEF Next, FlushCalled, FlushStep, CloseStep, CloseBegin, CloseReturn, vars

\* Whatever overlaps and fails, an accepted result is pending, being sent, or
\* sent.
THEOREM NothingLost == Spec => []KeptUntilSent
<1>1. Init => KeptUntilSent /\ FinalIdle
  BY EmptyType, SpecialFlushers DEF Init, KeptUntilSent, FinalIdle, NoResult
<1> QED BY <1>1, FinalIdleInductive, KeptInductive, TypeCorrect, PTL DEF Spec

-----------------------------------------------------------------------------
(* The batcher implements the abstract intake. *)

\* What the abstract variables of the mapping stand for.
Accepted == {i \in Ids : added[i] # NoResult}

\* AddResult is Accept: it holds the id unless it was sent, and nothing else.
LEMMA AddMaps ==
    ASSUME MapsOK, FlushesOK, NEW i \in Ids, AddResult(i)
    PROVE  Intake!Accept(i)
<1>1. /\ \A q \in Flushers : fl'[q].results = fl[q].results
      /\ \A j \in Ids : j # i => added'[j] = added[j]
      /\ sent' = sent /\ MapsOK'
  BY AddType
<1>2. closing' = closing /\ added'[i] # NoResult
  BY ResultBatcherAssumption DEF AddResult, MapsOK, Reports, NoResult
<1>3. Accepted' = Accepted \cup {i}
  BY <1>1, <1>2 DEF Accepted
<1>4. CASE i \in sent
  <2>1. pending' = pending
    BY <1>4 DEF AddResult
  <2>2. Held' = Held
    BY <1>1, <2>1 DEF Held, InFlight
  <2> QED BY <1>1, <1>2, <1>3, <1>4, <2>2 DEF Intake!Accept, Accepted
<1>5. CASE i \notin sent
  <2>1. pending' = [pending EXCEPT ![i] = added'[i]]
    BY <1>5 DEF AddResult
  <2>2. pending'[i] # NoResult /\ \A j \in Ids : j # i => pending'[j] = pending[j]
    BY <1>2, <2>1 DEF MapsOK
  <2>3. Held' = Held \cup {i}
    BY <1>1, <2>2 DEF Held, InFlight
  <2> QED BY <1>1, <1>2, <1>3, <1>5, <2>3 DEF Intake!Accept, Accepted
<1> QED BY <1>4, <1>5

\* Taking the map moves what is held from one place to another.
LEMMA TakeMaps ==
    ASSUME MapsOK, FlushesOK, NEW p \in Flushers, FlushTake(p)
    PROVE  Held' = Held
<1>1. \A i \in Ids : fl[p].results[i] = NoResult /\ pending'[i] = NoResult
  BY EmptyType DEF FlushTake, FlushesOK
<1>2. fl'[p].results = pending /\ \A q \in Flushers : q # p => fl'[q] = fl[q]
  <2>1. CASE pending = Empty
    BY <2>1 DEF FlushTake, FlushesOK
  <2>2. CASE pending # Empty
    BY <2>2 DEF FlushTake, FlushesOK
  <2> QED BY <2>1, <2>2
<1> QED BY <1>1, <1>2 DEF Held, InFlight

\* So does putting a batch back.
LEMMA ErrorMaps ==
    ASSUME MapsOK, FlushesOK, NEW p \in Flushers, FlushError(p)
    PROVE  Held' = Held
<1>1. /\ fl'[p].results = Empty /\ \A q \in Flushers : q # p => fl'[q] = fl[q]
      /\ \A i \in Ids : Empty[i] = NoResult
  BY EmptyType DEF FlushError, PutBack, FlushesOK
<1>2. \A i \in Ids : pending'[i] = IF fl[p].results[i] # NoResult
                                   THEN fl[p].results[i] ELSE pending[i]
  BY DEF FlushError, PutBack
<1> QED BY <1>1, <1>2 DEF Held, InFlight

\* A successful submission is Deliver; what stays held has a second result.
LEMMA OkMaps ==
    ASSUME MapsOK, FlushesOK, NEW p \in Flushers, FlushOk(p)
    PROVE  Intake!Deliver(Keys(fl[p].results))
<1> DEFINE B == Keys(fl[p].results)
<1> DEFINE K == Held \ Held'
<1>1. /\ fl'[p].results = Empty /\ \A q \in Flushers : q # p => fl'[q] = fl[q]
      /\ \A i \in Ids : Empty[i] = NoResult
      /\ pending' = pending /\ sent' = sent \cup B
      /\ closing' = closing /\ added' = added
  BY EmptyType DEF FlushOk, FlushesOK
<1>2. B \subseteq Held
  BY DEF Keys, Held, InFlight
<1>3. Held' \subseteq Held /\ K \subseteq B
  BY <1>1 DEF Keys, Held, InFlight
<1>4. K \in SUBSET B /\ Held' = Held \ K
  BY <1>3
<1> QED BY <1>1, <1>2, <1>4 DEF Intake!Deliver

\* A step that starts a flush, or changes no map, is a stutter of the intake.
LEMMA StartMaps ==
    ASSUME FlushesOK, NEW p \in Flushers, fl[p].pc # "send", StartFlush(p),
           UNCHANGED pending
    PROVE  Held' = Held
BY StartFlushType DEF Held, InFlight

LEMMA StepMaps ==
    TypeOK /\ FinalIdle /\ [Next]_vars
        => [Intake!IntakeNext]_(Intake!intakeVars)
<1> SUFFICES ASSUME MapsOK, FlushesOK, FinalIdle, [Next]_vars
             PROVE  Intake!IntakeNext \/ UNCHANGED Intake!intakeVars
    BY TypeParts
<1>1. ASSUME NEW i \in Ids, AddResult(i) PROVE Intake!IntakeNext
  BY <1>1, AddMaps DEF Intake!IntakeNext
<1>2. ASSUME Held' = Held, UNCHANGED <<sent, added>>, (closing = "open") = (closing = "open")'
      PROVE  UNCHANGED Intake!intakeVars
  BY <1>2 DEF Intake!intakeVars
<1>3. ASSUME NEW p \in Flushers, FlushStep(p)
      PROVE  Intake!IntakeNext \/ UNCHANGED Intake!intakeVars
  <2>1. CASE FlushTake(p)
    BY <2>1, <1>2, TakeMaps DEF FlushTake
  <2>2. CASE FlushError(p)
    BY <2>2, <1>2, ErrorMaps DEF FlushError
  <2>3. CASE FlushOk(p)
    <3>1. Keys(fl[p].results) \in SUBSET Ids
      BY DEF Keys
    <3> QED BY <2>3, <3>1, OkMaps DEF Intake!IntakeNext
  <2> QED BY <1>3, <2>1, <2>2, <2>3 DEF FlushStep
<1>4. CASE FlushCalled
  <2>1. Held' = Held
    BY <1>4, FlushCalledStarts, StartMaps
  <2> QED BY <1>4, <1>2, <2>1, FlushCalledStarts
<1>5. CASE CloseBegin
  <2>1. Held' = Held
    BY <1>5 DEF CloseBegin, Held, InFlight
  <2> QED BY <1>5, <2>1 DEF CloseBegin, Intake!IntakeNext, Intake!Close
<1>6. CASE LoopDone
  <2>1. Held' = Held
    BY <1>6, StartMaps, SpecialFlushers DEF LoopDone
  <2> QED BY <1>6, <1>2, <2>1 DEF LoopDone
<1>7. CASE CloseFlush
  <2>1. fl[Final].pc # "send"
    BY <1>7 DEF CloseFlush, FinalIdle
  <2>2. Held' = Held
    BY <1>7, <2>1, StartMaps, SpecialFlushers DEF CloseFlush
  <2> QED BY <1>7, <1>2, <2>2 DEF CloseFlush
<1>8. CASE CloseReturn
  <2>1. Held' = Held
    BY <1>8 DEF CloseReturn, Held, InFlight
  <2> QED BY <1>8, <1>2, <2>1 DEF CloseReturn
<1>9. CASE UNCHANGED vars
  <2>1. Held' = Held
    BY <1>9 DEF vars, Held, InFlight
  <2> QED BY <1>9, <1>2, <2>1 DEF vars
<1> QED
  BY <1>1, <1>3, <1>4, <1>5, <1>6, <1>7, <1>8, <1>9 DEF Next, FlushCalled, CloseStep

\* The batcher implements the safety part of the abstract intake, also when
\* results and flushes come during and after Close: every step of AddResult,
\* flush and Close accepts one id, delivers a batch that was held,
\* closes, or changes nothing that a reporter can tell.
THEOREM BatcherImplementsIntake == Spec => Intake!IntakeSafe
<1>1. Init => Intake!IntakeInit
  <2> SUFFICES ASSUME Init PROVE Intake!IntakeInit
      OBVIOUS
  <2>1. \A i \in Ids : added[i] = NoResult /\ pending[i] = NoResult
    BY EmptyType DEF Init
  <2>2. \A i \in Ids, p \in Flushers : fl[p].results[i] = NoResult
    BY EmptyType DEF Init
  <2>3. Held = {}
    BY <2>1, <2>2 DEF Held, InFlight
  <2> QED BY <2>1, <2>3 DEF Init, Intake!IntakeInit
<1>2. Init => FinalIdle
  BY SpecialFlushers DEF Init, FinalIdle
<1> QED
  BY <1>1, <1>2, FinalIdleInductive, StepMaps, TypeCorrect, PTL
  DEF Spec, Intake!IntakeSafe
=============================================================================
