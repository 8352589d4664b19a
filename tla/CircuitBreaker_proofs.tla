------------------------ MODULE CircuitBreaker_proofs ------------------------
(***************************************************************************)
(* Proofs about the circuit breaker for every set of callers, every pair   *)
(* of thresholds (non-positive ones included: they take their defaults)    *)
(* and every timeout.                                                      *)
(***************************************************************************)
EXTENDS CircuitBreaker, TLAPS

\* withDefaults yields positive thresholds whatever is configured.
LEMMA ThresholdsPositive ==
    /\ cfgFailureThreshold \in Nat \ {0}
    /\ cfgSuccessThreshold \in Nat \ {0}
  BY ConfigAssumption DEF cfgFailureThreshold, cfgSuccessThreshold

\* The breaker struct as TypeOK types it.
Breaker == [state : States, failures : 0 .. cfgFailureThreshold,
            successes : 0 .. cfgSuccessThreshold, elapsed : 0 .. Timeout]

LEMMA TransitionType ==
    ASSUME NEW b \in Breaker, NEW to \in States
    PROVE  transition(b, to) \in Breaker
<1>1. /\ 0 \in 0 .. Timeout /\ 0 \in 0 .. cfgFailureThreshold
      /\ 0 \in 0 .. cfgSuccessThreshold
  BY ConfigAssumption, ThresholdsPositive
<1>2. CASE to = "OPEN"
  BY <1>1, <1>2 DEF Breaker, transition, States
<1>3. CASE to = "CLOSED"
  BY <1>1, <1>3 DEF Breaker, transition, States
<1>4. CASE to = "HALF_OPEN"
  BY <1>1, <1>4 DEF Breaker, transition, States
<1> QED
  BY <1>2, <1>3, <1>4 DEF States

-----------------------------------------------------------------------------
(* Inductive invariance.  Each state's counter starts from zero when the   *)
(* state is entered and then moves with the history run it counts.  That   *)
(* no trial starts early needs one more fact: while the breaker is open,   *)
(* the time since lastFailure is the time since ANY call failed.           *)

\* What the breaker b means beside f failures in a row, k successes in a row
\* since it was open, and q quiet ticks.
Sound(b, f, k, q) ==
    /\ b \in Breaker
    /\ b.state = "CLOSED" => b.failures = f /\ f < cfgFailureThreshold
    /\ b.state = "HALF_OPEN" =>
         b.successes = k /\ k < cfgSuccessThreshold /\ q = Timeout
    /\ b.state = "OPEN" => b.elapsed = q /\ k = 0

IInv ==
    /\ Sound(cb, failRun, trialRun, quiet)
    /\ calls \in [Callers -> {"idle", "running", "rejected"}]
    /\ up \in BOOLEAN
    /\ failRun \in 0 .. cfgFailureThreshold
    /\ trialRun \in 0 .. cfgSuccessThreshold
    /\ quiet \in 0 .. Timeout

LEMMA InitIInv == Init => IInv
<1> SUFFICES ASSUME Init PROVE IInv
  OBVIOUS
<1>1. New \in Breaker
  BY ThresholdsPositive, ConfigAssumption DEF New, Breaker, States
<1> QED
  BY <1>1, ThresholdsPositive, ConfigAssumption DEF Init, IInv, Sound, New

\* refreshState, wherever it runs, keeps what the counters and the clock mean.
LEMMA RefreshSound ==
    ASSUME NEW b, NEW f, NEW k, NEW q \in 0 .. Timeout, Sound(b, f, k, q)
    PROVE  Sound(refreshState(b), f, k, q)
<1>1. CASE b.state = "OPEN" /\ b.elapsed >= Timeout
  <2>1. transition(b, "HALF_OPEN") \in Breaker
    BY TransitionType DEF Sound, States
  <2>2. /\ transition(b, "HALF_OPEN").state = "HALF_OPEN"
        /\ transition(b, "HALF_OPEN").successes = 0
    BY DEF Sound, Breaker, transition
  <2>3. q = Timeout /\ k = 0
    BY <1>1, ConfigAssumption DEF Sound
  <2> QED
    BY <1>1, <2>1, <2>2, <2>3, ThresholdsPositive DEF Sound, refreshState
<1>2. CASE ~(b.state = "OPEN" /\ b.elapsed >= Timeout)
  BY <1>2 DEF refreshState
<1> QED
  BY <1>1, <1>2

\* A breaker that opens, and so has its clock at zero, is sound beside a
\* failure just recorded.
LEMMA OpenedSound ==
    ASSUME NEW b \in Breaker, NEW f
    PROVE  Sound(transition(b, "OPEN"), f, 0, 0)
<1>1. transition(b, "OPEN") \in Breaker
  BY TransitionType DEF States
<1>2. transition(b, "OPEN").state = "OPEN" /\ transition(b, "OPEN").elapsed = 0
  BY DEF Breaker, transition
<1> QED
  BY <1>1, <1>2 DEF Sound

\* recordResult moves the counters with the runs of results they count.
LEMMA RecordSound ==
    ASSUME NEW b, NEW f \in 0 .. cfgFailureThreshold,
           NEW k \in 0 .. cfgSuccessThreshold, NEW q \in 0 .. Timeout,
           Sound(b, f, k, q), NEW err \in BOOLEAN, NEW r, NEW g, NEW l, NEW p,
           r = recordResult(b, err),
           g = (IF err THEN Saturate(f, cfgFailureThreshold) ELSE 0),
           l = (IF err \/ r.state = "OPEN" THEN 0
                ELSE Saturate(k, cfgSuccessThreshold)),
           p = (IF err THEN 0 ELSE q)
    PROVE  /\ Sound(r, g, l, p)
           /\ g \in 0 .. cfgFailureThreshold
           /\ l \in 0 .. cfgSuccessThreshold
           /\ p \in 0 .. Timeout
<1>1. b \in Breaker
  BY DEF Sound
<1>2. /\ g \in 0 .. cfgFailureThreshold
      /\ l \in 0 .. cfgSuccessThreshold
      /\ p \in 0 .. Timeout
  BY ThresholdsPositive, ConfigAssumption DEF Saturate
<1>3. CASE b.state = "CLOSED"
  <2>1. r = recordClosed(b, err)
    BY <1>3 DEF recordResult
  <2>2. CASE err
    <3> DEFINE counted == [b EXCEPT !.failures = @ + 1]
    <3>1. g = f + 1 /\ b.failures = f /\ f < cfgFailureThreshold
      BY <1>3, <2>2, ThresholdsPositive DEF Sound, Saturate
    <3>2. counted \in Breaker /\ counted.failures = f + 1 /\ counted.state = "CLOSED"
      BY <1>1, <1>3, <3>1, ThresholdsPositive DEF Breaker
    <3>3. CASE counted.failures >= cfgFailureThreshold
      <4>1. r = transition(counted, "OPEN")
        BY <2>1, <2>2, <3>3 DEF recordClosed
      <4>2. l = 0 /\ p = 0
        BY <2>2
      <4> QED
        BY <1>2, <3>2, <4>1, <4>2, OpenedSound
    <3>4. CASE ~(counted.failures >= cfgFailureThreshold)
      <4>1. r = counted
        BY <2>1, <2>2, <3>4 DEF recordClosed
      <4>2. g < cfgFailureThreshold
        BY <3>1, <3>2, <3>4, ThresholdsPositive
      <4> QED
        BY <1>2, <3>1, <3>2, <4>1, <4>2 DEF Sound
    <3> QED
      BY <3>3, <3>4
  <2>3. CASE ~err
    <3>1. /\ r \in Breaker /\ r.state = "CLOSED" /\ r.failures = 0
      BY <1>1, <1>3, <2>1, <2>3, ThresholdsPositive DEF recordClosed, Breaker
    <3> QED
      BY <1>2, <2>3, <3>1, ThresholdsPositive DEF Sound
  <2> QED
    BY <2>2, <2>3
<1>4. CASE b.state = "OPEN"
  <2>1. r = recordOpen(b, err)
    BY <1>4 DEF recordResult
  <2>2. CASE err
    <3>1. r \in Breaker /\ r.state = "OPEN" /\ r.elapsed = 0
      BY <1>1, <1>4, <2>1, <2>2, ConfigAssumption DEF recordOpen, Breaker
    <3> QED
      BY <1>2, <2>2, <3>1 DEF Sound
  <2>3. CASE ~err
    <3>1. r = b
      BY <2>1, <2>3 DEF recordOpen
    <3> QED
      BY <1>2, <1>4, <2>3, <3>1 DEF Sound
  <2> QED
    BY <2>2, <2>3
<1>5. CASE b.state = "HALF_OPEN"
  <2>1. r = recordHalfOpen(b, err)
    BY <1>5 DEF recordResult
  <2>2. CASE err
    <3>1. r = transition(b, "OPEN") /\ l = 0 /\ p = 0
      BY <2>1, <2>2 DEF recordHalfOpen
    <3> QED
      BY <1>1, <1>2, <3>1, OpenedSound
  <2>3. CASE ~err
    <3> DEFINE counted == [b EXCEPT !.successes = @ + 1]
    <3>1. b.successes = k /\ k < cfgSuccessThreshold /\ q = Timeout
      BY <1>5 DEF Sound
    <3>2. /\ counted \in Breaker /\ counted.successes = k + 1
          /\ counted.state = "HALF_OPEN"
      BY <1>1, <1>5, <3>1, ThresholdsPositive DEF Breaker
    <3>3. CASE counted.successes >= cfgSuccessThreshold
      <4>1. r = transition(counted, "CLOSED")
        BY <2>1, <2>3, <3>3 DEF recordHalfOpen
      <4>2. r \in Breaker
        BY <3>2, <4>1, TransitionType DEF States
      <4>3. r.state = "CLOSED" /\ r.failures = 0 /\ g = 0
        BY <2>3, <3>2, <4>1 DEF transition, Breaker
      <4> QED
        BY <1>2, <4>2, <4>3, ThresholdsPositive DEF Sound
    <3>4. CASE ~(counted.successes >= cfgSuccessThreshold)
      <4>1. r = counted
        BY <2>1, <2>3, <3>4 DEF recordHalfOpen
      <4>2. l = k + 1 /\ l < cfgSuccessThreshold /\ p = Timeout
        BY <2>3, <3>1, <3>2, <3>4, <4>1, ThresholdsPositive DEF Saturate
      <4> QED
        BY <1>2, <3>2, <4>1, <4>2 DEF Sound
    <3> QED
      BY <3>3, <3>4
  <2> QED
    BY <2>2, <2>3
<1>6. b.state \in States
  BY <1>1 DEF Breaker
<1> QED
  BY <1>3, <1>4, <1>5, <1>6 DEF States

LEMMA NextIInv == IInv /\ [Next]_vars => IInv'
<1> SUFFICES ASSUME IInv, [Next]_vars PROVE IInv'
  OBVIOUS
<1>1. ASSUME NEW c \in Callers, allowRequest(c) PROVE IInv'
  <2>1. Sound(cb', failRun, trialRun, quiet)
    BY <1>1, RefreshSound DEF allowRequest, IInv
  <2> QED
    BY <1>1, <2>1 DEF allowRequest, history, IInv
<1>2. ASSUME NEW c \in Callers, logOpenState(c) PROVE IInv'
  <2>1. Sound(cb', failRun, trialRun, quiet)
    BY <1>2, RefreshSound DEF logOpenState, IInv
  <2> QED
    BY <1>2, <2>1 DEF logOpenState, history, IInv
<1>3. ASSUME NEW c \in Callers, Execute(c) PROVE IInv'
  <2>1. PICK err \in BOOLEAN :
          /\ cb' = recordResult(cb, err)
          /\ failRun' = IF err THEN Saturate(failRun, cfgFailureThreshold) ELSE 0
          /\ trialRun' = IF err \/ cb'.state = "OPEN" THEN 0
                         ELSE Saturate(trialRun, cfgSuccessThreshold)
          /\ quiet' = IF err THEN 0 ELSE quiet
    BY <1>3 DEF Execute
  <2>2. /\ Sound(cb', failRun', trialRun', quiet')
        /\ failRun' \in 0 .. cfgFailureThreshold
        /\ trialRun' \in 0 .. cfgSuccessThreshold
        /\ quiet' \in 0 .. Timeout
    BY <2>1, RecordSound DEF IInv
  <2> QED
    BY <1>3, <2>2 DEF Execute, IInv
<1>4. CASE Tick
  <2>1. /\ cb' \in Breaker /\ cb'.state = cb.state
        /\ cb'.failures = cb.failures /\ cb'.successes = cb.successes
        /\ cb'.elapsed = Saturate(cb.elapsed, Timeout)
    BY <1>4, ConfigAssumption DEF Tick, IInv, Sound, Breaker, Saturate
  <2>2. quiet' = Saturate(quiet, Timeout) /\ quiet' \in 0 .. Timeout
    BY <1>4, ConfigAssumption DEF Tick, IInv, Saturate
  <2>3. quiet = Timeout => quiet' = Timeout
    BY <2>2, ConfigAssumption DEF Saturate
  <2>4. /\ failRun' = failRun /\ trialRun' = trialRun
        /\ calls' = calls /\ up' = up
    BY <1>4 DEF Tick
  <2>5. Sound(cb', failRun', trialRun', quiet')
    BY <2>1, <2>2, <2>3, <2>4 DEF IInv, Sound
  <2> QED
    BY <2>2, <2>4, <2>5 DEF IInv
<1>5. CASE Outage
  BY <1>5 DEF Outage, history, IInv
<1>6. CASE UNCHANGED vars
  BY <1>6 DEF vars, history, IInv
<1> QED
  BY <1>1, <1>2, <1>3, <1>4, <1>5, <1>6 DEF Next

LEMMA Inductive == Spec => []IInv
<1>1. Init => IInv
  BY InitIInv
<1>2. IInv /\ [Next]_vars => IInv'
  BY NextIInv
<1> QED
  BY <1>1, <1>2, PTL DEF Spec

\* Both counters stay within their thresholds, and every field keeps its type,
\* through every interleaving of allowRequest, recordResult and State().
THEOREM TypeCorrect == Spec => []TypeOK
<1>1. IInv => TypeOK
  BY DEF IInv, Sound, Breaker, TypeOK
<1> QED
  BY <1>1, Inductive, PTL

\* In CLOSED the failures counter is the current run of failures and is below
\* the threshold: recordResult opens the breaker on exactly the last of
\* cfgFailureThreshold consecutive failures.
THEOREM ClosedCounts == Spec => []ClosedCountsRun
<1>1. IInv => ClosedCountsRun
  BY DEF IInv, Sound, ClosedCountsRun
<1> QED
  BY <1>1, Inductive, PTL

\* In HALF_OPEN the successes counter is exactly the successes recorded since
\* the breaker was last open: recordResult closes it on exactly the last of
\* cfgSuccessThreshold of them in a row.
THEOREM HalfOpenCounts == Spec => []HalfOpenCountsRun
<1>1. IInv => HalfOpenCountsRun
  BY DEF IInv, Sound, HalfOpenCountsRun
<1> QED
  BY <1>1, Inductive, PTL

\* Trial calls start only after Timeout ticks without a failure of any call,
\* late ones recorded while the breaker was open included.
THEOREM TrialsAfterQuiet == Spec => []HalfOpenAfterQuiet
<1>1. IInv => HalfOpenAfterQuiet
  BY DEF IInv, Sound, HalfOpenAfterQuiet
<1> QED
  BY <1>1, Inductive, PTL
=============================================================================
