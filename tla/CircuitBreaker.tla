--------------------------- MODULE CircuitBreaker ---------------------------
(***************************************************************************)
(* The circuit breaker that scheduler-service puts in front of its gRPC    *)
(* calls to monitor-service (internal/circuitbreaker), together with the   *)
(* adapter that wraps every call in it (internal/monitor/                  *)
(* circuit_breaker_adapter.go).                                            *)
(*                                                                         *)
(* A caller is the scheduling loop or one gRPC handler goroutine.  Its     *)
(* call takes two critical sections of the breaker's mutex, allowRequest   *)
(* before and recordResult after the RPC, so the results of concurrent     *)
(* calls are recorded in any order and in whatever state the breaker is    *)
(* in by then.  A rejected call takes a third one: the adapter logs the    *)
(* state through State(), which itself may move the breaker.               *)
(***************************************************************************)
EXTENDS Integers

CONSTANTS
    Callers,           \* the goroutines that call monitor-service
    FailureThreshold,  \* Config.FailureThreshold as configured, any integer
    SuccessThreshold,  \* Config.SuccessThreshold as configured, any integer
    Timeout            \* Config.Timeout in clock ticks, already defaulted

ASSUME ConfigAssumption ==
    /\ FailureThreshold \in Int
    /\ SuccessThreshold \in Int
    /\ Timeout \in Nat \ {0}

\* Config.withDefaults: a threshold that is not positive gets its default.
cfgFailureThreshold == IF FailureThreshold <= 0 THEN 5 ELSE FailureThreshold
cfgSuccessThreshold == IF SuccessThreshold <= 0 THEN 1 ELSE SuccessThreshold

VARIABLES
    cb,      \* the CircuitBreaker struct: state, failures, successes, and the
             \* ticks since lastFailure (saturating at Timeout)
    calls,   \* calls[c]: where caller c is in Execute
    up,      \* whether every RPC succeeds (environment): FALSE stands for an
             \* outage and for application errors such as NotFound, which the
             \* breaker counts alike
    failRun, \* history: failed results in a row, saturating at the threshold
    trialRun,\* history: successful results in a row since the breaker was
             \* last open, saturating likewise
    quiet    \* history: ticks since a call last failed, whatever the state
             \* its failure was recorded in, saturating at Timeout

history == <<failRun, trialRun, quiet>>
vars == <<cb, calls, up, history>>

States == {"CLOSED", "OPEN", "HALF_OPEN"}

\* The counters stay within the configured thresholds in every state of the
\* breaker, the ones in which they are not in use included, and the other
\* fields and the callers' positions keep their types.
TypeOK ==
    /\ cb \in [state : States, failures : 0 .. cfgFailureThreshold,
               successes : 0 .. cfgSuccessThreshold, elapsed : 0 .. Timeout]
    /\ calls \in [Callers -> {"idle", "running", "rejected"}]
    /\ up \in BOOLEAN
    /\ failRun \in 0 .. cfgFailureThreshold
    /\ trialRun \in 0 .. cfgSuccessThreshold
    /\ quiet \in 0 .. Timeout

-----------------------------------------------------------------------------
(* The breaker's methods, each on the struct it locks. *)

New == [state |-> "CLOSED", failures |-> 0, successes |-> 0, elapsed |-> 0]

transitionKeepsSuccesses(b, to) ==
    [b EXCEPT !.state = to,
              !.elapsed = IF to = "OPEN" THEN 0 ELSE @,
              !.failures = IF to = "CLOSED" THEN 0 ELSE @,
              !.successes = IF to = "CLOSED" THEN 0 ELSE @]

transitionKeepsFailures(b, to) ==
    [b EXCEPT !.state = to,
              !.elapsed = IF to = "OPEN" THEN 0 ELSE @,
              !.successes = IF to \in {"CLOSED", "HALF_OPEN"} THEN 0 ELSE @]

transition(b, to) ==
    [b EXCEPT !.state = to,
              !.elapsed = IF to = "OPEN" THEN 0 ELSE @,
              !.failures = IF to = "CLOSED" THEN 0 ELSE @,
              !.successes = IF to \in {"CLOSED", "HALF_OPEN"} THEN 0 ELSE @]

refreshNever(b) == b

refreshState(b) ==
    IF b.state = "OPEN" /\ b.elapsed >= Timeout
    THEN transition(b, "HALF_OPEN")
    ELSE b

\* recordResult, by the state the breaker is in when the result arrives.
recordClosed(b, err) ==
    IF ~err THEN [b EXCEPT !.failures = 0]
    ELSE LET counted == [b EXCEPT !.failures = @ + 1]
         IN  IF counted.failures >= cfgFailureThreshold
             THEN transition(counted, "OPEN")
             ELSE counted

recordOpenIgnores(b, err) == b

recordOpen(b, err) == IF err THEN [b EXCEPT !.elapsed = 0] ELSE b

recordHalfOpen(b, err) ==
    IF err THEN transition(b, "OPEN")
    ELSE LET counted == [b EXCEPT !.successes = @ + 1]
         IN  IF counted.successes >= cfgSuccessThreshold
             THEN transition(counted, "CLOSED")
             ELSE counted

recordResult(b, err) ==
    CASE b.state = "CLOSED"    -> recordClosed(b, err)
      [] b.state = "OPEN"      -> recordOpen(b, err)
      [] b.state = "HALF_OPEN" -> recordHalfOpen(b, err)

-----------------------------------------------------------------------------
Init ==
    /\ cb = New
    /\ calls = [c \in Callers |-> "idle"]
    /\ up = TRUE
    /\ failRun = 0
    /\ trialRun = 0
    /\ quiet = Timeout

\* Execute up to the RPC: allowRequest refreshes the state and lets the call
\* through unless the breaker is open.
allowRequest(c) ==
    /\ calls[c] = "idle"
    /\ cb' = refreshState(cb)
    /\ calls' = [calls EXCEPT ![c] = IF cb'.state = "OPEN" THEN "rejected"
                                     ELSE "running"]
    /\ UNCHANGED <<up, history>>

\* The adapter's logOpenState after ErrCircuitOpen: reads State(), which
\* refreshes the breaker as a side effect.
logOpenState(c) ==
    /\ calls[c] = "rejected"
    /\ cb' = refreshState(cb)
    /\ calls' = [calls EXCEPT ![c] = "idle"]
    /\ UNCHANGED <<up, history>>

Saturate(n, bound) == IF n < bound THEN n + 1 ELSE n

\* The RPC returns and Execute records its result.  While up is FALSE a call
\* may still succeed.
Execute(c) ==
    /\ calls[c] = "running"
    /\ \E err \in BOOLEAN :
        /\ up => ~err
        /\ cb' = recordResult(cb, err)
        /\ failRun' = IF err THEN Saturate(failRun, cfgFailureThreshold) ELSE 0
        /\ trialRun' = IF err \/ cb'.state = "OPEN" THEN 0
                       ELSE Saturate(trialRun, cfgSuccessThreshold)
        /\ quiet' = IF err THEN 0 ELSE quiet
    /\ calls' = [calls EXCEPT ![c] = "idle"]
    /\ UNCHANGED up

\* Environment: the clock, and outages of monitor-service.
Tick ==
    /\ cb.elapsed < Timeout \/ quiet < Timeout
    /\ cb' = [cb EXCEPT !.elapsed = Saturate(@, Timeout)]
    /\ quiet' = Saturate(quiet, Timeout)
    /\ UNCHANGED <<calls, up, failRun, trialRun>>

Outage ==
    /\ up' = ~up
    /\ UNCHANGED <<cb, calls, history>>

Next ==
    \/ \E c \in Callers : allowRequest(c) \/ logOpenState(c) \/ Execute(c)
    \/ Tick
    \/ Outage

\* Time passes, RPCs return within their context deadline (10 s), and callers
\* come back: the scheduling loop calls on every tick of its interval.
Fairness ==
    /\ WF_vars(Tick)
    /\ \A c \in Callers : /\ WF_vars(allowRequest(c))
                          /\ WF_vars(logOpenState(c))
                          /\ WF_vars(Execute(c))

Spec == Init /\ [][Next]_vars /\ Fairness

-----------------------------------------------------------------------------
(* Properties *)

\* In CLOSED, failures is exactly the current run of consecutive failed
\* results, whatever calls were in flight across the last OPEN and HALF_OPEN
\* phases, and the run is shorter than the threshold: the breaker never stays
\* closed through cfgFailureThreshold failures in a row, and never opens
\* before (recordResult, transition).
ClosedCountsRun ==
    cb.state = "CLOSED" => /\ cb.failures = failRun
                           /\ failRun < cfgFailureThreshold

\* In HALF_OPEN, successes is exactly the number of successes recorded since
\* the breaker was last open, with no failure among them and below the
\* threshold: results of calls admitted before it opened, or counted in an
\* earlier HALF_OPEN phase, never help to close it (the reset in transition).
HalfOpenCountsRun ==
    cb.state = "HALF_OPEN" => /\ cb.successes = trialRun
                              /\ trialRun < cfgSuccessThreshold

\* The breaker is half open, and so lets trial calls through, only when NO call
\* has failed for Timeout ticks: not the one that opened it, nor a late one
\* admitted earlier whose failure was recorded while it was already open
\* (transition to OPEN, the StateOpen case of recordResult, refreshState in
\* allowRequest and in State()).
HalfOpenAfterQuiet == cb.state = "HALF_OPEN" => quiet = Timeout

\* The package comment (doc.go:6) promises one trial request in HALF_OPEN:
\* two calls are never in flight once the breaker is half open.
OneTrialInHalfOpen ==
    cb.state = "HALF_OPEN" =>
        \A c, d \in Callers :
            calls[c] = "running" /\ calls[d] = "running" => c = d

\* If monitor-service stays up from some point on, the breaker ends up closed
\* for good: neither the reset of lastFailure by late failures nor the
\* HALF_OPEN / OPEN cycle can keep it from closing.
Recovers == <>[]up => <>[](cb.state = "CLOSED")
=============================================================================
