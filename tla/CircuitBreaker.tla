---------------------------- MODULE CircuitBreaker ----------------------------
(***************************************************************************)
(* CircuitBreaker of crates/server/domain/src/saga/circuit_breaker.rs, as  *)
(* operators on one breaker's state.  The methods are short sequences of   *)
(* atomic loads and stores; a relay's futures share one thread and no      *)
(* method awaits, so that each method is one step.                         *)
(***************************************************************************)
EXTENDS Naturals, FiniteSets

CONSTANTS
    FailureThreshold,  \* failure_threshold
    SuccessThreshold,  \* success_threshold
    Window,            \* failure_rate_window
    RatePercent        \* failure_rate_threshold

ASSUME BreakerAssumption ==
    /\ FailureThreshold \in Nat \ {0}
    /\ SuccessThreshold \in Nat \ {0}
    /\ Window \in Nat \ {0}
    /\ RatePercent \in 1..100

CircuitState == { "Closed", "Open", "HalfOpen" }

\* failures saturates at FailureThreshold, the only value it is compared with.
\* recent holds the last Window results, the newest first: the rate does not
\* depend on where the ring starts.  elapsed: open_duration has passed since
\* opened_at.
Breaker ==
    [ state     : CircuitState,
      failures  : 0..FailureThreshold,
      successes : 0..SuccessThreshold,
      recent    : [1..Window -> BOOLEAN],
      elapsed   : BOOLEAN ]

NewBreaker ==
    [ state |-> "Closed", failures |-> 0, successes |-> 0,
      recent |-> [i \in 1..Window |-> TRUE], elapsed |-> FALSE ]

Recorded(b, ok) ==
    [b EXCEPT !.recent = [i \in 1..Window |-> IF i = 1 THEN ok ELSE b.recent[i - 1]]]

FailureRateReached(b) ==
    100 * Cardinality({ i \in 1..Window : ~ b.recent[i] }) >= RatePercent * Window

OpenCircuit(b) == [b EXCEPT !.state = "Open", !.elapsed = FALSE]

\* Mutated form of Observed: nothing looks at opened_at, an open circuit stays.
ObservedStaysOpen(b) == b

\* state(): an open circuit becomes half-open once open_duration has passed.
Observed(b) ==
    IF b.state = "Open" /\ b.elapsed
      THEN [b EXCEPT !.state = "HalfOpen", !.successes = 0, !.elapsed = FALSE]
      ELSE b

AllowRequest(b) == Observed(b).state # "Open"

\* Mutated form of RecordSuccess: the circuit closes one success late.
RecordSuccessLate(b) ==
    LET c == Recorded(b, TRUE) IN
    CASE c.state = "HalfOpen" /\ c.successes >= SuccessThreshold ->
            [c EXCEPT !.state = "Closed", !.failures = 0]
      [] c.state = "HalfOpen" /\ c.successes < SuccessThreshold ->
            [c EXCEPT !.successes = @ + 1]
      [] c.state = "Closed" -> [c EXCEPT !.failures = 0]
      [] c.state = "Open"   -> c

RecordSuccess(b) ==
    LET c == Recorded(b, TRUE) IN
    CASE c.state = "HalfOpen" /\ c.successes + 1 >= SuccessThreshold ->
            [c EXCEPT !.state = "Closed", !.failures = 0, !.successes = SuccessThreshold]
      [] c.state = "HalfOpen" /\ c.successes + 1 < SuccessThreshold ->
            [c EXCEPT !.successes = @ + 1]
      [] c.state = "Closed" -> [c EXCEPT !.failures = 0]
      [] c.state = "Open"   -> c

Incremented(n) == IF n < FailureThreshold THEN n + 1 ELSE FailureThreshold

RecordFailure(b) ==
    LET c == [Recorded(b, FALSE) EXCEPT !.failures = Incremented(@)] IN
    CASE c.state = "Closed" /\ (c.failures >= FailureThreshold \/ FailureRateReached(c)) ->
            OpenCircuit(c)
      [] c.state = "Closed" /\ ~ (c.failures >= FailureThreshold \/ FailureRateReached(c)) -> c
      [] c.state = "HalfOpen" -> OpenCircuit(c)
      [] c.state = "Open"     -> c

\* A circuit that is closed has seen fewer failures in a row than would open it,
\* and one that is half-open fewer successes than would close it: no sequence of
\* late, rejected or doubly recorded results steps over a threshold.
ThresholdsAct(b) ==
    /\ b.state = "Closed"   => b.failures < FailureThreshold
    /\ b.state = "HalfOpen" => b.successes < SuccessThreshold
=============================================================================
