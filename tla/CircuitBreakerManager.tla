----------------------- MODULE CircuitBreakerManager -----------------------
(***************************************************************************)
(* The in-memory circuit breakers of automation.circuit-breaker.ts, one    *)
(* per workflow: a count of consecutive failures that opens the breaker at *)
(* the workflow's threshold, and a cool-down that closes it at the next    *)
(* call that looks at it.                                                  *)
(***************************************************************************)
EXTENDS Integers

CONSTANTS
    Threshold,    \* workflow.circuitBreakerThreshold
    Cooldown      \* defaultCooldownMs, in ticks of the clock

ASSUME BreakerAssumption ==
    /\ Threshold \in Nat \ {0}
    /\ Cooldown \in Nat

Breaker == [consecutiveFailures : Nat, isOpen : BOOLEAN, lastFailureAt : Nat]

\* lastFailureAt is read only while the breaker is open, and opening sets it.
ClosedBreaker ==
    [consecutiveFailures |-> 0, isOpen |-> FALSE, lastFailureAt |-> 0]

CooledDown(b, now) == b.isOpen /\ now - b.lastFailureAt > Cooldown

getState(b, now) ==
    IF CooledDown(b, now)
    THEN [b EXCEPT !.isOpen = FALSE, !.consecutiveFailures = 0]
    ELSE b

recordSuccess(b, now) ==
    [getState(b, now) EXCEPT !.consecutiveFailures = 0, !.isOpen = FALSE]

recordFailure(b, now) ==
    LET s     == getState(b, now)
        count == s.consecutiveFailures + 1
    IN  [consecutiveFailures |-> count,
         isOpen              |-> s.isOpen \/ count >= Threshold,
         lastFailureAt       |-> now]
=============================================================================
