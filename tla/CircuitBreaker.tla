--------------------------- MODULE CircuitBreaker ---------------------------
(***************************************************************************)
(* DefaultCircuitBreaker of the runtime: what its methods do to the entry   *)
(* of one (tenant, capability) key.  The module has no state of its own;    *)
(* BreakerProtocol and RuntimeEngine keep the entries and call these        *)
(* operators.  Times are numbers; openedAt is NotOpened while undefined.    *)
(***************************************************************************)
EXTENDS Integers

CONSTANTS
    FailureThreshold,   \* CircuitBreakerOptions.failureThreshold
    ResetTimeout,       \* CircuitBreakerOptions.resetTimeoutMs
    HalfOpenMaxProbes   \* CircuitBreakerOptions.halfOpenMaxProbes

\* The constructor clamps every option with Math.max(1, _).
ASSUME BreakerAssumption ==
    /\ FailureThreshold \in Nat \ {0}
    /\ ResetTimeout \in Nat \ {0}
    /\ HalfOpenMaxProbes \in Nat \ {0}

CircuitState == {"closed", "open", "half_open"}

NotOpened == -1

CircuitEntry == [state : CircuitState, failures : Nat,
                 openedAt : Nat \cup {NotOpened}, halfOpenProbes : Nat]

\* #entry: a key met for the first time is closed.
NewEntry == [state |-> "closed", failures |-> 0,
             openedAt |-> NotOpened, halfOpenProbes |-> 0]

\* state(): reading the state of an open circuit may move it to half_open.
Refresh(e, now) ==
    IF /\ e.state = "open"
       /\ e.openedAt # NotOpened
       /\ now - e.openedAt >= ResetTimeout
    THEN [e EXCEPT !.state = "half_open", !.halfOpenProbes = 0]
    ELSE e

\* canExecute(): its answer, and the entry it leaves.
CanExecute(e, now) ==
    LET r == Refresh(e, now)
    IN  \/ r.state = "closed"
        \/ r.state = "half_open" /\ r.halfOpenProbes < HalfOpenMaxProbes

AfterCanExecute(e, now) ==
    LET r == Refresh(e, now)
    IN  IF CanExecute(e, now) /\ r.state = "half_open"
        THEN [r EXCEPT !.halfOpenProbes = @ + 1]
        ELSE r

\* onSuccess(): whatever the state was.
AfterSuccess(e) == NewEntry

\* Mutant: the circuit trips one failure late.
FailureTripsLate(e, now) ==
    IF e.state = "half_open"
    THEN [e EXCEPT !.state = "open", !.openedAt = now]
    ELSE LET n == e.failures + 1
         IN  IF n > FailureThreshold
             THEN [e EXCEPT !.failures = n, !.state = "open", !.openedAt = now]
             ELSE [e EXCEPT !.failures = n]

\* Mutant: a failed probe re-opens the circuit with its old openedAt.
FailureKeepsOpenedAt(e, now) ==
    IF e.state = "half_open"
    THEN [e EXCEPT !.state = "open"]
    ELSE LET n == e.failures + 1
         IN  IF n >= FailureThreshold
             THEN [e EXCEPT !.failures = n, !.state = "open", !.openedAt = now]
             ELSE [e EXCEPT !.failures = n]

\* onFailure(): a half-open circuit re-opens and keeps its count.
AfterFailure(e, now) ==
    IF e.state = "half_open"
    THEN [e EXCEPT !.state = "open", !.openedAt = now]
    ELSE LET n == e.failures + 1
         IN  IF n >= FailureThreshold
             THEN [e EXCEPT !.failures = n, !.state = "open", !.openedAt = now]
             ELSE [e EXCEPT !.failures = n]

=============================================================================
