-------------------------- MODULE BreakerProtocol ---------------------------
(***************************************************************************)
(* The circuit breaker as RuntimeEngine.submit uses it: a call asks         *)
(* canExecute and, if admitted, ends in one of three ways.  It reports      *)
(* success (COMPLETED), it reports failure (FAILED or TIMED_OUT; a FAILED    *)
(* attempt may be retried without asking again, and report again), or it    *)
(* ends without reporting: quota or resources refuse it right after         *)
(* canExecute, or its attempt is CANCELLED, OVERLOADED or REJECTED.  Calls  *)
(* are concurrent: any number may be between canExecute and their end, so   *)
(* an answer may come when the circuit is in a later state than the one     *)
(* that admitted the call.                                                  *)
(***************************************************************************)
EXTENDS CircuitBreaker, FiniteSets

CONSTANTS
    Key,         \* (tenant, capability) pairs
    Call,        \* executions, each of one key, each used once
    KeyOf,
    MaxTime,     \* bound on the clock
    MaxRetried,  \* bound on a key's failures after which calls still retry
    MayAbandon   \* whether calls end without a report

ASSUME ProtocolAssumption ==
    /\ IsFiniteSet(Call)
    /\ KeyOf \in [Call -> Key]
    /\ MaxTime \in Nat
    /\ MaxRetried \in Nat
    /\ MayAbandon \in BOOLEAN

VARIABLES
    entry,   \* #entries
    now,     \* the kernel clock, which never runs backwards
    call,    \* where each call is
    streak,  \* history: failures reported for the key since its last success
    lastFailure  \* history: when the last of those was reported

breakerVars == <<entry, now, call, streak, lastFailure>>

CallState == {"idle",     \* has not asked
              "refused",  \* canExecute said no
              "plain",    \* admitted while the circuit was closed
              "probe",    \* admitted while it was half open
              "ended"}

TypeOK ==
    /\ entry \in [Key -> CircuitEntry]
    /\ now \in Nat
    /\ call \in [Call -> CallState]
    /\ streak \in [Key -> Nat]
    /\ lastFailure \in [Key -> Nat \cup {NotOpened}]

Init ==
    /\ entry = [k \in Key |-> NewEntry]
    /\ now = 0
    /\ call = [c \in Call |-> "idle"]
    /\ streak = [k \in Key |-> 0]
    /\ lastFailure = [k \in Key |-> NotOpened]

Outstanding(c) == call[c] \in {"plain", "probe"}

-----------------------------------------------------------------------------

Ask(c) ==
    LET k == KeyOf[c]
        after == AfterCanExecute(entry[k], now)
    IN  /\ call[c] = "idle"
        /\ entry' = [entry EXCEPT ![k] = after]
        /\ call' = [call EXCEPT ![c] =
                IF ~ CanExecute(entry[k], now) THEN "refused"
                ELSE IF after.state = "closed" THEN "plain" ELSE "probe"]
        /\ UNCHANGED <<now, streak, lastFailure>>

Succeed(c) ==
    LET k == KeyOf[c]
    IN  /\ Outstanding(c)
        /\ entry' = [entry EXCEPT ![k] = AfterSuccess(entry[k])]
        /\ call' = [call EXCEPT ![c] = "ended"]
        /\ streak' = [streak EXCEPT ![k] = 0]
        /\ lastFailure' = [lastFailure EXCEPT ![k] = NotOpened]
        /\ UNCHANGED now

ReportFailure(c) ==
    LET k == KeyOf[c]
    IN  /\ Outstanding(c)
        /\ entry' = [entry EXCEPT ![k] = AfterFailure(entry[k], now)]
        /\ streak' = [streak EXCEPT ![k] = @ + 1]
        /\ lastFailure' = [lastFailure EXCEPT ![k] = now]
        /\ UNCHANGED now

Fail(c) ==
    /\ ReportFailure(c)
    /\ call' = [call EXCEPT ![c] = "ended"]

\* The retry loop goes round: the call is still running after its report.
FailAndRetry(c) ==
    /\ streak[KeyOf[c]] < MaxRetried
    /\ ReportFailure(c)
    /\ UNCHANGED call

Abandon(c) ==
    /\ MayAbandon
    /\ Outstanding(c)
    /\ call' = [call EXCEPT ![c] = "ended"]
    /\ UNCHANGED <<entry, now, streak, lastFailure>>

Tick ==
    /\ now < MaxTime
    /\ now' = now + 1
    /\ UNCHANGED <<entry, call, streak, lastFailure>>

Next ==
    \/ \E c \in Call : \/ Ask(c) \/ Succeed(c) \/ Abandon(c)
                       \/ Fail(c) \/ FailAndRetry(c)
    \/ Tick

Spec == Init /\ [][Next]_breakerVars

-----------------------------------------------------------------------------

\* A circuit is away from closed exactly when its own key has reported at
\* least failureThreshold failures since its last success: it never trips
\* early, never on another tenant's or capability's failures, and no order of
\* late answers closes it without a success of that key.
TripJustified ==
    \A k \in Key : entry[k].state # "closed" <=> streak[k] >= FailureThreshold

\* After a trip nothing runs for a whole resetTimeout: a call admitted while
\* the key's failures stand comes at least resetTimeout after the last of
\* them, also when that last failure came late, from a call admitted earlier.
CoolDown ==
    [][\A c \in Call :
        LET k == KeyOf[c]
        IN  (call[c] = "idle" /\ call'[c] \in {"plain", "probe"}
             /\ streak[k] >= FailureThreshold)
            => now - lastFailure[k] >= ResetTimeout]_breakerVars

\* A half-open circuit that has handed out a probe waits for an answer that
\* can still come: one of the key's calls is outstanding.  It does not hold of
\* the code (README, section 5) and is part of no run.
ProbesAwaited ==
    \A k \in Key :
        entry[k].state = "half_open" /\ entry[k].halfOpenProbes > 0
        => \E c \in Call : KeyOf[c] = k /\ Outstanding(c)

\* The breaker's safety: entries stay well-formed, and a circuit is tripped
\* exactly by what its own key reported, however late the reports come.
BreakerSafe ==
    /\ TypeOK
    /\ TripJustified
=============================================================================
