------------------------------- MODULE Requests -------------------------------
(* What the request gates of the access packages share.  A request carries a  *)
(* set d of faults: the ways in which its own fields (scope, shape, claims)   *)
(* can be wrong.  Everything that changes while the system runs is state.     *)
EXTENDS Gates, FiniteSets, Integers

CONSTANT MaxClock           \* bound: ticks of the clock

VARIABLE now

\* isFuture(value, now): strictly later.
Future(t) == t > now

Tick == now < MaxClock /\ now' = now + 1

\* A request with at most one fault; a result a request may carry or not.
AtMostOne(S) == {{}} \cup {{x} : x \in S}

\* In a list of checks, the one that refuses a request for any fault of F with v.
Refuse(d, F, v) == <<d \cap F # {}, v>>

\* The evaluate...Readiness functions of the packages: every critical
\* dependency is present and READY, or the host may not start, or must stop.
Readiness(critical, status, running, trustedProduction) ==
    IF \A dep \in critical : dep \in DOMAIN status /\ status[dep] = "READY" THEN "READY"
    ELSE IF trustedProduction /\ running THEN "READINESS_REVOKED" ELSE "STARTUP_REJECTED"

=============================================================================
