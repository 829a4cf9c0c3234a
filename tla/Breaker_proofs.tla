--------------------------- MODULE Breaker_proofs ---------------------------
(***************************************************************************)
(* Proofs about BreakerProtocol for every set of keys and calls and every   *)
(* value of the options.  The entry of a key agrees with the history of     *)
(* reports: closed, it counts the failures since the last success; tripped, *)
(* it has at least failureThreshold of them and openedAt is the last one.   *)
(***************************************************************************)
EXTENDS BreakerProtocol, TLAPS

\* Entry e agrees with n failures reported since the last success, the last
\* of them at time f.
Agrees(e, n, f) ==
    IF e.state = "closed"
    THEN e.failures = n /\ n < FailureThreshold
    ELSE /\ n >= FailureThreshold
         /\ e.failures >= FailureThreshold
         /\ e.openedAt = f
         /\ f \in Nat

\* A half-open circuit has been left alone for resetTimeout by time t.
Rested(e, t) == e.state = "half_open" => t - e.openedAt >= ResetTimeout

BreakerInv ==
    /\ TypeOK
    /\ \A k \in Key : Agrees(entry[k], streak[k], lastFailure[k])
    /\ \A k \in Key : Rested(entry[k], now)

-----------------------------------------------------------------------------

\* state() keeps the agreement and half-opens only a rested circuit.
LEMMA RefreshAgrees ==
    ASSUME NEW e \in CircuitEntry, NEW n \in Nat, NEW f, NEW t \in Nat,
           Agrees(e, n, f), Rested(e, t)
    PROVE  /\ Refresh(e, t) \in CircuitEntry
           /\ Agrees(Refresh(e, t), n, f)
           /\ Rested(Refresh(e, t), t)
<1>1. CASE Refresh(e, t) = e
  BY <1>1
<1>2. CASE /\ e.state = "open" /\ t - e.openedAt >= ResetTimeout
           /\ Refresh(e, t) = [e EXCEPT !.state = "half_open",
                                       !.halfOpenProbes = 0]
  <2>1. Refresh(e, t) \in CircuitEntry
    <3>1. "half_open" \in CircuitState /\ 0 \in Nat
      BY DEF CircuitState
    <3> QED BY <1>2, <3>1 DEF CircuitEntry
  <2>2. /\ Refresh(e, t).state = "half_open"
        /\ Refresh(e, t).failures = e.failures
        /\ Refresh(e, t).openedAt = e.openedAt
    BY <1>2 DEF CircuitEntry
  <2> QED BY <1>2, <2>1, <2>2 DEF Agrees, Rested
<1> QED BY <1>1, <1>2 DEF Refresh

\* Asking canExecute() keeps the agreement: it may half-open the circuit and
\* count a probe, nothing else.
LEMMA AskAgrees ==
    ASSUME NEW e \in CircuitEntry, NEW n \in Nat, NEW f, NEW t \in Nat,
           Agrees(e, n, f), Rested(e, t)
    PROVE  /\ AfterCanExecute(e, t) \in CircuitEntry
           /\ Agrees(AfterCanExecute(e, t), n, f)
           /\ Rested(AfterCanExecute(e, t), t)
<1> DEFINE r == Refresh(e, t)
           a == [r EXCEPT !.halfOpenProbes = @ + 1]
<1>1. r \in CircuitEntry /\ Agrees(r, n, f) /\ Rested(r, t)
  BY RefreshAgrees
<1>2. AfterCanExecute(e, t) \in {r, a}
  BY DEF AfterCanExecute
<1> HIDE DEF r
<1>3. /\ a \in CircuitEntry
      /\ a.state = r.state /\ a.failures = r.failures
      /\ a.openedAt = r.openedAt
  BY <1>1 DEF CircuitEntry
<1> HIDE DEF a
<1> QED BY <1>1, <1>2, <1>3 DEF Agrees, Rested

\* onSuccess() agrees with a history that starts afresh.
LEMMA SuccessAgrees ==
    ASSUME NEW e, NEW t
    PROVE  /\ AfterSuccess(e) \in CircuitEntry
           /\ Agrees(AfterSuccess(e), 0, NotOpened)
           /\ Rested(AfterSuccess(e), t)
BY BreakerAssumption
   DEF AfterSuccess, NewEntry, Agrees, Rested, CircuitEntry, CircuitState, NotOpened

\* onFailure() agrees with one more failure, reported now, and leaves no
\* circuit half open.
LEMMA FailureAgrees ==
    ASSUME NEW e \in CircuitEntry, NEW n \in Nat, NEW f, NEW t \in Nat,
           Agrees(e, n, f)
    PROVE  /\ AfterFailure(e, t) \in CircuitEntry
           /\ Agrees(AfterFailure(e, t), n + 1, t)
           /\ Rested(AfterFailure(e, t), t)
<1>0. e.failures \in Nat /\ e.state \in CircuitState
  BY DEF CircuitEntry
<1>1. CASE e.state = "half_open"
  <2> DEFINE a == [e EXCEPT !.state = "open", !.openedAt = t]
  <2>1. AfterFailure(e, t) = a
    BY <1>1 DEF AfterFailure
  <2>2. a \in CircuitEntry
    BY DEF CircuitEntry, CircuitState
  <2>3. a.state = "open" /\ a.openedAt = t /\ a.failures = e.failures
    BY DEF CircuitEntry
  <2> HIDE DEF a
  <2> QED BY <1>0, <1>1, <2>1, <2>2, <2>3, BreakerAssumption DEF Agrees, Rested
<1>2. CASE e.state # "half_open" /\ e.failures + 1 >= FailureThreshold
  <2> DEFINE a == [e EXCEPT !.failures = e.failures + 1, !.state = "open",
                            !.openedAt = t]
  <2>1. AfterFailure(e, t) = a
    BY <1>2 DEF AfterFailure
  <2>2. a \in CircuitEntry
    <3>1. "open" \in CircuitState /\ e.failures + 1 \in Nat
      BY <1>0 DEF CircuitState
    <3> QED BY <3>1 DEF CircuitEntry
  <2>3. a.state = "open" /\ a.openedAt = t /\ a.failures = e.failures + 1
    BY DEF CircuitEntry
  <2> HIDE DEF a
  <2>4. n + 1 >= FailureThreshold
    BY <1>0, <1>2, BreakerAssumption DEF Agrees
  <2> QED BY <1>0, <1>2, <2>1, <2>2, <2>3, <2>4 DEF Agrees, Rested
<1>3. CASE e.state # "half_open" /\ ~ (e.failures + 1 >= FailureThreshold)
  <2> DEFINE a == [e EXCEPT !.failures = e.failures + 1]
  <2>1. AfterFailure(e, t) = a
    BY <1>3 DEF AfterFailure
  <2>2. a \in CircuitEntry
    BY <1>0 DEF CircuitEntry, CircuitState
  <2>3. a.state = e.state /\ a.openedAt = e.openedAt /\ a.failures = e.failures + 1
    BY DEF CircuitEntry
  <2> HIDE DEF a
  <2>4. e.state = "closed" /\ e.failures = n
    BY <1>0, <1>3, BreakerAssumption DEF Agrees
  <2> QED BY <1>0, <1>3, <2>1, <2>2, <2>3, <2>4, BreakerAssumption DEF Agrees, Rested
<1> QED BY <1>1, <1>2, <1>3

LEMMA BreakerInitInv == Init => BreakerInv
BY BreakerAssumption
   DEF Init, BreakerInv, TypeOK, Agrees, NewEntry, CircuitEntry, CircuitState,
       NotOpened, CallState, Rested

LEMMA BreakerNextInv == BreakerInv /\ [Next]_breakerVars => BreakerInv'
<1> SUFFICES ASSUME BreakerInv, [Next]_breakerVars
             PROVE  BreakerInv'
  OBVIOUS
<1>0. TypeOK
  BY DEF BreakerInv
<1>1. ASSUME NEW c \in Call, Ask(c)
      PROVE  BreakerInv'
  <2> DEFINE k == KeyOf[c]
             after == AfterCanExecute(entry[k], now)
  <2>1. k \in Key
    BY ProtocolAssumption
  <2>2. /\ after \in CircuitEntry /\ Agrees(after, streak[k], lastFailure[k])
        /\ Rested(after, now)
    BY <1>0, <2>1, AskAgrees DEF BreakerInv, TypeOK
  <2>3. entry' = [entry EXCEPT ![k] = after]
    BY <1>1 DEF Ask
  <2>4. /\ call' \in [Call -> CallState]
        /\ UNCHANGED <<now, streak, lastFailure>>
    BY <1>0, <1>1 DEF Ask, TypeOK, CallState
  <2> HIDE DEF after, k
  <2> QED BY <1>0, <2>1, <2>2, <2>3, <2>4 DEF BreakerInv, TypeOK
<1>2. ASSUME NEW c \in Call, Succeed(c)
      PROVE  BreakerInv'
  <2> DEFINE k == KeyOf[c]
             after == AfterSuccess(entry[k])
  <2>1. k \in Key
    BY ProtocolAssumption
  <2>2. after \in CircuitEntry /\ Agrees(after, 0, NotOpened) /\ Rested(after, now)
    BY SuccessAgrees
  <2>3. /\ entry' = [entry EXCEPT ![k] = after]
        /\ streak' = [streak EXCEPT ![k] = 0]
        /\ lastFailure' = [lastFailure EXCEPT ![k] = NotOpened]
        /\ now' = now
    BY <1>2 DEF Succeed
  <2>4. call' \in [Call -> CallState]
    BY <1>0, <1>2 DEF Succeed, TypeOK, CallState
  <2> HIDE DEF after, k
  <2> QED BY <1>0, <2>1, <2>2, <2>3, <2>4 DEF BreakerInv, TypeOK
<1>3. ASSUME NEW c \in Call, ReportFailure(c), call' \in [Call -> CallState]
      PROVE  BreakerInv'
  <2> DEFINE k == KeyOf[c]
             after == AfterFailure(entry[k], now)
  <2>1. k \in Key
    BY ProtocolAssumption
  <2>2. /\ after \in CircuitEntry /\ Agrees(after, streak[k] + 1, now)
        /\ Rested(after, now)
    BY <1>0, <2>1, FailureAgrees DEF BreakerInv, TypeOK
  <2>3. /\ entry' = [entry EXCEPT ![k] = after]
        /\ streak' = [streak EXCEPT ![k] = streak[k] + 1]
        /\ lastFailure' = [lastFailure EXCEPT ![k] = now]
        /\ now' = now
    BY <1>3 DEF ReportFailure
  <2> HIDE DEF after, k
  <2> QED BY <1>0, <1>3, <2>1, <2>2, <2>3 DEF BreakerInv, TypeOK
<1>4. ASSUME NEW c \in Call, Fail(c) \/ FailAndRetry(c)
      PROVE  BreakerInv'
  <2>1. ReportFailure(c) /\ call' \in [Call -> CallState]
    BY <1>0, <1>4 DEF Fail, FailAndRetry, TypeOK, CallState
  <2> QED BY <1>3, <2>1
<1>5. ASSUME NEW c \in Call, Abandon(c)
      PROVE  BreakerInv'
  BY <1>0, <1>5 DEF Abandon, BreakerInv, TypeOK, CallState
<1>6. CASE Tick
  <2>1. ASSUME NEW k \in Key
        PROVE  Rested(entry[k], now')
    <3>1. entry[k].state = "half_open" => entry[k].openedAt \in Nat
      BY DEF BreakerInv, Agrees
    <3> QED BY <1>0, <1>6, <3>1, BreakerAssumption DEF Tick, BreakerInv, TypeOK, Rested
  <2> QED BY <1>0, <1>6, <2>1 DEF Tick, BreakerInv, TypeOK
<1>7. CASE UNCHANGED breakerVars
  BY <1>0, <1>7 DEF breakerVars, BreakerInv, TypeOK
<1> QED BY <1>1, <1>2, <1>4, <1>5, <1>6, <1>7 DEF Next

THEOREM BreakerInvariant == Spec => []BreakerInv
<1> QED BY BreakerInitInv, BreakerNextInv, PTL DEF Spec

\* For any threshold and any number of concurrent calls a circuit is tripped
\* exactly by its own key's failures since that key's last success.
THEOREM BreakerTripJustified == Spec => []TripJustified
<1>1. BreakerInv => TripJustified
  BY BreakerAssumption DEF BreakerInv, TypeOK, Agrees, TripJustified
<1> QED BY <1>1, BreakerInvariant, PTL

\* No call of a tripped key is admitted within resetTimeout of the last
\* failure the key reported, however late that report came.
THEOREM BreakerCoolDown == Spec => CoolDown
<1>1. BreakerInv /\ [Next]_breakerVars =>
        [\A c \in Call :
            LET k == KeyOf[c]
            IN  (call[c] = "idle" /\ call'[c] \in {"plain", "probe"}
                 /\ streak[k] >= FailureThreshold)
                => now - lastFailure[k] >= ResetTimeout]_breakerVars
  <2> SUFFICES ASSUME BreakerInv, Next, NEW c \in Call,
                      call[c] = "idle", call'[c] \in {"plain", "probe"},
                      streak[KeyOf[c]] >= FailureThreshold
               PROVE  now - lastFailure[KeyOf[c]] >= ResetTimeout
    OBVIOUS
  <2>0. TypeOK /\ KeyOf[c] \in Key
    BY ProtocolAssumption DEF BreakerInv
  <2>1. ASSUME NEW d \in Call,
               Succeed(d) \/ Fail(d) \/ FailAndRetry(d) \/ Abandon(d)
        PROVE  FALSE
    BY <2>0, <2>1 DEF Succeed, Fail, FailAndRetry, Abandon, ReportFailure,
                      Outstanding, TypeOK
  <2>2. ASSUME Tick
        PROVE  FALSE
    BY <2>2 DEF Tick
  <2>3. PICK d \in Call : Ask(d)
    BY <2>1, <2>2 DEF Next
  <2>4. d = c
    BY <2>0, <2>3 DEF Ask, TypeOK
  <2>5. CanExecute(entry[KeyOf[c]], now)
    BY <2>0, <2>3, <2>4 DEF Ask, TypeOK
  <2> DEFINE e == entry[KeyOf[c]]
  <2>6. /\ e \in CircuitEntry /\ Rested(e, now)
        /\ Agrees(e, streak[KeyOf[c]], lastFailure[KeyOf[c]])
    BY <2>0 DEF BreakerInv, TypeOK
  <2>7. e.state # "closed" /\ e.openedAt = lastFailure[KeyOf[c]]
    BY <2>0, <2>6, BreakerAssumption DEF Agrees, TypeOK
  <2>8. e.state \in CircuitState
    BY <2>6 DEF CircuitEntry
  <2>9. CASE e.state = "half_open"
    BY <2>6, <2>7, <2>9 DEF Rested
  <2>10. CASE e.state = "open"
    <3>1. Refresh(e, now) # e
      BY <2>5, <2>10 DEF CanExecute
    <3> QED BY <2>7, <2>10, <3>1 DEF Refresh
  <2> QED BY <2>7, <2>8, <2>9, <2>10 DEF CircuitState
<1> QED BY <1>1, BreakerInvariant, PTL DEF Spec, CoolDown

\* Entries stay well-formed and agree with what their own key reported, whatever
\* the order in which admitted calls report.
THEOREM BreakerSafety == Spec => []BreakerSafe
<1>1. BreakerInv => TypeOK
  BY DEF BreakerInv
<1> QED BY <1>1, BreakerInvariant, BreakerTripJustified, PTL DEF BreakerSafe

=============================================================================
