------------------------ MODULE RuntimeEngine_proofs ------------------------
(***************************************************************************)
(* Proofs about RuntimeEngine, for any submissions, permits, limits and     *)
(* costs.  The pool's invariant is not proved again: every step of the      *)
(* engine is a step of the worker pool, or leaves it alone.                 *)
(***************************************************************************)
EXTENDS RuntimeEngine, Gates_proofs

PoolProofs == INSTANCE WorkerPool_proofs WITH
    Task <- Attempt,
    TenantOf <- [a \in Attempt |-> SubmitterOf[a[1]]],
    PriorityOf <- [a \in Attempt |-> SubmissionPriority[a[1]]]

-----------------------------------------------------------------------------
(* The pool inside the engine *)

\* The constants the engine gives the pool are as the pool assumes.
LEMMA PoolConstants ==
    /\ IsFiniteSet(Attempt)
    /\ [a \in Attempt |-> SubmitterOf[a[1]]] \in [Attempt -> Tenant]
    /\ [a \in Attempt |-> SubmissionPriority[a[1]]] \in [Attempt -> Int]
    /\ MaxConcurrency \in Nat \ {0} /\ MaxPerTenant \in Nat \ {0}
    /\ MaxQueueDepth \in Nat /\ MaxTotalInflight \in Nat /\ MaxTenantInflight \in Nat
<1>1. IsFiniteSet(1..MaxAttempts)
  BY EngineAssumption, FS_Interval
<1>2. IsFiniteSet(Attempt)
  BY <1>1, EngineAssumption, FS_Product DEF Attempt
<1>3. \A a \in Attempt : a[1] \in Submission
  BY DEF Attempt
<1> QED BY <1>2, <1>3, EngineAssumption

LEMMA FiniteAttempts == PoolProofs!IsFiniteSet(Attempt)
  BY PoolConstants DEF IsFiniteSet, PoolProofs!IsFiniteSet

\* The pool the engine uses and the pool of WorkerPool_proofs are the same.
LEMMA SameCardinality ==
    ASSUME NEW S
    PROVE  PoolProofs!Cardinality(S) = Pool!Cardinality(S)
  BY DEF Pool!Cardinality, PoolProofs!Cardinality, Pool!IsFiniteSet, PoolProofs!IsFiniteSet

LEMMA SamePump ==
    ASSUME NEW st, NEW num, NEW busy, NEW held
    PROVE  Pool!Pump(st, num, busy, held) <=> PoolProofs!Pump(st, num, busy, held)
  BY DEF Pool!Pump, PoolProofs!Pump, Pool!Best, PoolProofs!Best, Pool!Eligible,
         PoolProofs!Eligible, Pool!Precedes, PoolProofs!Precedes

LEMMA SamePool ==
    /\ Pool!PoolInit <=> PoolProofs!PoolInit
    /\ Pool!PoolNext <=> PoolProofs!PoolNext
    /\ Pool!PoolTypeOK <=> PoolProofs!PoolTypeOK
    /\ Pool!PoolSafe <=> PoolProofs!PoolSafe
<1>1. \A t : Pool!Accepted(t) <=> PoolProofs!Accepted(t)
  BY SameCardinality DEF Pool!Accepted, PoolProofs!Accepted, Pool!Queued, PoolProofs!Queued,
                         Pool!Evaluate, PoolProofs!Evaluate
<1>2. \A t : Pool!Refuse(t) <=> PoolProofs!Refuse(t)
  BY SameCardinality DEF Pool!Refuse, PoolProofs!Refuse, Pool!Queued, PoolProofs!Queued,
                         Pool!Evaluate, PoolProofs!Evaluate
<1>3. \A t : Pool!Enqueue(t) <=> PoolProofs!Enqueue(t)
  BY <1>1, SamePump DEF Pool!Enqueue, PoolProofs!Enqueue
<1>4. \A t : Pool!Drop(t) <=> PoolProofs!Drop(t)
  BY <1>1 DEF Pool!Drop, PoolProofs!Drop
<1>5. \A t : Pool!Release(t) <=> PoolProofs!Release(t)
  BY SamePump DEF Pool!Release, PoolProofs!Release
<1>6. Pool!PoolNext <=> PoolProofs!PoolNext
  BY <1>2, <1>3, <1>4, <1>5
     DEF Pool!PoolNext, PoolProofs!PoolNext, Pool!Schedule, PoolProofs!Schedule, Pool!Settle,
         PoolProofs!Settle, Pool!Shutdown, PoolProofs!Shutdown
<1>7. Pool!PoolTypeOK <=> PoolProofs!PoolTypeOK
  BY DEF Pool!PoolTypeOK, PoolProofs!PoolTypeOK, Pool!Status, PoolProofs!Status
<1>8. Pool!PoolInit <=> PoolProofs!PoolInit
  BY DEF Pool!PoolInit, PoolProofs!PoolInit
<1>9. /\ Pool!SlotAccounting <=> PoolProofs!SlotAccounting
      /\ Pool!Bounded <=> PoolProofs!Bounded
  BY SameCardinality DEF Pool!SlotAccounting, PoolProofs!SlotAccounting, Pool!Holding,
         PoolProofs!Holding, Pool!HoldingOf, PoolProofs!HoldingOf, Pool!Bounded,
         PoolProofs!Bounded, Pool!Queued, PoolProofs!Queued
<1>10. /\ Pool!WorkConserving <=> PoolProofs!WorkConserving
       /\ Pool!NoOvertaking <=> PoolProofs!NoOvertaking
  BY DEF Pool!WorkConserving, PoolProofs!WorkConserving, Pool!Eligible, PoolProofs!Eligible,
         Pool!NoOvertaking, PoolProofs!NoOvertaking, Pool!Queued, PoolProofs!Queued
<1> QED BY <1>6, <1>7, <1>8, <1>9, <1>10 DEF Pool!PoolSafe, PoolProofs!PoolSafe

-----------------------------------------------------------------------------
(* The invariant *)

\* Where a call of submit() is tells how far it got, and its trail: nothing
\* before ADMITTED is written, ADMITTED alone until the terminal record.
CallInv(s) ==
    /\ attempt[s] = 0 => pc[s] \in {"idle", "admitting", "returned", "threw"}
    /\ attempt[s] > 0 => pc[s] \in {"attempt", "delay", "closing", "returned", "threw"}
    /\ pc[s] = "delay" => s \in RetrySafe /\ attempt[s] < MaxAttempts
    /\ pc[s] = "closing" => outcome[s] # "none"
    /\ s \notin RetrySafe => attempt[s] <= 1
    /\ pc[s] \in {"idle", "admitting"} => trail[s] = <<>>
    /\ attempt[s] > 0 /\ pc[s] # "returned" => trail[s] = <<"ADMITTED">>
    /\ attempt[s] > 0 /\ pc[s] = "returned" => trail[s] = <<"ADMITTED", outcome[s]>>
    /\ attempt[s] = 0 /\ pc[s] = "returned" => trail[s] \in {<<"REJECTED">>, <<>>}

\* The pool has not seen the attempts to come; those before the current one
\* have settled; the current one is queued or runs only while it is awaited.
AttemptInv(s) ==
    \A n \in 1..MaxAttempts :
        /\ n > attempt[s] => status[<<s, n>>] = "new"
        /\ n < attempt[s] => status[<<s, n>>] \in {"settled", "done"}
        /\ n = attempt[s] =>
            /\ status[<<s, n>>] # "new"
            /\ status[<<s, n>>] \in {"queued", "running"} => pc[s] = "attempt" /\ outcome[s] = "none"

\* The source of an awaited attempt is cancelled once the caller has cancelled.
CancelInv(s) == pc[s] = "attempt" /\ external[s] => token[s] # "none"

CallsInv == \A s \in Submission : CallInv(s) /\ AttemptInv(s) /\ CancelInv(s)

\* The permit of everything admitted is used up, and was used for it alone.
PermitInv ==
    /\ PermitOnce
    /\ \A s \in Submission : Admitted(s) => PermitOf[s] \in consumed

EngineInv ==
    /\ TypeOK
    /\ PoolProofs!PoolInv
    /\ CallsInv
    /\ PermitInv
    /\ HoldsAccounted

-----------------------------------------------------------------------------
(* The pool's steps as the engine sees them *)

\* What a step of the pool may do to the tasks it is not about: start one.
PoolMoves(S) ==
    \A u \in Attempt \ S :
        status'[u] = status[u] \/ (status[u] = "queued" /\ status'[u] = "running")

LEMMA PumpMoves ==
    ASSUME NEW st, st \in [Attempt -> Pool!Status], NEW num, NEW busy, NEW held,
           Pool!Pump(st, num, busy, held)
    PROVE  \A u \in Attempt :
               status'[u] = st[u] \/ (st[u] = "queued" /\ status'[u] = "running")
<1>1. ASSUME NEW w \in Pool!Best(st, num, held), status' = [st EXCEPT ![w] = "running"]
      PROVE  \A u \in Attempt :
                 status'[u] = st[u] \/ (st[u] = "queued" /\ status'[u] = "running")
  <2>1. w \in Attempt /\ st[w] = "queued"
    BY <1>1 DEF Pool!Best, Pool!Eligible
  <2> QED BY <1>1, <2>1
<1>2. CASE status' = st
  BY <1>2
<1> QED BY <1>1, <1>2 DEF Pool!Pump

LEMMA ScheduleMoves ==
    ASSUME Pool!PoolTypeOK, NEW t \in Attempt, Pool!Schedule(t)
    PROVE  /\ status[t] = "new"
           /\ status'[t] \in {"OVERLOADED", "REJECTED", "dropped", "queued", "running"}
           /\ PoolMoves({t})
<1>1. CASE Pool!Refuse(t)
  <2>1. /\ status[t] = "new"
        /\ \E d \in {"OVERLOADED", "REJECTED"} : status' = [status EXCEPT ![t] = d]
    BY <1>1 DEF Pool!Refuse, Pool!Evaluate
  <2> QED BY <2>1 DEF PoolMoves, Pool!PoolTypeOK
<1>2. CASE Pool!Drop(t)
  BY <1>2 DEF Pool!Drop, PoolMoves, Pool!PoolTypeOK
<1>3. CASE Pool!Enqueue(t)
  <2> DEFINE st == [status EXCEPT ![t] = "queued"]
  <2>1. status[t] = "new" /\ Pool!Pump(st, seqOf', active, tenantActive)
    BY <1>3 DEF Pool!Enqueue
  <2>2. st \in [Attempt -> Pool!Status] /\ st[t] = "queued"
        /\ \A u \in Attempt \ {t} : st[u] = status[u]
    BY DEF Pool!PoolTypeOK, Pool!Status
  <2> HIDE DEF st
  <2>3. \A u \in Attempt :
            status'[u] = st[u] \/ (st[u] = "queued" /\ status'[u] = "running")
    BY <2>1, <2>2, PumpMoves
  <2> QED BY <2>1, <2>2, <2>3 DEF PoolMoves
<1> QED BY <1>1, <1>2, <1>3 DEF Pool!Schedule

LEMMA ReleaseMoves ==
    ASSUME Pool!PoolTypeOK, NEW t \in Attempt, Pool!Release(t)
    PROVE  status[t] = "settled" /\ status'[t] = "done" /\ PoolMoves({t})
<1> DEFINE st == [status EXCEPT ![t] = "done"]
<1>1. status[t] = "settled" /\ \E held : Pool!Pump(st, seqOf, active - 1, held)
  BY DEF Pool!Release
<1>2. st \in [Attempt -> Pool!Status] /\ st[t] = "done"
      /\ \A u \in Attempt \ {t} : st[u] = status[u]
  BY DEF Pool!PoolTypeOK, Pool!Status
<1> HIDE DEF st
<1>3. \A u \in Attempt :
          status'[u] = st[u] \/ (st[u] = "queued" /\ status'[u] = "running")
  BY <1>1, <1>2, PumpMoves
<1> QED BY <1>1, <1>2, <1>3 DEF PoolMoves

LEMMA SettleMoves ==
    ASSUME Pool!PoolTypeOK, NEW t \in Attempt, Pool!Settle(t)
    PROVE  status[t] = "running" /\ status'[t] = "settled" /\ PoolMoves({t})
  BY DEF Pool!PoolTypeOK, Pool!Settle, PoolMoves

\* The current attempt of an awaited call, and the next one of a waiting call.
LEMMA CurrentAttempt ==
    ASSUME TypeOK, CallsInv, NEW s \in Submission
    PROVE  /\ pc[s] \in {"attempt", "delay"} => attempt[s] \in 1..MaxAttempts /\ Current(s) \in Attempt
           /\ pc[s] = "delay" => attempt[s] + 1 \in 1..MaxAttempts /\ <<s, attempt[s] + 1>> \in Attempt
           /\ 1 \in 1..MaxAttempts /\ <<s, 1>> \in Attempt
<1>1. attempt[s] \in 0..MaxAttempts /\ MaxAttempts \in Nat \ {0}
  BY EngineAssumption DEF TypeOK
<1>2. pc[s] \in {"attempt", "delay"} => attempt[s] # 0
  BY DEF CallsInv, CallInv
<1>3. pc[s] = "delay" => attempt[s] < MaxAttempts
  BY DEF CallsInv, CallInv
<1> QED BY <1>1, <1>2, <1>3 DEF Attempt, Current

-----------------------------------------------------------------------------
(* The engine drives the pool *)

\* Each step of the engine is a step of the pool or leaves the pool alone.
LEMMA EngineStepOfPool ==
    ASSUME TypeOK, CallsInv, [Next]_vars
    PROVE  [Pool!PoolNext]_poolVars
<1>1. ASSUME NEW t \in Attempt, Pool!Schedule(t) \/ Pool!Settle(t) \/ Pool!Release(t)
      PROVE  Pool!PoolNext
  BY <1>1 DEF Pool!PoolNext
<1>2. ASSUME NEW s \in Submission, AuditAdmitted(s) PROVE Pool!PoolNext
  BY <1>1, <1>2, CurrentAttempt DEF AuditAdmitted, StartAttempt
<1>3. ASSUME NEW s \in Submission, Retry(s) PROVE Pool!PoolNext
  BY <1>1, <1>3, CurrentAttempt DEF Retry, StartAttempt
<1>4. ASSUME NEW s \in Submission, HandlerSettles(s) PROVE Pool!PoolNext
  BY <1>1, <1>4, CurrentAttempt DEF HandlerSettles
<1>5. ASSUME NEW a \in Attempt, FreeSlot(a) PROVE Pool!PoolNext
  BY <1>1, <1>5 DEF FreeSlot
<1>6. CASE Shutdown
  BY <1>6 DEF Shutdown, Pool!PoolNext
<1>7. ASSUME NEW s \in Submission, Submit(s) PROVE UNCHANGED poolVars
  BY <1>7 DEF Submit, DenyEarly, DenyReplay, DenyLate, DenyCircuit, DenyQuota, DenyResources, Deny, Admit
<1>8. ASSUME NEW s \in Submission,
             \/ BackOff(s) \/ Conclude(s) \/ AuditTerminal(s) \/ Timeout(s) \/ Cancel(s)
             \/ AuditAdmittedFails(s) \/ AuditTerminalFails(s)
      PROVE  UNCHANGED poolVars
  BY <1>8 DEF BackOff, Conclude, AuditTerminal, Timeout, Cancel, AuditAdmittedFails, AuditTerminalFails
<1>9. CASE Tick \/ UNCHANGED vars
  BY <1>9 DEF Tick, vars
<1> QED BY <1>2, <1>3, <1>4, <1>5, <1>6, <1>7, <1>8, <1>9 DEF Next, Progress

\* What the pool keeps, it keeps inside the engine.
LEMMA PoolKeeps ==
    ASSUME PoolProofs!PoolInv, [Pool!PoolNext]_poolVars
    PROVE  PoolProofs!PoolInv' /\ Pool!PoolTypeOK'
<1>1. [PoolProofs!PoolNext]_(PoolProofs!poolVars)
  BY SamePool DEF poolVars, PoolProofs!poolVars
<1>2. PoolProofs!PoolInv'
  BY <1>1, PoolConstants, FiniteAttempts, PoolProofs!PoolNextInv
<1>3. PoolProofs!PoolTypeOK'
  BY <1>2 DEF PoolProofs!PoolInv
<1>4. Pool!PoolTypeOK'
  BY <1>3 DEF Pool!PoolTypeOK, PoolProofs!PoolTypeOK, Pool!Status, PoolProofs!Status
<1> QED BY <1>2, <1>4
-----------------------------------------------------------------------------
(* Types *)

\* The breaker's entries stay entries, whatever is asked of or reported to them.
LEMMA BreakerTypes ==
    ASSUME NEW e \in CircuitEntry, NEW n \in Nat
    PROVE  /\ AfterCanExecute(e, n) \in CircuitEntry
           /\ AfterFailure(e, n) \in CircuitEntry
           /\ AfterSuccess(e) \in CircuitEntry
           /\ NewEntry \in CircuitEntry
<1>1. \A r \in CircuitEntry :
          /\ r.state \in CircuitState /\ r.failures \in Nat /\ r.failures + 1 \in Nat
          /\ r.halfOpenProbes \in Nat /\ r.halfOpenProbes + 1 \in Nat
  BY DEF CircuitEntry
<1>2. Refresh(e, n) \in CircuitEntry
  <2>1. [e EXCEPT !.state = "half_open", !.halfOpenProbes = 0] \in CircuitEntry
    BY DEF CircuitEntry, CircuitState
  <2> QED BY <2>1 DEF Refresh
<1>3. AfterCanExecute(e, n) \in CircuitEntry
  <2>1. ASSUME NEW r \in CircuitEntry PROVE [r EXCEPT !.halfOpenProbes = @ + 1] \in CircuitEntry
    BY DEF CircuitEntry
  <2> QED BY <1>2, <2>1 DEF AfterCanExecute
<1>4. AfterFailure(e, n) \in CircuitEntry
  <2>1. /\ [e EXCEPT !.state = "open", !.openedAt = n] \in CircuitEntry
        /\ [e EXCEPT !.failures = e.failures + 1, !.state = "open", !.openedAt = n] \in CircuitEntry
        /\ [e EXCEPT !.failures = e.failures + 1] \in CircuitEntry
    BY <1>1 DEF CircuitEntry, CircuitState
  <2> QED BY <2>1 DEF AfterFailure
<1>5. NewEntry \in CircuitEntry
  BY DEF NewEntry, CircuitEntry, CircuitState
<1> QED BY <1>3, <1>4, <1>5 DEF AfterSuccess

LEMMA AdmissionTypes ==
    ASSUME NEW u \in [Slot -> Usage], NEW w \in [slots : Nat, amount : Nat],
           NEW slots \in SUBSET Slot, NEW cost \in Nat
    PROVE  /\ QuotaAcquire(u, slots, cost) \in [Slot -> Usage]
           /\ QuotaRelease(u, slots) \in [Slot -> Usage]
           /\ ResourceReserve(w, cost) \in [slots : Nat, amount : Nat]
           /\ ResourceRelease(w, cost) \in [slots : Nat, amount : Nat]
<1>2. ASSUME NEW q \in Slot
      PROVE  /\ [concurrent |-> u[q].concurrent + 1, budget |-> u[q].budget + cost] \in Usage
             /\ [u[q] EXCEPT !.concurrent = Minus(@, 1)] \in Usage
             /\ u[q] \in Usage
  <2>1. u[q] \in Usage
    OBVIOUS
  <2>2. u[q].concurrent \in Nat /\ u[q].budget \in Nat
    BY <2>1 DEF Usage
  <2>3. u[q].concurrent + 1 \in Nat /\ u[q].budget + cost \in Nat /\ Minus(u[q].concurrent, 1) \in Nat
    BY <2>2 DEF Minus
  <2> QED BY <2>1, <2>3 DEF Usage
<1>3. w.slots \in Nat /\ w.amount \in Nat
  OBVIOUS
<1>4. /\ w.slots + 1 \in Nat /\ w.amount + cost \in Nat
      /\ Minus(w.slots, 1) \in Nat /\ Minus(w.amount, cost) \in Nat
  BY <1>3 DEF Minus
<1> QED BY <1>2, <1>4 DEF QuotaAcquire, QuotaRelease, ResourceReserve, ResourceRelease

LEMMA SubmissionConstants ==
    ASSUME NEW s \in Submission
    PROVE  /\ PermitOf[s] \in Permit /\ KeyOf[s] \in CircuitKey
           /\ SlotsOf[s] \in SUBSET Slot /\ CostOf[s] \in Nat
  BY EngineAssumption

LEMMA EngineInitTypes == Init => TypeOK
<1> SUFFICES ASSUME Init PROVE TypeOK
  OBVIOUS
<1>1. Pool!PoolTypeOK
  BY DEF Init, Pool!PoolInit, Pool!PoolTypeOK, Pool!Status
<1>2. NoUsage \in [Slot -> Usage] /\ NothingUsed \in [slots : Nat, amount : Nat]
  BY DEF NoUsage, NothingUsed, Usage
<1>3. NewEntry \in CircuitEntry
  BY DEF NewEntry, CircuitEntry, CircuitState
<1>4. circuit \in [CircuitKey -> CircuitEntry]
  BY <1>3 DEF Init
<1>5. 0 \in 0..MaxAttempts
  BY EngineAssumption
<1> QED BY <1>1, <1>2, <1>4, <1>5 DEF Init, TypeOK, PC

\* The part of the state that only submit() of s writes.
CallTypes ==
    /\ pc \in [Submission -> PC]
    /\ attempt \in [Submission -> 0..MaxAttempts]
    /\ token \in [Submission -> {"none", "timeout", "cancelled"}]
    /\ external \in [Submission -> BOOLEAN]
    /\ outcome \in [Submission -> RuntimeStatus \cup {"none"}]
    /\ trail \in [Submission -> Seq(RuntimeStatus \cup {"ADMITTED"})]

\* The part of the state that all calls share.
SharedTypes ==
    /\ consumed \subseteq Permit
    /\ usage \in [Slot -> Usage]
    /\ used \in [slots : Nat, amount : Nat]
    /\ circuit \in [CircuitKey -> CircuitEntry]
    /\ now \in Nat

LEMMA TypeParts == TypeOK <=> Pool!PoolTypeOK /\ CallTypes /\ SharedTypes
  BY DEF TypeOK, CallTypes, SharedTypes

LEMMA SharedStep ==
    ASSUME TypeOK, [Next]_vars
    PROVE  SharedTypes'
<1> USE SubmissionConstants DEF TypeOK, SharedTypes
<1>1. ASSUME NEW s \in Submission
      PROVE  /\ QuotaAcquire(usage, SlotsOf[s], CostOf[s]) \in [Slot -> Usage]
             /\ QuotaRelease(usage, SlotsOf[s]) \in [Slot -> Usage]
             /\ QuotaRelease(QuotaAcquire(usage, SlotsOf[s], CostOf[s]), SlotsOf[s]) \in [Slot -> Usage]
             /\ ResourceReserve(used, CostOf[s]) \in [slots : Nat, amount : Nat]
             /\ ResourceRelease(used, CostOf[s]) \in [slots : Nat, amount : Nat]
             /\ Consume(s) => consumed' \subseteq Permit
  <2>1. /\ QuotaAcquire(usage, SlotsOf[s], CostOf[s]) \in [Slot -> Usage]
        /\ QuotaRelease(usage, SlotsOf[s]) \in [Slot -> Usage]
        /\ ResourceReserve(used, CostOf[s]) \in [slots : Nat, amount : Nat]
        /\ ResourceRelease(used, CostOf[s]) \in [slots : Nat, amount : Nat]
    BY AdmissionTypes
  <2>2. QuotaRelease(QuotaAcquire(usage, SlotsOf[s], CostOf[s]), SlotsOf[s]) \in [Slot -> Usage]
    BY <2>1, AdmissionTypes
  <2> QED BY <2>1, <2>2 DEF Consume
<1>2. ASSUME NEW s \in Submission,
             \/ circuit' = [circuit EXCEPT ![KeyOf[s]] = AfterCanExecute(@, now)]
             \/ ReportToBreaker(s)
      PROVE  circuit' \in [CircuitKey -> CircuitEntry]
  <2>1. /\ AfterCanExecute(circuit[KeyOf[s]], now) \in CircuitEntry
        /\ AfterSuccess(circuit[KeyOf[s]]) \in CircuitEntry
        /\ AfterFailure(circuit[KeyOf[s]], now) \in CircuitEntry
        /\ circuit[KeyOf[s]] \in CircuitEntry
    BY BreakerTypes
  <2> QED BY <1>2, <2>1 DEF ReportToBreaker
<1>3. ASSUME NEW s \in Submission, Submit(s) PROVE SharedTypes'
  BY <1>1, <1>2, <1>3 DEF Submit, DenyEarly, DenyReplay, DenyLate, DenyCircuit, DenyQuota, DenyResources,
                          Deny, Admit, PassesCircuit
<1>4. ASSUME NEW s \in Submission, BackOff(s) \/ Conclude(s) PROVE SharedTypes'
  BY <1>1, <1>2, <1>4 DEF BackOff, Conclude
<1>5. ASSUME NEW s \in Submission,
             \/ AuditAdmitted(s) \/ HandlerSettles(s) \/ Retry(s) \/ AuditTerminal(s) \/ Timeout(s)
             \/ Cancel(s) \/ AuditAdmittedFails(s) \/ AuditTerminalFails(s)
      PROVE  SharedTypes'
  BY <1>5 DEF AuditAdmitted, HandlerSettles, Retry, AuditTerminal, Timeout, Cancel,
              AuditAdmittedFails, AuditTerminalFails
<1>6. CASE (\E a \in Attempt : FreeSlot(a)) \/ Shutdown
  BY <1>6 DEF FreeSlot, Shutdown, engineVars
<1>7. CASE Tick \/ UNCHANGED vars
  BY <1>7 DEF Tick, vars, engineVars
<1> QED BY <1>3, <1>4, <1>5, <1>6, <1>7 DEF Next, Progress
-----------------------------------------------------------------------------
(* The calls *)

\* A step leaves the call of r where it is, up to what the pool does with its
\* attempts.
SameCall(r) ==
    /\ pc'[r] = pc[r] /\ attempt'[r] = attempt[r] /\ token'[r] = token[r]
    /\ external'[r] = external[r] /\ outcome'[r] = outcome[r] /\ trail'[r] = trail[r]

AttemptsMove(r) ==
    \A n \in 1..MaxAttempts :
        \/ status'[<<r, n>>] = status[<<r, n>>]
        \/ status[<<r, n>>] = "queued" /\ status'[<<r, n>>] = "running"
        \/ status[<<r, n>>] = "settled" /\ status'[<<r, n>>] = "done"

GoodCall(s) == CallInv(s) /\ AttemptInv(s) /\ CancelInv(s)

LEMMA OthersKeep ==
    ASSUME NEW r \in Submission, GoodCall(r), SameCall(r), AttemptsMove(r)
    PROVE  GoodCall(r)'
<1>1. CallInv(r)'
  BY DEF GoodCall, CallInv, SameCall
<1>2. CancelInv(r)'
  BY DEF GoodCall, CancelInv, SameCall
<1>3. AttemptInv(r)'
  <2> SUFFICES ASSUME NEW n \in 1..MaxAttempts
               PROVE  /\ n > attempt'[r] => status'[<<r, n>>] = "new"
                      /\ n < attempt'[r] => status'[<<r, n>>] \in {"settled", "done"}
                      /\ n = attempt'[r] =>
                            /\ status'[<<r, n>>] # "new"
                            /\ status'[<<r, n>>] \in {"queued", "running"}
                                 => pc'[r] = "attempt" /\ outcome'[r] = "none"
    BY DEF AttemptInv
  <2>1. /\ n > attempt[r] => status[<<r, n>>] = "new"
        /\ n < attempt[r] => status[<<r, n>>] \in {"settled", "done"}
        /\ n = attempt[r] =>
              /\ status[<<r, n>>] # "new"
              /\ status[<<r, n>>] \in {"queued", "running"} => pc[r] = "attempt" /\ outcome[r] = "none"
    BY DEF GoodCall, AttemptInv
  <2>2. \/ status'[<<r, n>>] = status[<<r, n>>]
        \/ status[<<r, n>>] = "queued" /\ status'[<<r, n>>] = "running"
        \/ status[<<r, n>>] = "settled" /\ status'[<<r, n>>] = "done"
    BY DEF AttemptsMove
  <2> QED BY <2>1, <2>2 DEF SameCall
<1> QED BY <1>1, <1>2, <1>3 DEF GoodCall

LEMMA MovesElsewhere ==
    ASSUME NEW a \in Attempt, PoolMoves({a}), NEW r \in Submission, r # a[1]
    PROVE  AttemptsMove(r)
<1> SUFFICES ASSUME NEW n \in 1..MaxAttempts
             PROVE  \/ status'[<<r, n>>] = status[<<r, n>>]
                    \/ status[<<r, n>>] = "queued" /\ status'[<<r, n>>] = "running"
  BY DEF AttemptsMove
<1>1. <<r, n>> \in Attempt /\ <<r, n>> # a
  BY DEF Attempt
<1> QED BY <1>1 DEF PoolMoves

\* A call that starts its attempt n, which the pool has not seen: the pool queues
\* or runs it and it is awaited, or the pool refuses it and it has resolved, or
\* (after shutdown) drops it.
LEMMA StartAttemptKeeps ==
    ASSUME TypeOK, CallsInv, NEW s \in Submission, NEW n \in 1..MaxAttempts, StartAttempt(s, n),
           UNCHANGED external,
           n = attempt[s] + 1, attempt[s] > 0 => status[Current(s)] \in {"settled", "done"},
           n > 1 => s \in RetrySafe,
           trail'[s] = <<"ADMITTED">>, trail' \in [Submission -> Seq(RuntimeStatus \cup {"ADMITTED"})],
           \A r \in Submission \ {s} : trail'[r] = trail[r]
    PROVE  CallTypes' /\ CallsInv'
<1>1. /\ pc' = [pc EXCEPT ![s] = "attempt"]
      /\ attempt' = [attempt EXCEPT ![s] = n]
      /\ token' = [token EXCEPT ![s] = IF external[s] THEN "cancelled" ELSE "none"]
      /\ \E o \in {"OVERLOADED", "REJECTED", "none"} : outcome' = [outcome EXCEPT ![s] = o]
      /\ Pool!Schedule(<<s, n>>)
  BY DEF StartAttempt
<1>2. /\ pc \in [Submission -> PC] /\ attempt \in [Submission -> 0..MaxAttempts]
      /\ token \in [Submission -> {"none", "timeout", "cancelled"}]
      /\ external \in [Submission -> BOOLEAN]
      /\ outcome \in [Submission -> RuntimeStatus \cup {"none"}]
      /\ Pool!PoolTypeOK
  BY DEF TypeOK
<1>3. <<s, n>> \in Attempt
  BY DEF Attempt
<1>4. /\ status[<<s, n>>] = "new"
      /\ status'[<<s, n>>] \in {"OVERLOADED", "REJECTED", "dropped", "queued", "running"}
      /\ PoolMoves({<<s, n>>})
  BY <1>1, <1>2, <1>3, ScheduleMoves
<1>5. CallTypes'
  BY <1>1, <1>2 DEF CallTypes, PC, RuntimeStatus
<1>6. pc'[s] = "attempt" /\ attempt'[s] = n /\ external'[s] = external[s]
  BY <1>1, <1>2
<1>7. CallInv(s)'
  BY <1>6 DEF CallInv
<1>8. CancelInv(s)'
  BY <1>1, <1>2, <1>6 DEF CancelInv
<1>9. AttemptInv(s)'
  <2>1. status'[<<s, n>>] \in {"queued", "running"} => outcome'[s] = "none"
    BY <1>2, <1>4 DEF StartAttempt
  <2>2. ASSUME NEW m \in 1..MaxAttempts
        PROVE  /\ m > n => status'[<<s, m>>] = "new"
               /\ m < n => status'[<<s, m>>] \in {"settled", "done"}
    <3>1. /\ m > attempt[s] => status[<<s, m>>] = "new"
          /\ m < attempt[s] => status[<<s, m>>] \in {"settled", "done"}
      BY DEF CallsInv, AttemptInv
    <3>2. attempt[s] \in Nat /\ n \in Nat /\ m \in Nat /\ m >= 1
      BY <1>2
    <3>3. m > n => status[<<s, m>>] = "new"
      BY <3>1, <3>2
    <3>4. m < n => status[<<s, m>>] \in {"settled", "done"}
      <4> SUFFICES ASSUME m < n PROVE status[<<s, m>>] \in {"settled", "done"}
        OBVIOUS
      <4>1. m < attempt[s] \/ (m = attempt[s] /\ attempt[s] > 0)
        BY <3>2
      <4> QED BY <3>1, <4>1 DEF Current
    <3>5. m # n => /\ <<s, m>> \in Attempt \ {<<s, n>>}
      BY DEF Attempt
    <3>6. m # n => \/ status'[<<s, m>>] = status[<<s, m>>]
                   \/ status[<<s, m>>] = "queued"
      BY <1>4, <3>5 DEF PoolMoves
    <3> QED BY <3>2, <3>3, <3>4, <3>6
  <2> QED BY <1>4, <1>6, <2>1, <2>2 DEF AttemptInv
<1>10. ASSUME NEW r \in Submission \ {s} PROVE GoodCall(r)'
  <2>1. SameCall(r)
    BY <1>1, <1>2 DEF SameCall
  <2>2. AttemptsMove(r)
    BY <1>3, <1>4, MovesElsewhere
  <2>3. GoodCall(r)
    BY DEF CallsInv, GoodCall
  <2> QED BY <2>1, <2>2, <2>3, OthersKeep
<1> QED BY <1>5, <1>7, <1>8, <1>9, <1>10 DEF CallsInv, GoodCall
\* A step of submit() that starts no attempt touches its own call alone.
LEMMA OwnCallKeeps ==
    ASSUME CallsInv, NEW s \in Submission, UNCHANGED status,
           \A r \in Submission \ {s} : SameCall(r),
           GoodCall(s)'
    PROVE  CallsInv'
<1>1. ASSUME NEW r \in Submission \ {s} PROVE GoodCall(r)'
  <2>1. AttemptsMove(r) /\ SameCall(r) /\ GoodCall(r)
    BY DEF AttemptsMove, CallsInv, GoodCall
  <2> QED BY <2>1, OthersKeep
<1> QED BY <1>1 DEF CallsInv, GoodCall

\* A call moves on from an attempt that is neither queued nor running.
LEMMA AttemptInvKeeps ==
    ASSUME NEW s \in Submission, AttemptInv(s), UNCHANGED status, attempt'[s] = attempt[s],
           \/ pc'[s] = pc[s] /\ outcome'[s] = outcome[s]
           \/ pc[s] # "attempt" \/ outcome[s] # "none"
    PROVE  AttemptInv(s)'
  BY DEF AttemptInv

LEMMA DenyKeeps ==
    ASSUME TypeOK, CallsInv, NEW s \in Submission, Deny(s)
    PROVE  CallTypes' /\ CallsInv'
<1>1. /\ pc[s] = "idle" /\ pc' = [pc EXCEPT ![s] = "returned"]
      /\ outcome' = [outcome EXCEPT ![s] = "REJECTED"]
      /\ trail' = [trail EXCEPT ![s] = Append(@, "REJECTED")] \/ trail' = trail
      /\ UNCHANGED <<status, attempt, token, external>>
  BY DEF Deny, poolVars
<1>2. attempt[s] = 0 /\ trail[s] = <<>>
  <2>1. attempt[s] \in Nat
    BY EngineAssumption DEF TypeOK
  <2> QED BY <1>1, <2>1 DEF CallsInv, CallInv
<1>3. CallTypes'
  <2>1. Append(trail[s], "REJECTED") \in Seq(RuntimeStatus \cup {"ADMITTED"})
    BY DEF TypeOK, RuntimeStatus
  <2> QED BY <1>1, <2>1, ZenonT(20) DEF TypeOK, CallTypes, PC, RuntimeStatus
<1>4. pc'[s] = "returned" /\ attempt'[s] = 0 /\ trail'[s] \in {<<"REJECTED">>, <<>>}
  BY <1>1, <1>2 DEF TypeOK
<1>5. CallInv(s)' /\ CancelInv(s)'
  BY <1>4, EngineAssumption DEF CallInv, CancelInv
<1>6. AttemptInv(s)'
  BY <1>1, AttemptInvKeeps DEF CallsInv
<1>7. \A r \in Submission \ {s} : SameCall(r)
  BY <1>1 DEF SameCall, TypeOK
<1> QED BY <1>1, <1>3, <1>5, <1>6, <1>7, OwnCallKeeps DEF GoodCall

LEMMA AppendSecond ==
    ASSUME NEW a, NEW b
    PROVE  Append(<<a>>, b) = <<a, b>>
<1> DEFINE l == Append(<<a>>, b)
           r == <<a, b>>
<1>1. <<a>> \in Seq({a, b}) /\ Len(<<a>>) = 1 /\ <<a>>[1] = a
  OBVIOUS
<1>2. l \in Seq({a, b}) /\ Len(l) = 2 /\ l[1] = a /\ l[2] = b
  BY <1>1
<1>3. r \in Seq({a, b}) /\ Len(r) = 2 /\ r[1] = a /\ r[2] = b
  OBVIOUS
<1> HIDE DEF l, r
<1>4. \A i \in 1..2 : i = 1 \/ i = 2
  OBVIOUS
<1>5. l \in [1..2 -> {a, b}] /\ r \in [1..2 -> {a, b}]
  BY <1>2, <1>3
<1>6. \A i \in 1..2 : l[i] = r[i]
  BY <1>2, <1>3, <1>4
<1>7. l = r
  BY <1>5, <1>6
<1> QED BY <1>7 DEF l, r

\* The steps that move a call's pc, and nothing else of it but (at its end) the trail.
PcStep(s, from, to) ==
    /\ <<from, to>> \in {<<"idle", "admitting">>, <<"admitting", "threw">>, <<"attempt", "delay">>,
                         <<"attempt", "closing">>, <<"closing", "threw">>, <<"closing", "returned">>}
    /\ pc[s] = from
    /\ pc' = [pc EXCEPT ![s] = to]
    /\ trail' = IF to = "returned" THEN [trail EXCEPT ![s] = Append(@, outcome[s])] ELSE trail
    /\ to = "returned" \/ from = "attempt" => outcome[s] # "none"
    /\ to = "delay" => s \in RetrySafe /\ attempt[s] < MaxAttempts
    /\ UNCHANGED <<status, attempt, token, external, outcome>>

LEMMA PcStepKeeps ==
    ASSUME TypeOK, CallsInv, NEW s \in Submission, NEW from, NEW to, PcStep(s, from, to)
    PROVE  CallTypes' /\ CallsInv'
<1>1. /\ to \in {"admitting", "threw", "delay", "closing", "returned"}
      /\ to = "returned" => from = "closing"
      /\ to = "delay" => from = "attempt"
      /\ to = "admitting" => from = "idle"
      /\ to = "closing" => from = "attempt"
      /\ to = "threw" => from \in {"admitting", "closing"}
  BY DEF PcStep
<1> USE DEF PcStep
<1>2. pc'[s] = to /\ attempt[s] \in Nat
  BY EngineAssumption DEF TypeOK
<1>3. CallTypes'
  <2>1. to = "returned" => Append(trail[s], outcome[s]) \in Seq(RuntimeStatus \cup {"ADMITTED"})
    BY DEF TypeOK, RuntimeStatus
  <2>2. CASE to = "returned"
    BY <1>1, <2>1, <2>2 DEF TypeOK, CallTypes, PC
  <2>3. CASE to # "returned"
    BY <1>1, <2>3 DEF TypeOK, CallTypes, PC
  <2> QED BY <2>2, <2>3
<1>4. CallInv(s)
  BY DEF CallsInv
<1>5. CallInv(s)'
  <2>1. CASE to = "returned"
    <3>1. attempt[s] > 0 /\ trail[s] = <<"ADMITTED">>
      BY <1>1, <1>2, <1>4, <2>1 DEF CallInv
    <3>2. trail'[s] = <<"ADMITTED", outcome[s]>>
      <4>1. trail'[s] = Append(trail[s], outcome[s])
        BY <2>1 DEF TypeOK
      <4> QED BY <3>1, <4>1, AppendSecond
    <3> QED BY <1>2, <1>4, <2>1, <3>1, <3>2 DEF CallInv
  <2>2. CASE to # "returned"
    <3>1. trail'[s] = trail[s]
      BY <2>2
    <3>2. CASE to = "admitting"
      BY <1>1, <1>2, <1>4, <2>2, <3>1, <3>2 DEF CallInv
    <3>3. CASE to \in {"delay", "closing"}
      BY <1>1, <1>2, <1>4, <2>2, <3>1, <3>3 DEF CallInv
    <3>4. CASE to = "threw"
      BY <1>1, <1>2, <1>4, <2>2, <3>1, <3>4 DEF CallInv
    <3> QED BY <1>1, <2>2, <3>2, <3>3, <3>4
  <2> QED BY <2>1, <2>2
<1>6. CancelInv(s)'
  BY <1>1, <1>2 DEF CancelInv
<1>7. AttemptInv(s)'
  BY AttemptInvKeeps DEF CallsInv
<1>8. \A r \in Submission \ {s} : SameCall(r)
  BY DEF SameCall, TypeOK
<1> QED BY <1>3, <1>5, <1>6, <1>7, <1>8, OwnCallKeeps DEF GoodCall

\* A handler that settles resolves the attempt it belongs to.
LEMMA HandlerSettlesKeeps ==
    ASSUME TypeOK, CallsInv, NEW s \in Submission, HandlerSettles(s)
    PROVE  CallTypes' /\ CallsInv'
<1>1. /\ pc[s] = "attempt" /\ Pool!Settle(Current(s))
      /\ \E o \in RuntimeStatus : outcome' = [outcome EXCEPT ![s] = o]
      /\ UNCHANGED <<pc, attempt, token, external, trail>>
  BY DEF HandlerSettles, RuntimeStatus
<1>2. attempt[s] \in 1..MaxAttempts /\ Current(s) \in Attempt
  BY <1>1, CurrentAttempt
<1>3. status[Current(s)] = "running" /\ status'[Current(s)] = "settled" /\ PoolMoves({Current(s)})
  BY <1>1, <1>2, SettleMoves DEF TypeOK
<1>4. CallTypes'
  BY <1>1 DEF TypeOK, CallTypes
<1>5. CallInv(s)' /\ CancelInv(s)'
  BY <1>1 DEF CallsInv, CallInv, CancelInv
<1>6. AttemptInv(s)'
  <2> SUFFICES ASSUME NEW m \in 1..MaxAttempts
               PROVE  /\ m > attempt[s] => status'[<<s, m>>] = "new"
                      /\ m < attempt[s] => status'[<<s, m>>] \in {"settled", "done"}
                      /\ m = attempt[s] => status'[<<s, m>>] = "settled"
    BY <1>1 DEF AttemptInv
  <2>1. m = attempt[s] => status'[<<s, m>>] = "settled"
    BY <1>3 DEF Current
  <2>2. m # attempt[s] => <<s, m>> \in Attempt \ {Current(s)}
    BY DEF Attempt, Current
  <2>3. m # attempt[s] => status'[<<s, m>>] = status[<<s, m>>] \/ status[<<s, m>>] = "queued"
    BY <1>3, <2>2 DEF PoolMoves
  <2>4. /\ m > attempt[s] => status[<<s, m>>] = "new"
        /\ m < attempt[s] => status[<<s, m>>] \in {"settled", "done"}
    BY DEF CallsInv, AttemptInv
  <2> QED BY <1>2, <2>1, <2>3, <2>4
<1>7. ASSUME NEW r \in Submission \ {s} PROVE GoodCall(r)'
  <2>1. SameCall(r) /\ GoodCall(r)
    BY <1>1 DEF SameCall, CallsInv, GoodCall, TypeOK
  <2>2. AttemptsMove(r)
    BY <1>2, <1>3, MovesElsewhere DEF Current
  <2> QED BY <2>1, <2>2, OthersKeep
<1> QED BY <1>4, <1>5, <1>6, <1>7 DEF CallsInv, GoodCall

\* A freed slot lets another task start; the calls stay where they are.
LEMMA FreeSlotKeeps ==
    ASSUME TypeOK, CallsInv, NEW a \in Attempt, FreeSlot(a)
    PROVE  CallTypes' /\ CallsInv'
<1>1. status[a] = "settled" /\ status'[a] = "done" /\ PoolMoves({a})
  BY ReleaseMoves DEF FreeSlot, TypeOK
<1>2. CallTypes' /\ \A r \in Submission : SameCall(r)
  BY DEF FreeSlot, engineVars, TypeOK, CallTypes, SameCall
<1>3. ASSUME NEW r \in Submission PROVE AttemptsMove(r)
  <2>1. \A n \in 1..MaxAttempts : <<r, n>> \in Attempt
    BY DEF Attempt
  <2> QED BY <1>1, <2>1 DEF AttemptsMove, PoolMoves
<1> QED BY <1>2, <1>3, OthersKeep DEF CallsInv, GoodCall

\* A timer or a caller cancels the source of an attempt.
LEMMA TokenKeeps ==
    ASSUME TypeOK, CallsInv, NEW s \in Submission, Timeout(s) \/ Cancel(s)
    PROVE  CallTypes' /\ CallsInv'
<1>1. UNCHANGED <<status, pc, attempt, outcome, trail>>
  BY DEF Timeout, Cancel, poolVars
<1>2. CallTypes' /\ \A r \in Submission \ {s} : SameCall(r)
  BY <1>1 DEF Timeout, Cancel, TypeOK, CallTypes, SameCall
<1>3. CancelInv(s)'
  BY <1>1 DEF Timeout, Cancel, TypeOK, CancelInv, CallsInv
<1>4. CallInv(s)' /\ AttemptInv(s)'
  BY <1>1 DEF CallsInv, CallInv, AttemptInv
<1> QED BY <1>1, <1>2, <1>3, <1>4, OwnCallKeeps DEF GoodCall
LEMMA CallsInit == Init => CallsInv
<1> SUFFICES ASSUME Init, NEW s \in Submission PROVE GoodCall(s)
  BY DEF CallsInv, GoodCall
<1>1. /\ pc[s] = "idle" /\ attempt[s] = 0 /\ trail[s] = <<>> /\ ~external[s]
      /\ \A n \in 1..MaxAttempts : <<s, n>> \in Attempt /\ status[<<s, n>>] = "new"
  BY DEF Init, Pool!PoolInit, Attempt
<1>2. CallInv(s) /\ CancelInv(s)
  BY <1>1 DEF CallInv, CancelInv
<1>3. AttemptInv(s)
  BY <1>1 DEF AttemptInv
<1> QED BY <1>2, <1>3 DEF GoodCall

\* Every step of the engine keeps what is known of every call.
LEMMA CallsStep ==
    ASSUME TypeOK, CallsInv, [Next]_vars
    PROVE  CallTypes' /\ CallsInv'
<1>1. ASSUME NEW s \in Submission, Submit(s) PROVE CallTypes' /\ CallsInv'
  <2>1. CASE Deny(s)
    BY <2>1, DenyKeeps
  <2>2. CASE Admit(s)
    <3>1. /\ pc[s] = "idle" /\ pc' = [pc EXCEPT ![s] = "admitting"]
          /\ UNCHANGED <<status, attempt, token, external, outcome, trail>>
      BY <2>2 DEF Admit, poolVars
    <3>2. PcStep(s, "idle", "admitting")
      BY <3>1 DEF PcStep
    <3> QED BY <3>2, PcStepKeeps
  <2> QED BY <1>1, <2>1, <2>2 DEF Submit, DenyEarly, DenyReplay, DenyLate, DenyCircuit, DenyQuota, DenyResources
<1>2. ASSUME NEW s \in Submission, AuditAdmitted(s) PROVE CallTypes' /\ CallsInv'
  <2>1. /\ pc[s] = "admitting" /\ StartAttempt(s, 1) /\ UNCHANGED external
        /\ trail' = [trail EXCEPT ![s] = Append(@, "ADMITTED")]
    BY <1>2 DEF AuditAdmitted
  <2>2. attempt[s] = 0 /\ trail[s] = <<>>
    <3>1. attempt[s] \in Nat
      BY EngineAssumption DEF TypeOK
    <3> QED BY <2>1, <3>1 DEF CallsInv, CallInv
  <2>3. /\ trail' \in [Submission -> Seq(RuntimeStatus \cup {"ADMITTED"})]
        /\ trail'[s] = <<"ADMITTED">> /\ \A r \in Submission \ {s} : trail'[r] = trail[r]
    <3>1. Append(trail[s], "ADMITTED") \in Seq(RuntimeStatus \cup {"ADMITTED"})
      BY DEF TypeOK
    <3>2. Append(trail[s], "ADMITTED") = <<"ADMITTED">>
      BY <2>2
    <3> QED BY <2>1, <3>1, <3>2 DEF TypeOK
  <2>4. 1 \in 1..MaxAttempts
    BY EngineAssumption
  <2> QED BY <2>1, <2>2, <2>3, <2>4, StartAttemptKeeps
<1>3. ASSUME NEW s \in Submission, Retry(s) PROVE CallTypes' /\ CallsInv'
  <2>1. /\ pc[s] = "delay" /\ StartAttempt(s, attempt[s] + 1) /\ UNCHANGED <<external, trail>>
        /\ status[Current(s)] \in {"settled", "done"}
    BY <1>3 DEF Retry
  <2>2. /\ attempt[s] \in 1..MaxAttempts /\ attempt[s] + 1 \in 1..MaxAttempts
    BY <2>1, CurrentAttempt
  <2>4. attempt[s] > 0 /\ s \in RetrySafe /\ trail[s] = <<"ADMITTED">>
    BY <2>1, <2>2 DEF CallsInv, CallInv
  <2>3. trail' \in [Submission -> Seq(RuntimeStatus \cup {"ADMITTED"})]
    BY <2>1 DEF TypeOK
  <2> QED BY <2>1, <2>2, <2>3, <2>4, StartAttemptKeeps
<1>4. ASSUME NEW s \in Submission, BackOff(s) \/ Conclude(s) PROVE CallTypes' /\ CallsInv'
  <2>1. /\ pc[s] = "attempt" /\ outcome[s] # "none"
        /\ UNCHANGED <<status, attempt, token, external, outcome, trail>>
        /\ \/ pc' = [pc EXCEPT ![s] = "closing"]
           \/ pc' = [pc EXCEPT ![s] = "delay"] /\ s \in RetrySafe /\ attempt[s] < MaxAttempts
    BY <1>4 DEF BackOff, Conclude, Retries, poolVars
  <2>2. PcStep(s, "attempt", "closing") \/ PcStep(s, "attempt", "delay")
    BY <2>1 DEF PcStep
  <2> QED BY <2>2, PcStepKeeps
<1>5. ASSUME NEW s \in Submission, AuditTerminal(s) PROVE CallTypes' /\ CallsInv'
  <2>1. /\ pc[s] = "closing" /\ trail' = [trail EXCEPT ![s] = Append(@, outcome[s])]
        /\ pc' = [pc EXCEPT ![s] = "returned"]
        /\ UNCHANGED <<status, attempt, token, external, outcome>>
    BY <1>5 DEF AuditTerminal, poolVars
  <2>2. outcome[s] # "none"
    BY <2>1 DEF CallsInv, CallInv
  <2>3. PcStep(s, "closing", "returned")
    BY <2>1, <2>2 DEF PcStep
  <2> QED BY <2>3, PcStepKeeps
<1>6. ASSUME NEW s \in Submission, AuditAdmittedFails(s) \/ AuditTerminalFails(s)
      PROVE  CallTypes' /\ CallsInv'
  <2>1. /\ pc[s] \in {"admitting", "closing"} /\ pc' = [pc EXCEPT ![s] = "threw"]
        /\ UNCHANGED <<status, attempt, token, external, outcome, trail>>
    BY <1>6 DEF AuditAdmittedFails, AuditTerminalFails, poolVars
  <2>2. PcStep(s, "admitting", "threw") \/ PcStep(s, "closing", "threw")
    BY <2>1 DEF PcStep
  <2> QED BY <2>2, PcStepKeeps
<1>7. CASE Shutdown \/ Tick \/ UNCHANGED vars
  <2>1. UNCHANGED <<status, pc, attempt, token, external, outcome, trail>>
    BY <1>7 DEF Shutdown, Tick, vars, poolVars, engineVars, Pool!Shutdown
  <2>2. CallTypes'
    BY <2>1 DEF TypeOK, CallTypes
  <2>3. \A r \in Submission : SameCall(r) /\ AttemptsMove(r) /\ GoodCall(r)
    BY <2>1 DEF SameCall, AttemptsMove, CallsInv, GoodCall
  <2> QED BY <2>2, <2>3, OthersKeep DEF CallsInv, GoodCall
<1> QED BY <1>1, <1>2, <1>3, <1>4, <1>5, <1>6, <1>7, HandlerSettlesKeeps, FreeSlotKeeps, TokenKeeps
        DEF Next, Progress
-----------------------------------------------------------------------------
(* The sum of the costs *)

Pick(S) == CHOOSE x \in S : TRUE

\* What the fold behind SumCost computes on the sets T, from the rest of each.
FoldOf(f, T) == IF T = {} THEN 0 ELSE CostOf[Pick(T)] + f[T \ {Pick(T)}]

FoldsCosts(f, S) == f = [T \in SUBSET S |-> FoldOf(f, T)]

LEMMA SumCostIsFold ==
    ASSUME NEW S
    PROVE  SumCost(S) = (CHOOSE f : FoldsCosts(f, S))[S]
  BY DEF SumCost, FoldSet, MapThenFoldSet, FoldsCosts, FoldOf, Pick
LEMMA FiniteSubmissions ==
    ASSUME NEW T \in SUBSET Submission
    PROVE  IsFiniteSet(T) /\ Cardinality(T) \in Nat /\ (T = {} <=> Cardinality(T) = 0)
<1>1. IsFiniteSet(T)
  BY EngineAssumption, FS_Subset
<1> QED BY <1>1, FS_CardinalityType, FS_EmptySet

LEMMA OneLess ==
    ASSUME NEW T \in SUBSET Submission, NEW x \in T
    PROVE  /\ T \ {x} \in SUBSET Submission
           /\ Cardinality(T) \in Nat /\ Cardinality(T \ {x}) \in Nat
           /\ Cardinality(T \ {x}) = Cardinality(T) - 1
           /\ CostOf[x] \in Nat
  BY FiniteSubmissions, FS_RemoveElement, SubmissionConstants

LEMMA PickOne ==
    ASSUME NEW T \in SUBSET Submission, T # {}
    PROVE  Pick(T) \in T
  BY DEF Pick

SolvesFold(f) ==
    /\ f \in [SUBSET Submission -> Nat]
    /\ \A T \in SUBSET Submission : f[T] = FoldOf(f, T)

\* The recursion of the fold has a solution: built for larger and larger sets,
\* there is no least size it cannot be built for.
LEMMA FoldExists == \E f : SolvesFold(f)
<1> DEFINE Upto(f, n) == /\ f \in [SUBSET Submission -> Nat]
                         /\ \A T \in SUBSET Submission : Cardinality(T) <= n => f[T] = FoldOf(f, T)
<1>1. \E f : Upto(f, 0)
  <2> DEFINE z == [T \in SUBSET Submission |-> 0]
  <2>1. ASSUME NEW T \in SUBSET Submission, Cardinality(T) <= 0 PROVE z[T] = FoldOf(z, T)
    <3>1. T = {}
      BY <2>1, FiniteSubmissions
    <3> QED BY <3>1 DEF FoldOf
  <2>2. z \in [SUBSET Submission -> Nat]
    OBVIOUS
  <2> HIDE DEF z
  <2>3. Upto(z, 0)
    BY <2>1, <2>2
  <2> QED BY <2>3
<1>2. ASSUME NEW n \in Nat, NEW f, Upto(f, n) PROVE \E g : Upto(g, n + 1)
  <2> DEFINE g == [T \in SUBSET Submission |-> IF Cardinality(T) <= n THEN f[T] ELSE FoldOf(f, T)]
  <2>1. ASSUME NEW T \in SUBSET Submission
        PROVE  FoldOf(f, T) \in Nat
    <3>1. CASE T = {}
      BY <3>1 DEF FoldOf
    <3>2. CASE T # {}
      <4>1. Pick(T) \in T
        BY <3>2, PickOne
      <4>2. T \ {Pick(T)} \in SUBSET Submission /\ CostOf[Pick(T)] \in Nat
        BY <4>1, OneLess
      <4>3. f[T \ {Pick(T)}] \in Nat
        BY <1>2, <4>2
      <4> QED BY <3>2, <4>2, <4>3 DEF FoldOf
    <3> QED BY <3>1, <3>2
  <2>2. g \in [SUBSET Submission -> Nat]
    BY <1>2, <2>1
  <2>3. ASSUME NEW T \in SUBSET Submission, Cardinality(T) <= n PROVE g[T] = f[T]
    BY <2>3
  <2>4. ASSUME NEW T \in SUBSET Submission, Cardinality(T) <= n + 1 PROVE g[T] = FoldOf(f, T)
    BY <1>2, <2>3, <2>4
  <2> HIDE DEF g
  <2>5. ASSUME NEW T \in SUBSET Submission, Cardinality(T) <= n + 1 PROVE g[T] = FoldOf(g, T)
    <3>1. CASE T = {}
      BY <2>4, <2>5, <3>1 DEF FoldOf
    <3>2. CASE T # {}
      <4>1. Pick(T) \in T
        BY <3>2, PickOne
      <4>2. /\ T \ {Pick(T)} \in SUBSET Submission /\ Cardinality(T \ {Pick(T)}) \in Nat
            /\ Cardinality(T) \in Nat /\ Cardinality(T \ {Pick(T)}) = Cardinality(T) - 1
        BY <4>1, OneLess
      <4>3. Cardinality(T \ {Pick(T)}) <= n
        BY <2>5, <4>2
      <4>4. g[T \ {Pick(T)}] = f[T \ {Pick(T)}]
        BY <2>3, <4>2, <4>3
      <4> QED BY <2>4, <2>5, <3>2, <4>4 DEF FoldOf
    <3> QED BY <3>1, <3>2
  <2>6. Upto(g, n + 1)
    BY <2>2, <2>5
  <2> QED BY <2>6
<1> HIDE DEF Upto
<1>3. \A n \in Nat : \E f : Upto(f, n)
  <2> DEFINE bad == {n \in Nat : ~\E f : Upto(f, n)}
  <2> SUFFICES ASSUME bad # {} PROVE FALSE
    OBVIOUS
  <2>1. PICK n \in bad : \A m \in bad : n <= m
    <3>1. bad \subseteq Nat
      OBVIOUS
    <3> HIDE DEF bad
    <3> QED BY <3>1, LeastNatural
  <2>2. n \in Nat /\ n # 0 /\ ~\E f : Upto(f, n)
    BY <1>1, <2>1
  <2>3. n - 1 \in Nat /\ ~(n <= n - 1) /\ (n - 1) + 1 = n
    BY <2>2
  <2>4. \E f : Upto(f, n - 1)
    BY <2>1, <2>3
  <2> QED BY <1>2, <2>2, <2>3, <2>4
<1>4. Cardinality(Submission) \in Nat /\ \A T \in SUBSET Submission : Cardinality(T) <= Cardinality(Submission)
  BY EngineAssumption, FS_Subset, FS_CardinalityType
<1>5. PICK f : Upto(f, Cardinality(Submission))
  BY <1>3, <1>4
<1>6. SolvesFold(f)
  BY <1>4, <1>5 DEF Upto, SolvesFold
<1> QED BY <1>6

\* A statement about every set of submissions, by induction over their number:
\* it has no smallest counterexample.
LEMMA SmallestSet ==
    ASSUME NEW D, D \subseteq SUBSET Submission, D # {}
    PROVE  \E T \in D : \A U \in D : Cardinality(T) <= Cardinality(U)
<1> DEFINE N == {Cardinality(T) : T \in D}
<1>1. N \subseteq Nat
  BY FiniteSubmissions
<1>2. N # {}
  OBVIOUS
<1>3. PICK n \in N : \A m \in N : n <= m
  <2> HIDE DEF N
  <2> QED BY <1>1, <1>2, LeastNatural
<1> QED BY <1>3

LEMMA SumCostFolds ==
    ASSUME NEW F, SolvesFold(F), NEW S \in SUBSET Submission
    PROVE  SumCost(S) = F[S]
<1>1. \E f : FoldsCosts(f, S)
  <2> DEFINE g == [T \in SUBSET S |-> F[T]]
  <2>1. ASSUME NEW T \in SUBSET S PROVE g[T] = FoldOf(g, T)
    <3>1. T \in SUBSET Submission /\ T \ {Pick(T)} \in SUBSET S
      OBVIOUS
    <3> QED BY <3>1 DEF SolvesFold, FoldOf
  <2>2. g = [T \in SUBSET S |-> g[T]]
    OBVIOUS
  <2> HIDE DEF g
  <2>3. g = [T \in SUBSET S |-> FoldOf(g, T)]
    BY <2>1, <2>2
  <2> QED BY <2>3 DEF FoldsCosts
<1> DEFINE f == CHOOSE h : FoldsCosts(h, S)
<1>2. FoldsCosts(f, S)
  BY <1>1
<1>3. SumCost(S) = f[S]
  BY SumCostIsFold
<1> HIDE DEF f
<1>4. \A T \in SUBSET S : f[T] = FoldOf(f, T)
  BY <1>2 DEF FoldsCosts
<1>5. \A T \in SUBSET S : f[T] = F[T]
  <2> DEFINE bad == {T \in SUBSET S : f[T] # F[T]}
  <2> SUFFICES ASSUME bad # {} PROVE FALSE
    OBVIOUS
  <2>1. PICK T \in bad : \A U \in bad : Cardinality(T) <= Cardinality(U)
    <3>1. bad \subseteq SUBSET Submission
      OBVIOUS
    <3> HIDE DEF bad
    <3> QED BY <3>1, SmallestSet
  <2>2. T \in SUBSET S /\ T \in SUBSET Submission /\ f[T] # F[T]
    BY <2>1
  <2>3. f[T] = FoldOf(f, T) /\ F[T] = FoldOf(F, T)
    BY <1>4, <2>2 DEF SolvesFold
  <2>4. T # {}
    BY <2>2, <2>3 DEF FoldOf
  <2>5. Pick(T) \in T
    BY <2>2, <2>4, PickOne
  <2>6. T \ {Pick(T)} \in SUBSET S /\ ~(Cardinality(T) <= Cardinality(T \ {Pick(T)}))
    <3>1. /\ Cardinality(T) \in Nat /\ Cardinality(T \ {Pick(T)}) \in Nat
          /\ Cardinality(T \ {Pick(T)}) = Cardinality(T) - 1
      BY <2>2, <2>5, OneLess
    <3> QED BY <2>2, <3>1
  <2>7. f[T \ {Pick(T)}] = F[T \ {Pick(T)}]
    BY <2>1, <2>6
  <2> QED BY <2>2, <2>3, <2>4, <2>7 DEF FoldOf
<1> QED BY <1>3, <1>5

LEMMA FoldAdds ==
    ASSUME NEW F, SolvesFold(F), NEW S \in SUBSET Submission, NEW x \in S
    PROVE  F[S] = CostOf[x] + F[S \ {x}]
<1> DEFINE Adds(T) == \A y \in T : F[T] = CostOf[y] + F[T \ {y}]
           bad == {T \in SUBSET Submission : ~Adds(T)}
<1>1. bad = {}
  <2> SUFFICES ASSUME bad # {} PROVE FALSE
    OBVIOUS
  <2>1. PICK T \in bad : \A U \in bad : Cardinality(T) <= Cardinality(U)
    <3>1. bad \subseteq SUBSET Submission
      OBVIOUS
    <3> HIDE DEF bad
    <3> QED BY <3>1, SmallestSet
  <2>2. T \in SUBSET Submission /\ ~Adds(T)
    BY <2>1
  <2>3. PICK y \in T : F[T] # CostOf[y] + F[T \ {y}]
    BY <2>2
  <2> DEFINE p == Pick(T)
  <2>4. p \in T
    BY <2>2, <2>3, PickOne
  <2>5. F[T] = CostOf[p] + F[T \ {p}]
    BY <2>2, <2>3 DEF SolvesFold, FoldOf
  <2> HIDE DEF p
  <2>6. p # y
    BY <2>3, <2>5
  <2>7. \A u \in T : T \ {u} \in SUBSET Submission /\ ~(Cardinality(T) <= Cardinality(T \ {u}))
    <3> TAKE u \in T
    <3>1. /\ Cardinality(T) \in Nat /\ Cardinality(T \ {u}) \in Nat
          /\ Cardinality(T \ {u}) = Cardinality(T) - 1
      BY <2>2, OneLess
    <3> QED BY <2>2, <3>1
  <2>8. Adds(T \ {p}) /\ Adds(T \ {y})
    <3> HIDE DEF Adds
    <3> QED BY <2>1, <2>3, <2>4, <2>7
  <2>9. /\ F[T \ {p}] = CostOf[y] + F[(T \ {p}) \ {y}]
        /\ F[T \ {y}] = CostOf[p] + F[(T \ {y}) \ {p}]
    BY <2>3, <2>4, <2>6, <2>8
  <2>10. (T \ {p}) \ {y} = (T \ {y}) \ {p}
    OBVIOUS
  <2>11. PICK rest \in Nat : F[(T \ {p}) \ {y}] = rest
    BY <2>2 DEF SolvesFold
  <2>12. CostOf[p] \in Nat /\ CostOf[y] \in Nat
    BY <2>2, <2>3, <2>4, SubmissionConstants
  <2>13. F[T] = CostOf[p] + (CostOf[y] + rest) /\ F[T \ {y}] = CostOf[p] + rest
    BY <2>5, <2>9, <2>10, <2>11
  <2>14. CostOf[p] + (CostOf[y] + rest) = CostOf[y] + (CostOf[p] + rest)
    BY <2>12
  <2> QED BY <2>3, <2>13, <2>14
<1>2. Adds(S)
  BY <1>1
<1> QED BY <1>2

\* The sum of the costs of a set of submissions is what a sum should be.
LEMMA SumCostAdds ==
    /\ SumCost({}) = 0
    /\ \A S \in SUBSET Submission :
          /\ SumCost(S) \in Nat
          /\ \A x \in S : SumCost(S) = CostOf[x] + SumCost(S \ {x})
<1>1. PICK F : SolvesFold(F)
  BY FoldExists
<1>2. \A S \in SUBSET Submission : SumCost(S) = F[S] /\ F[S] \in Nat
  BY <1>1, SumCostFolds DEF SolvesFold
<1>3. F[{}] = 0
  BY <1>1 DEF SolvesFold, FoldOf
<1>4. \A S \in SUBSET Submission : \A x \in S : F[S] = CostOf[x] + F[S \ {x}]
  BY <1>1, FoldAdds
<1> QED BY <1>2, <1>3, <1>4
-----------------------------------------------------------------------------
(* Permits and holds *)

Held == Holder \cup Leaked

\* The holds change in two places: a submission that passes every gate takes
\* them with its permit, and the finally block of the last attempt gives them
\* back.  No other step changes what is held or by whom.
LEMMA WhoHolds ==
    ASSUME TypeOK, CallsInv, [Next]_vars
    PROVE  \/ \E s \in Submission : Admit(s) /\ s \notin Held /\ Held' = Held \cup {s}
           \/ \E s \in Submission : Conclude(s) /\ s \in Held /\ Held' = Held \ {s}
           \/ \E s \in Submission : DenyResources(s) /\ Held' = Held
           \/ Held' = Held /\ UNCHANGED <<usage, used>>
<1> DEFINE In(s) == pc[s] \in {"admitting", "attempt", "delay"} \/ (pc[s] = "threw" /\ attempt[s] = 0)
<1>1. Held = {r \in Submission : In(r)} /\ Held' = {r \in Submission : In(r)'}
  BY DEF Held, Holder, Leaked
<1>2. ASSUME NEW s \in Submission, \A r \in Submission \ {s} : pc'[r] = pc[r] /\ attempt'[r] = attempt[r]
      PROVE  /\ (In(s) <=> In(s)') => Held' = Held
             /\ In(s) /\ ~In(s)' => s \in Held /\ Held' = Held \ {s}
             /\ ~In(s) /\ In(s)' => s \notin Held /\ Held' = Held \cup {s}
  <2>1. \A r \in Submission \ {s} : In(r)' <=> In(r)
    BY <1>2
  <2> HIDE DEF In
  <2> QED BY <1>1, <2>1
<1>3. ASSUME NEW s \in Submission
      PROVE  /\ pc[s] \in PC /\ attempt[s] \in Nat
             /\ pc[s] \in {"closing", "attempt", "delay"} => attempt[s] # 0
             /\ pc[s] = "admitting" => attempt[s] = 0
  <2>1. pc[s] \in PC /\ attempt[s] \in Nat
    BY EngineAssumption DEF TypeOK
  <2> QED BY <2>1 DEF CallsInv, CallInv
<1>4. ASSUME NEW s \in Submission, Deny(s) PROVE Held' = Held
  <2>1. /\ pc[s] = "idle" /\ pc'[s] = "returned"
        /\ \A r \in Submission \ {s} : pc'[r] = pc[r] /\ attempt'[r] = attempt[r]
    BY <1>4 DEF Deny, TypeOK
  <2>2. ~In(s) /\ ~In(s)'
    BY <2>1
  <2> HIDE DEF In
  <2> QED BY <1>2, <2>1, <2>2
<1>5. ASSUME NEW s \in Submission, Admit(s) PROVE s \notin Held /\ Held' = Held \cup {s}
  <2>1. /\ pc[s] = "idle" /\ pc'[s] = "admitting"
        /\ \A r \in Submission \ {s} : pc'[r] = pc[r] /\ attempt'[r] = attempt[r]
    BY <1>5 DEF Admit, TypeOK
  <2>2. ~In(s) /\ In(s)'
    BY <2>1
  <2> HIDE DEF In
  <2> QED BY <1>2, <2>1, <2>2
<1>6. ASSUME NEW s \in Submission, Conclude(s) PROVE s \in Held /\ Held' = Held \ {s}
  <2>1. /\ pc[s] = "attempt" /\ pc'[s] = "closing"
        /\ \A r \in Submission \ {s} : pc'[r] = pc[r] /\ attempt'[r] = attempt[r]
    BY <1>6 DEF Conclude, TypeOK
  <2>2. In(s) /\ ~In(s)'
    BY <2>1
  <2> HIDE DEF In
  <2> QED BY <1>2, <2>1, <2>2
<1>7. ASSUME NEW s \in Submission,
             \/ AuditAdmitted(s) \/ Retry(s) \/ BackOff(s) \/ AuditTerminal(s)
             \/ AuditAdmittedFails(s) \/ AuditTerminalFails(s)
      PROVE  Held' = Held /\ UNCHANGED <<usage, used>>
  <2>1. /\ \A r \in Submission \ {s} : pc'[r] = pc[r] /\ attempt'[r] = attempt[r]
        /\ UNCHANGED <<usage, used>>
    BY <1>7 DEF AuditAdmitted, Retry, StartAttempt, BackOff, AuditTerminal, AuditAdmittedFails,
                AuditTerminalFails, TypeOK
  <2>2. In(s) <=> In(s)'
    <3>1. CASE AuditAdmitted(s) \/ Retry(s) \/ BackOff(s)
      <4>1. pc[s] \in {"admitting", "attempt", "delay"} /\ pc'[s] \in {"attempt", "delay"}
        BY <3>1 DEF AuditAdmitted, Retry, StartAttempt, BackOff, TypeOK
      <4> QED BY <4>1
    <3>2. CASE AuditTerminal(s) \/ AuditTerminalFails(s)
      <4>1. pc[s] = "closing" /\ pc'[s] \in {"returned", "threw"} /\ attempt'[s] = attempt[s]
        BY <3>2 DEF AuditTerminal, AuditTerminalFails, TypeOK
      <4> QED BY <1>3, <4>1
    <3>3. CASE AuditAdmittedFails(s)
      <4>1. pc[s] = "admitting" /\ pc'[s] = "threw" /\ attempt'[s] = attempt[s]
        BY <3>3 DEF AuditAdmittedFails, TypeOK
      <4> QED BY <1>3, <4>1
    <3> QED BY <1>7, <3>1, <3>2, <3>3
  <2> HIDE DEF In
  <2> QED BY <1>2, <2>1, <2>2
<1>8. ASSUME NEW s \in Submission, HandlerSettles(s) \/ Timeout(s) \/ Cancel(s)
      PROVE  UNCHANGED <<pc, attempt, usage, used>>
  BY <1>8 DEF HandlerSettles, Timeout, Cancel
<1>9. CASE (\E a \in Attempt : FreeSlot(a)) \/ Shutdown \/ Tick \/ UNCHANGED vars
  <2>1. UNCHANGED <<pc, attempt, usage, used>>
    BY <1>9 DEF FreeSlot, Shutdown, Tick, vars, engineVars
  <2> QED BY <1>1, <2>1
<1>10. ASSUME NEW s \in Submission, Submit(s)
       PROVE  \/ Admit(s) \/ (Deny(s) /\ DenyResources(s)) \/ (Deny(s) /\ UNCHANGED <<usage, used>>)
  BY <1>10 DEF Submit, DenyEarly, DenyReplay, DenyLate, DenyCircuit, DenyQuota, DenyResources
<1>11. UNCHANGED <<pc, attempt>> => Held' = Held
  BY <1>1
<1> HIDE DEF In
<1> QED BY <1>4, <1>5, <1>6, <1>7, <1>8, <1>9, <1>10, <1>11 DEF Next, Progress
HeldOn(S, q) == {s \in S : q \in SlotsOf[s]}

\* One submission more, or one less, among those that hold.
LEMMA OneMoreHolds ==
    ASSUME NEW S \in SUBSET Submission, NEW s \in Submission \ S
    PROVE  /\ Cardinality(S \cup {s}) = Cardinality(S) + 1
           /\ SumCost(S \cup {s}) = SumCost(S) + CostOf[s]
           /\ \A q \in SlotsOf[s] : Cardinality(HeldOn(S \cup {s}, q)) = Cardinality(HeldOn(S, q)) + 1
           /\ \A q \in Slot \ SlotsOf[s] : Cardinality(HeldOn(S \cup {s}, q)) = Cardinality(HeldOn(S, q))
           /\ Cardinality(S) \in Nat /\ SumCost(S) \in Nat /\ CostOf[s] \in Nat
           /\ \A q \in Slot : Cardinality(HeldOn(S, q)) \in Nat
<1>1. IsFiniteSet(S) /\ Cardinality(S) \in Nat
  BY FiniteSubmissions
<1>2. Cardinality(S \cup {s}) = Cardinality(S) + 1
  BY <1>1, FS_AddElement
<1>3. SumCost(S \cup {s}) = SumCost(S) + CostOf[s] /\ SumCost(S) \in Nat /\ CostOf[s] \in Nat
  <2>1. (S \cup {s}) \ {s} = S /\ S \cup {s} \in SUBSET Submission /\ s \in S \cup {s}
    OBVIOUS
  <2>2. SumCost(S \cup {s}) = CostOf[s] + SumCost((S \cup {s}) \ {s})
    BY <2>1, SumCostAdds
  <2>3. SumCost(S) \in Nat /\ CostOf[s] \in Nat
    BY SumCostAdds, SubmissionConstants
  <2>4. SumCost(S \cup {s}) = CostOf[s] + SumCost(S)
    BY <2>1, <2>2
  <2> QED BY <2>3, <2>4
<1>4. ASSUME NEW q \in Slot PROVE IsFiniteSet(HeldOn(S, q)) /\ Cardinality(HeldOn(S, q)) \in Nat
  <2>1. HeldOn(S, q) \in SUBSET Submission
    BY DEF HeldOn
  <2> QED BY <2>1, FiniteSubmissions
<1>5. ASSUME NEW q \in SlotsOf[s]
      PROVE  Cardinality(HeldOn(S \cup {s}, q)) = Cardinality(HeldOn(S, q)) + 1
  <2>1. HeldOn(S \cup {s}, q) = HeldOn(S, q) \cup {s} /\ s \notin HeldOn(S, q) /\ q \in Slot
    BY SubmissionConstants DEF HeldOn
  <2> QED BY <1>4, <2>1, FS_AddElement
<1>6. ASSUME NEW q \in Slot \ SlotsOf[s] PROVE HeldOn(S \cup {s}, q) = HeldOn(S, q)
  BY DEF HeldOn
<1> QED BY <1>1, <1>2, <1>3, <1>4, <1>5, <1>6

LEMMA HoldsStep ==
    ASSUME TypeOK, CallsInv, HoldsAccounted, [Next]_vars
    PROVE  HoldsAccounted'
<1>1. /\ \A q \in Slot : usage[q].concurrent = Cardinality(HeldOn(Held, q))
      /\ used.slots = Cardinality(Held) /\ used.amount = SumCost(Held)
  BY DEF HoldsAccounted, HeldBy, HeldOn, Held
<1>2. SUFFICES /\ \A q \in Slot : usage'[q].concurrent = Cardinality(HeldOn(Held', q))
               /\ used'.slots = Cardinality(Held') /\ used'.amount = SumCost(Held')
  BY DEF HoldsAccounted, HeldBy, HeldOn, Held
<1>3. Held \in SUBSET Submission /\ usage \in [Slot -> Usage] /\ used \in [slots : Nat, amount : Nat]
  BY DEF Held, Holder, Leaked, TypeOK
<1>4. ASSUME NEW s \in Submission, Admit(s), s \notin Held, Held' = Held \cup {s}
      PROVE  /\ \A q \in Slot : usage'[q].concurrent = Cardinality(HeldOn(Held', q))
             /\ used'.slots = Cardinality(Held') /\ used'.amount = SumCost(Held')
  <2>1. /\ usage' = QuotaAcquire(usage, SlotsOf[s], CostOf[s])
        /\ used' = ResourceReserve(used, CostOf[s])
    BY <1>4 DEF Admit
  <2>2. /\ \A q \in SlotsOf[s] : q \in Slot => usage'[q].concurrent = usage[q].concurrent + 1
        /\ \A q \in Slot \ SlotsOf[s] : usage'[q].concurrent = usage[q].concurrent
        /\ used'.slots = used.slots + 1 /\ used'.amount = used.amount + CostOf[s]
    BY <1>3, <2>1 DEF QuotaAcquire, ResourceReserve
  <2>3. Held \in SUBSET Submission /\ s \in Submission \ Held /\ SlotsOf[s] \in SUBSET Slot
    BY <1>3, <1>4, SubmissionConstants
  <2>4. /\ Cardinality(Held') = Cardinality(Held) + 1
        /\ SumCost(Held') = SumCost(Held) + CostOf[s]
        /\ \A q \in SlotsOf[s] : Cardinality(HeldOn(Held', q)) = Cardinality(HeldOn(Held, q)) + 1
        /\ \A q \in Slot \ SlotsOf[s] : Cardinality(HeldOn(Held', q)) = Cardinality(HeldOn(Held, q))
    BY <1>4, <2>3, OneMoreHolds, ZenonT(20)
  <2>5. used'.slots = Cardinality(Held') /\ used'.amount = SumCost(Held')
    BY <1>1, <2>2, <2>4
  <2>6. ASSUME NEW q \in Slot PROVE usage'[q].concurrent = Cardinality(HeldOn(Held', q))
    BY <1>1, <2>2, <2>4
  <2> QED BY <2>5, <2>6
<1>5. ASSUME NEW s \in Submission, Conclude(s), s \in Held, Held' = Held \ {s}
      PROVE  /\ \A q \in Slot : usage'[q].concurrent = Cardinality(HeldOn(Held', q))
             /\ used'.slots = Cardinality(Held') /\ used'.amount = SumCost(Held')
  <2>1. /\ usage' = QuotaRelease(usage, SlotsOf[s])
        /\ used' = ResourceRelease(used, CostOf[s])
    BY <1>5 DEF Conclude
  <2>2. /\ \A q \in SlotsOf[s] : q \in Slot => usage'[q].concurrent = Minus(usage[q].concurrent, 1)
        /\ \A q \in Slot \ SlotsOf[s] : usage'[q].concurrent = usage[q].concurrent
        /\ used'.slots = Minus(used.slots, 1) /\ used'.amount = Minus(used.amount, CostOf[s])
    <3>1. \A q \in Slot : usage[q] \in Usage
      BY <1>3
    <3> QED BY <2>1, <3>1 DEF QuotaRelease, ResourceRelease, Usage
  <2> DEFINE rest == Held \ {s}
  <2>3. rest \in SUBSET Submission /\ s \in Submission \ rest /\ Held = rest \cup {s} /\ Held' = rest
    BY <1>3, <1>5
  <2> HIDE DEF rest
  <2>4. /\ Cardinality(Held) = Cardinality(rest) + 1
        /\ SumCost(Held) = SumCost(rest) + CostOf[s]
        /\ \A q \in SlotsOf[s] : Cardinality(HeldOn(Held, q)) = Cardinality(HeldOn(rest, q)) + 1
        /\ \A q \in Slot \ SlotsOf[s] : Cardinality(HeldOn(Held, q)) = Cardinality(HeldOn(rest, q))
        /\ Cardinality(rest) \in Nat /\ SumCost(rest) \in Nat /\ CostOf[s] \in Nat
        /\ \A q \in Slot : Cardinality(HeldOn(rest, q)) \in Nat
    BY <2>3, OneMoreHolds
  <2>5. /\ Minus(Cardinality(rest) + 1, 1) = Cardinality(rest)
        /\ Minus(SumCost(rest) + CostOf[s], CostOf[s]) = SumCost(rest)
    BY <2>4 DEF Minus
  <2>6. used'.slots = Cardinality(Held') /\ used'.amount = SumCost(Held')
    BY <1>1, <2>2, <2>3, <2>4, <2>5
  <2>7. ASSUME NEW q \in Slot PROVE usage'[q].concurrent = Cardinality(HeldOn(Held', q))
    <3>1. CASE q \in SlotsOf[s]
      <4>1. Cardinality(HeldOn(rest, q)) \in Nat
        BY <2>4
      <4>2. Minus(Cardinality(HeldOn(rest, q)) + 1, 1) = Cardinality(HeldOn(rest, q))
        BY <4>1 DEF Minus
      <4> QED BY <1>1, <2>2, <2>3, <2>4, <3>1, <4>2
    <3>2. CASE q \notin SlotsOf[s]
      BY <1>1, <2>2, <2>3, <2>4, <3>2
    <3> QED BY <3>1, <3>2
  <2> QED BY <2>6, <2>7
<1>6. ASSUME NEW s \in Submission, DenyResources(s), Held' = Held
      PROVE  /\ \A q \in Slot : usage'[q].concurrent = Cardinality(HeldOn(Held', q))
             /\ used'.slots = Cardinality(Held') /\ used'.amount = SumCost(Held')
  <2>1. /\ usage' = QuotaRelease(QuotaAcquire(usage, SlotsOf[s], CostOf[s]), SlotsOf[s])
        /\ used' = used
    BY <1>6 DEF DenyResources
  <2>2. ASSUME NEW q \in Slot PROVE usage'[q].concurrent = usage[q].concurrent
    <3>1. usage[q].concurrent \in Nat
      BY <1>3 DEF Usage
    <3>2. Minus(usage[q].concurrent + 1, 1) = usage[q].concurrent
      BY <3>1 DEF Minus
    <3> QED BY <2>1, <3>2 DEF QuotaRelease, QuotaAcquire
  <2> QED BY <1>1, <1>6, <2>1, <2>2
<1>7. CASE Held' = Held /\ UNCHANGED <<usage, used>>
  BY <1>1, <1>7
<1> QED BY <1>4, <1>5, <1>6, <1>7, WhoHolds
\* Only Admit admits, and it uses the permit up: nothing it admitted before, or
\* admits later, has the same one.
LEMMA PermitStep ==
    ASSUME TypeOK, CallsInv, PermitInv, [Next]_vars
    PROVE  PermitInv'
<1>1. ASSUME NEW s \in Submission
      PROVE  /\ pc[s] \in PC /\ attempt[s] \in Nat
             /\ pc[s] \in {"closing", "attempt", "delay"} => attempt[s] > 0
  <2>1. pc[s] \in PC /\ attempt[s] \in Nat
    BY EngineAssumption DEF TypeOK
  <2> QED BY <2>1 DEF CallsInv, CallInv
<1>2. consumed \subseteq consumed'
  <2>1. ASSUME NEW s \in Submission, Submit(s) PROVE consumed \subseteq consumed'
    BY <2>1 DEF Submit, DenyEarly, DenyReplay, DenyLate, DenyCircuit, DenyQuota, DenyResources, Admit, Consume
  <2>2. ASSUME NEW s \in Submission, Progress(s) PROVE consumed' = consumed
    BY <2>2 DEF Progress, AuditAdmitted, HandlerSettles, BackOff, Conclude, Retry, AuditTerminal
  <2>3. ASSUME NEW s \in Submission,
               Timeout(s) \/ Cancel(s) \/ AuditAdmittedFails(s) \/ AuditTerminalFails(s)
        PROVE  consumed' = consumed
    BY <2>3 DEF Timeout, Cancel, AuditAdmittedFails, AuditTerminalFails
  <2>4. CASE (\E a \in Attempt : FreeSlot(a)) \/ Shutdown \/ Tick \/ UNCHANGED vars
    BY <2>4 DEF FreeSlot, Shutdown, Tick, vars, engineVars
  <2> QED BY <2>1, <2>2, <2>3, <2>4 DEF Next
<1>3. ASSUME NEW s \in Submission,
             pc' = [pc EXCEPT ![s] = pc'[s]], attempt' = [attempt EXCEPT ![s] = attempt'[s]],
             Admitted(s)' => Admitted(s)
      PROVE  \A r \in Submission : Admitted(r)' => Admitted(r)
  <2>1. \A r \in Submission \ {s} : pc'[r] = pc[r] /\ attempt'[r] = attempt[r]
    BY <1>3 DEF TypeOK
  <2>2. \A r \in Submission \ {s} : Admitted(r)' => Admitted(r)
    BY <2>1 DEF Admitted
  <2> QED BY <1>3, <2>2
<1>4. ASSUME \A r \in Submission : Admitted(r)' => Admitted(r) PROVE PermitInv'
  BY <1>2, <1>4 DEF PermitInv, PermitOnce
<1>5. ASSUME NEW s \in Submission, Deny(s) PROVE PermitInv'
  <2>1. /\ pc[s] = "idle" /\ pc' = [pc EXCEPT ![s] = "returned"] /\ attempt' = attempt
    BY <1>5 DEF Deny
  <2>2. pc'[s] = "returned" /\ pc' = [pc EXCEPT ![s] = pc'[s]] /\ attempt' = [attempt EXCEPT ![s] = attempt'[s]]
    BY <2>1 DEF TypeOK
  <2>3. Admitted(s)' => Admitted(s)
    BY <2>1, <2>2 DEF Admitted
  <2> QED BY <1>3, <1>4, <2>2, <2>3
<1>6. ASSUME NEW s \in Submission, Admit(s) PROVE PermitInv'
  <2>1. /\ PermitOf[s] \notin consumed /\ consumed' = consumed \cup {PermitOf[s]}
        /\ pc' = [pc EXCEPT ![s] = "admitting"] /\ attempt' = attempt
    BY <1>6 DEF Admit, Consume
  <2>2. \A r \in Submission \ {s} : pc'[r] = pc[r] /\ attempt'[r] = attempt[r]
    BY <2>1 DEF TypeOK
  <2>3. \A r \in Submission \ {s} : Admitted(r)' => Admitted(r)
    BY <2>2 DEF Admitted
  <2>4. \A r \in Submission \ {s} : Admitted(r)' => PermitOf[r] \in consumed /\ PermitOf[r] # PermitOf[s]
    BY <2>1, <2>3 DEF PermitInv
  <2>5. \A r \in Submission : Admitted(r)' => PermitOf[r] \in consumed'
    BY <2>1, <2>4
  <2>6. \A r, t \in Submission : PermitOf[r] = PermitOf[t] /\ Admitted(r)' /\ Admitted(t)' => r = t
    BY <2>3, <2>4 DEF PermitInv, PermitOnce
  <2> QED BY <2>5, <2>6 DEF PermitInv, PermitOnce
<1>7. ASSUME NEW s \in Submission,
             \/ AuditAdmitted(s) \/ Retry(s) \/ BackOff(s) \/ Conclude(s) \/ AuditTerminal(s)
             \/ AuditAdmittedFails(s) \/ AuditTerminalFails(s)
      PROVE  PermitInv'
  <2>1. pc[s] \in {"admitting", "attempt", "delay", "closing"}
    BY <1>7 DEF AuditAdmitted, Retry, BackOff, Conclude, AuditTerminal, AuditAdmittedFails, AuditTerminalFails
  <2>2. Admitted(s)
    BY <1>1, <2>1 DEF Admitted
  <2>3. pc' = [pc EXCEPT ![s] = pc'[s]] /\ attempt' = [attempt EXCEPT ![s] = attempt'[s]]
    BY <1>7 DEF AuditAdmitted, Retry, StartAttempt, BackOff, Conclude, AuditTerminal, AuditAdmittedFails,
                AuditTerminalFails, TypeOK
  <2> QED BY <1>3, <1>4, <2>2, <2>3
<1>8. CASE UNCHANGED <<pc, attempt>>
  BY <1>4, <1>8 DEF Admitted
<1>9. ASSUME NEW s \in Submission, HandlerSettles(s) \/ Timeout(s) \/ Cancel(s)
      PROVE  UNCHANGED <<pc, attempt>>
  BY <1>9 DEF HandlerSettles, Timeout, Cancel
<1>10. CASE (\E a \in Attempt : FreeSlot(a)) \/ Shutdown \/ Tick \/ UNCHANGED vars
  BY <1>8, <1>10 DEF FreeSlot, Shutdown, Tick, vars, engineVars
<1>11. ASSUME NEW s \in Submission, Submit(s) PROVE Deny(s) \/ Admit(s)
  BY <1>11 DEF Submit, DenyEarly, DenyReplay, DenyLate, DenyCircuit, DenyQuota, DenyResources
<1> QED BY <1>5, <1>6, <1>7, <1>8, <1>9, <1>10, <1>11 DEF Next, Progress
-----------------------------------------------------------------------------
(* Theorems *)

LEMMA EngineInitInv == Init => EngineInv
<1> SUFFICES ASSUME Init PROVE EngineInv
  OBVIOUS
<1>1. PoolProofs!PoolInv
  <2>1. PoolProofs!PoolInit
    BY SamePool DEF Init
  <2> QED BY <2>1, PoolConstants, FiniteAttempts, PoolProofs!PoolInitInv
<1>2. \A s \in Submission : ~Admitted(s)
  BY DEF Init, Admitted
<1>3. PermitInv
  BY <1>2 DEF PermitInv, PermitOnce
<1>4. Held = {}
  BY DEF Init, Held, Holder, Leaked
<1>5. HoldsAccounted
  <2>1. \A q \in Slot : {s \in Held : q \in SlotsOf[s]} = {}
    BY <1>4
  <2>2. /\ \A q \in Slot : usage[q].concurrent = 0
        /\ used.slots = 0 /\ used.amount = 0
    BY DEF Init, NoUsage, NothingUsed
  <2> QED BY <1>4, <2>1, <2>2, FS_EmptySet, SumCostAdds DEF HoldsAccounted, HeldBy, Held
<1> QED BY <1>1, <1>3, <1>5, EngineInitTypes, CallsInit DEF EngineInv

LEMMA EngineNextInv == EngineInv /\ [Next]_vars => EngineInv'
<1> SUFFICES ASSUME EngineInv, [Next]_vars PROVE EngineInv'
  OBVIOUS
<1>1. TypeOK /\ CallsInv /\ PermitInv /\ HoldsAccounted /\ PoolProofs!PoolInv
  BY DEF EngineInv
<1>2. [Pool!PoolNext]_poolVars
  BY <1>1, EngineStepOfPool
<1>3. PoolProofs!PoolInv' /\ Pool!PoolTypeOK'
  BY <1>1, <1>2, PoolKeeps
<1>4. CallTypes' /\ CallsInv'
  BY <1>1, CallsStep
<1>5. SharedTypes'
  BY <1>1, SharedStep
<1>6. TypeOK'
  BY <1>3, <1>4, <1>5 DEF TypeOK, CallTypes, SharedTypes
<1>7. PermitInv' /\ HoldsAccounted'
  BY <1>1, PermitStep, HoldsStep
<1> QED BY <1>3, <1>4, <1>6, <1>7 DEF EngineInv

\* The inductive invariant of submit() holds in every reachable state.
THEOREM EngineInvariant == Spec => []EngineInv
<1> QED BY EngineInitInv, EngineNextInv, PTL DEF Spec

LEMMA EngineInvSafe == EngineInv => EngineSafe
<1> SUFFICES ASSUME EngineInv PROVE EngineSafe
  OBVIOUS
<1>1. TypeOK /\ CallsInv /\ PermitOnce
  BY DEF EngineInv, PermitInv
<1>2. ASSUME NEW s \in Submission
      PROVE  /\ CallInv(s) /\ attempt[s] \in Nat
             /\ \A n \in HandlerRuns(s) : n \in Nat /\ n >= 1 /\ n <= attempt[s]
             /\ \A n \in HandlerRuns(s) : status[<<s, n>>] = "running" => n = attempt[s]
  <2>1. CallInv(s) /\ AttemptInv(s)
    BY <1>1 DEF CallsInv
  <2>2. attempt[s] \in Nat /\ MaxAttempts \in Nat
    BY <1>1, EngineAssumption DEF TypeOK
  <2>3. ASSUME NEW n \in HandlerRuns(s)
        PROVE  /\ n \in Nat /\ n >= 1 /\ n <= attempt[s]
               /\ status[<<s, n>>] = "running" => n = attempt[s]
    <3>1. n \in 1..MaxAttempts /\ status[<<s, n>>] \in {"running", "settled", "done"}
      BY <2>3 DEF HandlerRuns
    <3>2. /\ n > attempt[s] => status[<<s, n>>] = "new"
          /\ n < attempt[s] => status[<<s, n>>] \in {"settled", "done"}
      BY <2>1, <3>1 DEF AttemptInv
    <3> QED BY <2>2, <3>1, <3>2
  <2> QED BY <2>1, <2>2, <2>3
<1>3. BoundedRuns
  <2> SUFFICES ASSUME NEW s \in Submission
               PROVE  /\ s \notin RetrySafe => Cardinality(HandlerRuns(s)) <= 1
                      /\ \A n \in HandlerRuns(s) :
                            status[<<s, n>>] = "running" => \A m \in HandlerRuns(s) : m <= n
    BY DEF BoundedRuns
  <2>1. s \notin RetrySafe => Cardinality(HandlerRuns(s)) <= 1
    <3> SUFFICES ASSUME s \notin RetrySafe PROVE Cardinality(HandlerRuns(s)) <= 1
      OBVIOUS
    <3>1. attempt[s] <= 1
      BY <1>2 DEF CallInv
    <3>2. \A n \in HandlerRuns(s) : n = 1
      BY <1>2, <3>1
    <3>3. \A n, m \in HandlerRuns(s) : n = m
      BY <3>2
    <3> QED BY <3>3, AtMostOneMember
  <2> QED BY <1>2, <2>1
<1>4. AuditTruth
  <2> SUFFICES ASSUME NEW s \in Submission
               PROVE  /\ HandlerRuns(s) # {} => Len(trail[s]) > 0 /\ trail[s][1] = "ADMITTED"
                      /\ pc[s] = "returned" /\ attempt[s] > 0 => trail[s] = <<"ADMITTED", outcome[s]>>
                      /\ pc[s] = "returned" /\ attempt[s] = 0 => trail[s] \in {<<"REJECTED">>, <<>>}
    BY DEF AuditTruth
  <2>1. HandlerRuns(s) # {} => attempt[s] > 0
    BY <1>2
  <2>2. attempt[s] > 0 => trail[s] = <<"ADMITTED">> \/ trail[s] = <<"ADMITTED", outcome[s]>>
    BY <1>2 DEF CallInv
  <2>3. attempt[s] > 0 => Len(trail[s]) > 0 /\ trail[s][1] = "ADMITTED"
    <3>1. Len(<<"ADMITTED">>) = 1 /\ <<"ADMITTED">>[1] = "ADMITTED"
      OBVIOUS
    <3>2. \A o : Len(<<"ADMITTED", o>>) = 2 /\ <<"ADMITTED", o>>[1] = "ADMITTED"
      OBVIOUS
    <3>3. attempt[s] > 0 => Len(trail[s]) \in {1, 2} /\ trail[s][1] = "ADMITTED"
      BY <2>2, <3>1, <3>2
    <3> QED BY <3>3
  <2> QED BY <1>2, <2>1, <2>3 DEF CallInv
<1> QED BY <1>1, <1>3, <1>4 DEF EngineSafe

\* A permit admits one submission, a handler that is not retry-safe runs once and
\* a retry-safe one never beside itself, and the trail tells what happened: for
\* any submissions, retries, cancellations and failures of the audit sink.
THEOREM EngineSafety == Spec => []EngineSafe
<1> QED BY EngineInvariant, EngineInvSafe, PTL

\* Quota and resources are given back exactly once: at every moment they are those
\* of the submissions between admission and the finally block, and of the ones
\* whose ADMITTED record the sink rejected.
THEOREM EngineHolds == Spec => []HoldsAccounted
<1>1. EngineInv => HoldsAccounted
  BY DEF EngineInv
<1> QED BY <1>1, EngineInvariant, PTL

CancelStep ==
    \A s \in Submission :
        external[s] /\ outcome'[s] # outcome[s] => outcome'[s] \notin {"COMPLETED", "FAILED"}

LEMMA EngineCancelStep == EngineInv /\ [Next]_vars => [CancelStep]_vars
<1> SUFFICES ASSUME EngineInv, Next, NEW s \in Submission, external[s], outcome'[s] # outcome[s]
             PROVE  outcome'[s] \notin {"COMPLETED", "FAILED"}
  BY DEF CancelStep
<1>1. TypeOK /\ CallsInv
  BY DEF EngineInv
<1>2. ASSUME NEW r \in Submission, HandlerSettles(r)
      PROVE  outcome'[s] \notin {"COMPLETED", "FAILED"}
  <2>1. r = s
    BY <1>1, <1>2 DEF HandlerSettles, TypeOK
  <2>2. token[s] \in {"timeout", "cancelled"}
    BY <1>1, <1>2, <2>1 DEF HandlerSettles, CallsInv, CancelInv, TypeOK
  <2> QED BY <1>1, <1>2, <2>1, <2>2 DEF HandlerSettles, TypeOK
<1>3. ASSUME NEW r \in Submission, Submit(r)
      PROVE  outcome'[s] \notin {"COMPLETED", "FAILED"}
  BY <1>1, <1>3 DEF Submit, DenyEarly, DenyReplay, DenyLate, DenyCircuit, DenyQuota, DenyResources, Deny,
                    Admit, TypeOK
<1>4. ASSUME NEW r \in Submission, NEW n, StartAttempt(r, n)
      PROVE  outcome'[s] \notin {"COMPLETED", "FAILED"}
  <2>1. \E o \in {"OVERLOADED", "REJECTED", "none"} : outcome' = [outcome EXCEPT ![r] = o]
    BY <1>4 DEF StartAttempt
  <2> QED BY <1>1, <2>1 DEF TypeOK
<1>5. ASSUME NEW r \in Submission,
             \/ BackOff(r) \/ Conclude(r) \/ AuditTerminal(r) \/ Timeout(r) \/ Cancel(r)
             \/ AuditAdmittedFails(r) \/ AuditTerminalFails(r)
      PROVE  FALSE
  BY <1>5 DEF BackOff, Conclude, AuditTerminal, Timeout, Cancel, AuditAdmittedFails, AuditTerminalFails
<1>6. CASE (\E a \in Attempt : FreeSlot(a)) \/ Shutdown \/ Tick
  BY <1>6 DEF FreeSlot, Shutdown, Tick, engineVars
<1>7. ASSUME NEW r \in Submission, AuditAdmitted(r) \/ Retry(r)
      PROVE  \E n : StartAttempt(r, n)
  BY <1>7 DEF AuditAdmitted, Retry
<1> QED BY <1>2, <1>3, <1>4, <1>5, <1>6, <1>7 DEF Next, Progress

\* Once the caller has cancelled, no attempt of any submission, running, queued or
\* to be retried, ends as COMPLETED or FAILED.
THEOREM EngineCancelWins == Spec => CancelWins
<1>1. CancelStep <=> \A s \in Submission :
          external[s] /\ outcome'[s] # outcome[s] => outcome'[s] \notin {"COMPLETED", "FAILED"}
  BY DEF CancelStep
<1> QED BY <1>1, EngineInvariant, EngineCancelStep, PTL DEF Spec, CancelWins

\* The engine drives its pool as the pool's specification allows: it implements
\* the worker pool, with the attempts of the submissions as tasks.
THEOREM EngineImplementsPool == Spec => Pool!PoolSpec
<1>1. Init => Pool!PoolInit
  BY DEF Init
<1>2. EngineInv /\ [Next]_vars => [Pool!PoolNext]_(Pool!poolVars)
  BY EngineStepOfPool DEF EngineInv, poolVars, Pool!poolVars
<1> QED BY <1>1, <1>2, EngineInvariant, PTL DEF Spec, Pool!PoolSpec

\* What the pool promises it keeps inside the engine: exact slot counters, limits,
\* no idle worker before an eligible attempt and no overtaking.
THEOREM EnginePoolSafe == Spec => []Pool!PoolSafe
<1>1. EngineInv => Pool!PoolSafe
  BY SamePool DEF EngineInv, PoolProofs!PoolInv, PoolProofs!PoolSafe
<1> QED BY <1>1, EngineInvariant, PTL
=============================================================================
