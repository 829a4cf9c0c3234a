--------------------------- MODULE RuntimeEngine ----------------------------
(***************************************************************************)
(* RuntimeEngine.submit(): the admission gates, the retry loop around       *)
(* #runAttempt and the audit of every outcome, composed with the worker     *)
(* pool, the circuit breaker, the quotas and the resource pool.             *)
(*                                                                          *)
(* Node runs one callback at a time: what submit() does between two awaits  *)
(* is one action.  The awaits are the ADMITTED record, the outcome of an    *)
(* attempt, the back-off before a retry and the terminal record; at each of *)
(* them submissions, handlers, timers and cancellations interleave freely.  *)
(* The gates that look at the submission alone (authorization, permit,      *)
(* expiry; context, capability, sandbox) are inputs: a submission either    *)
(* passes them or is denied before, or after, its permit was consumed.      *)
(***************************************************************************)
EXTENDS CircuitBreaker, Admission, FiniteSets, FiniteSetsExt, Sequences

CONSTANTS
    Submission,
    Tenant,
    Permit,
    CircuitKey,
    PermitOf,         \* claims.permitId
    SubmitterOf,      \* claims.tenantId
    SubmissionPriority,
    KeyOf,            \* (tenantId, capability)
    SlotsOf,          \* quota slots of a submission
    CostOf,           \* its budget cost
    RetrySafe,        \* submissions whose capability is retry-safe
    Cancellable,      \* submissions with an externalCancellation token
    MaxAttempts,      \* BoundedRetryOptions.maxAttempts
    RetryDelayed,     \* baseDelayMs > 0
    AuditMayFail,     \* the audit sink is a durable one and may reject
    MayShutdown,
    MaxTime,          \* bound on the clock
    MaxConcurrency, MaxPerTenant,
    MaxQueueDepth, MaxTotalInflight, MaxTenantInflight

ASSUME EngineAssumption ==
    /\ IsFiniteSet(Submission)
    /\ PermitOf \in [Submission -> Permit]
    /\ SubmitterOf \in [Submission -> Tenant]
    /\ SubmissionPriority \in [Submission -> Int]
    /\ KeyOf \in [Submission -> CircuitKey]
    /\ SlotsOf \in [Submission -> SUBSET Slot]
    /\ CostOf \in [Submission -> Nat]
    /\ RetrySafe \subseteq Submission
    /\ Cancellable \subseteq Submission
    /\ MaxAttempts \in Nat \ {0}
    /\ MaxTime \in Nat
    /\ {MaxConcurrency, MaxPerTenant} \subseteq Nat \ {0}
    /\ {MaxQueueDepth, MaxTotalInflight, MaxTenantInflight} \subseteq Nat
    /\ {RetryDelayed, AuditMayFail, MayShutdown} \subseteq BOOLEAN

\* The tasks of the pool are the attempts of the submissions.
Attempt == Submission \X (1..MaxAttempts)

VARIABLES
    status, seqOf, seq, active, tenantActive, accepting,  \* the worker pool
    pc,        \* where each submit() call is
    attempt,   \* number of its current attempt
    token,     \* why the CancellationSource of that attempt was cancelled
    external,  \* whether its external token was cancelled
    outcome,   \* what the attempt resolved to, and in the end the result
    consumed,  \* #consumedPermits
    usage,     \* the quota counters
    used,      \* the resource counters
    circuit,   \* the breaker's entries
    trail,     \* the audit records of each submission
    now        \* the kernel clock

poolVars == <<status, seqOf, seq, active, tenantActive, accepting>>

engineVars == <<pc, attempt, token, external, outcome, consumed, usage, used,
                circuit, trail, now>>

vars == <<poolVars, engineVars>>

Pool == INSTANCE WorkerPool WITH
    Task <- Attempt,
    TenantOf <- [a \in Attempt |-> SubmitterOf[a[1]]],
    PriorityOf <- [a \in Attempt |-> SubmissionPriority[a[1]]]

-----------------------------------------------------------------------------
(* State *)

PC == {"idle",       \* not submitted
       "admitting",  \* awaits the ADMITTED record
       "attempt",    \* awaits #runAttempt
       "delay",      \* awaits delay() before a retry
       "closing",    \* awaits the terminal record
       "returned",   \* submit() resolved with a result
       "threw"}      \* submit() rejected: the audit sink did

RuntimeStatus == {"COMPLETED", "FAILED", "CANCELLED", "TIMED_OUT",
                  "OVERLOADED", "REJECTED"}

TypeOK ==
    /\ Pool!PoolTypeOK
    /\ pc \in [Submission -> PC]
    /\ attempt \in [Submission -> 0..MaxAttempts]
    /\ token \in [Submission -> {"none", "timeout", "cancelled"}]
    /\ external \in [Submission -> BOOLEAN]
    /\ outcome \in [Submission -> RuntimeStatus \cup {"none"}]
    /\ consumed \subseteq Permit
    /\ usage \in [Slot -> Usage]
    /\ used \in [slots : Nat, amount : Nat]
    /\ circuit \in [CircuitKey -> CircuitEntry]
    /\ trail \in [Submission -> Seq(RuntimeStatus \cup {"ADMITTED"})]
    /\ now \in Nat

Init ==
    /\ Pool!PoolInit
    /\ pc = [s \in Submission |-> "idle"]
    /\ attempt = [s \in Submission |-> 0]
    /\ token = [s \in Submission |-> "none"]
    /\ external = [s \in Submission |-> FALSE]
    /\ outcome = [s \in Submission |-> "none"]
    /\ consumed = {}
    /\ usage = NoUsage
    /\ used = NothingUsed
    /\ circuit = [k \in CircuitKey |-> NewEntry]
    /\ trail = [s \in Submission |-> <<>>]
    /\ now = 0

Current(s) == <<s, attempt[s]>>

SumCost(S) == FoldSet(LAMBDA s, sum : CostOf[s] + sum, 0, S)

-----------------------------------------------------------------------------
(* Admission *)

\* #reject and #rejectRaw: the record is written without awaiting it, so a
\* failing sink loses it and the caller still gets its REJECTED.
Deny(s) ==
    /\ pc[s] = "idle"
    /\ pc' = [pc EXCEPT ![s] = "returned"]
    /\ outcome' = [outcome EXCEPT ![s] = "REJECTED"]
    /\ \/ trail' = [trail EXCEPT ![s] = Append(@, "REJECTED")]
       \/ AuditMayFail /\ UNCHANGED trail
    /\ UNCHANGED <<poolVars, attempt, token, external, now>>

\* Gates 0 to 2: audit sink, authorization, permit, binding, expiry.
DenyEarly(s) ==
    /\ Deny(s)
    /\ UNCHANGED <<consumed, usage, used, circuit>>

\* Gate 3: the permit was consumed before.
DenyReplay(s) ==
    /\ PermitOf[s] \in consumed
    /\ Deny(s)
    /\ UNCHANGED <<consumed, usage, used, circuit>>

\* Mutant: the permit is checked and not added to the consumed ones.
ConsumeForgets(s) ==
    /\ PermitOf[s] \notin consumed
    /\ UNCHANGED consumed

\* The submission passes gates 0 to 3, and its permit is used up from here on.
Consume(s) ==
    /\ PermitOf[s] \notin consumed
    /\ consumed' = consumed \cup {PermitOf[s]}

\* Gates 4 to 6: runtime context, registered capability, sandbox.
DenyLate(s) ==
    /\ Consume(s)
    /\ Deny(s)
    /\ UNCHANGED <<usage, used, circuit>>

\* Gate 7 asks the breaker, which may half-open and counts a probe.
PassesCircuit(s) ==
    /\ CanExecute(circuit[KeyOf[s]], now)
    /\ circuit' = [circuit EXCEPT ![KeyOf[s]] = AfterCanExecute(@, now)]

DenyCircuit(s) ==
    /\ ~ CanExecute(circuit[KeyOf[s]], now)
    /\ circuit' = [circuit EXCEPT ![KeyOf[s]] = AfterCanExecute(@, now)]
    /\ Consume(s)
    /\ Deny(s)
    /\ UNCHANGED <<usage, used>>

DenyQuota(s) ==
    /\ ~ QuotaFits(usage, SlotsOf[s], CostOf[s])
    /\ PassesCircuit(s)
    /\ Consume(s)
    /\ Deny(s)
    /\ UNCHANGED <<usage, used>>

\* Mutant: the quota charged before the reservation failed is kept.
DenyResourcesKeepsQuota(s) ==
    /\ QuotaFits(usage, SlotsOf[s], CostOf[s])
    /\ ~ ResourceFits(used, CostOf[s])
    /\ usage' = QuotaAcquire(usage, SlotsOf[s], CostOf[s])
    /\ PassesCircuit(s)
    /\ Consume(s)
    /\ Deny(s)
    /\ UNCHANGED used

\* Gate 9: the quota was charged and only its concurrent part is given back.
DenyResources(s) ==
    /\ QuotaFits(usage, SlotsOf[s], CostOf[s])
    /\ ~ ResourceFits(used, CostOf[s])
    /\ usage' = QuotaRelease(QuotaAcquire(usage, SlotsOf[s], CostOf[s]), SlotsOf[s])
    /\ PassesCircuit(s)
    /\ Consume(s)
    /\ Deny(s)
    /\ UNCHANGED used

Admit(s) ==
    /\ pc[s] = "idle"
    /\ QuotaFits(usage, SlotsOf[s], CostOf[s])
    /\ ResourceFits(used, CostOf[s])
    /\ usage' = QuotaAcquire(usage, SlotsOf[s], CostOf[s])
    /\ used' = ResourceReserve(used, CostOf[s])
    /\ PassesCircuit(s)
    /\ Consume(s)
    /\ pc' = [pc EXCEPT ![s] = "admitting"]
    /\ UNCHANGED <<poolVars, attempt, token, external, outcome, trail, now>>

-----------------------------------------------------------------------------
(* Attempts *)

\* Mutant: the source of an attempt is not linked to a cancelled token.
StartAttemptUnlinked(s, n) ==
    /\ pc' = [pc EXCEPT ![s] = "attempt"]
    /\ attempt' = [attempt EXCEPT ![s] = n]
    /\ token' = [token EXCEPT ![s] = "none"]
    /\ Pool!Schedule(<<s, n>>)
    /\ outcome' = [outcome EXCEPT ![s] =
            IF status'[<<s, n>>] \in {"OVERLOADED", "REJECTED"}
            THEN status'[<<s, n>>] ELSE "none"]

\* #runAttempt up to its await: a fresh CancellationSource, linked to the
\* external token and to a timer, and schedule().  A refusal resolves the
\* attempt at once; after shutdown() the scheduler says admitted and nothing
\* ever resolves it.
StartAttempt(s, n) ==
    /\ pc' = [pc EXCEPT ![s] = "attempt"]
    /\ attempt' = [attempt EXCEPT ![s] = n]
    /\ token' = [token EXCEPT ![s] = IF external[s] THEN "cancelled" ELSE "none"]
    /\ Pool!Schedule(<<s, n>>)
    /\ outcome' = [outcome EXCEPT ![s] =
            IF status'[<<s, n>>] \in {"OVERLOADED", "REJECTED"}
            THEN status'[<<s, n>>] ELSE "none"]

\* The ADMITTED record is written and the first attempt starts.
AuditAdmitted(s) ==
    /\ pc[s] = "admitting"
    /\ trail' = [trail EXCEPT ![s] = Append(@, "ADMITTED")]
    /\ StartAttempt(s, 1)
    /\ UNCHANGED <<external, consumed, usage, used, circuit, now>>

\* The sink rejects the ADMITTED record: submit() throws, outside its try.
AuditAdmittedFails(s) ==
    /\ AuditMayFail
    /\ pc[s] = "admitting"
    /\ pc' = [pc EXCEPT ![s] = "threw"]
    /\ UNCHANGED <<poolVars, attempt, token, external, outcome, consumed,
                   usage, used, circuit, trail, now>>

\* The handler of the running attempt returns or throws.  What counts is
\* whether the source is cancelled by then.
HandlerSettles(s) ==
    /\ pc[s] = "attempt"
    /\ Pool!Settle(Current(s))
    /\ \E ok \in BOOLEAN :
        outcome' = [outcome EXCEPT ![s] =
            CASE token[s] = "timeout" -> "TIMED_OUT"
              [] token[s] = "cancelled" -> "CANCELLED"
              [] token[s] = "none" /\ ok -> "COMPLETED"
              [] OTHER -> "FAILED"]
    /\ UNCHANGED <<pc, attempt, token, external, consumed, usage, used,
                   circuit, trail, now>>

\* The timer armed for the attempt fires.  It is disarmed when the attempt
\* has resolved; it runs from the start of the attempt, queued or not.
Timeout(s) ==
    /\ pc[s] = "attempt"
    /\ outcome[s] = "none"
    /\ token[s] = "none"
    /\ token' = [token EXCEPT ![s] = "timeout"]
    /\ UNCHANGED <<poolVars, pc, attempt, external, outcome, consumed, usage,
                   used, circuit, trail, now>>

\* The caller cancels; the source of a pending attempt is cancelled with it.
Cancel(s) ==
    /\ s \in Cancellable
    /\ ~ external[s]
    /\ pc[s] \notin {"returned", "threw"}
    /\ external' = [external EXCEPT ![s] = TRUE]
    /\ token' = [token EXCEPT ![s] =
            IF pc[s] = "attempt" /\ @ = "none" THEN "cancelled" ELSE @]
    /\ UNCHANGED <<poolVars, pc, attempt, outcome, consumed, usage, used,
                   circuit, trail, now>>

\* BoundedRetryStrategy.decide
Retries(s) ==
    outcome[s] = "FAILED" /\ s \in RetrySafe /\ attempt[s] < MaxAttempts

ReportToBreaker(s) ==
    circuit' = [circuit EXCEPT ![KeyOf[s]] =
        CASE outcome[s] = "COMPLETED" -> AfterSuccess(@)
          [] outcome[s] \in {"FAILED", "TIMED_OUT"} -> AfterFailure(@, now)
          [] OTHER -> @]

\* Mutant: every resolved attempt gives quota and resources back.
BackOffReleases(s) ==
    /\ pc[s] = "attempt"
    /\ Retries(s)
    /\ ReportToBreaker(s)
    /\ used' = ResourceRelease(used, CostOf[s])
    /\ usage' = QuotaRelease(usage, SlotsOf[s])
    /\ pc' = [pc EXCEPT ![s] = "delay"]
    /\ UNCHANGED <<poolVars, attempt, token, external, outcome, consumed,
                   trail, now>>

\* The loop goes on after a resolved attempt: it waits to retry ...
BackOff(s) ==
    /\ pc[s] = "attempt"
    /\ Retries(s)
    /\ ReportToBreaker(s)
    /\ pc' = [pc EXCEPT ![s] = "delay"]
    /\ UNCHANGED <<poolVars, attempt, token, external, outcome, consumed,
                   usage, used, trail, now>>

\* ... or ends, and the finally block gives everything back.
Conclude(s) ==
    /\ pc[s] = "attempt"
    /\ outcome[s] # "none"
    /\ ~ Retries(s)
    /\ ReportToBreaker(s)
    /\ used' = ResourceRelease(used, CostOf[s])
    /\ usage' = QuotaRelease(usage, SlotsOf[s])
    /\ pc' = [pc EXCEPT ![s] = "closing"]
    /\ UNCHANGED <<poolVars, attempt, token, external, outcome, consumed,
                   trail, now>>

\* A retry with a delay runs in a later turn of the event loop, when the slot
\* of the failed attempt is free.  With delay 0 it runs in the same turn, two
\* microtasks before the finally callback that frees the slot.
Retry(s) ==
    /\ pc[s] = "delay"
    /\ status[Current(s)] = (IF RetryDelayed THEN "done" ELSE "settled")
    /\ StartAttempt(s, attempt[s] + 1)
    /\ UNCHANGED <<external, consumed, usage, used, circuit, trail, now>>

\* The pool's finally callback comes after submit() has gone on, and with
\* delay 0 also after the retry was scheduled.
FreeSlot(a) ==
    /\ a = Current(a[1]) => /\ pc[a[1]] # "attempt"
                            /\ ~ RetryDelayed => pc[a[1]] # "delay"
    /\ Pool!Release(a)
    /\ UNCHANGED engineVars

-----------------------------------------------------------------------------
(* Conclusion *)

AuditTerminal(s) ==
    /\ pc[s] = "closing"
    /\ trail' = [trail EXCEPT ![s] = Append(@, outcome[s])]
    /\ pc' = [pc EXCEPT ![s] = "returned"]
    /\ UNCHANGED <<poolVars, attempt, token, external, outcome, consumed,
                   usage, used, circuit, now>>

AuditTerminalFails(s) ==
    /\ AuditMayFail
    /\ pc[s] = "closing"
    /\ pc' = [pc EXCEPT ![s] = "threw"]
    /\ UNCHANGED <<poolVars, attempt, token, external, outcome, consumed,
                   usage, used, circuit, trail, now>>

\* RuntimeEngine.shutdown
Shutdown ==
    /\ MayShutdown
    /\ Pool!Shutdown
    /\ UNCHANGED engineVars

Tick ==
    /\ now < MaxTime
    /\ now' = now + 1
    /\ UNCHANGED <<poolVars, pc, attempt, token, external, outcome, consumed,
                   usage, used, circuit, trail>>

Submit(s) ==
    \/ DenyEarly(s) \/ DenyReplay(s) \/ DenyLate(s)
    \/ DenyCircuit(s) \/ DenyQuota(s) \/ DenyResources(s)
    \/ Admit(s)

\* The steps that follow from an admission without anyone else's help.
Progress(s) ==
    \/ AuditAdmitted(s)
    \/ HandlerSettles(s)
    \/ BackOff(s) \/ Conclude(s) \/ Retry(s)
    \/ AuditTerminal(s)

Next ==
    \/ \E s \in Submission :
        \/ Submit(s) \/ Progress(s)
        \/ Timeout(s) \/ Cancel(s)
        \/ AuditAdmittedFails(s) \/ AuditTerminalFails(s)
    \/ \E a \in Attempt : FreeSlot(a)
    \/ Shutdown
    \/ Tick

Spec == Init /\ [][Next]_vars

\* The event loop runs every callback that is due, the audit sink answers and
\* handlers return (the in-process manager cannot preempt one that does not).
FairSpec ==
    /\ Spec
    /\ \A s \in Submission : WF_vars(Progress(s))
    /\ \A a \in Attempt : WF_vars(FreeSlot(a))

-----------------------------------------------------------------------------
(* Properties *)

\* The submissions that passed every gate.
Admitted(s) == pc[s] \in {"admitting", "threw"} \/ attempt[s] > 0

\* A permit is good for one execution: whatever the order of submissions, at
\* most one that carries it is ever admitted.
PermitOnce ==
    \A s, r \in Submission :
        PermitOf[s] = PermitOf[r] /\ Admitted(s) /\ Admitted(r) => s = r

\* The submissions between admission and the finally block.
Holder == {s \in Submission : pc[s] \in {"admitting", "attempt", "delay"}}

\* Those whose ADMITTED record the sink rejected.
Leaked == {s \in Submission : pc[s] = "threw" /\ attempt[s] = 0}

\* The concurrent quota of every slot and the reserved resources are exactly
\* those of the submissions S.
HeldBy(S) ==
    /\ \A q \in Slot :
        usage[q].concurrent = Cardinality({s \in S : q \in SlotsOf[s]})
    /\ used.slots = Cardinality(S)
    /\ used.amount = SumCost(S)

\* Through every gate, retry, cancellation and late callback, quota and
\* resources are released exactly once; only a submission whose ADMITTED
\* record fails keeps them.
HoldsAccounted == HeldBy(Holder \cup Leaked)

\* "Always release resources - no leaks, no zombies": the submissions being
\* executed, and no others, hold quota and resources.  It does not hold of the
\* code (README, section 5); the runs check HoldsAccounted.
NoLeak == HeldBy(Holder)

\* The attempts of s whose handler was invoked.
HandlerRuns(s) ==
    {n \in 1..MaxAttempts : status[<<s, n>>] \in {"running", "settled", "done"}}

\* A handler that is not retry-safe is invoked at most once per submission; a
\* retry-safe one again only after the earlier invocation has returned.
BoundedRuns ==
    \A s \in Submission :
        /\ s \notin RetrySafe => Cardinality(HandlerRuns(s)) <= 1
        /\ \A n \in HandlerRuns(s) :
            status[<<s, n>>] = "running" => \A m \in HandlerRuns(s) : m <= n

\* What the audit trail says is true: no handler runs before its admission is
\* recorded, the result of an execution is returned only once recorded, and a
\* submission that was denied has no record of anything else.
AuditTruth ==
    \A s \in Submission :
        /\ HandlerRuns(s) # {} => Len(trail[s]) > 0 /\ trail[s][1] = "ADMITTED"
        /\ pc[s] = "returned" /\ attempt[s] > 0
           => trail[s] = <<"ADMITTED", outcome[s]>>
        /\ pc[s] = "returned" /\ attempt[s] = 0
           => trail[s] \in {<<"REJECTED">>, <<>>}

\* Once the caller has cancelled, no attempt that was still pending, queued
\* or retried later ends as COMPLETED or FAILED.
CancelWins ==
    [][\A s \in Submission :
        external[s] /\ outcome'[s] # outcome[s]
        => outcome'[s] \notin {"COMPLETED", "FAILED"}]_vars

\* Every admitted submission is answered: submit() resolves, or rejects when
\* the audit sink does.  It does not hold of the code (README, section 5); the
\* runs check AnsweredUnlessDropped.
Answered ==
    \A s \in Submission : pc[s] = "admitting" ~> pc[s] \in {"returned", "threw"}

\* The same up to the one way it fails: the attempt was handed to a pool that
\* no longer accepts work.
AnsweredUnlessDropped ==
    \A s \in Submission :
        pc[s] = "admitting" ~> \/ pc[s] \in {"returned", "threw"}
                              \/ \E n \in 1..MaxAttempts : status[<<s, n>>] = "dropped"

\* The safety of submit() beside its accounting: a permit is admitted once, handlers
\* run a bounded number of times, and the trail tells what happened.
EngineSafe ==
    /\ TypeOK
    /\ PermitOnce
    /\ BoundedRuns
    /\ AuditTruth
=============================================================================
