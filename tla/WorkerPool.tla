----------------------------- MODULE WorkerPool -----------------------------
(***************************************************************************)
(* The admission side of the execution runtime: Scheduler.schedule()       *)
(* evaluates the backpressure policy on the pool's counters and, when it    *)
(* accepts, hands the task to WorkerPool.run().  The pool starts at most    *)
(* MaxConcurrency tasks, at most MaxPerTenant of one tenant; among the      *)
(* queued tasks of tenants under their cap the highest priority goes first, *)
(* and the oldest of those.                                                 *)
(*                                                                          *)
(* Everything between two awaits of the code is one action.  A started      *)
(* task settles (its run() promise resolves or rejects, and with it the     *)
(* `completion' its owner awaits) strictly before the `finally' callback    *)
(* of #pump gives its slot back: Settle and Release are two actions,        *)
(* because the owner of the task may run in between.                        *)
(***************************************************************************)
EXTENDS Integers, FiniteSets

CONSTANTS
    Task,              \* identities of the tasks ever handed to the scheduler
    Tenant,
    TenantOf,          \* task.tenantId
    PriorityOf,        \* task.priority
    MaxConcurrency,    \* WorkerPoolOptions.maxConcurrency
    MaxPerTenant,      \* WorkerPoolOptions.maxPerTenant
    MaxQueueDepth,     \* BackpressureLimits.maxQueueDepth
    MaxTotalInflight,  \* BackpressureLimits.maxTotalInflight
    MaxTenantInflight  \* BackpressureLimits.maxTenantInflight

ASSUME TaskAssumption == IsFiniteSet(Task)

ASSUME TenantOfAssumption == TenantOf \in [Task -> Tenant]

ASSUME PriorityAssumption == PriorityOf \in [Task -> Int]

\* The constructor clamps both options with Math.max(1, _).
ASSUME PoolLimitsAssumption ==
    /\ MaxConcurrency \in Nat \ {0}
    /\ MaxPerTenant \in Nat \ {0}

ASSUME BackpressureLimitsAssumption ==
    /\ MaxQueueDepth \in Nat
    /\ MaxTotalInflight \in Nat
    /\ MaxTenantInflight \in Nat

VARIABLES
    status,        \* where each task is
    seqOf,         \* QueueItem.seq, given when the task is queued (0 before)
    seq,           \* #seq
    active,        \* #active
    tenantActive,  \* #tenantActive, 0 where the map has no entry
    accepting      \* #accepting

poolVars == <<status, seqOf, seq, active, tenantActive, accepting>>

-----------------------------------------------------------------------------
(* State *)

Status == {"new",         \* not handed to the scheduler yet
           "queued",      \* in #queue
           "running",     \* picked by #pump, run() not settled
           "settled",     \* run() settled, the slot not given back
           "done",        \* slot given back
           "OVERLOADED",  \* refused by backpressure
           "REJECTED",    \* refused by backpressure
           "dropped"}     \* run() rejected it with worker_pool_shutdown

PoolTypeOK ==
    /\ status \in [Task -> Status]
    /\ seqOf \in [Task -> Nat]
    /\ seq \in Nat
    /\ active \in Nat
    /\ tenantActive \in [Tenant -> Nat]
    /\ accepting \in BOOLEAN

PoolInit ==
    /\ status = [t \in Task |-> "new"]
    /\ seqOf = [t \in Task |-> 0]
    /\ seq = 0
    /\ active = 0
    /\ tenantActive = [n \in Tenant |-> 0]
    /\ accepting = TRUE

Queued == {t \in Task : status[t] = "queued"}

\* The tasks that occupy a slot of the pool.
Holding == {t \in Task : status[t] \in {"running", "settled"}}

HoldingOf(n) == {t \in Holding : TenantOf[t] = n}

-----------------------------------------------------------------------------
(* Backpressure *)

\* DefaultBackpressurePolicy.evaluate
Evaluate(queueDepth, totalInflight, tenantInflight) ==
    IF tenantInflight >= MaxTenantInflight THEN "REJECTED"
    ELSE IF totalInflight >= MaxTotalInflight /\ queueDepth >= MaxQueueDepth
    THEN "OVERLOADED"
    ELSE IF queueDepth >= MaxQueueDepth THEN "REJECTED"
    ELSE "ACCEPT"

-----------------------------------------------------------------------------
(* Picking *)

\* Mutant: the newest of equal priority goes first.
PrecedesNewest(u, v, num) ==
    \/ PriorityOf[u] > PriorityOf[v]
    \/ PriorityOf[u] = PriorityOf[v] /\ num[u] > num[v]

\* u goes before v, given the numbers num of the queue items.
Precedes(u, v, num) ==
    \/ PriorityOf[u] > PriorityOf[v]
    \/ PriorityOf[u] = PriorityOf[v] /\ num[u] < num[v]

Eligible(st, held) ==
    {t \in Task : st[t] = "queued" /\ held[TenantOf[t]] < MaxPerTenant}

\* #pickIndex: the tasks no other eligible task goes before (one, or none).
Best(st, num, held) ==
    {u \in Eligible(st, held) :
        \A v \in Eligible(st, held) : ~ Precedes(v, u, num)}

\* #pump, run on the state the caller leaves: statuses st, numbers num, busy
\* slots in total and per tenant.  Its loop makes at most one turn, since
\* WorkConserving holds before the caller changed one task or one slot, and
\* holds again (the loop's exit condition) after the one task is started.
Pump(st, num, busy, held) ==
    \/ /\ busy < MaxConcurrency
       /\ \E u \in Best(st, num, held) :
            /\ status' = [st EXCEPT ![u] = "running"]
            /\ active' = busy + 1
            /\ tenantActive' = [held EXCEPT ![TenantOf[u]] = @ + 1]
    \/ /\ busy >= MaxConcurrency \/ Eligible(st, held) = {}
       /\ status' = st
       /\ active' = busy
       /\ tenantActive' = held

-----------------------------------------------------------------------------
(* Operations *)

\* Scheduler.schedule refuses the task.
Refuse(t) ==
    LET decision == Evaluate(Cardinality(Queued), active,
                             tenantActive[TenantOf[t]])
    IN  /\ status[t] = "new"
        /\ decision # "ACCEPT"
        /\ status' = [status EXCEPT ![t] = decision]
        /\ UNCHANGED <<seqOf, seq, active, tenantActive, accepting>>

Accepted(t) ==
    Evaluate(Cardinality(Queued), active, tenantActive[TenantOf[t]]) = "ACCEPT"

\* Scheduler.schedule accepts and WorkerPool.run queues the task and pumps.
Enqueue(t) ==
    /\ status[t] = "new"
    /\ Accepted(t)
    /\ accepting
    /\ seq' = seq + 1
    /\ seqOf' = [seqOf EXCEPT ![t] = seq + 1]
    /\ Pump([status EXCEPT ![t] = "queued"], seqOf', active, tenantActive)
    /\ UNCHANGED accepting

\* Scheduler.schedule accepts (backpressure does not look at #accepting) and
\* WorkerPool.run answers with a rejected promise.
Drop(t) ==
    /\ status[t] = "new"
    /\ Accepted(t)
    /\ ~ accepting
    /\ status' = [status EXCEPT ![t] = "dropped"]
    /\ UNCHANGED <<seqOf, seq, active, tenantActive, accepting>>

Schedule(t) == Refuse(t) \/ Enqueue(t) \/ Drop(t)

\* The promise of item.task.run() settles and item.resolve or item.reject runs.
Settle(t) ==
    /\ status[t] = "running"
    /\ status' = [status EXCEPT ![t] = "settled"]
    /\ UNCHANGED <<seqOf, seq, active, tenantActive, accepting>>

\* Mutant: the finally callback does not pump.
ReleaseNoPump(t) ==
    /\ status[t] = "settled"
    /\ status' = [status EXCEPT ![t] = "done"]
    /\ active' = active - 1
    /\ tenantActive' = [tenantActive EXCEPT ![TenantOf[t]] = @ - 1]
    /\ UNCHANGED <<seqOf, seq, accepting>>

\* The finally callback of #pump.
Release(t) ==
    LET n == TenantOf[t]
        left == IF tenantActive[n] > 0 THEN tenantActive[n] - 1 ELSE 0
    IN  /\ status[t] = "settled"
        /\ Pump([status EXCEPT ![t] = "done"], seqOf, active - 1,
                [tenantActive EXCEPT ![n] = left])
        /\ UNCHANGED <<seqOf, seq, accepting>>

\* Mutant: shutdown forgets what is queued.
ShutdownDropsQueue ==
    /\ accepting
    /\ accepting' = FALSE
    /\ status' = [t \in Task |->
                    IF status[t] = "queued" THEN "dropped" ELSE status[t]]
    /\ UNCHANGED <<seqOf, seq, active, tenantActive>>

Shutdown ==
    /\ accepting
    /\ accepting' = FALSE
    /\ UNCHANGED <<status, seqOf, seq, active, tenantActive>>

PoolNext ==
    \/ \E t \in Task : Schedule(t) \/ Settle(t) \/ Release(t)
    \/ Shutdown

PoolSpec == PoolInit /\ [][PoolNext]_poolVars

\* A started task settles (the engine's deadline cancels it, its handler
\* cooperates) and the event loop runs every finally callback.
PoolFairSpec ==
    PoolSpec /\ \A t \in Task : WF_poolVars(Settle(t)) /\ WF_poolVars(Release(t))

-----------------------------------------------------------------------------
(* Properties *)

\* The counters #active and #tenantActive are exactly the number of tasks
\* that occupy a slot, in total and per tenant, across every interleaving of
\* run(), the finally callbacks and shutdown().
SlotAccounting ==
    /\ active = Cardinality(Holding)
    /\ \A n \in Tenant : tenantActive[n] = Cardinality(HoldingOf(n))

\* The pool never runs more than maxConcurrency tasks, nor more than
\* maxPerTenant of one tenant, and backpressure keeps the queue bounded.
Bounded ==
    /\ active <= MaxConcurrency
    /\ \A n \in Tenant : tenantActive[n] <= MaxPerTenant
    /\ Cardinality(Queued) <= MaxQueueDepth

\* No slot is idle while a task that may take it waits: #pump stops only when
\* the pool is full or every queued task's tenant is at its cap.
WorkConserving ==
    active < MaxConcurrency => Eligible(status, tenantActive) = {}

\* Within a tenant nothing overtakes: a task that waits was queued after every
\* task of its tenant of the same or a lower priority that was ever started.
NoOvertaking ==
    \A v \in Queued, u \in Task :
        /\ status[u] \in {"running", "settled", "done"}
        /\ TenantOf[u] = TenantOf[v]
        /\ PriorityOf[v] >= PriorityOf[u]
        => seqOf[u] < seqOf[v]

\* Graceful shutdown and no starvation: what was queued is run to the end,
\* also when the pool was shut down meanwhile.
QueuedIsRun == \A t \in Task : status[t] = "queued" ~> status[t] = "done"

\* The pool's safety under any interleaving of run, settle, finally and shutdown:
\* exact counters, limits, no idle worker before an eligible task, no overtaking.
PoolSafe ==
    /\ PoolTypeOK
    /\ SlotAccounting
    /\ Bounded
    /\ WorkConserving
    /\ NoOvertaking
=============================================================================
