------------------------- MODULE WorkerPool_proofs --------------------------
(***************************************************************************)
(* Proofs about WorkerPool for every set of tasks and tenants and every     *)
(* value of the limits.  PoolInv is the inductive invariant: the properties *)
(* of WorkerPool and what is known of the numbers of queue items.           *)
(***************************************************************************)
EXTENDS WorkerPool, FiniteSetTheorems, TLAPS

\* The tasks of st that wait, that occupy a slot, that occupy one of tenant n.
QueuedIn(st) == {t \in Task : st[t] = "queued"}

HoldingIn(st) == {t \in Task : st[t] \in {"running", "settled"}}

HoldingInOf(st, n) == {t \in HoldingIn(st) : TenantOf[t] = n}

Started == {"running", "settled", "done"}

\* Every number was given out once, by the counter.
SeqNumbers ==
    /\ \A t \in Task : seqOf[t] <= seq
    /\ \A t \in Task : status[t] \in Started \cup {"queued"} => seqOf[t] # 0
    /\ \A u, v \in Task : u # v /\ seqOf[u] = seqOf[v] => seqOf[u] = 0

PoolInv ==
    /\ PoolTypeOK
    /\ SlotAccounting
    /\ Bounded
    /\ WorkConserving
    /\ SeqNumbers
    /\ NoOvertaking

\* What a caller of #pump hands over: its own view of the pool's state.
PumpArgs(st, num, busy, held) ==
    /\ st \in [Task -> Status]
    /\ num \in [Task -> Nat]
    /\ busy \in Nat
    /\ held \in [Tenant -> Nat]
    /\ Pump(st, num, busy, held)

-----------------------------------------------------------------------------

\* #pump keeps the types: it changes one status and adds one to two counters.
LEMMA PumpTypes ==
    ASSUME NEW st, NEW num, NEW busy, NEW held,
           PumpArgs(st, num, busy, held)
    PROVE  /\ status' \in [Task -> Status]
           /\ active' \in Nat
           /\ tenantActive' \in [Tenant -> Nat]
<1> USE DEF PumpArgs
<1>1. ASSUME NEW u \in Best(st, num, held),
             status' = [st EXCEPT ![u] = "running"],
             active' = busy + 1,
             tenantActive' = [held EXCEPT ![TenantOf[u]] = @ + 1]
      PROVE  /\ status' \in [Task -> Status]
             /\ active' \in Nat
             /\ tenantActive' \in [Tenant -> Nat]
  <2>1. u \in Task /\ TenantOf[u] \in Tenant
    BY TenantOfAssumption DEF Best, Eligible
  <2>2. status' \in [Task -> Status]
    BY <1>1, <2>1 DEF Status
  <2>3. tenantActive' \in [Tenant -> Nat]
    BY <1>1, <2>1
  <2> QED BY <1>1, <2>2, <2>3
<1>2. CASE status' = st /\ active' = busy /\ tenantActive' = held
  BY <1>2
<1> QED BY <1>1, <1>2 DEF Pump

\* #pump keeps the counters equal to the number of occupied slots.
LEMMA PumpAccounting ==
    ASSUME NEW st, NEW num, NEW busy, NEW held,
           PumpArgs(st, num, busy, held),
           busy = Cardinality(HoldingIn(st)),
           \A n \in Tenant : held[n] = Cardinality(HoldingInOf(st, n))
    PROVE  SlotAccounting'
<1> USE DEF PumpArgs
<1>0. /\ IsFiniteSet(HoldingIn(st))
      /\ \A n \in Tenant : IsFiniteSet(HoldingInOf(st, n))
  BY TaskAssumption, FS_Subset DEF HoldingIn, HoldingInOf
<1>1. ASSUME NEW u \in Best(st, num, held),
             status' = [st EXCEPT ![u] = "running"],
             active' = busy + 1,
             tenantActive' = [held EXCEPT ![TenantOf[u]] = @ + 1]
      PROVE  SlotAccounting'
  <2>1. u \in Task /\ st[u] = "queued" /\ TenantOf[u] \in Tenant
    BY TenantOfAssumption DEF Best, Eligible
  <2>2. Holding' = HoldingIn(st) \cup {u} /\ u \notin HoldingIn(st)
    BY <1>1, <2>1 DEF Holding, HoldingIn
  <2>3. active' = Cardinality(Holding')
    BY <1>0, <1>1, <2>2, FS_AddElement
  <2>4. ASSUME NEW n \in Tenant
        PROVE  tenantActive'[n] = Cardinality(HoldingOf(n)')
    <3>1. CASE n = TenantOf[u]
      <4>1. /\ HoldingOf(n)' = HoldingInOf(st, n) \cup {u}
            /\ u \notin HoldingInOf(st, n)
        BY <2>1, <2>2, <3>1 DEF HoldingOf, HoldingInOf
      <4>2. Cardinality(HoldingOf(n)') = Cardinality(HoldingInOf(st, n)) + 1
        BY <1>0, <4>1, FS_AddElement
      <4>3. tenantActive'[n] = held[n] + 1
        BY <1>1, <2>1, <3>1
      <4> QED BY <4>2, <4>3
    <3>2. CASE n # TenantOf[u]
      <4>1. HoldingOf(n)' = HoldingInOf(st, n)
        BY <2>1, <2>2, <3>2 DEF HoldingOf, HoldingInOf
      <4>2. tenantActive'[n] = held[n]
        BY <1>1, <2>1, <3>2
      <4> QED BY <4>1, <4>2
    <3> QED BY <3>1, <3>2
  <2> QED BY <2>3, <2>4 DEF SlotAccounting
<1>2. CASE status' = st /\ active' = busy /\ tenantActive' = held
  <2>1. Holding' = HoldingIn(st)
    BY <1>2 DEF Holding, HoldingIn
  <2>2. \A n \in Tenant : HoldingOf(n)' = HoldingInOf(st, n)
    BY <2>1 DEF HoldingOf, HoldingInOf
  <2> QED BY <1>2, <2>1, <2>2 DEF SlotAccounting
<1> QED BY <1>1, <1>2 DEF Pump

\* #pump never passes a limit its caller respected.
LEMMA PumpBounded ==
    ASSUME NEW st, NEW num, NEW busy, NEW held,
           PumpArgs(st, num, busy, held),
           busy <= MaxConcurrency,
           \A n \in Tenant : held[n] <= MaxPerTenant,
           Cardinality(QueuedIn(st)) <= MaxQueueDepth
    PROVE  Bounded'
<1> USE DEF PumpArgs
<1>0. IsFiniteSet(QueuedIn(st))
  BY TaskAssumption, FS_Subset DEF QueuedIn
<1>1. ASSUME NEW u \in Best(st, num, held), busy < MaxConcurrency,
             status' = [st EXCEPT ![u] = "running"],
             active' = busy + 1,
             tenantActive' = [held EXCEPT ![TenantOf[u]] = @ + 1]
      PROVE  Bounded'
  <2>1. /\ u \in Task /\ TenantOf[u] \in Tenant
        /\ held[TenantOf[u]] < MaxPerTenant
    BY TenantOfAssumption DEF Best, Eligible
  <2>2. active' <= MaxConcurrency
    BY <1>1, PoolLimitsAssumption
  <2>3. \A n \in Tenant : tenantActive'[n] <= MaxPerTenant
    BY <1>1, <2>1, PoolLimitsAssumption
  <2>4. Queued' \subseteq QueuedIn(st)
    BY <1>1 DEF Queued, QueuedIn
  <2>5. Cardinality(Queued') <= Cardinality(QueuedIn(st))
    BY <1>0, <2>4, FS_Subset
  <2>6. Cardinality(Queued') \in Nat /\ Cardinality(QueuedIn(st)) \in Nat
    BY <1>0, <2>4, FS_Subset, FS_CardinalityType
  <2> QED BY <2>2, <2>3, <2>5, <2>6, BackpressureLimitsAssumption DEF Bounded
<1>2. CASE status' = st /\ active' = busy /\ tenantActive' = held
  BY <1>2 DEF Bounded, Queued, QueuedIn
<1> QED BY <1>1, <1>2 DEF Pump

\* One turn of #pump's loop is enough when at most one slot, one task or one
\* place under one tenant's cap has become free since it last stopped.
LEMMA PumpConserving ==
    ASSUME NEW st, NEW num, NEW busy, NEW held,
           PumpArgs(st, num, busy, held),
           \/ busy >= MaxConcurrency - 1
           \/ \E t \in Task : Eligible(st, held) \subseteq {t}
           \/ \E n \in Tenant : /\ held[n] >= MaxPerTenant - 1
                                /\ \A t \in Eligible(st, held) : TenantOf[t] = n
    PROVE  WorkConserving'
<1> USE DEF PumpArgs
<1>1. ASSUME NEW u \in Best(st, num, held), busy < MaxConcurrency,
             status' = [st EXCEPT ![u] = "running"],
             active' = busy + 1,
             tenantActive' = [held EXCEPT ![TenantOf[u]] = @ + 1]
      PROVE  WorkConserving'
  <2>1. /\ u \in Task /\ u \in Eligible(st, held) /\ TenantOf[u] \in Tenant
        /\ held[TenantOf[u]] < MaxPerTenant
    BY TenantOfAssumption DEF Best, Eligible
  <2>2. \A t \in Eligible(status', tenantActive') :
            /\ t # u
            /\ t \in Eligible(st, held)
            /\ tenantActive'[TenantOf[t]] < MaxPerTenant
    <3> SUFFICES ASSUME NEW t \in Eligible(status', tenantActive')
                 PROVE  /\ t # u
                        /\ t \in Eligible(st, held)
                        /\ tenantActive'[TenantOf[t]] < MaxPerTenant
      OBVIOUS
    <3>1. /\ t \in Task /\ TenantOf[t] \in Tenant
          /\ status'[t] = "queued" /\ tenantActive'[TenantOf[t]] < MaxPerTenant
      BY TenantOfAssumption DEF Eligible
    <3>2. t # u /\ st[t] = "queued"
      BY <1>1, <2>1, <3>1
    <3>3. held[TenantOf[t]] <= tenantActive'[TenantOf[t]]
      BY <1>1, <2>1, <3>1
    <3>4. held[TenantOf[t]] < MaxPerTenant
      BY <1>1, <2>1, <3>1, <3>3, PoolLimitsAssumption
    <3> QED BY <3>1, <3>2, <3>4 DEF Eligible
  <2>3. CASE busy >= MaxConcurrency - 1
    BY <1>1, <2>3, PoolLimitsAssumption DEF WorkConserving
  <2>4. CASE \E t \in Task : Eligible(st, held) \subseteq {t}
    BY <2>1, <2>2, <2>4 DEF WorkConserving
  <2>5. CASE \E n \in Tenant : /\ held[n] >= MaxPerTenant - 1
                               /\ \A t \in Eligible(st, held) : TenantOf[t] = n
    <3>1. PICK n \in Tenant : /\ held[n] >= MaxPerTenant - 1
                              /\ \A t \in Eligible(st, held) : TenantOf[t] = n
      BY <2>5
    <3>2. tenantActive'[n] >= MaxPerTenant
      BY <1>1, <2>1, <3>1, PoolLimitsAssumption
    <3>3. tenantActive'[n] \in Nat
      BY <1>1, <2>1, <3>1
    <3>4. Eligible(status', tenantActive') = {}
      BY <2>2, <3>1, <3>2, <3>3, PoolLimitsAssumption
    <3> QED BY <3>4 DEF WorkConserving
  <2> QED BY <2>3, <2>4, <2>5
<1>2. CASE /\ busy >= MaxConcurrency \/ Eligible(st, held) = {}
           /\ status' = st /\ active' = busy /\ tenantActive' = held
  BY <1>2, PoolLimitsAssumption DEF WorkConserving
<1> QED BY <1>1, <1>2 DEF Pump

\* Starting the best eligible task overtakes no task of its tenant.
LEMMA PumpOrder ==
    ASSUME NEW st, NEW num, NEW busy, NEW held,
           PumpArgs(st, num, busy, held),
           seqOf' = num,
           \A u, v \in Task : u # v /\ num[u] = num[v] => num[u] = 0,
           \A t \in Task : st[t] = "queued" => num[t] # 0,
           \A v, u \in Task :
                /\ st[v] = "queued" /\ st[u] \in Started
                /\ TenantOf[u] = TenantOf[v] /\ PriorityOf[v] >= PriorityOf[u]
                => num[u] < num[v]
    PROVE  NoOvertaking'
<1> USE DEF PumpArgs
<1>1. ASSUME NEW w \in Best(st, num, held),
             status' = [st EXCEPT ![w] = "running"]
      PROVE  NoOvertaking'
  <2>1. /\ w \in Task /\ st[w] = "queued"
        /\ \A v \in Eligible(st, held) : ~ Precedes(v, w, num)
        /\ held[TenantOf[w]] < MaxPerTenant
    BY DEF Best, Eligible
  <2> SUFFICES ASSUME NEW v \in Task, NEW u \in Task,
                      status'[v] = "queued",
                      status'[u] \in Started,
                      TenantOf[u] = TenantOf[v],
                      PriorityOf[v] >= PriorityOf[u]
               PROVE  num[u] < num[v]
    BY DEF NoOvertaking, Queued, Started
  <2>2. v # w /\ st[v] = "queued"
    BY <1>1, <2>1
  <2>3. CASE u # w
    BY <1>1, <2>2, <2>3
  <2>4. CASE u = w
    <3>1. v \in Eligible(st, held)
      BY <2>1, <2>2, <2>4 DEF Eligible
    <3>2. ~ Precedes(v, u, num)
      BY <2>1, <2>4, <3>1
    <3>3. PriorityOf[v] \in Int /\ PriorityOf[u] \in Int
      BY PriorityAssumption
    <3>4. ~ (num[v] < num[u])
      BY <3>2, <3>3 DEF Precedes
    <3>5. num[u] # num[v]
      BY <2>1, <2>2, <2>4
    <3> QED BY <3>4, <3>5
  <2> QED BY <2>3, <2>4
<1>2. CASE status' = st
  BY <1>2 DEF NoOvertaking, Queued, Started
<1> QED BY <1>1, <1>2 DEF Pump

-----------------------------------------------------------------------------

LEMMA PoolInitInv == PoolInit => PoolInv
<1> SUFFICES ASSUME PoolInit PROVE PoolInv
  OBVIOUS
<1>1. PoolTypeOK
  BY DEF PoolInit, PoolTypeOK, Status
<1>2. Holding = {} /\ Queued = {} /\ \A n \in Tenant : HoldingOf(n) = {}
  BY DEF PoolInit, Holding, HoldingOf, Queued
<1>3. SlotAccounting
  BY <1>2, FS_EmptySet DEF PoolInit, SlotAccounting
<1>4. Bounded
  BY <1>2, FS_EmptySet, PoolLimitsAssumption, BackpressureLimitsAssumption
     DEF PoolInit, Bounded
<1>5. WorkConserving
  BY DEF PoolInit, WorkConserving, Eligible
<1>6. SeqNumbers
  BY DEF PoolInit, SeqNumbers, Started
<1>7. NoOvertaking
  BY <1>2 DEF NoOvertaking
<1> QED BY <1>1, <1>3, <1>4, <1>5, <1>6, <1>7 DEF PoolInv

\* A step that changes neither the queue nor a slot keeps the invariant: a
\* refused or dropped task, a settling one, shutdown().
LEMMA QuietStep ==
    ASSUME PoolInv, PoolTypeOK',
           UNCHANGED <<seqOf, seq, active, tenantActive>>,
           \A t \in Task : status'[t] = "queued" <=> status[t] = "queued",
           \A t \in Task : status'[t] \in {"running", "settled"}
                             <=> status[t] \in {"running", "settled"},
           \A t \in Task : status'[t] = "done" <=> status[t] = "done"
    PROVE  PoolInv'
<1>1. Queued' = Queued /\ Holding' = Holding
  BY DEF Queued, Holding
<1>2. \A n \in Tenant : HoldingOf(n)' = HoldingOf(n)
  BY <1>1 DEF HoldingOf
<1>3. SlotAccounting'
  BY <1>1, <1>2 DEF PoolInv, SlotAccounting
<1>4. Bounded'
  BY <1>1 DEF PoolInv, Bounded
<1>5. WorkConserving'
  BY DEF PoolInv, WorkConserving, Eligible
<1>6. SeqNumbers'
  BY DEF PoolInv, SeqNumbers, Started
<1>7. NoOvertaking'
  BY <1>1 DEF PoolInv, NoOvertaking
<1> QED BY <1>3, <1>4, <1>5, <1>6, <1>7 DEF PoolInv

LEMMA EnqueueInv ==
    ASSUME PoolInv, NEW t \in Task, Enqueue(t)
    PROVE  PoolInv'
<1> DEFINE st == [status EXCEPT ![t] = "queued"]
           num == [seqOf EXCEPT ![t] = seq + 1]
<1>0. /\ status[t] = "new" /\ Accepted(t)
      /\ seq' = seq + 1 /\ seqOf' = num
      /\ Pump(st, num, active, tenantActive)
      /\ UNCHANGED accepting
  BY DEF Enqueue
<1>1. /\ PoolTypeOK /\ st \in [Task -> Status] /\ num \in [Task -> Nat]
  BY DEF PoolInv, PoolTypeOK, Status
<1>2. PumpArgs(st, num, active, tenantActive)
  BY <1>0, <1>1 DEF PumpArgs, PoolTypeOK
<1>3. PoolTypeOK'
  BY <1>0, <1>1, <1>2, PumpTypes DEF PoolTypeOK
<1>4. SlotAccounting'
  <2>1. HoldingIn(st) = Holding
    BY <1>0, <1>1 DEF HoldingIn, Holding, PoolTypeOK
  <2>2. \A n \in Tenant : HoldingInOf(st, n) = HoldingOf(n)
    BY <2>1 DEF HoldingInOf, HoldingOf
  <2>3. /\ active = Cardinality(HoldingIn(st))
        /\ \A n \in Tenant : tenantActive[n] = Cardinality(HoldingInOf(st, n))
    BY <2>1, <2>2 DEF PoolInv, SlotAccounting
  <2> HIDE DEF st, num
  <2> QED BY <1>2, <2>3, PumpAccounting
<1>5. Bounded'
  <2>1. Queued \subseteq Task /\ IsFiniteSet(Queued)
    BY TaskAssumption, FS_Subset DEF Queued
  <2>2. QueuedIn(st) = Queued \cup {t}
    BY <1>1 DEF QueuedIn, Queued, PoolTypeOK
  <2>3. /\ Cardinality(Queued) \in Nat
        /\ Cardinality(QueuedIn(st)) <= Cardinality(Queued) + 1
    <3>1. t \notin Queued /\ Cardinality(Queued) \in Nat
      BY <1>0, <2>1, FS_CardinalityType DEF Queued
    <3>2. Cardinality(QueuedIn(st)) = Cardinality(Queued) + 1
      BY <2>1, <2>2, <3>1, FS_AddElement
    <3> QED BY <3>1, <3>2
  <2>4. Cardinality(Queued) < MaxQueueDepth
    BY <1>0, <2>3, BackpressureLimitsAssumption DEF Accepted, Evaluate
  <2>5. Cardinality(QueuedIn(st)) \in Nat
    BY <2>1, <2>2, FS_AddElement, FS_CardinalityType
  <2>6. Cardinality(QueuedIn(st)) <= MaxQueueDepth
    BY <2>3, <2>4, <2>5, BackpressureLimitsAssumption
  <2>7. active <= MaxConcurrency /\ \A n \in Tenant : tenantActive[n] <= MaxPerTenant
    BY DEF PoolInv, Bounded
  <2> HIDE DEF st, num
  <2> QED BY <1>2, <2>6, <2>7, PumpBounded
<1>6. WorkConserving'
  <2>1. active >= MaxConcurrency \/ Eligible(st, tenantActive) \subseteq {t}
    BY <1>1, PoolLimitsAssumption
       DEF PoolInv, WorkConserving, PoolTypeOK, Eligible
  <2> HIDE DEF st, num
  <2>2. \/ active >= MaxConcurrency - 1
        \/ \E x \in Task : Eligible(st, tenantActive) \subseteq {x}
    <3>1. CASE active >= MaxConcurrency
      BY <1>1, <3>1, PoolLimitsAssumption DEF PoolTypeOK
    <3>2. CASE Eligible(st, tenantActive) \subseteq {t}
      BY <3>2
    <3> QED BY <2>1, <3>1, <3>2
  <2> QED BY <1>2, <2>2, PumpConserving
<1>7. SeqNumbers'
  <2>1. \A x \in Task : status'[x] \in Started \cup {"queued"}
                          => st[x] \in Started \cup {"queued"}
    <3> HIDE DEF st, num
    <3> QED BY <1>2 DEF PumpArgs, Pump, Best, Eligible, Started
  <2>2. \A x \in Task : seqOf'[x] <= seq'
    BY <1>0, <1>1 DEF PoolInv, SeqNumbers, PoolTypeOK
  <2>3. \A x \in Task : st[x] \in Started \cup {"queued"} => num[x] # 0
    BY <1>1 DEF PoolInv, SeqNumbers, PoolTypeOK
  <2>4. \A u, v \in Task : u # v /\ num[u] = num[v] => num[u] = 0
    BY <1>1 DEF PoolInv, SeqNumbers, PoolTypeOK
  <2> QED BY <1>0, <2>1, <2>2, <2>3, <2>4 DEF SeqNumbers
<1>8. NoOvertaking'
  <2>1. \A u, v \in Task : u # v /\ num[u] = num[v] => num[u] = 0
    BY <1>1 DEF PoolInv, SeqNumbers, PoolTypeOK
  <2>2. \A x \in Task : st[x] = "queued" => num[x] # 0
    BY <1>1 DEF PoolInv, SeqNumbers, PoolTypeOK
  <2>3. \A v, u \in Task :
            /\ st[v] = "queued" /\ st[u] \in Started
            /\ TenantOf[u] = TenantOf[v] /\ PriorityOf[v] >= PriorityOf[u]
            => num[u] < num[v]
    <3> SUFFICES ASSUME NEW v \in Task, NEW u \in Task,
                        st[v] = "queued", st[u] \in Started,
                        TenantOf[u] = TenantOf[v],
                        PriorityOf[v] >= PriorityOf[u]
                 PROVE  num[u] < num[v]
      OBVIOUS
    <3>1. u # t /\ status[u] \in Started
      BY <1>1 DEF PoolTypeOK, Started
    <3>2. CASE v = t
      BY <1>1, <3>1, <3>2 DEF PoolInv, SeqNumbers, PoolTypeOK
    <3>3. CASE v # t
      BY <1>1, <3>1, <3>3
         DEF PoolInv, NoOvertaking, Queued, Started, PoolTypeOK
    <3> QED BY <3>2, <3>3
  <2> HIDE DEF st, num
  <2> QED BY <1>0, <1>2, <2>1, <2>2, <2>3, PumpOrder
<1> QED BY <1>3, <1>4, <1>5, <1>6, <1>7, <1>8 DEF PoolInv

LEMMA ReleaseInv ==
    ASSUME PoolInv, NEW t \in Task, Release(t)
    PROVE  PoolInv'
<1> DEFINE n == TenantOf[t]
           left == IF tenantActive[n] > 0 THEN tenantActive[n] - 1 ELSE 0
           st == [status EXCEPT ![t] = "done"]
           held == [tenantActive EXCEPT ![n] = left]
<1>0. /\ status[t] = "settled"
      /\ Pump(st, seqOf, active - 1, held)
      /\ UNCHANGED <<seqOf, seq, accepting>>
  BY DEF Release
<1>1. PoolTypeOK /\ n \in Tenant /\ t \in Holding /\ t \in HoldingOf(n)
  BY <1>0, TenantOfAssumption DEF PoolInv, Holding, HoldingOf
<1>2. IsFiniteSet(Holding) /\ \A m \in Tenant : IsFiniteSet(HoldingOf(m))
  BY TaskAssumption, FS_Subset DEF Holding, HoldingOf
<1>3. /\ HoldingIn(st) = Holding \ {t}
      /\ HoldingInOf(st, n) = HoldingOf(n) \ {t}
      /\ \A m \in Tenant \ {n} : HoldingInOf(st, m) = HoldingOf(m)
  <2>1. HoldingIn(st) = Holding \ {t}
    BY <1>1 DEF HoldingIn, Holding, PoolTypeOK
  <2> HIDE DEF st
  <2> QED BY <1>1, <2>1 DEF HoldingInOf, HoldingOf
<1>4. active - 1 = Cardinality(HoldingIn(st)) /\ active - 1 \in Nat
  <2>1. Cardinality(Holding \ {t}) = Cardinality(Holding) - 1
    BY <1>1, <1>2, FS_RemoveElement
  <2>2. Cardinality(Holding \ {t}) \in Nat
    BY <1>2, FS_RemoveElement, FS_CardinalityType
  <2> QED BY <1>1, <1>3, <2>1, <2>2 DEF PoolInv, SlotAccounting, PoolTypeOK
<1>5. /\ Cardinality(HoldingInOf(st, n)) = tenantActive[n] - 1
      /\ tenantActive[n] - 1 \in Nat
  <2>1. Cardinality(HoldingOf(n) \ {t}) = Cardinality(HoldingOf(n)) - 1
    BY <1>1, <1>2, FS_RemoveElement
  <2>2. Cardinality(HoldingOf(n) \ {t}) \in Nat
    BY <1>1, <1>2, FS_RemoveElement, FS_CardinalityType
  <2>3. tenantActive[n] = Cardinality(HoldingOf(n))
    BY <1>1 DEF PoolInv, SlotAccounting
  <2> QED BY <1>1, <1>3, <2>1, <2>2, <2>3 DEF PoolTypeOK
<1>6. left = tenantActive[n] - 1 /\ left \in Nat
  BY <1>1, <1>5 DEF PoolTypeOK
<1>7. st \in [Task -> Status] /\ held \in [Tenant -> Nat]
  BY <1>1, <1>6 DEF PoolTypeOK, Status
<1>8. PumpArgs(st, seqOf, active - 1, held)
  BY <1>0, <1>1, <1>4, <1>7 DEF PumpArgs, PoolTypeOK
<1>9. \A m \in Tenant : held[m] = Cardinality(HoldingInOf(st, m))
  <2>1. held[n] = Cardinality(HoldingInOf(st, n))
    BY <1>1, <1>5, <1>6 DEF PoolTypeOK
  <2>2. ASSUME NEW m \in Tenant \ {n}
        PROVE  held[m] = Cardinality(HoldingInOf(st, m))
    BY <1>1, <1>3, <2>2 DEF PoolTypeOK, PoolInv, SlotAccounting
  <2> QED BY <2>1, <2>2
<1>10. PoolTypeOK'
  BY <1>0, <1>1, <1>8, PumpTypes DEF PoolTypeOK
<1>11. SlotAccounting'
  <2> HIDE DEF st, held
  <2> QED BY <1>4, <1>8, <1>9, PumpAccounting
<1>12. Bounded'
  <2>1. QueuedIn(st) = Queued
    BY <1>0, <1>1 DEF QueuedIn, Queued, PoolTypeOK
  <2>2. Cardinality(QueuedIn(st)) <= MaxQueueDepth
    BY <2>1 DEF PoolInv, Bounded
  <2>3. active - 1 <= MaxConcurrency
    BY <1>1, PoolLimitsAssumption DEF PoolInv, Bounded, PoolTypeOK
  <2>4. \A m \in Tenant : held[m] <= MaxPerTenant
    BY <1>1, <1>6, PoolLimitsAssumption DEF PoolInv, Bounded, PoolTypeOK
  <2> HIDE DEF st, held
  <2> QED BY <1>8, <2>2, <2>3, <2>4, PumpBounded
<1>13. WorkConserving'
  <2>1. CASE active >= MaxConcurrency
    <3>1. active - 1 >= MaxConcurrency - 1
      BY <1>1, <2>1, PoolLimitsAssumption DEF PoolTypeOK
    <3> HIDE DEF st, held
    <3> QED BY <1>8, <3>1, PumpConserving
  <2>2. CASE ~ (active >= MaxConcurrency)
    <3>1. Eligible(status, tenantActive) = {}
      BY <1>1, <2>2, PoolLimitsAssumption DEF PoolInv, WorkConserving, PoolTypeOK
    <3>2. ASSUME NEW x \in Eligible(st, held)
          PROVE  TenantOf[x] = n /\ held[n] >= MaxPerTenant - 1
      <4>1. /\ x \in Task /\ TenantOf[x] \in Tenant
            /\ st[x] = "queued" /\ held[TenantOf[x]] < MaxPerTenant
        BY <3>2, TenantOfAssumption DEF Eligible
      <4>2. status[x] = "queued"
        BY <1>1, <4>1 DEF PoolTypeOK
      <4>3. ~ (tenantActive[TenantOf[x]] < MaxPerTenant)
        BY <3>1, <4>1, <4>2 DEF Eligible
      <4>4. TenantOf[x] = n
        BY <1>1, <4>1, <4>3 DEF PoolTypeOK
      <4>5. held[n] = tenantActive[n] - 1
        BY <1>1, <1>6 DEF PoolTypeOK
      <4>6. tenantActive[n] \in Nat
        BY <1>1 DEF PoolTypeOK
      <4> QED BY <4>3, <4>4, <4>5, <4>6, PoolLimitsAssumption
    <3> HIDE DEF st, held, n
    <3>3. \/ \E x \in Task : Eligible(st, held) \subseteq {x}
          \/ \E m \in Tenant : /\ held[m] >= MaxPerTenant - 1
                                /\ \A x \in Eligible(st, held) : TenantOf[x] = m
      BY <1>1, <3>2
    <3> QED BY <1>8, <3>3, PumpConserving
  <2> QED BY <2>1, <2>2
<1>14. SeqNumbers'
  <2>1. \A x \in Task : status'[x] \in Started \cup {"queued"}
                          => st[x] \in Started \cup {"queued"}
    <3> HIDE DEF st, held
    <3> QED BY <1>8 DEF PumpArgs, Pump, Best, Eligible, Started
  <2>2. \A x \in Task : st[x] \in Started \cup {"queued"}
                          => status[x] \in Started \cup {"queued"}
    BY <1>0, <1>1 DEF PoolTypeOK, Started
  <2> QED BY <1>0, <2>1, <2>2 DEF PoolInv, SeqNumbers
<1>15. NoOvertaking'
  <2>1. \A x \in Task : st[x] = "queued" => seqOf[x] # 0
    BY <1>1 DEF PoolInv, SeqNumbers, PoolTypeOK
  <2>2. \A v, u \in Task :
            /\ st[v] = "queued" /\ st[u] \in Started
            /\ TenantOf[u] = TenantOf[v] /\ PriorityOf[v] >= PriorityOf[u]
            => seqOf[u] < seqOf[v]
    BY <1>0, <1>1 DEF PoolInv, NoOvertaking, Queued, Started, PoolTypeOK
  <2>3. \A u, v \in Task : u # v /\ seqOf[u] = seqOf[v] => seqOf[u] = 0
    BY DEF PoolInv, SeqNumbers
  <2> HIDE DEF st, held
  <2> QED BY <1>0, <1>8, <2>1, <2>2, <2>3, PumpOrder
<1> QED BY <1>10, <1>11, <1>12, <1>13, <1>14, <1>15 DEF PoolInv

LEMMA PoolNextInv == PoolInv /\ [PoolNext]_poolVars => PoolInv'
<1> SUFFICES ASSUME PoolInv, [PoolNext]_poolVars
             PROVE  PoolInv'
  OBVIOUS
<1>0. PoolTypeOK
  BY DEF PoolInv
<1>1. ASSUME NEW t \in Task, Refuse(t)
      PROVE  PoolInv'
  <2>1. /\ status[t] = "new"
        /\ \E d \in {"OVERLOADED", "REJECTED"} : status' = [status EXCEPT ![t] = d]
        /\ UNCHANGED <<seqOf, seq, active, tenantActive, accepting>>
    BY <1>1 DEF Refuse, Evaluate
  <2> QED BY <1>0, <2>1, QuietStep DEF PoolTypeOK, Status
<1>2. ASSUME NEW t \in Task, Enqueue(t)
      PROVE  PoolInv'
  BY <1>2, EnqueueInv
<1>3. ASSUME NEW t \in Task, Drop(t)
      PROVE  PoolInv'
  BY <1>0, <1>3, QuietStep DEF Drop, PoolTypeOK, Status
<1>4. ASSUME NEW t \in Task, Settle(t)
      PROVE  PoolInv'
  BY <1>0, <1>4, QuietStep DEF Settle, PoolTypeOK, Status
<1>5. ASSUME NEW t \in Task, Release(t)
      PROVE  PoolInv'
  BY <1>5, ReleaseInv
<1>6. CASE Shutdown
  BY <1>0, <1>6, QuietStep DEF Shutdown, PoolTypeOK
<1>7. CASE UNCHANGED poolVars
  BY <1>0, <1>7, QuietStep DEF poolVars, PoolTypeOK
<1> QED BY <1>1, <1>2, <1>3, <1>4, <1>5, <1>6, <1>7 DEF PoolNext, Schedule

\* The pool's inductive invariant holds in every reachable state.
THEOREM PoolInvariant == PoolSpec => []PoolInv
<1> QED BY PoolInitInv, PoolNextInv, PTL DEF PoolSpec

\* The state of the pool stays well-typed; in particular no counter that
\* run() and the finally callbacks change ever goes below zero.
THEOREM PoolTypeCorrect == PoolSpec => []PoolTypeOK
<1>1. PoolInv => PoolTypeOK
  BY DEF PoolInv
<1> QED BY <1>1, PoolInvariant, PTL

\* The pool's counters count the occupied slots, for any number of tasks.
THEOREM PoolSlotAccounting == PoolSpec => []SlotAccounting
<1>1. PoolInv => SlotAccounting
  BY DEF PoolInv
<1> QED BY <1>1, PoolInvariant, PTL

\* maxConcurrency, maxPerTenant and maxQueueDepth are never exceeded.
THEOREM PoolBounded == PoolSpec => []Bounded
<1>1. PoolInv => Bounded
  BY DEF PoolInv
<1> QED BY <1>1, PoolInvariant, PTL

\* No worker idles while a task it may run waits, although #pump is only
\* called from run() and from the finally callbacks.
THEOREM PoolWorkConserving == PoolSpec => []WorkConserving
<1>1. PoolInv => WorkConserving
  BY DEF PoolInv
<1> QED BY <1>1, PoolInvariant, PTL

\* A task is never overtaken by one of its tenant that has no higher priority.
THEOREM PoolNoOvertaking == PoolSpec => []NoOvertaking
<1>1. PoolInv => NoOvertaking
  BY DEF PoolInv
<1> QED BY <1>1, PoolInvariant, PTL

\* Everything the pool promises under any interleaving of run, settle, finally
\* and shutdown holds for every set of tasks and every limit.
THEOREM PoolSafety == PoolSpec => []PoolSafe
<1>1. PoolInv => PoolSafe
  BY DEF PoolInv, PoolSafe
<1> QED BY <1>1, PoolInvariant, PTL

=============================================================================
