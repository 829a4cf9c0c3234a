---------------------------- MODULE MCPoolBreaker ----------------------------
(* Model-checking instance of the two admission controls of the runtime that  *)
(* keep state of their own, WorkerPool and BreakerProtocol.  They share        *)
(* nothing, so the initial state chooses which of them a behaviour explores.   *)
(* Pool: five tasks of three tenants, two priorities within the first tenant.  *)
(* Breaker: two keys, three calls of the first and one of the second.          *)
EXTENDS WorkerPool, BreakerProtocol

CONSTANT Parts      \* the parts this run explores
VARIABLE part

MCTenant == {"a", "b", "c"}

MCTask == {"a1", "a2", "a3", "b1", "c1"}

MCTenantOf ==
    [t \in MCTask |-> CASE t = "b1" -> "b" [] t = "c1" -> "c" [] OTHER -> "a"]

MCPriorityOf == [t \in MCTask |-> IF t \in {"a3", "c1"} THEN 2 ELSE 1]

MCKey == {"k", "l"}

MCCall == {"c1", "c2", "c3", "d1"}

MCKeyOf == [c \in MCCall |-> IF c = "d1" THEN "l" ELSE "k"]

MCInit == part \in Parts /\ PoolInit /\ Init

MCNext ==
    /\ UNCHANGED part
    /\ \/ part = "pool" /\ PoolNext /\ UNCHANGED breakerVars
       \/ part = "breaker" /\ Next /\ UNCHANGED poolVars

\* The fairness of PoolFairSpec: a started task settles and gives its slot back.
MCSpec ==
    /\ MCInit /\ [][MCNext]_<<part, poolVars, breakerVars>>
    /\ \A t \in Task : WF_poolVars(Settle(t) /\ UNCHANGED breakerVars)
                       /\ WF_poolVars(Release(t) /\ UNCHANGED breakerVars)

=============================================================================
