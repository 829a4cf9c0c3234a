-------------------------- MODULE MCRuntimeEngine ---------------------------
(* Model-checking instance of RuntimeEngine: s1 and s2 carry the same permit *)
(* and, like s3, belong to tenant a; s4 belongs to tenant b.  One worker and *)
(* a queue of one are shared; s4 beside s2, or beside s1 and s3, exceeds the *)
(* resources, and the actor of s2 and s3 has budget for one of them only.    *)
EXTENDS RuntimeEngine

AllSubmissions == {"s1", "s2", "s3", "s4"}

TenantA == {"s1", "s2", "s3"}

DistinctPermits == {"s1", "s3", "s4"}

MCTenant == {"a", "b"}

MCPermit == {"p", "q", "r"}

MCPermitOf == [s \in Submission |->
    CASE s = "s3" -> "q" [] s = "s4" -> "r" [] OTHER -> "p"]

MCSubmitterOf == [s \in Submission |-> IF s = "s4" THEN "b" ELSE "a"]

MCPriority == [s \in Submission |-> IF s = "s3" THEN 1 ELSE 0]

MCKeyOf == [s \in Submission |-> IF s = "s4" THEN "l" ELSE "k"]

MCSlot == {"tenant_a", "actor", "tenant_b"}

MCSlotsOf == [s \in Submission |->
    CASE s = "s1" -> {"tenant_a"} [] s = "s4" -> {"tenant_b"}
      [] OTHER -> {"tenant_a", "actor"}]

MCCostOf == [s \in Submission |-> IF s = "s2" THEN 2 ELSE 1]

MCQuotaLimit == [q \in MCSlot |->
    [concurrent |-> 2, budget |-> IF q = "actor" THEN 2 ELSE 5]]

MCResourcePool == [slots |-> 3, amount |-> 2]

=============================================================================
