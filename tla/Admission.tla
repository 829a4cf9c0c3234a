----------------------------- MODULE Admission ------------------------------
(***************************************************************************)
(* QuotaSystem and ResourceManager of the runtime: what their methods do to *)
(* their counters.  A submission is charged on several quota slots (its     *)
(* tenant, and within the tenant its workspace, actor and capability).  On  *)
(* every slot `concurrent' counts executions and `budget' stands for each   *)
(* of cpuMs, memoryBytes and executionTimeMs, which the code treats alike;  *)
(* the `amount' of the resource pool stands for cpuMs and memoryBytes.      *)
(***************************************************************************)
EXTENDS Integers

CONSTANTS
    Slot,        \* quota slots
    QuotaLimit,  \* QuotaLimits of each slot
    ResourcePool \* ResourcePool: maxSlots and one maximum amount

ASSUME AdmissionAssumption ==
    /\ QuotaLimit \in [Slot -> [concurrent : Nat, budget : Nat]]
    /\ ResourcePool \in [slots : Nat, amount : Nat]

Usage == [concurrent : Nat, budget : Nat]

NoUsage == [q \in Slot |-> [concurrent |-> 0, budget |-> 0]]

NothingUsed == [slots |-> 0, amount |-> 0]

\* Math.max(0, a - b)
Minus(a, b) == IF a > b THEN a - b ELSE 0

\* tryAcquire: every slot is checked before any is charged.
QuotaFits(usage, slots, cost) ==
    \A q \in slots : /\ usage[q].concurrent + 1 <= QuotaLimit[q].concurrent
                     /\ usage[q].budget + cost <= QuotaLimit[q].budget

QuotaAcquire(usage, slots, cost) ==
    [q \in Slot |->
        IF q \in slots
        THEN [concurrent |-> usage[q].concurrent + 1,
              budget |-> usage[q].budget + cost]
        ELSE usage[q]]

\* release without reclaimBudgets, the only way the engine calls it.
QuotaRelease(usage, slots) ==
    [q \in Slot |->
        IF q \in slots
        THEN [usage[q] EXCEPT !.concurrent = Minus(@, 1)]
        ELSE usage[q]]

\* reserve and release of one slot and an amount.
ResourceFits(used, amount) ==
    /\ used.slots + 1 <= ResourcePool.slots
    /\ used.amount + amount <= ResourcePool.amount

ResourceReserve(used, amount) ==
    [slots |-> used.slots + 1, amount |-> used.amount + amount]

ResourceRelease(used, amount) ==
    [slots |-> Minus(used.slots, 1), amount |-> Minus(used.amount, amount)]

=============================================================================
