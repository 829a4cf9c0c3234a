------------------------------ MODULE MCDurable ------------------------------
(* The event package, the durable adapters and the buses, each explored on    *)
(* its own: they share no state, so the initial state chooses a component.    *)
EXTENDS DurableStores, Buses, EventFlow
CONSTANTS p1, p2, p3, g1, g2, h1, h2, c1, c2, c3, t1, t2, k1, k2, e1, e2, e3, r1
VARIABLE focus
MCKeyOf == [p \in Publishes |-> IF p = p3 THEN "k2" ELSE "k1"]
MCPartitionOf == [c \in Calls |-> IF c = c3 THEN t2 ELSE t1]
MCReplayOf == [r \in Replays |-> e2]
\* e1 and e2 reuse one idempotency key.
MCEventKeyOf == [e \in Ids |-> IF e = e2 THEN e1 ELSE e]
Components == {"events", "persistent bus", "kernel bus", "audit", "replay", "checkpoint", "readiness", "approval"}
\* Three parts of the state space of the events, each from states of the whole
\* system: publishing while no consumer reads, delivery of two stored events, and
\* the life of one stored event with its dead-letter replay or a fault.  Where they
\* are not explored nothing is stored, and their fairness asks for nothing.
MCInit ==
    /\ BusInit /\ DurableInit /\ focus \in Components /\ (focus # "readiness" => ~trusted)
    /\ \/ EventStart({e1, e2}, <<>>, "revoked", 0)
       \/ focus = "events" /\ EventStart({}, <<e1, e3>>, "active", MaxFaults)
       \/ focus = "events" /\ EventStart({}, <<e2>>, "active", 0)
\* Bound: a dead letter is replayed only where there is no fault.
Bounds == faults' = 0 \/ \A r \in Replays : outbox'[r].state = "none"
MCNext ==
    /\ UNCHANGED focus
    /\ \/ focus = "events" /\ EventNext /\ Bounds /\ UNCHANGED <<busVars, durableVars>>
       \/ focus = "persistent bus" /\ PersistentNext /\ UNCHANGED <<durableVars, eventVars>>
       \/ focus = "kernel bus" /\ KernelBusNext /\ UNCHANGED <<durableVars, eventVars>>
       \/ focus = "audit" /\ AuditNext /\ UNCHANGED <<busVars, eventVars>>
       \/ focus = "replay" /\ ReplayNext /\ UNCHANGED <<busVars, eventVars>>
       \/ focus = "checkpoint" /\ CheckpointNext /\ UNCHANGED <<busVars, eventVars>>
       \/ focus = "readiness" /\ ReadinessNext /\ UNCHANGED <<busVars, eventVars>>
       \/ focus = "approval" /\ ApprovalNext /\ UNCHANGED <<busVars, eventVars>>
\* The delivery loop and the persistent bus promise progress.
MCSpec == MCInit /\ [][MCNext]_<<busVars, durableVars, eventVars, focus>> /\ BusFairness /\ EventFairness
=============================================================================
