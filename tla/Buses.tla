-------------------------------- MODULE Buses --------------------------------
(* The two in-process event buses: the persistent bus of the adapters         *)
(* (adapters/src/event-bus.ts) with idempotency keys, bounded in-flight       *)
(* publishes, consumer retries and dead letters, and the kernel's bus         *)
(* (kernel/src/event-bus.ts) with priorities and once-handlers.  Every await  *)
(* ends a step, so publishes interleave there.                                *)
EXTENDS Integers, Sequences, FiniteSets

CONSTANTS Publishes,     \* publish calls on the persistent bus
          KernelPublishes,  \* publish calls on the kernel's bus
          BusKeyOf,      \* [Publishes -> idempotency key]
          Groups,        \* consumer groups
          RetryLimit, MaxInflight,
          Handlers,      \* functions that can be registered on the kernel bus
          MaxRegistrations, MaxUnsubscribes   \* bounds

ASSUME BusAssumption ==
    /\ IsFiniteSet(Publishes)
    /\ {RetryLimit, MaxInflight} \subseteq Nat

VARIABLES pub,           \* [Publishes -> the progress of a persistent publish]
          seen, inflight, subscribed, deadLetters, acked,
          registered,    \* the kernel bus's registrations; their ids give the order
          kpub,          \* [KernelPublishes -> the progress of a kernel publish]
          callLog, nextReg, detaches

persistentVars == <<pub, seen, inflight, subscribed, deadLetters, acked>>
kernelBusVars == <<registered, kpub, callLog, nextReg, detaches>>
busVars == <<persistentVars, kernelBusVars>>

\* copy: the registrations the publish took; next: the one to serve.
Idle == [pc |-> "idle", copy |-> <<>>, next |-> 1, attempt |-> 0]

\* left: the registrations not called yet; failed: those that became dead
\* letters; begun: the calls logged when the publish began.
KernelIdle == [pc |-> "idle", copy |-> {}, left |-> {}, failed |-> {}, begun |-> 0]

BusInit ==
    /\ pub = [p \in Publishes |-> Idle] /\ seen = {} /\ inflight = 0
    /\ subscribed = <<>> /\ deadLetters = {} /\ acked = [p \in Publishes |-> {}]
    /\ registered = {} /\ kpub = [p \in KernelPublishes |-> KernelIdle] /\ callLog = <<>>
    /\ nextReg = 1 /\ detaches = 0

----------------------------------------------------------------------------
(* The persistent bus *)

Answer(p, reason) == pub' = [pub EXCEPT ![p].pc = reason]

\* publish up to its first await, the audit hook.
BusPublish(p) ==
    /\ pub[p].pc = "idle"
    /\ \/ /\ BusKeyOf[p] \in seen
          /\ Answer(p, "deduplicated") /\ UNCHANGED <<seen, inflight>>
       \/ /\ BusKeyOf[p] \notin seen /\ inflight >= MaxInflight
          /\ Answer(p, "backpressure_rejected") /\ UNCHANGED <<seen, inflight>>
       \/ /\ BusKeyOf[p] \notin seen /\ inflight < MaxInflight
          /\ seen' = seen \cup {BusKeyOf[p]} /\ inflight' = inflight + 1
          /\ pub' = [pub EXCEPT ![p].pc = "auditing"]
    /\ UNCHANGED <<subscribed, deadLetters, acked, kernelBusVars>>

\* A hook that throws ends publish through its finally block.
Throws(p) == Answer(p, "threw") /\ inflight' = inflight - 1

\* The hook resolves, and the matching registrations are copied.
PublishAudited(p, throws) ==
    /\ pub[p].pc = "auditing"
    /\ IF throws THEN Throws(p)
       ELSE /\ pub' = [pub EXCEPT ![p] = [pub[p] EXCEPT !.pc = "delivering", !.copy = subscribed]]
            /\ UNCHANGED inflight
    /\ UNCHANGED <<seen, subscribed, deadLetters, acked, kernelBusVars>>

More(x) == x.next <= Len(x.copy)
Current(x) == x.copy[x.next]

\* Variant that serves the same group again.
NextGroupSame(p) == pub' = [pub EXCEPT ![p].attempt = 0]

NextGroup(p) == pub' = [pub EXCEPT ![p] = [pub[p] EXCEPT !.next = @ + 1, !.attempt = 0]]

DeadLetterOrThrow(p, throws) ==
    /\ deadLetters' = deadLetters \cup {<<p, Current(pub[p])>>}
    /\ IF throws THEN Throws(p) ELSE NextGroup(p) /\ UNCHANGED inflight

\* deliverTo runs its loop while the attempts made are within the limit.
RetriesLeft(p) == pub[p].attempt < RetryLimit

\* One answer of the consumer of the group being served; an exception in the
\* consumer is a RETRY, one in the hook is not caught.
ConsumerAnswers(p, result, throws) ==
    /\ pub[p].pc = "delivering" /\ More(pub[p])
    /\ \/ /\ result = "ACK" /\ acked' = [acked EXCEPT ![p] = @ \cup {Current(pub[p])}]
          /\ IF throws THEN Throws(p) ELSE NextGroup(p) /\ UNCHANGED inflight
          /\ UNCHANGED deadLetters
       \/ /\ result = "RETRY" /\ RetriesLeft(p) /\ ~throws
          /\ pub' = [pub EXCEPT ![p].attempt = @ + 1]
          /\ UNCHANGED <<inflight, deadLetters, acked>>
       \/ /\ \/ result = "RETRY" /\ ~RetriesLeft(p)
             \/ result = "POISON"
          /\ DeadLetterOrThrow(p, throws) /\ UNCHANGED acked
    /\ UNCHANGED <<seen, subscribed, kernelBusVars>>

PublishEnds(p) ==
    /\ pub[p].pc = "delivering" /\ ~More(pub[p])
    /\ Answer(p, "published") /\ inflight' = inflight - 1
    /\ UNCHANGED <<seen, subscribed, deadLetters, acked, kernelBusVars>>

BusSubscribe(g) ==
    /\ \A i \in DOMAIN subscribed : subscribed[i] # g
    /\ subscribed' = Append(subscribed, g)
    /\ UNCHANGED <<pub, seen, inflight, deadLetters, acked, kernelBusVars>>

\* The registration is spliced out.
BusUnsubscribe(g) ==
    /\ detaches < MaxUnsubscribes /\ detaches' = detaches + 1
    /\ \E i \in DOMAIN subscribed :
        /\ subscribed[i] = g
        /\ subscribed' = SubSeq(subscribed, 1, i - 1) \o SubSeq(subscribed, i + 1, Len(subscribed))
    /\ UNCHANGED <<pub, seen, inflight, deadLetters, acked, registered, kpub, callLog, nextReg>>

----------------------------------------------------------------------------
(* The kernel's bus *)

\* A stable sort: by falling priority, then in the order of registration.
Before(r, q) == r.priority > q.priority \/ (r.priority = q.priority /\ r.id < q.id)
NextByPriority(left) == CHOOSE r \in left : \A q \in left \ {r} : Before(r, q)

KernelPublish(p) ==
    /\ kpub[p].pc = "idle"
    /\ kpub' = [kpub EXCEPT ![p] = [pc |-> "calling", copy |-> registered, left |-> registered,
                                    failed |-> {}, begun |-> Len(callLog)]]
    /\ UNCHANGED <<persistentVars, registered, callLog, nextReg, detaches>>

\* Variant that leaves once-handlers attached.
DetachNothing(regs, handler) == regs

\* detach removes every registration of the function.
Detach(regs, handler) == {r \in regs : r.handler # handler}

\* A handler is called and awaited; one that throws becomes a dead letter and
\* the next is called.
CallHandler(p, throws) ==
    /\ kpub[p].pc = "calling" /\ kpub[p].left # {}
    /\ LET r == NextByPriority(kpub[p].left)
       IN  /\ registered' = IF r.once THEN Detach(registered, r.handler) ELSE registered
           /\ callLog' = Append(callLog, [publish |-> p, reg |-> r])
           /\ kpub' = [kpub EXCEPT ![p] = [kpub[p] EXCEPT !.left = @ \ {r}, !.failed = IF throws THEN @ \cup {r} ELSE @]]
    /\ UNCHANGED <<persistentVars, nextReg, detaches>>

KernelPublishEnds(p) ==
    /\ kpub[p].pc = "calling" /\ kpub[p].left = {}
    /\ kpub' = [kpub EXCEPT ![p].pc = "done"]
    /\ UNCHANGED <<persistentVars, registered, callLog, nextReg, detaches>>

KernelSubscribe(h, priority, once) ==
    /\ nextReg <= MaxRegistrations /\ nextReg' = nextReg + 1
    /\ registered' = registered \cup {[id |-> nextReg, handler |-> h, priority |-> priority, once |-> once]}
    /\ UNCHANGED <<persistentVars, kpub, callLog, detaches>>

KernelUnsubscribe(h) ==
    /\ detaches < MaxUnsubscribes /\ detaches' = detaches + 1
    /\ registered' = Detach(registered, h)
    /\ UNCHANGED <<persistentVars, kpub, callLog, nextReg>>

PersistentNext ==
    \/ \E p \in Publishes : BusPublish(p) \/ PublishEnds(p)
    \/ \E p \in Publishes, t \in BOOLEAN : PublishAudited(p, t)
    \/ \E p \in Publishes, t \in BOOLEAN, r \in {"ACK", "RETRY", "POISON"} : ConsumerAnswers(p, r, t)
    \/ \E g \in Groups : BusSubscribe(g) \/ BusUnsubscribe(g)

KernelBusNext ==
    \/ \E p \in KernelPublishes : KernelPublish(p) \/ KernelPublishEnds(p)
    \/ \E p \in KernelPublishes, t \in BOOLEAN : CallHandler(p, t)
    \/ \E h \in Handlers : KernelUnsubscribe(h)
    \/ \E h \in Handlers, i \in {0, 1}, o \in BOOLEAN : KernelSubscribe(h, i, o)

BusSpec == BusInit /\ [][PersistentNext \/ KernelBusNext]_busVars

\* Hooks and consumers settle; the persistent bus then goes on.
BusFairness ==
    \A p \in Publishes : /\ WF_busVars(PublishAudited(p, FALSE))
                         /\ WF_busVars(\E r \in {"ACK", "RETRY", "POISON"} : ConsumerAnswers(p, r, FALSE))
                         /\ WF_busVars(PublishEnds(p))

----------------------------------------------------------------------------
(* Properties *)

Answered(p) == pub[p].pc \notin {"idle", "auditing", "delivering"}
Running == {p \in Publishes : pub[p].pc \in {"auditing", "delivering"}}

\* The in-flight counter is exactly the publishes under way, through every
\* answer and every thrown hook, and the retries stay within the limit.
InflightExact ==
    /\ inflight = Cardinality(Running) /\ inflight <= MaxInflight
    /\ \A p \in Publishes : pub[p].attempt <= RetryLimit

\* A publish that is answered published was acknowledged or dead-lettered by
\* every group it was copied for; one that is answered deduplicated follows
\* another publish of its key that the bus took.
PublishedSettled == \A p \in Publishes :
    /\ pub[p].pc = "deduplicated"
          => \E q \in Publishes \ {p} : /\ BusKeyOf[q] = BusKeyOf[p]
                                        /\ pub[q].pc \in {"auditing", "delivering", "published", "threw"}
    /\ pub[p].pc \in {"delivering", "published"}
          => \A i \in 1..(pub[p].next - 1) : pub[p].copy[i] \in acked[p] <=> <<p, pub[p].copy[i]>> \notin deadLetters
    /\ pub[p].pc = "published" => ~More(pub[p])

\* At most one publish of a key reaches the consumers.
KeyDeliveredOnce == \A p, q \in Publishes :
    (BusKeyOf[p] = BusKeyOf[q] /\ p # q) => (acked[p] = {} \/ acked[q] = {})

\* A once-handler is called by two publishes only when they overlap: the later
\* call belongs to a publish that copied the handlers before the first call.
OnceUnlessOverlap == \A i, j \in DOMAIN callLog :
    (i < j /\ callLog[i].reg.once /\ callLog[i].reg = callLog[j].reg)
        => /\ callLog[i].publish # callLog[j].publish
           /\ kpub[callLog[j].publish].begun < i

\* One publish calls its handlers by falling priority and in the order of
\* their registration, and a handler that throws costs no other its call.
CalledByPriority ==
    /\ \A i, j \in DOMAIN callLog :
          (i < j /\ callLog[i].publish = callLog[j].publish) => Before(callLog[i].reg, callLog[j].reg)
    /\ \A p \in KernelPublishes : kpub[p].pc = "done" =>
          \A r \in kpub[p].copy : \E i \in DOMAIN callLog : callLog[i] = [publish |-> p, reg |-> r]

\* Every publish that was begun is answered, and stays so, whatever its hooks and
\* consumers do.
PublishAnswers == []<>(\A p \in Publishes : pub[p].pc # "idle" => Answered(p))

\* The safety of both buses under overlapping publishes and throwing hooks,
\* handlers and consumers.
BusesSafe ==
    /\ InflightExact
    /\ PublishedSettled
    /\ KeyDeliveredOnce
    /\ OnceUnlessOverlap
    /\ CalledByPriority
=============================================================================
