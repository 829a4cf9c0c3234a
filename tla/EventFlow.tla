------------------------------ MODULE EventFlow ------------------------------
(* The event foundation (event-foundation/src): an outbox relay publishes     *)
(* through the publish gate into a versioned stream, the stream is delivered  *)
(* to one subscription with acknowledgements, bounded retries, an inbox and a *)
(* dead-letter store, and both dead letters and the stream can be replayed.   *)
(* The package is the gates and stores; the host that calls them takes the    *)
(* step each gate names as the next required action.  One tenant: foreign     *)
(* tenants are refused by every gate before any state is read.                *)
EXTENDS Gates, FiniteSets, Integers

CONSTANTS Originals,        \* events of the business transactions
          Replays,          \* identities given to dead-letter replays
          ReplayOf,         \* [Replays -> Originals]
          KeyOf,            \* [Originals \cup Replays -> idempotency key]
          MaxDeliveryAttempts, MaxRetryAttempts, OutboxMaxAttempts,
          PoisonThreshold, RetryBudget, WindowLimit, Quota,
          Critical,         \* originals no limit may hold back
          RequestFaults,    \* the faults of requests that a run enumerates
          MaxFaults         \* bound: infrastructure and subscription changes

Ids == Originals \cup Replays
Keys == {KeyOf[e] : e \in Ids}
NoClaim == "no claim"

\* A replay is published under an identity of its own.
ASSUME EventAssumption ==
    /\ Originals \cap Replays = {} /\ NoClaim \notin Ids
    /\ ReplayOf \in [Replays -> Originals]
    /\ {MaxDeliveryAttempts, MaxRetryAttempts, OutboxMaxAttempts, PoisonThreshold, RetryBudget} \subseteq Nat

VARIABLES producer, schema, storageUp, auditUp, faults,
          claims,       \* [Keys -> Ids or NoClaim], InMemoryIdempotencyStore
          stream,       \* the stored events, InMemoryEventStore
          readVersion,  \* [Ids -> the version the relay read, or -1]
          admitted,     \* events admitted in this rate window
          outbox,       \* [Ids -> [state, attempts]]
          delivery,     \* [Ids -> [attempt, status]]
          acks,         \* acknowledgements on their way
          inbox,        \* events the consumer recorded
          effects,      \* [Ids -> times the handler's effect happened]
          checkpoint, subscription, consumer,
          budget, storm, \* retries left to the tenant; its retry share is at the cap
          letters,      \* [Originals -> failure count of its dead letter, or 0]
          rewinds       \* approved replays of the stream

publishVars == <<claims, stream, readVersion, admitted, outbox>>
deliveryVars == <<delivery, acks, inbox, effects, checkpoint, budget, letters>>
envVars == <<producer, schema, storageUp, auditUp, faults, subscription, consumer, storm>>
eventVars == <<envVars, publishVars, deliveryVars, rewinds>>

\* due: the originals whose transaction wrote an outbox entry; stored: those
\* already relayed, in order; c: the consumer's status; n: faults so far.
EventStart(due, stored, c, n) ==
    /\ producer = "active" /\ schema = "valid" /\ storageUp = TRUE /\ auditUp = TRUE
    /\ faults = n /\ subscription = "ACTIVE" /\ consumer = c /\ storm = FALSE
    /\ stream = stored
    /\ claims = [k \in Keys |-> LET own == {i \in DOMAIN stored : KeyOf[stored[i]] = k}
                                IN  IF own = {} THEN NoClaim ELSE stored[CHOOSE i \in own : TRUE]]
    /\ readVersion = [e \in Ids |-> -1] /\ admitted = 0
    /\ outbox = [e \in Ids |-> IF \E i \in DOMAIN stored : stored[i] = e
                               THEN [state |-> "PUBLISHED", attempts |-> 1]
                               ELSE [state |-> IF e \in due THEN "PENDING" ELSE "none", attempts |-> 0]]
    /\ delivery = [e \in Ids |-> [attempt |-> 0, status |-> "none"]]
    /\ acks = {} /\ inbox = {} /\ effects = [e \in Ids |-> 0]
    /\ checkpoint = 0 /\ budget = RetryBudget
    /\ letters = [e \in Originals |-> 0] /\ rewinds = 0

EventInit == EventStart(Originals, <<>>, "active", 0)

----------------------------------------------------------------------------
(* Publishing.  d is the set of faults of one request or envelope. *)

EvaluateProducer(d) ==
    FirstRefusal(<< <<"unregistered" \in d, "UNREGISTERED">>,
                    <<producer = "revoked", "REVOKED">>,
                    <<producer = "suspended", "SUSPENDED">>,
                    <<"trust expired" \in d, "TRUST_EXPIRED">>,
                    <<"foreign tenant" \in d, "TENANT_MISMATCH">>,
                    <<"foreign workspace" \in d, "WORKSPACE_MISMATCH">>,
                    <<"claims human" \in d, "HUMAN_MASQUERADE">>,
                    <<"untrusted plugin" \in d, "UNTRUSTED_PLUGIN">>,
                    <<"type not granted" \in d, "EVENT_TYPE_NOT_ALLOWED">>,
                    <<"name not granted" \in d, "EVENT_NAME_NOT_ALLOWED">>,
                    <<"old sequence" \in d, "SEQUENCE_FORGERY">> >>, "ALLOWED")

ValidateEnvelopeShape(d) ==
    FirstRefusal(<< <<"no id" \in d, "MALFORMED">>, <<"unknown type" \in d, "UNKNOWN_TYPE">>,
                    <<"no tenant" \in d, "TENANT_MISSING">>, <<"no producer" \in d, "PRODUCER_MISSING">>,
                    <<"no digest" \in d, "PAYLOAD_DIGEST_MISSING">>,
                    <<"occurs later" \in d, "OCCURRED_AFTER_RECORDED">> >>, "VALID")

ValidateEventSchema(d) ==
    FirstRefusal(<< <<"no schema" \in d, "SCHEMA_MISSING">>, <<schema = "revoked", "SCHEMA_REVOKED">>,
                    <<"unknown schema" \in d, "SCHEMA_UNKNOWN">>,
                    <<"other definition" \in d, "DEFINITION_DIGEST_MISMATCH">>,
                    <<"breaking minor" \in d, "BREAKING_WITHOUT_MAJOR">>,
                    <<"major unsupported" \in d, "VERSION_UNSUPPORTED">> >>, "VALID")

ValidatePrivacy(d) ==
    FirstRefusal(<< <<"secret" \in d, "SECRET_IN_PAYLOAD">>, <<"unclassified" \in d, "PII_UNCLASSIFIED">>,
                    <<"bad retention" \in d, "INVALID_RETENTION">>,
                    <<"redacted" \in d, "REDACTION_BREAKS_INTEGRITY">>,
                    <<"hold cleared" \in d, "LEGAL_HOLD_TAMPER">> >>, "VALID")

\* Variant of a store that answers every claim.
ClaimStatusAlways(e) == "CLAIMED"

\* claim: the first event under a key owns it.
ClaimStatus(e) == FirstRefusal(<< <<claims[KeyOf[e]] = NoClaim, "CLAIMED">>,
                                  <<claims[KeyOf[e]] = e, "DUPLICATE">> >>, "CONFLICT")

\* The relay numbers an event one past the version it read.
EvaluateOrdering(received, last) ==
    FirstRefusal(<< <<last = 0, "IN_ORDER">>, <<received < last, "SEQUENCE_ROLLBACK">>,
                    <<received = last, "DUPLICATE_SEQUENCE_CONFLICT">>,
                    <<received > last + 1, "GAP_DETECTED">> >>, "IN_ORDER")

EvaluateAdmission(e) ==
    FirstRefusal(<< <<e \in Critical, "CRITICAL_BYPASS">>, <<Len(stream) >= Quota, "QUOTA_EXCEEDED">>,
                    <<admitted >= WindowLimit, "RATE_LIMITED">> >>, "ADMITTED")

EvaluatePublish(e, d) ==
    FirstRefusal(<< <<EvaluateProducer(d) # "ALLOWED", "PRODUCER_UNTRUSTED">>,
                    <<ValidateEnvelopeShape(d) # "VALID", "PAYLOAD_INVALID">>,
                    <<"expired" \in d, "EXPIRED">>,
                    <<ValidateEventSchema(d) # "VALID", "SCHEMA_INVALID">>,
                    <<"tampered" \in d, "INTEGRITY_FAILED">>,
                    <<ValidatePrivacy(d) # "VALID", "SENSITIVITY_INVALID">>,
                    <<ClaimStatus(e) = "DUPLICATE", "DUPLICATE">>,
                    <<ClaimStatus(e) = "CONFLICT", "REJECTED">>,
                    <<"no policy" \in d, "POLICY_REFERENCE_MISSING">>,
                    <<EvaluateOrdering(readVersion[e] + 1, Len(stream)) # "IN_ORDER", "SEQUENCE_INVALID">>,
                    <<EvaluateAdmission(e) \in {"QUOTA_EXCEEDED", "RATE_LIMITED"}, "RATE_LIMITED">>,
                    <<~storageUp, "STORAGE_UNAVAILABLE">>,
                    <<~auditUp, "AUDIT_UNAVAILABLE">> >>, "ACCEPTED")

PublishFaults == {"unregistered", "trust expired", "foreign tenant", "foreign workspace", "claims human",
    "untrusted plugin", "type not granted", "name not granted", "old sequence", "no id", "unknown type",
    "no tenant", "no producer", "no digest", "occurs later", "expired", "no schema", "unknown schema",
    "other definition", "breaking minor", "major unsupported", "tampered", "secret", "unclassified",
    "bad retention", "redacted", "hold cleared", "no policy"}

ASSUME RequestFaultsAssumption == RequestFaults \subseteq PublishFaults

EventReadiness == IF storageUp /\ auditUp THEN "READY" ELSE "EVENT_READINESS_REVOKED"

\* append under an expected version: a stale or a future one stores nothing.
AppendStatus(e) == FirstRefusal(<< <<readVersion[e] < Len(stream), "VERSION_ROLLBACK">>,
                                   <<readVersion[e] # Len(stream), "VERSION_CONFLICT">> >>, "APPENDED")

EvaluateOutboxPublish(e) ==
    FirstRefusal(<< <<outbox[e].state = "PUBLISHED", "ALREADY_PUBLISHED">>,
                    <<outbox[e].attempts >= OutboxMaxAttempts, "DEAD_LETTER">> >>, "PUBLISH")

RelayRead(e) ==
    /\ outbox[e].state = "PENDING" /\ readVersion[e] = -1 /\ EventReadiness = "READY"
    /\ EvaluateOutboxPublish(e) = "PUBLISH"
    /\ readVersion' = [readVersion EXCEPT ![e] = Len(stream)]
    /\ UNCHANGED <<envVars, claims, stream, admitted, outbox, deliveryVars, rewinds>>

\* The claim is an input of the publish gate, so it is taken before the gate
\* decides.  marked is FALSE when the relay stops between append and marking.
RelayPublish(e, marked, d) ==
    /\ readVersion[e] # -1
    /\ readVersion' = [readVersion EXCEPT ![e] = -1]
    /\ claims' = IF ClaimStatus(e) = "CLAIMED" THEN [claims EXCEPT ![KeyOf[e]] = e] ELSE claims
    /\ LET verdict == EvaluatePublish(e, d)
           stored == verdict = "ACCEPTED" /\ AppendStatus(e) = "APPENDED"
       IN  /\ stream' = IF stored THEN Append(stream, e) ELSE stream
           /\ admitted' = IF stored THEN admitted + 1 ELSE admitted
           /\ outbox' = [outbox EXCEPT ![e] =
                 [state |-> IF (stored /\ marked) \/ verdict = "DUPLICATE" THEN "PUBLISHED" ELSE @.state,
                  attempts |-> @.attempts + 1]]
    /\ UNCHANGED <<envVars, deliveryVars, rewinds>>

OutboxGivesUp(e) ==
    /\ outbox[e].state = "PENDING" /\ EvaluateOutboxPublish(e) = "DEAD_LETTER"
    /\ outbox' = [outbox EXCEPT ![e].state = "DEAD_LETTERED"]
    /\ UNCHANGED <<envVars, claims, stream, readVersion, admitted, deliveryVars, rewinds>>

WindowResets == /\ admitted > 0 /\ admitted' = 0
                /\ UNCHANGED <<envVars, claims, stream, readVersion, outbox, deliveryVars, rewinds>>

----------------------------------------------------------------------------
(* Delivery *)

Stored(e) == \E i \in 1..Len(stream) : stream[i] = e
Offset(e) == CHOOSE i \in 1..Len(stream) : stream[i] = e
Settled(e) == delivery[e].status \in {"acked", "dead", "discarded"}

EvaluateDeliveryAttempt(attempt, threw) ==
    FirstRefusal(<< <<attempt > MaxDeliveryAttempts, "ATTEMPTS_EXHAUSTED">>,
                    <<threw, "HANDLER_FAILED">> >>, "NACK")

EvaluateInbox(e) == IF e \in inbox THEN "DUPLICATE_SKIP" ELSE "PROCESS"

EvaluateRetry(attempt, class) == FirstRefusal(<< <<class # "RETRYABLE", class>>,
                                          <<attempt >= MaxRetryAttempts, "EXHAUSTED">>,
                                          <<budget <= 0, "BUDGET_EXCEEDED">>,
                                          <<storm, "STORM_SUPPRESSED">> >>, "RETRY")

\* Variant that loses the letter and leaves the delivery open.
BuryLost(e) == UNCHANGED <<letters, delivery>>

Bury(e) == /\ delivery' = [delivery EXCEPT ![e].status = "dead"]
           /\ letters' = IF e \in Originals THEN [letters EXCEPT ![e] = delivery[e].attempt] ELSE letters

EvaluateConsumerRead(d) ==
    FirstRefusal(<< <<"unregistered" \in d, "UNREGISTERED">>, <<consumer = "revoked", "REVOKED">>,
                    <<consumer = "paused", "PAUSED">>, <<"foreign tenant" \in d, "TENANT_MISMATCH">>,
                    <<"foreign workspace" \in d, "WORKSPACE_MISMATCH">>, <<"wildcard" \in d, "WILDCARD_DENIED">>,
                    <<"type not registered" \in d, "EVENT_TYPE_NOT_REGISTERED">>,
                    <<"no assurance" \in d, "SENSITIVE_ASSURANCE_MISSING">> >>, "ALLOWED")

\* One attempt: the handler may throw; otherwise the inbox decides and the
\* consumer acknowledges with the token of this attempt.  The inbox check, the
\* handler's effect and the inbox record are one step: evaluateInbox leaves it
\* to the host to make them one transaction.
Deliver(e, threw) ==
    /\ Stored(e) /\ delivery[e].status \in {"none", "retry"} /\ EvaluateConsumerRead({}) = "ALLOWED"
    /\ LET attempt == delivery[e].attempt + 1
           verdict == EvaluateDeliveryAttempt(attempt, threw)
       IN  \/ /\ verdict = "ATTEMPTS_EXHAUSTED" /\ Bury(e)
              /\ UNCHANGED <<acks, inbox, effects>>
           \/ /\ verdict = "HANDLER_FAILED"
              /\ delivery' = [delivery EXCEPT ![e] = [attempt |-> attempt, status |-> "sent"]]
              /\ UNCHANGED <<acks, inbox, effects, letters>>
           \/ /\ verdict = "NACK"
              /\ delivery' = [delivery EXCEPT ![e] = [attempt |-> attempt, status |-> "sent"]]
              /\ effects' = IF EvaluateInbox(e) = "PROCESS" THEN [effects EXCEPT ![e] = @ + 1] ELSE effects
              /\ inbox' = inbox \cup {e}
              /\ acks' = acks \cup {[event |-> e, token |-> attempt, consumer |-> "own"]}
              /\ UNCHANGED letters
    /\ UNCHANGED <<envVars, publishVars, checkpoint, budget, rewinds>>

\* Another consumer acknowledges the current attempt.
ForeignAck(e) ==
    /\ delivery[e].status = "sent"
    /\ acks' = acks \cup {[event |-> e, token |-> delivery[e].attempt, consumer |-> "other"]}
    /\ UNCHANGED <<envVars, publishVars, delivery, inbox, effects, checkpoint, budget, letters, rewinds>>

EvaluateAcknowledgement(a, expected) ==
    FirstRefusal(<< <<subscription # "ACTIVE", "SUBSCRIPTION_INACTIVE">>,
                    <<a.consumer # "own", "ACK_WRONG_CONSUMER">>,
                    <<a.token # expected, "ACK_FORGED">> >>, "ACKNOWLEDGED")

\* Variant that stores whatever it is given.
AdvanceToAny(offset) == offset

\* InMemoryCheckpointStore.advance refuses to move back.
AdvanceTo(offset) == IF offset < checkpoint THEN checkpoint ELSE offset

\* An acknowledgement arrives, in any order and after any delay; one that
\* never arrives is lost.
ReceiveAck(a) ==
    /\ a \in acks /\ acks' = acks \ {a}
    /\ IF /\ delivery[a.event].status = "sent"
          /\ EvaluateAcknowledgement(a, delivery[a.event].attempt) = "ACKNOWLEDGED"
       THEN /\ delivery' = [delivery EXCEPT ![a.event].status = "acked"]
            /\ checkpoint' = AdvanceTo(Offset(a.event))
       ELSE UNCHANGED <<delivery, checkpoint>>
    /\ UNCHANGED <<envVars, publishVars, inbox, effects, budget, letters, rewinds>>

\* No acknowledgement within the window: retry, or the dead-letter store; what
\* has expired may be discarded.  Told to wait for budget or to back off, the
\* host leaves the attempt where it is until it asks again; for want of budget
\* it may dead-letter instead.
DeliveryTimeout(e, class) ==
    /\ delivery[e].status = "sent"
    /\ LET verdict == EvaluateRetry(delivery[e].attempt, class)
       IN  \/ /\ verdict = "RETRY" /\ delivery' = [delivery EXCEPT ![e].status = "retry"]
              /\ budget' = budget - 1 /\ UNCHANGED letters
           \/ verdict \notin {"RETRY", "STORM_SUPPRESSED"} /\ Bury(e) /\ UNCHANGED budget
           \/ /\ verdict = "EXPIRED" /\ delivery' = [delivery EXCEPT ![e].status = "discarded"]
              /\ UNCHANGED <<budget, letters>>
    /\ UNCHANGED <<envVars, publishVars, acks, inbox, effects, checkpoint, rewinds>>

\* The host refills the tenant's budget.
RefillBudget ==
    /\ budget < RetryBudget /\ budget' = RetryBudget
    /\ UNCHANGED <<envVars, publishVars, delivery, acks, inbox, effects, checkpoint, letters, rewinds>>

----------------------------------------------------------------------------
(* Replays *)

EvaluateDeadLetterReplay(e, kind, approved, original) ==
    FirstRefusal(<< <<letters[e] = 0, "NOT_FOUND">>,
                    <<letters[e] >= PoisonThreshold, "POISON_QUARANTINED">>,
                    <<kind = "AGENT" /\ original /\ ~approved, "AI_SELF_REPLAY_DENIED">>,
                    <<kind = "AGENT" /\ ~approved, "APPROVAL_REQUIRED">> >>, "REPLAY_ALLOWED")

\* A replay is published as a new event that refers to the original.
DeadLetterReplay(r, kind, approved, original) ==
    /\ outbox[r].state = "none"
    /\ EvaluateDeadLetterReplay(ReplayOf[r], kind, approved, original) = "REPLAY_ALLOWED"
    /\ outbox' = [outbox EXCEPT ![r].state = "PENDING"]
    /\ UNCHANGED <<envVars, claims, stream, readVersion, admitted, deliveryVars, rewinds>>

EvaluateReplay(mode, d, approved) ==
    LET live == mode # "DRY_RUN"
    IN  FirstRefusal(<< <<"disabled" \in d, "REPLAY_DISABLED">>, <<"no scope" \in d, "SCOPE_MISSING">>,
                        <<"foreign tenant" \in d, "CROSS_TENANT_DENIED">>, <<"too many" \in d, "BOUND_EXCEEDED">>,
                        <<live /\ "side effects" \in d /\ ~approved, "SIDE_EFFECTS_DENIED">>,
                        <<live /\ "stale authorization" \in d, "STALE_AUTHORIZATION_DENIED">>,
                        <<mode = "LIVE_WITH_APPROVAL" /\ ~approved, "APPROVAL_REQUIRED">> >>, "REPLAY_ALLOWED")

ReplayFaults == {"disabled", "no scope", "foreign tenant", "too many", "side effects", "stale authorization"}

\* Variant that moves a checkpoint anywhere.
EvaluateCheckpointChangeAny(offset, approved) == "ADVANCED"

\* Moving a checkpoint back is a replay and needs its approval.
EvaluateCheckpointChange(offset, approved) ==
    IF offset < checkpoint /\ ~approved THEN "CHECKPOINT_ROLLBACK_DENIED" ELSE "ADVANCED"

\* A live replay moves the checkpoint back and delivers again what was
\* settled, with the duplicate protection intact.
StreamReplay(mode, d, approved) ==
    /\ rewinds = 0 /\ stream # <<>> /\ mode # "DRY_RUN"
    /\ EvaluateReplay(mode, d, approved) = "REPLAY_ALLOWED"
    /\ EvaluateCheckpointChange(0, approved) = "ADVANCED"
    /\ rewinds' = IF approved THEN 2 ELSE 1
    /\ checkpoint' = 0
    /\ delivery' = [e \in Ids |-> IF delivery[e].status = "acked" THEN [delivery[e] EXCEPT !.status = "retry"]
                                  ELSE delivery[e]]
    /\ UNCHANGED <<envVars, publishVars, acks, inbox, effects, budget, letters>>

\* The environment changes; one change is one fault.
Fault ==
    /\ faults < MaxFaults /\ faults' = faults + 1
    /\ \/ /\ producer = "active" /\ producer' \in {"suspended", "revoked"}
          /\ UNCHANGED <<schema, storageUp, auditUp, subscription, consumer, storm>>
       \/ /\ schema = "valid" /\ schema' = "revoked"
          /\ UNCHANGED <<producer, storageUp, auditUp, subscription, consumer, storm>>
       \/ storageUp' = ~storageUp /\ UNCHANGED <<producer, schema, auditUp, subscription, consumer, storm>>
       \/ auditUp' = ~auditUp /\ UNCHANGED <<producer, schema, storageUp, subscription, consumer, storm>>
       \/ /\ subscription' \in {"ACTIVE", "REVOKED"} \ {subscription}
          /\ UNCHANGED <<producer, schema, storageUp, auditUp, consumer, storm>>
       \/ /\ consumer' \in {"active", "paused", "revoked"} \ {consumer} /\ consumer # "revoked"
          /\ UNCHANGED <<producer, schema, storageUp, auditUp, subscription, storm>>
       \/ storm' = ~storm /\ UNCHANGED <<producer, schema, storageUp, auditUp, subscription, consumer>>
    /\ UNCHANGED <<publishVars, deliveryVars, rewinds>>

EventNext ==
    \/ \E e \in Ids : RelayRead(e) \/ OutboxGivesUp(e) \/ ForeignAck(e)
    \/ \E e \in Ids, c \in {"RETRYABLE", "NON_RETRYABLE", "EXPIRED", "REVOKED"} : DeliveryTimeout(e, c)
    \/ \E e \in Ids, b \in BOOLEAN : Deliver(e, b)
    \/ \E e \in Ids, b \in BOOLEAN, d \in {{}} \cup {{f} : f \in RequestFaults} : RelayPublish(e, b, d)
    \/ \E a \in acks : ReceiveAck(a)
    \/ \E r \in Replays, k \in {"HUMAN", "AGENT"}, b, o \in BOOLEAN : DeadLetterReplay(r, k, b, o)
    \/ \E m \in {"LIVE_SUPPRESSED_SIDE_EFFECTS", "LIVE_WITH_APPROVAL"}, b \in BOOLEAN,
          d \in {{}} \cup {{f} : f \in ReplayFaults} : StreamReplay(m, d, b)
    \/ WindowResets \/ RefillBudget \/ Fault

EventSpec == EventInit /\ [][EventNext]_eventVars

\* The host's delivery loop and its timers run, and the budget is refilled; a host
\* that is told to wait for it need not dead-letter.
AsksAgain(e) ==
    /\ EvaluateRetry(delivery[e].attempt, "RETRYABLE") # "BUDGET_EXCEEDED"
    /\ DeliveryTimeout(e, "RETRYABLE")
EventFairness ==
    /\ \A e \in Ids : WF_eventVars(Deliver(e, FALSE)) /\ WF_eventVars(AsksAgain(e))
    /\ WF_eventVars(RefillBudget)

----------------------------------------------------------------------------
(* Properties *)

EventTypeOK ==
    /\ claims \in [Keys -> Ids \cup {NoClaim}]
    /\ \A e \in Ids : /\ outbox[e].attempts \in 0..OutboxMaxAttempts
                      /\ delivery[e].attempt \in 0..MaxDeliveryAttempts
    /\ budget \in 0..RetryBudget /\ checkpoint \in 0..Len(stream)

\* However often the relay publishes, stops before marking, or races itself on
\* a stale version, a key is in the stream at most once, under its claim.
StoredOnce == \A i \in 1..Len(stream) :
    /\ claims[KeyOf[stream[i]]] = stream[i]
    /\ \A j \in 1..Len(stream) : KeyOf[stream[i]] = KeyOf[stream[j]] => i = j

\* Lost acknowledgements, retries and replays of the stream never make a
\* consumer act twice on one event identity, nor on one that is not stored.
EffectOncePerEvent == \A e \in Ids : /\ effects[e] <= 1
                                     /\ effects[e] = 1 => Stored(e)

\* What counts as acknowledged was processed by the subscribed consumer; a
\* late token or another consumer's acknowledgement settles nothing.
AckedIsProcessed == \A e \in Ids : delivery[e].status = "acked" => effects[e] = 1

\* A poison event never comes back under a new identity.
PoisonStaysBuried == \A r \in Replays : outbox[r].state # "none" => letters[ReplayOf[r]] \in 1..(PoisonThreshold - 1)

\* Acknowledgements applied out of order never move the checkpoint back; only
\* an approved replay does.
ForwardStep == checkpoint' < checkpoint => rewinds' = 2 /\ rewinds = 0
CheckpointForward == [][ForwardStep]_eventVars

\* Unless its consumer stays paused or revoked or retries stay suppressed, every
\* stored event is acknowledged, dead-lettered or, once expired, discarded (again
\* after a replay of the stream), whatever is lost and however often the retry
\* budget runs out.
StoredSettles == <>[](consumer = "active" /\ ~storm) => []<>(\A e \in Ids : Stored(e) => Settled(e))

\* "This event was already published (idempotent)" (publish.ts): what the
\* relay marks as published is in the stream.  It does not hold of the code
\* (README, section 5) and is part of no run.
PublishedIsStored == \A e \in Ids : outbox[e].state = "PUBLISHED" => Stored(e)

\* The event foundation's safety under stops, duplicates and lost answers: one
\* stored event per key, one effect per event, an acknowledgement only of what
\* was processed, and poison that no replay revives.
EventsSafe ==
    /\ EventTypeOK
    /\ StoredOnce
    /\ EffectOncePerEvent
    /\ AckedIsProcessed
    /\ PoisonStaysBuried
=============================================================================
