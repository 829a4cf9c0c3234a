------------------------------ MODULE ToolAccess ------------------------------
(* A governed tool call: the tenant boundary and the tool firewall decide     *)
(* whether it may run, the tool asks for a secret, which secret-access grants *)
(* by ticket and delivers into the sandbox, and its output is classified and  *)
(* scanned before it is released.  (tenant-boundary/src, tool-firewall/src,   *)
(* secret-access/src.)  The calls run concurrently and two of them may carry  *)
(* the same permit; between a decision and what it decides on, permits are    *)
(* spent, leases revoked and rotated, tools killed.                           *)
EXTENDS Requests

CONSTANTS Calls,            \* tool calls in flight
          ToolNonce,        \* [Calls -> the nonce of the tool permit it carries]
          SecretNonce,      \* [Calls -> the nonce of its secret permit]
          MaxAsked,         \* bound: concurrent deliveries of one ticket
          LeaseLife         \* when the lease (and so a ticket) expires

ASSUME ToolAccessAssumption == {MaxAsked, LeaseLife} \subseteq Nat

VARIABLES tenantState,  \* TenantLifecycleState
          tool,         \* registered | revoked | substituted
          killed,       \* InMemoryToolKillSwitch
          toolPhase,    \* [Calls -> where the call is]
          spentTool, spentSecret,     \* the nonces the permit stores hold
          lease,        \* [revoked, used, version]; used is what the host remembers
          rotation,     \* the current rotation version of the secret
          ticket,       \* [Calls -> none | offered | issued | consumed | refused]
          asked,        \* [Calls -> requests to the provider that are awaited]
          deliveries,   \* [Calls -> times the consumer saw the secret]
          ledgerUp, ledger,           \* SecretAuditLedger: calls granted
          output        \* [Calls -> what the output holds]

toolState == <<tenantState, tool, killed, toolPhase, spentTool, spentSecret, lease,
               rotation, ticket, asked, deliveries, ledgerUp, ledger, output>>
toolVars == <<now, toolState>>
hostVars == <<now, tenantState, tool, killed>>
secretVars == <<spentSecret, lease, rotation, ticket, asked, deliveries, ledgerUp, ledger>>

ToolAccessInit ==
    /\ tenantState = "ACTIVE" /\ tool = "registered" /\ killed = FALSE
    /\ toolPhase = [c \in Calls |-> "requested"] /\ spentTool = {} /\ spentSecret = {}
    /\ lease = [revoked |-> FALSE, used |-> FALSE, version |-> 1] /\ rotation = 1
    /\ ticket = [c \in Calls |-> "none"] /\ asked = [c \in Calls |-> 0]
    /\ deliveries = [c \in Calls |-> 0] /\ ledgerUp = TRUE /\ ledger = <<>>
    /\ output = [c \in Calls |-> "none"]

-----------------------------------------------------------------------------
(* The tenant boundary and the tool firewall *)

EvaluateTenantIsolation(d) ==
    FirstRefusal(<< Refuse(d, {"identifier missing"}, "TENANT_MISSING"),
                    Refuse(d, {"cross tenant"}, "CROSS_TENANT_DENIED"),
                    Refuse(d, {"organization"}, "ORGANIZATION_MISMATCH"),
                    Refuse(d, {"workspace"}, "WORKSPACE_MISMATCH"),
                    <<tenantState # "ACTIVE", "TENANT_NOT_ACCESSIBLE">> >>, "SCOPE_VALID")

EvaluateTenantIdentityBinding(d) ==
    FirstRefusal(<< Refuse(d, {"cross tenant"}, "ACTOR_TENANT_MISMATCH"),
                    Refuse(d, {"workspace"}, "ACTOR_WORKSPACE_MISMATCH") >>, "BOUND")

EvaluateDataResidency(d) ==
    FirstRefusal(<< Refuse(d, {"region unknown"}, "REGION_UNKNOWN"),
                    Refuse(d, {"cross region"}, "RESIDENCY_VIOLATION") >>, "RESIDENCY_OK")

EvaluateToolDescriptor(d) ==
    FirstRefusal(<< Refuse(d, {"unknown tool"}, "UNKNOWN_TOOL"),
                    Refuse(d, {"unregistered"}, "UNREGISTERED"),
                    <<tool = "revoked", "REVOKED">>,
                    Refuse(d, {"unsigned"}, "UNSIGNED_CONNECTOR_DENIED"),
                    Refuse(d, {"connector identity"}, "CONNECTOR_IDENTITY_MISMATCH"),
                    <<tool = "substituted", "TOOL_SUBSTITUTION_DENIED">> >>, "RESOLVED")

EvaluateKillSwitch == IF killed THEN "TOOL_KILLED" ELSE "ACTIVE"

EvaluateToolPermission(d) ==
    FirstRefusal(<< Refuse(d, {"wildcard"}, "WILDCARD_DENIED"),
                    Refuse(d, {"action"}, "ACTION_NOT_ALLOWED"),
                    Refuse(d, {"resource"}, "RESOURCE_NOT_ALLOWED"),
                    Refuse(d, {"syscall"}, "SYSCALL_DENIED") >>, "PERMITTED")

ValidateToolParameters(d) ==
    FirstRefusal(<< <<tool = "substituted", "SCHEMA_DIGEST_MISMATCH">>,
                    Refuse(d, {"unsafe keys"}, "PARAM_UNSAFE_KEYS"),
                    Refuse(d, {"too large"}, "PARAM_TOO_LARGE"),
                    Refuse(d, {"required missing"}, "PARAM_REQUIRED_MISSING"),
                    Refuse(d, {"parameter type"}, "PARAM_TYPE_MISMATCH") >>, "VALID")

\* evaluateToolPermitBinding; scope, actor, action, resource, tool and context
\* of the permit are compared one by one and refuse alike.
EvaluateToolPermitBinding(c, d) ==
    FirstRefusal(<< Refuse(d, {"no permit"}, "PERMIT_MISSING"),
                    Refuse(d, {"permit revoked"}, "PERMIT_REVOKED"),
                    Refuse(d, {"permit expired"}, "PERMIT_EXPIRED"),
                    <<ToolNonce[c] \in spentTool, "PERMIT_REPLAYED">>,
                    Refuse(d, {"permit binding"}, "CONTEXT_MISMATCH") >>, "BOUND")

EvaluateToolInvocation(c, d) ==
    FirstRefusal(<< <<EvaluateToolDescriptor(d) # "RESOLVED", "DESCRIPTOR_DENIED">>,
                    <<EvaluateKillSwitch # "ACTIVE", "KILLED">>,
                    <<EvaluateToolPermission(d) # "PERMITTED", "PERMISSION_DENIED">>,
                    <<ValidateToolParameters(d) # "VALID", "SCHEMA_DENIED">>,
                    Refuse(d, {"not approved"}, "APPROVAL_REQUIRED"),
                    <<EvaluateToolPermitBinding(c, d) # "BOUND", "PERMIT_DENIED">>,
                    Refuse(d, {"sandbox"}, "SANDBOX_DENIED"),
                    Refuse(d, {"audit down"}, "AUDIT_UNAVAILABLE") >>, "ALLOW_INVOKE")

ToolFaults == {"identifier missing", "cross tenant", "organization", "workspace", "region unknown",
               "cross region", "unknown tool", "unregistered", "unsigned", "connector identity",
               "wildcard", "action", "resource", "syscall", "unsafe keys", "too large",
               "required missing", "parameter type", "not approved", "no permit",
               "permit revoked", "permit expired", "permit binding", "sandbox", "audit down"}

DecideCall(c, d) ==
    /\ toolPhase[c] = "requested"
    /\ toolPhase' = [toolPhase EXCEPT ![c] =
           IF /\ EvaluateTenantIsolation(d) = "SCOPE_VALID" /\ EvaluateTenantIdentityBinding(d) = "BOUND"
              /\ EvaluateDataResidency(d) = "RESIDENCY_OK" /\ EvaluateToolInvocation(c, d) = "ALLOW_INVOKE"
           THEN "allowed" ELSE "denied"]
    /\ UNCHANGED <<hostVars, spentTool, secretVars, output>>

\* InMemoryToolPermitConsumer.consume: only the first of two calls that were
\* both allowed with one nonce goes on.
ConsumeToolPermit(c) ==
    /\ toolPhase[c] = "allowed"
    /\ toolPhase' = [toolPhase EXCEPT ![c] = IF ToolNonce[c] \in spentTool THEN "denied" ELSE "running"]
    /\ spentTool' = spentTool \cup {ToolNonce[c]}
    /\ UNCHANGED <<hostVars, secretVars, output>>

-----------------------------------------------------------------------------
(* Secret access *)

EvaluateSecretGrant(d) ==
    FirstRefusal(<< Refuse(d, {"no grant"}, "GRANT_MISSING"), Refuse(d, {"grant expired"}, "GRANT_EXPIRED"),
                    Refuse(d, {"wildcard"}, "WILDCARD_SCOPE_DENIED"), Refuse(d, {"cross tenant"}, "TENANT_MISMATCH"),
                    Refuse(d, {"workspace"}, "WORKSPACE_MISMATCH"), Refuse(d, {"actor"}, "ACTOR_MISMATCH"),
                    Refuse(d, {"purpose"}, "PURPOSE_MISMATCH"), Refuse(d, {"action"}, "ACTION_NOT_ALLOWED"),
                    Refuse(d, {"resource"}, "RESOURCE_NOT_ALLOWED") >>, "GRANTED")

\* evaluateAgentLimits: an agent needs a human co-signature for critical,
\* production or broad access.
EvaluateAgentLimits(d) == IF "agent not co-signed" \in d THEN "AGENT_PRODUCTION_DENIED" ELSE "ALLOWED"

EvaluateHumanApproval(d) ==
    FirstRefusal(<< Refuse(d, {"not approved"}, "APPROVAL_MISSING"), Refuse(d, {"approval revoked"}, "APPROVAL_REVOKED"),
                    Refuse(d, {"approval expired"}, "APPROVAL_EXPIRED"),
                    Refuse(d, {"approval context"}, "APPROVAL_CONTEXT_MISMATCH") >>, "APPROVED")

EvaluateSecretLease ==
    FirstRefusal(<< <<lease.revoked, "REVOKED">>, <<LeaseLife <= now, "EXPIRED">>,
                    <<lease.version # rotation, "ROTATED">>, <<lease.used, "EXHAUSTED">> >>, "ACTIVE")

EvaluateSecretPermit(c, d) ==
    FirstRefusal(<< Refuse(d, {"no permit"}, "PERMIT_MISSING"), Refuse(d, {"permit revoked"}, "PERMIT_REVOKED"),
                    Refuse(d, {"permit expired"}, "PERMIT_EXPIRED"),
                    <<SecretNonce[c] \in spentSecret, "PERMIT_REPLAYED">>,
                    Refuse(d, {"permit binding"}, "CONTEXT_MISMATCH") >>, "BOUND")

SecretFaults == {"plaintext", "no grant", "grant expired", "wildcard", "cross tenant", "workspace", "actor",
                 "purpose", "action", "resource", "agent not co-signed", "capability", "not approved",
                 "approval revoked", "approval expired", "approval context", "no permit",
                 "permit revoked", "permit expired", "permit binding", "sandbox"}

EvaluateSecretAccess(c, d) ==
    FirstRefusal(<< Refuse(d, {"plaintext"}, "PLAINTEXT_SUPPLIED"),
                    <<EvaluateSecretGrant(d) # "GRANTED", "GRANT_DENIED">>,
                    <<EvaluateAgentLimits(d) # "ALLOWED", "AGENT_LIMIT_DENIED">>,
                    Refuse(d, {"capability"}, "CAPABILITY_MISSING"),
                    <<EvaluateHumanApproval(d) # "APPROVED", "APPROVAL_DENIED">>,
                    <<EvaluateSecretLease # "ACTIVE", "LEASE_DENIED">>,
                    <<EvaluateSecretPermit(c, d) # "BOUND", "PERMIT_DENIED">>,
                    Refuse(d, {"sandbox"}, "SANDBOX_NOT_READY"),
                    <<~ledgerUp, "AUDIT_UNAVAILABLE">> >>, "ACCESS_GRANTED")

\* The decision and its record are one step; the ticket is only offered until
\* the host has spent the permit's nonce.
RequestSecret(c, d) ==
    LET granted == EvaluateSecretAccess(c, d) = "ACCESS_GRANTED"
    IN  /\ toolPhase[c] = "running" /\ ticket[c] = "none"
        /\ ticket' = [ticket EXCEPT ![c] = IF granted THEN "offered" ELSE "refused"]
        /\ ledger' = IF granted THEN Append(ledger, c) ELSE ledger
        /\ UNCHANGED <<hostVars, toolPhase, spentTool, spentSecret, lease, rotation, asked,
                       deliveries, ledgerUp, output>>

\* InMemorySecretPermitStore.consume: of two grants on one nonce the first goes on.
\* It asks nothing about the lease.
ConsumeSecretPermit(c) ==
    /\ ticket[c] = "offered"
    /\ ticket' = [ticket EXCEPT ![c] = IF SecretNonce[c] \in spentSecret THEN "refused" ELSE "issued"]
    /\ spentSecret' = spentSecret \cup {SecretNonce[c]}
    /\ UNCHANGED <<hostVars, toolPhase, spentTool, lease, rotation, asked, deliveries, ledgerUp, ledger, output>>

\* The host notes that the lease was used, some time after a ticket of it was
\* issued: leaseAlreadyUsed of the accesses it decides from then on.
MarkLeaseUsed ==
    /\ ~lease.used /\ \E c \in Calls : ticket[c] \in {"issued", "consumed"}
    /\ lease' = [lease EXCEPT !.used = TRUE]
    /\ UNCHANGED <<hostVars, toolPhase, spentTool, spentSecret, rotation, ticket, asked, deliveries,
                   ledgerUp, ledger, output>>

\* Variant that leaves the ticket usable while the provider is asked.
DeliverIntoSandboxLate(c) ==
    /\ toolPhase[c] = "running" /\ ticket[c] \in {"issued", "consumed"} /\ asked[c] < MaxAsked
    /\ IF LeaseLife <= now \/ ticket[c] = "consumed" THEN UNCHANGED <<ticket, asked>>
       ELSE /\ ticket' = ticket
            /\ asked' = [asked EXCEPT ![c] = @ + 1]
    /\ UNCHANGED <<hostVars, toolPhase, spentTool, spentSecret, lease, rotation, deliveries, ledgerUp, ledger, output>>

\* deliverIntoSandbox up to the await: the ticket is consumed before the
\* provider is asked, so a second delivery of it is refused from here on.
DeliverIntoSandbox(c) ==
    /\ toolPhase[c] = "running" /\ ticket[c] \in {"issued", "consumed"} /\ asked[c] < MaxAsked
    /\ IF LeaseLife <= now \/ ticket[c] = "consumed" THEN UNCHANGED <<ticket, asked>>
       ELSE /\ ticket' = [ticket EXCEPT ![c] = "consumed"]
            /\ asked' = [asked EXCEPT ![c] = @ + 1]
    /\ UNCHANGED <<hostVars, toolPhase, spentTool, spentSecret, lease, rotation, deliveries, ledgerUp, ledger, output>>

\* The provider answers with the secret, declines or fails; after a failure or
\* a refusal the tool may ask for the same ticket again.
Materialize(c, answer) ==
    /\ asked[c] > 0
    /\ asked' = [asked EXCEPT ![c] = @ - 1]
    /\ deliveries' = [deliveries EXCEPT ![c] = IF answer = "value" THEN @ + 1 ELSE @]
    /\ UNCHANGED <<hostVars, toolPhase, spentTool, spentSecret, lease, rotation, ticket, ledgerUp, ledger, output>>

-----------------------------------------------------------------------------
(* The output *)

\* The tool ends; what it returns may hold the secret it was handed, as a
\* recognisable key ("pattern") or as a bare value ("value").
ToolEnds(c, holds) ==
    /\ toolPhase[c] = "running" /\ asked[c] = 0
    /\ holds # "clean" => deliveries[c] > 0
    /\ toolPhase' = [toolPhase EXCEPT ![c] = "ended"] /\ output' = [output EXCEPT ![c] = holds]
    /\ UNCHANGED <<hostVars, spentTool, secretVars>>

\* evaluateToolOutputRelease blocks what classifyToolOutput saw a pattern in, if it
\* was given a preview; scanForSecretLeak reads the payload for patterns, and for
\* the delivered values if the host passes them.
ReleaseBlocked(c, preview, known) ==
    \/ preview /\ output[c] = "pattern"
    \/ output[c] = "pattern"
    \/ known /\ output[c] = "value"

ReleaseOutput(c, preview, known) ==
    /\ toolPhase[c] = "ended"
    /\ toolPhase' = [toolPhase EXCEPT ![c] = IF ReleaseBlocked(c, preview, known) THEN "blocked" ELSE "released"]
    /\ UNCHANGED <<hostVars, spentTool, secretVars, output>>

-----------------------------------------------------------------------------
(* What changes underneath *)

ToolWorldChanges ==
    /\ tenantState = "ACTIVE" /\ tool = "registered" /\ ~killed /\ ledgerUp /\ ~lease.revoked /\ rotation = 1
    /\ \/ tenantState' = "SUSPENDED" /\ UNCHANGED <<tool, killed, lease, rotation, ledgerUp>>
       \/ tool' \in {"revoked", "substituted"} /\ UNCHANGED <<tenantState, killed, lease, rotation, ledgerUp>>
       \/ killed' = TRUE /\ UNCHANGED <<tenantState, tool, lease, rotation, ledgerUp>>
       \/ lease' = [lease EXCEPT !.revoked = TRUE] /\ UNCHANGED <<tenantState, tool, killed, rotation, ledgerUp>>
       \/ rotation' = 2 /\ UNCHANGED <<tenantState, tool, killed, lease, ledgerUp>>
       \/ ledgerUp' = FALSE /\ UNCHANGED <<tenantState, tool, killed, lease, rotation>>
    /\ UNCHANGED <<now, toolPhase, spentTool, spentSecret, ticket, asked, deliveries, ledger, output>>

ToolTick == Tick /\ UNCHANGED <<tenantState, tool, killed, toolPhase, spentTool, secretVars, output>>

ToolSteps ==
    \/ \E c \in Calls :
          \/ \E d \in AtMostOne(ToolFaults) : DecideCall(c, d)
          \/ \E d \in AtMostOne(SecretFaults) : RequestSecret(c, d)
          \/ ConsumeToolPermit(c) \/ ConsumeSecretPermit(c) \/ DeliverIntoSandbox(c)
          \/ \E a \in {"value", "null", "throws"} : Materialize(c, a)
          \/ \E h \in {"clean", "pattern", "value"} : ToolEnds(c, h)
          \/ \E preview, known \in BOOLEAN : ReleaseOutput(c, preview, known)
    \/ MarkLeaseUsed
    \/ ToolWorldChanges
    \/ ToolTick

ToolSpec == now = 0 /\ ToolAccessInit /\ [][ToolSteps]_toolVars

-----------------------------------------------------------------------------

\* Calls and tickets are at one of their known stages.
ToolAccessTypeOK ==
    /\ toolPhase \in [Calls -> {"requested", "allowed", "running", "ended", "released", "blocked", "denied"}]
    /\ ticket \in [Calls -> {"none", "offered", "issued", "consumed", "refused"}]
    /\ deliveries \in [Calls -> 0..3]

\* Calls that carry the same permit, decided at the same time, run once: the
\* check of the seen nonces is not what protects, the consumption is
\* (tool-firewall/src/reference.ts:26).
RunsOncePerPermit ==
    \A n \in {ToolNonce[c] : c \in Calls} :
        Cardinality({c \in Calls : ToolNonce[c] = n /\ toolPhase[c] \in {"running", "ended", "released", "blocked"}}) <= 1

\* A secret permit puts the secret into one sandbox once, over all calls that carry
\* it, concurrent deliveries of one ticket and retries after the provider failed
\* (sandbox-delivery.ts:55, secret-access/src/reference.ts:10).
DeliveredOnce ==
    /\ \A c \in Calls : deliveries[c] <= 1
    /\ \A b, c \in Calls : SecretNonce[b] = SecretNonce[c] /\ deliveries[b] > 0 /\ deliveries[c] > 0 => b = c

\* lease.ts:2: "Leases are short-lived, single-use where critical".  It does not hold
\* of the code: the lease is looked at when an access is decided and never claimed, so
\* two accesses with a permit each, both decided before the host notes the use, both
\* deliver (README, section 5).  It is part of no run.
LeaseUsedOnce == \A b, c \in Calls : deliveries[b] > 0 /\ deliveries[c] > 0 => b = c

\* No secret is delivered that the ledger has not recorded first, even when the
\* ledger fails in between (access.ts:157).
DeliveryRecorded == \A c \in Calls : deliveries[c] > 0 => \E i \in DOMAIN ledger : ledger[i] = c

\* A lease that is revoked, rotated, run out or noted as used before the access is
\* decided yields no ticket: what a delivery can miss is what happened after its
\* decision.
NoTicketFromDeadLease ==
    \A c \in Calls : (ticket'[c] = "offered" /\ ticket[c] = "none")
        => ~lease.revoked /\ ~lease.used /\ lease.version = rotation /\ LeaseLife > now

\* The calls that are allowed to run, or running.
MayRun == {c \in Calls : toolPhase[c] \in {"allowed", "running"}}

\* From the moment a tool is killed no call joins those that may run.  A call that
\* was allowed before still consumes its permit and runs: the kill switch is read by
\* the decision only (tool-firewall/src/invocation.ts:92).
KillStops == killed => MayRun' \subseteq MayRun

\* A tool permit runs once, and a secret permit delivers once and only with a record.
ToolAccessSafe ==
    /\ ToolAccessTypeOK
    /\ RunsOncePerPermit
    /\ DeliveredOnce
    /\ DeliveryRecorded
=============================================================================
