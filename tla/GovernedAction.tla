--------------------------- MODULE GovernedAction ---------------------------
(***************************************************************************)
(* A governed agent action from the governance decision to its effect:      *)
(* evaluateGovernancePipeline mints a permit, evaluateGovernedAgentAction   *)
(* registers it and mints a ticket, and ReferenceExecutionEngine.execute    *)
(* spends the permit, asks the sandbox, runs the executor and records the   *)
(* outcome.                                                                 *)
(*                                                                          *)
(* The three are separate calls: a pipeline result may be evaluated more    *)
(* than once, a ticket may be executed more than once, and an execute()     *)
(* suspends at sandbox.admit and at executor.run while others proceed.      *)
(* Every evaluation between two awaits is one step.                         *)
(***************************************************************************)
EXTENDS Integers, Sequences, FiniteSets

CONSTANTS
    Decision,        \* pipeline results, each with its permit if it has one
    Context,         \* context hashes
    Tenant,
    TenantOf,        \* the tenant a context hash was computed over
    Stages,          \* the PipelineStageInputs the callers supply
    Approver,
    Human,           \* approvers of a human kind
    Qualified,       \* approvers with step-up and assurance
    Requester,       \* requesterPrincipalId of the approval request
    Quorum,          \* distinct humans required, break-glass included
    BoundContext,    \* contextHash of the approval request
    ApprovalExpiry,  \* its expiresAt
    Submissions,     \* sets of approvers a caller submits
    Action,          \* agent actions, each evaluated once
    Capability,
    Call,            \* invocations of execute()
    PermitTtl,       \* permitTtlMs
    MaxTime,         \* bound on the clock
    None

Screen == {"PASS", "QUARANTINE", "STEP_UP_REQUIRED", "BLOCK"}

\* Refusals that have one effect on the decision are one value.
StageInput == [readiness : {"READY", "NOT_READY"},
               identityRevoked : BOOLEAN, identityVerified : BOOLEAN,
               tenantMatches : BOOLEAN, contextKnown : BOOLEAN,
               capability : {"GRANTED", "MISSING"},
               authorization : {"AUTHORIZED", "DENIED", "RISK_TOO_HIGH",
                                "STEP_UP_REQUIRED"},
               policy : {"ALLOW", "DENY", "POLICY_CONFLICT"},
               riskLevel : {"LOW", "HIGH", "CRITICAL", "UNKNOWN"},
               approvalRequired : BOOLEAN]

ASSUME GovernedAssumption ==
    /\ IsFiniteSet(Call)
    /\ TenantOf \in [Context -> Tenant]
    /\ Stages \subseteq StageInput
    /\ Human \subseteq Approver
    /\ Qualified \subseteq Approver
    /\ Submissions \subseteq SUBSET Approver
    /\ Requester \in Approver
    /\ BoundContext \in Context
    /\ {Quorum, ApprovalExpiry, PermitTtl, MaxTime} \subseteq Nat
    /\ None \notin Action \cup Decision \cup Context

VARIABLES
    now,          \* the callers' clock
    approval,     \* the state of the approval request
    result,       \* pipeline results
    registered,   \* permits in GovernancePermitStore.#permits
    spent,        \* permits whose nonce is in #seenNonces
    ticket,       \* the ExecutionTicket minted for an action
    allowed,      \* ReferenceSandbox.#allowed
    writable,     \* the execution audit sink's #writable
    pc,           \* where each execute() is
    presented,    \* the action whose ticket it was given
    startedAt,    \* its now parameter
    admitted,     \* the answer of sandbox.admit, decided when it is called
    ran,          \* calls that invoked executor.run
    outcome,      \* the ExecutionOutcome of the answered ones
    log           \* the audit sink's records, in order of append

decisionVars == <<approval, result>>
ticketVars == <<registered, ticket>>
callVars == <<pc, presented, startedAt, admitted, ran, outcome>>
vars == <<now, decisionVars, ticketVars, spent, allowed, writable, callVars, log>>

GovernanceOutcome == {"ALLOW", "DENY", "STEP_UP_REQUIRED", "APPROVAL_REQUIRED",
    "CAPABILITY_MISSING", "POLICY_CONFLICT", "RISK_TOO_HIGH",
    "CONTEXT_MISMATCH", "REVOKED", "SYSTEM_NOT_READY"}

ExecutionOutcome == {"EXECUTED", "TICKET_CONTEXT_MISMATCH", "PERMIT_REJECTED",
    "SANDBOX_DENIED", "AUDIT_UNAVAILABLE", "HANDLER_FAILED"}

Event == {"execution_completed", "execution_failed", "execution_denied"}

\* An ExecutionPermit, with the inputs of the decision that minted it.
Permit == [context : Context, issuedAt : Nat, expiresAt : Nat,
           stages : Stages, approvers : Submissions]

NoPermit == [context |-> None]

Result == [outcome : GovernanceOutcome, permit : Permit \cup {NoPermit}]

NoResult == [outcome |-> "none", permit |-> NoPermit]

NoTicket == [permit |-> None]

Ticket == [permit : Decision, context : Context, tenant : Tenant]

\* Variables have the shapes of the code's types; a spent permit is registered,
\* a registered one was minted, and a started call has a real ticket.
TypeOK ==
    /\ now \in 0..MaxTime
    /\ approval \in [revoked : BOOLEAN, consumed : BOOLEAN]
    /\ result \in [Decision -> Result \cup {NoResult}]
    /\ \A d \in registered : result[d].permit \in Permit
    /\ registered \subseteq Decision
    /\ spent \subseteq registered
    /\ ticket \in [Action -> Ticket \cup {NoTicket}]
    /\ allowed \subseteq Capability
    /\ writable \in BOOLEAN
    /\ pc \in [Call -> {"idle", "admitting", "running", "answered", "threw"}]
    /\ presented \in [Call -> Action \cup {None}]
    /\ \A k \in Call : pc[k] # "idle" =>
           presented[k] \in Action /\ ticket[presented[k]] \in Ticket
    /\ startedAt \in [Call -> 0..MaxTime]
    /\ admitted \in [Call -> BOOLEAN]
    /\ ran \subseteq {k \in Call : pc[k] # "idle"}
    /\ outcome \in [Call -> ExecutionOutcome \cup {"none"}]
    /\ log \in Seq([permit : Decision, event : Event])

Init ==
    /\ now = 0
    /\ approval = [revoked |-> FALSE, consumed |-> FALSE]
    /\ result = [d \in Decision |-> NoResult]
    /\ registered = {}
    /\ spent = {}
    /\ ticket = [a \in Action |-> NoTicket]
    /\ allowed = {}
    /\ writable = TRUE
    /\ pc = [k \in Call |-> "idle"]
    /\ presented = [k \in Call |-> None]
    /\ startedAt = [k \in Call |-> 0]
    /\ admitted = [k \in Call |-> FALSE]
    /\ ran = {}
    /\ outcome = [k \in Call |-> "none"]
    /\ log = <<>>

(***************************************************************************)
(* The decision.  evaluateApproval tells many refusals apart; to the        *)
(* pipeline only APPROVED differs.                                          *)
(***************************************************************************)

AcceptableApprover(a) == a \in Human /\ a # Requester /\ a \in Qualified

Approved(context, approvers) ==
    /\ ~approval.revoked
    /\ ~approval.consumed
    /\ now < ApprovalExpiry
    /\ context = BoundContext
    /\ approvers # {}
    /\ \A a \in approvers : AcceptableApprover(a)
    /\ Cardinality(approvers) >= Quorum

\* The first blocking stage decides.
PipelineOutcome(s, isApproved) ==
    IF s.readiness # "READY" THEN "SYSTEM_NOT_READY"
    ELSE IF s.identityRevoked THEN "REVOKED"
    ELSE IF ~(s.identityVerified /\ s.tenantMatches /\ s.contextKnown)
         THEN "CONTEXT_MISMATCH"
    ELSE IF s.capability # "GRANTED" THEN "CAPABILITY_MISSING"
    ELSE IF s.authorization \in {"RISK_TOO_HIGH", "STEP_UP_REQUIRED"}
         THEN s.authorization
    ELSE IF s.authorization # "AUTHORIZED" THEN "DENY"
    ELSE IF s.policy = "POLICY_CONFLICT" THEN "POLICY_CONFLICT"
    ELSE IF s.policy # "ALLOW" THEN "DENY"
    ELSE IF s.riskLevel \in {"CRITICAL", "UNKNOWN"} THEN "RISK_TOO_HIGH"
    ELSE IF s.approvalRequired /\ ~isApproved THEN "APPROVAL_REQUIRED"
    ELSE IF ~writable THEN "SYSTEM_NOT_READY"
    ELSE "ALLOW"

ExpiresAt == now + (IF PermitTtl < 1 THEN 1 ELSE PermitTtl)

\* evaluateGovernancePipeline for decision d.  A decision that is not ALLOW
\* carries no permit; where no approval is required nobody is asked.
Decide(d, context, s, approvers) ==
    /\ result[d] = NoResult
    /\ s.approvalRequired \/ approvers = {}
    /\ LET o == PipelineOutcome(s, Approved(context, approvers))
           permit == [context |-> context, issuedAt |-> now,
                      expiresAt |-> ExpiresAt, stages |-> s,
                      approvers |-> approvers]
       IN  result' = [result EXCEPT ![d] =
               [outcome |-> o, permit |-> IF o = "ALLOW" THEN permit ELSE NoPermit]]
    /\ UNCHANGED <<now, approval, ticketVars, spent, allowed, writable, callVars, log>>

\* Whoever keeps the approval request revokes it or marks it consumed.
RevokeApproval ==
    /\ approval' = [approval EXCEPT !.revoked = TRUE]
    /\ UNCHANGED <<now, result, ticketVars, spent, allowed, writable, callVars, log>>

MarkConsumed ==
    /\ approval' = [approval EXCEPT !.consumed = TRUE]
    /\ UNCHANGED <<now, result, ticketVars, spent, allowed, writable, callVars, log>>

(***************************************************************************)
(* The agent's side.  adaptGovernanceGate registers the permit before the   *)
(* screen is looked at, so a permit may be in the store without a ticket.   *)
(* The ticket's tenant is the agent's own, its context the decision's.      *)
(***************************************************************************)

GateAllows(d) == result[d].outcome = "ALLOW" /\ result[d].permit # NoPermit

Register(d) == registered' = IF GateAllows(d) THEN registered \cup {d} ELSE registered

MintTicket(a, d, tenant, screen) ==
    ticket' = IF screen = "PASS" /\ GateAllows(d) /\ writable
              THEN [ticket EXCEPT ![a] = [permit |-> d, tenant |-> tenant,
                                          context |-> result[d].permit.context]]
              ELSE ticket

EvaluateAgentAction(a, d, tenant, screen) ==
    /\ result[d] # NoResult
    /\ ticket[a] = NoTicket
    /\ Register(d)
    /\ MintTicket(a, d, tenant, screen)
    /\ UNCHANGED <<now, decisionVars, spent, allowed, writable, callVars, log>>

(***************************************************************************)
(* The execution.                                                           *)
(***************************************************************************)

\* Mutant of Consumable: the nonce is not looked up.
ConsumableReplayed(t) ==
    /\ t.permit \in registered
    /\ now < result[t.permit].permit.expiresAt
    /\ t.tenant = TenantOf[result[t.permit].permit.context]
    /\ t.context = result[t.permit].permit.context

\* GovernancePermitStore.consume answers CONSUMED.
Consumable(t) ==
    /\ t.permit \in registered
    /\ t.permit \notin spent
    /\ now < result[t.permit].permit.expiresAt
    /\ t.tenant = TenantOf[result[t.permit].permit.context]
    /\ t.context = result[t.permit].permit.context

Spend(t) == spent' = spent \cup {t.permit}

\* evaluateExecutionGate; a call that failed an earlier stage never reaches a
\* later one, whose input then is FALSE.
ExecutionGate(contextMatch, consumed, sandboxAdmitted, auditWritable, handlerThrew) ==
    IF ~contextMatch THEN "TICKET_CONTEXT_MISMATCH"
    ELSE IF ~consumed THEN "PERMIT_REJECTED"
    ELSE IF ~sandboxAdmitted THEN "SANDBOX_DENIED"
    ELSE IF ~auditWritable THEN "AUDIT_UNAVAILABLE"
    ELSE IF handlerThrew THEN "HANDLER_FAILED"
    ELSE "EXECUTED"

\* Mutant of EventOf: a denied execution is recorded as completed.
EventOfLax(o) == IF o = "HANDLER_FAILED" THEN "execution_failed"
                 ELSE "execution_completed"

EventOf(o) == IF o = "EXECUTED" THEN "execution_completed"
              ELSE IF o = "HANDLER_FAILED" THEN "execution_failed"
              ELSE "execution_denied"

\* The end of execute(): the outcome is appended if the sink is writable now.
Answer(k, t, o) ==
    /\ pc' = [pc EXCEPT ![k] = "answered"]
    /\ outcome' = [outcome EXCEPT ![k] = o]
    /\ log' = IF writable THEN Append(log, [permit |-> t.permit, event |-> EventOf(o)])
              ELSE log

\* execute() up to sandbox.admit.  seen: the caller's seenTicketNonces has the
\* ticket.
Present(k, a) ==
    /\ pc[k] = "idle"
    /\ ticket[a] # NoTicket
    /\ presented' = [presented EXCEPT ![k] = a]
    /\ startedAt' = [startedAt EXCEPT ![k] = now]

Refused(k, a, context, seen) ==
    /\ Present(k, a)
    /\ ticket[a].context = context => seen \/ ~Consumable(ticket[a])
    /\ Answer(k, ticket[a],
              ExecutionGate(ticket[a].context = context, FALSE, FALSE, FALSE, FALSE))
    /\ UNCHANGED <<now, decisionVars, ticketVars, spent, allowed, writable, admitted, ran>>

Consumed(k, a, context, seen, capability) ==
    /\ Present(k, a)
    /\ ticket[a].context = context
    /\ ~seen
    /\ Consumable(ticket[a])
    /\ Spend(ticket[a])
    /\ pc' = [pc EXCEPT ![k] = "admitting"]
    /\ admitted' = [admitted EXCEPT ![k] = capability \in allowed]
    /\ UNCHANGED <<now, decisionVars, ticketVars, allowed, writable, ran, outcome, log>>

\* Mutant of RunExecutor: the sink is not looked at again after the await.
RunExecutorUnchecked(k) ==
    /\ pc[k] = "admitting"
    /\ admitted[k]
    /\ pc' = [pc EXCEPT ![k] = "running"]
    /\ ran' = ran \cup {k}
    /\ UNCHANGED <<now, decisionVars, ticketVars, spent, allowed, writable, presented,
                   startedAt, admitted, outcome, log>>

\* sandbox.admit resolves: the executor is invoked, or the call is answered.
RunExecutor(k) ==
    /\ pc[k] = "admitting"
    /\ admitted[k]
    /\ writable
    /\ pc' = [pc EXCEPT ![k] = "running"]
    /\ ran' = ran \cup {k}
    /\ UNCHANGED <<now, decisionVars, ticketVars, spent, allowed, writable, presented,
                   startedAt, admitted, outcome, log>>

NotAdmitted(k) ==
    /\ pc[k] = "admitting"
    /\ ~(admitted[k] /\ writable)
    /\ Answer(k, ticket[presented[k]],
              ExecutionGate(TRUE, TRUE, admitted[k], FALSE, FALSE))
    /\ UNCHANGED <<now, decisionVars, ticketVars, spent, allowed, writable, presented,
                   startedAt, admitted, ran>>

\* A sandbox adapter that rejects: nothing catches it, execute() rejects.
AdmitThrows(k) ==
    /\ pc[k] = "admitting"
    /\ pc' = [pc EXCEPT ![k] = "threw"]
    /\ UNCHANGED <<now, decisionVars, ticketVars, spent, allowed, writable, presented,
                   startedAt, admitted, ran, outcome, log>>

\* executor.run resolves, with or without ok, or rejects.
ExecutorReturns(k, handlerThrew) ==
    /\ pc[k] = "running"
    /\ Answer(k, ticket[presented[k]],
              ExecutionGate(TRUE, TRUE, TRUE, TRUE, handlerThrew))
    /\ UNCHANGED <<now, decisionVars, ticketVars, spent, allowed, writable, presented,
                   startedAt, admitted, ran>>

(***************************************************************************)
(* The environment.                                                         *)
(***************************************************************************)

Allow(capability) ==
    /\ allowed' = allowed \cup {capability}
    /\ UNCHANGED <<now, decisionVars, ticketVars, spent, writable, callVars, log>>

SetWritable(v) ==
    /\ writable' = v
    /\ UNCHANGED <<now, decisionVars, ticketVars, spent, allowed, callVars, log>>

Tick ==
    /\ now < MaxTime
    /\ now' = now + 1
    /\ UNCHANGED <<decisionVars, ticketVars, spent, allowed, writable, callVars, log>>

Execute(k) ==
    \/ \E a \in Action, context \in Context, seen \in BOOLEAN :
           \/ Refused(k, a, context, seen)
           \/ \E capability \in Capability : Consumed(k, a, context, seen, capability)
    \/ RunExecutor(k)
    \/ NotAdmitted(k)
    \/ AdmitThrows(k)
    \/ \E handlerThrew \in BOOLEAN : ExecutorReturns(k, handlerThrew)

Next ==
    \/ \E d \in Decision, context \in Context, s \in Stages, approvers \in Submissions :
           Decide(d, context, s, approvers)
    \/ \E a \in Action, d \in Decision, tenant \in Tenant, screen \in Screen :
           EvaluateAgentAction(a, d, tenant, screen)
    \/ \E k \in Call : Execute(k)
    \/ RevokeApproval
    \/ MarkConsumed
    \/ \E capability \in Capability : Allow(capability)
    \/ \E v \in BOOLEAN : SetWritable(v)
    \/ Tick

Spec == Init /\ [][Next]_vars

(***************************************************************************)
(* Properties.                                                              *)
(***************************************************************************)

PermitOf(k) == ticket[presented[k]].permit

\* A permit is behind at most one effect: GovernancePermitStore.consume spends
\* it before execute() suspends, so neither a pipeline result evaluated twice
\* nor a ticket executed twice, in any interleaving, runs the executor again.
EffectOnce ==
    \A k, l \in ran : PermitOf(k) = PermitOf(l) => k = l

\* Every mandatory stage, whatever the order they are looked at.
AllPositive(s) ==
    /\ s.readiness = "READY"
    /\ ~s.identityRevoked
    /\ s.identityVerified /\ s.tenantMatches /\ s.contextKnown
    /\ s.capability = "GRANTED"
    /\ s.authorization = "AUTHORIZED"
    /\ s.policy = "ALLOW"
    /\ s.riskLevel \notin {"CRITICAL", "UNKNOWN"}

\* An effect rests on a decision with every stage positive, for the tenant and
\* the context of the ticket, whose permit had not expired when execute() was
\* called: nothing between pipeline, bridge and engine widens a permit.
EffectAuthorised ==
    \A k \in ran :
        LET t == ticket[presented[k]]
            p == result[t.permit].permit
        IN  /\ p \in Permit
            /\ AllPositive(p.stages)
            /\ t.tenant = TenantOf[p.context]
            /\ startedAt[k] \in p.issuedAt..(p.expiresAt - 1)

\* An effect whose action required an approval has behind it a quorum of
\* distinct humans, the requester not among them, for its own context
\* (evaluateApproval), and was decided before the approval expired.
HumanQuorum ==
    \A k \in ran :
        LET p == result[PermitOf(k)].permit
        IN  p.stages.approvalRequired =>
                /\ Cardinality((p.approvers \cap Human) \ {Requester}) >= Quorum
                /\ p.approvers \subseteq Human
                /\ p.context = BoundContext
                /\ p.issuedAt < ApprovalExpiry

\* The audit chain tells the truth about effects: a permit has at most one
\* completed or failed record, it has one only if its effect ran, and it is
\* the record of the outcome that was answered.
LogTruth ==
    LET EffectRecords(d) ==
            {i \in DOMAIN log : log[i].permit = d /\ log[i].event # "execution_denied"}
    IN  \A d \in Decision :
            /\ Cardinality(EffectRecords(d)) <= 1
            /\ \A i \in EffectRecords(d) : \E k \in ran :
                   /\ PermitOf(k) = d
                   /\ pc[k] = "answered"
                   /\ (log[i].event = "execution_completed") = (outcome[k] = "EXECUTED")

\* The executor is invoked only while the sink is writable and on a permit the
\* store has already spent: the check behind the sandbox's await is a fresh one.
AuditBeforeEffect ==
    [][\A k \in Call : pc'[k] = "running" /\ pc[k] # "running" =>
           writable /\ PermitOf(k) \in spent]_vars

\* Every effect execute() has is the only one of its permit, rests on an unexpired,
\* all-positive decision and, where one was required, on a quorum of other humans.
GovernedSafe ==
    /\ TypeOK
    /\ EffectOnce
    /\ EffectAuthorised
    /\ HumanQuorum
=============================================================================
