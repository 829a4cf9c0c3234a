------------------------------ MODULE Pipeline ------------------------------
(***************************************************************************)
(* SecureExecutionPipeline.run and evaluateFinalGate: concurrent requests   *)
(* that share the permit replay store, the approval store and the audit     *)
(* sink.                                                                    *)
(*                                                                          *)
(* A run reads the trusted clock once, at its start, and passes every gate  *)
(* up to the claim of its permit without an await; the claim, the executor  *)
(* and the audit record are awaited.  The gates that look at the request    *)
(* alone (edge, identity, bindings, context, authorization, policy, step-up,*)
(* isolation) are inputs: a request passes them or is denied by one.        *)
(*                                                                          *)
(* The members of Direct call the exported evaluateFinalGate themselves,    *)
(* with a serialized permit that an earlier run was issued.                 *)
(***************************************************************************)
EXTENDS Integers, FiniteSets

CONSTANTS
    Run,             \* requests, each used once
    Direct,          \* presentations of an issued permit to the final gate
    Permit,
    PermitOf,        \* the permit a run is issued, or a member of Direct presents
    Approval,
    NoApproval,
    ApprovalOf,      \* the ApprovalReference in the request
    Required,        \* critical action, or the policy requires approval
    ApprovalExpiry,  \* expiresAt of each approval
    PermitTtl,       \* permitTtlMs
    ClaimMayFail,    \* the replay store is a remote one: it may refuse or throw
    AuditMayFail,    \* the audit sink is a durable one and may reject
    MaxTime          \* bound on the clock

ASSUME PipelineAssumption ==
    /\ IsFiniteSet(Run)
    /\ Direct \subseteq Run
    /\ PermitOf \in [Run -> Permit]
    /\ \A r, s \in Run \ Direct : PermitOf[r] = PermitOf[s] => r = s
    /\ NoApproval \notin Approval
    /\ ApprovalOf \in [Run -> Approval \cup {NoApproval}]
    /\ Required \subseteq Run
    /\ ApprovalExpiry \in [Approval -> Nat]
    /\ PermitTtl \in Nat \ {0}
    /\ MaxTime \in Nat
    /\ {ClaimMayFail, AuditMayFail} \subseteq BOOLEAN

VARIABLES
    pc,           \* where each run is
    clock,        \* the time each run captured
    outcome,      \* its AuditOutcome once decided
    permitExpiry, \* expiresAt of the issued permits, 0 before
    claimed,      \* permits in the replay store
    consumed,     \* approvals consumed in the approval store
    executed,     \* runs whose executor was invoked
    trail,        \* audit records <<run, outcome>>
    now           \* the trusted clock

pipelineVars == <<pc, clock, outcome, permitExpiry, claimed, consumed,
                  executed, trail, now>>

PC == {"idle",
       "claiming",  \* the claim is on its way to the replay store
       "claimed", "replayed", "rejected",  \* its answer is on its way back
       "executing", \* awaits the executor
       "auditing",  \* awaits the audit sink
       "returned",
       "threw"}     \* the replay store or the audit sink did

\* "DENIED" also stands for CONTEXT_ERROR and RUNTIME_REJECTED, which end a run
\* in the same way.
AuditOutcome == {"DENIED", "PENDING_APPROVAL", "STEP_UP_REQUIRED",
                 "REPLAY_REJECTED", "VERIFIED", "VERIFICATION_FAILED"}

PipelineTypeOK ==
    /\ pc \in [Run -> PC]
    /\ clock \in [Run -> Nat]
    /\ outcome \in [Run -> AuditOutcome \cup {"none"}]
    /\ permitExpiry \in [Permit -> Nat]
    /\ claimed \subseteq Permit
    /\ consumed \subseteq Approval
    /\ executed \subseteq Run
    /\ trail \subseteq Run \X AuditOutcome
    /\ now \in Nat

PipelineInit ==
    /\ pc = [r \in Run |-> "idle"]
    /\ clock = [r \in Run |-> 0]
    /\ outcome = [r \in Run |-> "none"]
    /\ permitExpiry = [p \in Permit |-> 0]
    /\ claimed = {}
    /\ consumed = {}
    /\ executed = {}
    /\ trail = {}
    /\ now = 0

-----------------------------------------------------------------------------
(* From the request to the claim *)

\* evaluateApprovalGate at time t, up to the bindings of the reference.
ApprovalValid(r, t) ==
    r \in Required => /\ ApprovalOf[r] # NoApproval
                      /\ ApprovalExpiry[ApprovalOf[r]] > t

\* What a denied request may be answered: any gate before approval may deny
\* it; a missing, expired or weak approval has an outcome of its own; the
\* isolation boundary and the production guards reject.
DenialOutcome(r) ==
    {"DENIED"}
    \cup (IF r \in Required /\ ApprovalOf[r] = NoApproval THEN {"PENDING_APPROVAL"} ELSE {})
    \cup (IF r \in Required /\ ApprovalValid(r, now) THEN {"STEP_UP_REQUIRED"} ELSE {})

\* #finish with a denial: the record is awaited before the answer.
DenyRequest(r) ==
    /\ pc[r] = "idle"
    /\ r \notin Direct
    /\ \E o \in DenialOutcome(r) : outcome' = [outcome EXCEPT ![r] = o]
    /\ pc' = [pc EXCEPT ![r] = "auditing"]
    /\ clock' = [clock EXCEPT ![r] = now]
    /\ UNCHANGED <<permitExpiry, claimed, consumed, executed, trail, now>>

\* Mutant: the approval gate consumes the approval it finds valid.
IssuePermitConsumes(r) ==
    /\ pc[r] = "idle"
    /\ r \notin Direct
    /\ ApprovalValid(r, now)
    /\ consumed' = IF r \in Required THEN consumed \cup {ApprovalOf[r]} ELSE consumed
    /\ permitExpiry' = [permitExpiry EXCEPT ![PermitOf[r]] = now + PermitTtl]
    /\ pc' = [pc EXCEPT ![r] = "claiming"]
    /\ clock' = [clock EXCEPT ![r] = now]
    /\ UNCHANGED <<outcome, claimed, executed, trail, now>>

\* Every gate passes: a fresh permit is issued, verified and sent to be claimed.
IssuePermit(r) ==
    /\ pc[r] = "idle"
    /\ r \notin Direct
    /\ ApprovalValid(r, now)
    /\ permitExpiry' = [permitExpiry EXCEPT ![PermitOf[r]] = now + PermitTtl]
    /\ pc' = [pc EXCEPT ![r] = "claiming"]
    /\ clock' = [clock EXCEPT ![r] = now]
    /\ UNCHANGED <<outcome, claimed, consumed, executed, trail, now>>

Start(r) == DenyRequest(r) \/ IssuePermit(r)

\* evaluateFinalGate on an issued permit: verifyPermit refuses an expired one.
PresentPermit(r) ==
    /\ pc[r] = "idle"
    /\ r \in Direct
    /\ permitExpiry[PermitOf[r]] > 0
    /\ clock' = [clock EXCEPT ![r] = now]
    /\ IF permitExpiry[PermitOf[r]] > now
       THEN /\ pc' = [pc EXCEPT ![r] = "claiming"]
            /\ UNCHANGED outcome
       ELSE /\ pc' = [pc EXCEPT ![r] = "returned"]
            /\ outcome' = [outcome EXCEPT ![r] = "DENIED"]
    /\ UNCHANGED <<permitExpiry, claimed, consumed, executed, trail, now>>

-----------------------------------------------------------------------------
(* The final gate *)

\* replayStore.claim: atomic put-if-absent by permit id.
Claim(r) ==
    /\ pc[r] = "claiming"
    /\ pc' = [pc EXCEPT ![r] =
            IF PermitOf[r] \in claimed THEN "replayed" ELSE "claimed"]
    /\ claimed' = claimed \cup {PermitOf[r]}
    /\ UNCHANGED <<clock, outcome, permitExpiry, consumed, executed, trail, now>>

\* A remote store refuses the claim, or its call fails and nobody catches it.
ClaimFails(r) ==
    /\ ClaimMayFail
    /\ pc[r] = "claiming"
    /\ \E end \in {"rejected", "threw"} : pc' = [pc EXCEPT ![r] = end]
    /\ UNCHANGED <<clock, outcome, permitExpiry, claimed, consumed, executed, trail, now>>

\* A decided run goes to the audit sink; a direct caller of the gate has no
\* sink and gets its answer.
Decide(r, o) ==
    /\ outcome' = [outcome EXCEPT ![r] = o]
    /\ pc' = [pc EXCEPT ![r] = IF r \in Direct THEN "returned" ELSE "auditing"]

RefuseClaim(r) ==
    /\ \/ pc[r] = "replayed" /\ Decide(r, "REPLAY_REJECTED")
       \/ pc[r] = "rejected" /\ Decide(r, "DENIED")
    /\ UNCHANGED <<clock, permitExpiry, claimed, consumed, executed, trail, now>>

\* approvalStore.consume at the time the run captured.
Consumable(r) ==
    /\ ApprovalOf[r] \in Approval \ consumed
    /\ ApprovalExpiry[ApprovalOf[r]] > clock[r]

RefuseApproval(r) ==
    /\ pc[r] = "claimed"
    /\ r \in Required
    /\ ~ Consumable(r)
    /\ Decide(r, "DENIED")
    /\ UNCHANGED <<clock, permitExpiry, claimed, consumed, executed, trail, now>>

\* The approval is consumed, the authorization minted, the executor invoked.
Grant(r) ==
    /\ pc[r] = "claimed"
    /\ r \in Required => Consumable(r)
    /\ consumed' = IF r \in Required THEN consumed \cup {ApprovalOf[r]} ELSE consumed
    /\ executed' = executed \cup {r}
    /\ pc' = [pc EXCEPT ![r] = "executing"]
    /\ UNCHANGED <<clock, outcome, permitExpiry, claimed, trail, now>>

-----------------------------------------------------------------------------
(* Execution, verification and audit *)

\* runExecutor returns: the envelope verifies, or the executor failed, timed
\* out, threw or answered for another permit.
ExecutorReturns(r) ==
    /\ pc[r] = "executing"
    /\ \E o \in {"VERIFIED", "VERIFICATION_FAILED"} : Decide(r, o)
    /\ UNCHANGED <<clock, permitExpiry, claimed, consumed, executed, trail, now>>

\* Mutant: the answer does not wait for the sink to accept the record.
AppendAuditDropped(r) ==
    /\ pc[r] = "auditing"
    /\ pc' = [pc EXCEPT ![r] = "returned"]
    /\ trail' \in {trail, trail \cup {<<r, outcome[r]>>}}
    /\ UNCHANGED <<clock, outcome, permitExpiry, claimed, consumed, executed, now>>

\* #appendAudit resolves and the run returns.
AppendAudit(r) ==
    /\ pc[r] = "auditing"
    /\ pc' = [pc EXCEPT ![r] = "returned"]
    /\ trail' = trail \cup {<<r, outcome[r]>>}
    /\ UNCHANGED <<clock, outcome, permitExpiry, claimed, consumed, executed, now>>

AppendAuditFails(r) ==
    /\ AuditMayFail
    /\ pc[r] = "auditing"
    /\ pc' = [pc EXCEPT ![r] = "threw"]
    /\ UNCHANGED <<clock, outcome, permitExpiry, claimed, consumed, executed, trail, now>>

Tick ==
    /\ now < MaxTime
    /\ now' = now + 1
    /\ UNCHANGED <<pc, clock, outcome, permitExpiry, claimed, consumed, executed, trail>>

\* The continuations of a run that is under way.
Continue(r) ==
    \/ Claim(r) \/ RefuseClaim(r)
    \/ RefuseApproval(r) \/ Grant(r)
    \/ ExecutorReturns(r) \/ AppendAudit(r)

Fault(r) == ClaimFails(r) \/ AppendAuditFails(r)

PipelineNext ==
    \/ \E r \in Run : Start(r) \/ PresentPermit(r) \/ Continue(r) \/ Fault(r)
    \/ Tick

PipelineSpec == PipelineInit /\ [][PipelineNext]_pipelineVars

-----------------------------------------------------------------------------
(* Properties *)

\* I4, "single-use human approval": however the requests that refer to one
\* approval interleave, the executor runs for at most one of them.
ApprovalOnce ==
    \A r, s \in executed \cap Required : ApprovalOf[r] = ApprovalOf[s] => r = s

\* I3, "a permit is single-use": the executor runs at most once per permit,
\* also when an issued permit is presented again.
PermitOnce == \A r, s \in executed : PermitOf[r] = PermitOf[s] => r = s

\* "A denial never burns an approval": an approval is spent only by a run
\* whose executor is invoked.
DenialKeepsApproval ==
    \A a \in consumed : \E r \in executed \cap Required : ApprovalOf[r] = a

\* What the trail says is true: an answered run has the one record of its
\* outcome, the executor ran exactly if that says so, and no request that is
\* still undecided has a record.
TrailTruth ==
    \A r \in Run \ Direct :
        /\ pc[r] = "returned" => {t \in trail : t[1] = r} = {<<r, outcome[r]>>}
        /\ pc[r] # "returned" => \A t \in trail : t[1] # r
        /\ outcome[r] # "none" =>
            (r \in executed <=> outcome[r] \in {"VERIFIED", "VERIFICATION_FAILED"})

\* I5, "every attempt is written to the immutable audit chain": a run that
\* has ended, with an answer or an exception, has a record.  It does not hold
\* of the code (README, section 5); the run checks TrailTruth.
AttemptsAudited ==
    \A r \in Run \ Direct :
        pc[r] \in {"returned", "threw"} => \E t \in trail : t[1] = r

\* What the final gate spends it spends once: a permit or an approval drives the
\* executor at most once, and a denied request spends no approval.
SpentOnce ==
    /\ ApprovalOnce
    /\ PermitOnce
    /\ DenialKeepsApproval
=============================================================================
