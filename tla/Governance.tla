----------------------------- MODULE Governance -----------------------------
(* The engines behind a governance decision (governance/src): capability      *)
(* leases, authorization, the policy engine with its three-valued conditions, *)
(* and the risk evaluation.  Their verdicts are the stage inputs of           *)
(* GovernedAction's Decide, in production mode.  Attributes of a request      *)
(* become known one by one, policies are activated, expire and are revoked,   *)
(* tenants set thresholds and risk signals come in while decisions are made.  *)
EXTENDS GovernedAction, Gates, FiniteSetsExt

CONSTANTS Attributes, Amounts, Unknown,  \* attributes, their values, and "not present"
          Conditions,          \* condition ASTs, with all their parts
          RuleConditions,      \* those used for both rules
          Height, MaxHeight,   \* how deep an AST nests, at most MaxHeight
          MaxConditionDepth,   \* MAX_CONDITION_DEPTH
          PolicyLife,          \* an active policy's time to live
          SignalSet,           \* RiskFactors that may be present
          ThresholdSet,        \* thresholds a tenant may ask for
          MinHighAt, MaxCriticalAt  \* the constitutional thresholds

Compound == {"and", "or", "not"}
Numeric == {"attr_gte", "attr_lte"}
Plain == {"attr_eq", "attr_ne", "attr_in"}

ASSUME EnginesAssumption ==
    /\ \A c \in Conditions :
        /\ c.op \in {"always"} \cup Compound \cup Numeric \cup Plain
        /\ c.op \in Compound => c.of \subseteq Conditions /\ \A x \in c.of : Height[x] < Height[c]
        /\ c.op = "not" => \E x \in Conditions : c.of = {x}
        /\ c.op \in Numeric \cup Plain => c.attr \in Attributes
        /\ c.op \in Numeric => c.value \in Int
    /\ RuleConditions \subseteq Conditions
    /\ MaxHeight \in Nat /\ Height \in [Conditions -> 0..MaxHeight]
    /\ MaxConditionDepth \in Nat
    /\ Unknown \notin Amounts /\ Unknown \notin 0..9
    /\ IsFiniteSet(SignalSet) /\ \A f \in SignalSet : f.weight \in Int
    /\ ThresholdSet \subseteq [highAt : Int, criticalAt : Int]
    /\ MinHighAt \in Int /\ MaxCriticalAt \in Int

Policies == {"grant", "forbid"}     \* one policy with an ALLOW, one with a DENY rule

VARIABLES rules,       \* [Policies -> PolicyRule]
          policies,    \* [Policies -> [status, expiresAt]]
          bag,         \* AttributeBag: [Attributes -> Amounts \cup {Unknown}]
          signals,     \* the factors that are present
          thresholds,  \* RiskThresholds of the tenant
          lease,       \* the CapabilityGrant: [revoked, used]
          basis        \* policies in use when a decision allowed

engineVars == <<rules, policies, bag, signals, thresholds, lease, basis>>
engineRest == <<decisionVars, ticketVars, spent, allowed, writable, callVars, log>>

EnginesInit ==
    /\ rules \in {[p \in Policies |-> [effect |-> IF p = "grant" THEN "ALLOW" ELSE "DENY",
                                       condition |-> IF p = "grant" THEN c ELSE d,
                                       priority |-> IF p = "grant" THEN n ELSE 1]] :
                     c, d \in RuleConditions, n \in {1, 2}}
    /\ policies = [p \in Policies |-> [status |-> "draft", expiresAt |-> 0]]
    /\ bag = [a \in Attributes |-> Unknown]
    /\ signals = {} /\ thresholds = [highAt |-> MinHighAt, criticalAt |-> MaxCriticalAt]
    /\ lease = [revoked |-> FALSE, used |-> FALSE] /\ basis = {}

-----------------------------------------------------------------------------
(* The policy engine *)

Truth(b) == IF b THEN "true" ELSE "false"

PartsOf(c) == IF c.op \in Compound THEN c.of ELSE {}

\* The switch of evaluateCondition on the verdicts of the parts.  A referenced but
\* absent attribute is unknown.
ConditionVerdict(c, attrs, parts) ==
    CASE c.op = "always" -> "true"
      [] c.op = "attr_eq" -> IF attrs[c.attr] = Unknown THEN "unknown" ELSE Truth(attrs[c.attr] = c.value)
      [] c.op = "attr_ne" -> IF attrs[c.attr] = Unknown THEN "unknown" ELSE Truth(attrs[c.attr] # c.value)
      [] c.op = "attr_in" -> IF attrs[c.attr] = Unknown THEN "unknown" ELSE Truth(attrs[c.attr] \in c.values)
      [] c.op = "attr_gte" -> IF attrs[c.attr] \notin 0..9 THEN "unknown" ELSE Truth(attrs[c.attr] >= c.value)
      [] c.op = "attr_lte" -> IF attrs[c.attr] \notin 0..9 THEN "unknown" ELSE Truth(attrs[c.attr] <= c.value)
      [] c.op = "and" -> IF "false" \in parts THEN "false"
                         ELSE IF "unknown" \in parts THEN "unknown" ELSE "true"
      [] c.op = "or" -> IF "true" \in parts THEN "true"
                        ELSE IF "unknown" \in parts THEN "unknown" ELSE "false"
      [] c.op = "not" -> IF "unknown" \in parts THEN "unknown" ELSE Truth("false" \in parts)

\* within[k] evaluates with k levels left, the last at MaxConditionDepth: what
\* nests deeper is unknown.
EvaluateCondition(c, attrs) ==
    LET within[k \in 0..(MaxConditionDepth + 1)] ==
            [x \in Conditions |-> IF k = 0 THEN "unknown"
                 ELSE ConditionVerdict(x, attrs, {within[k - 1][y] : y \in PartsOf(x)})]
    IN  within[MaxConditionDepth + 1][c]

PolicyUsable(p, d) ==
    /\ "policy scope" \notin d
    /\ policies[p].status \notin {"revoked", "draft"}
    /\ now < policies[p].expiresAt
    /\ "unsigned" \notin d

Verdict(p) == EvaluateCondition(rules[p].condition, bag)

\* Mutant of DenyApplies: an unknown condition does not deny.
DenyAppliesKnown(p) == rules[p].effect = "DENY" /\ Verdict(p) = "true"

DenyApplies(p) == rules[p].effect = "DENY" /\ Verdict(p) \in {"true", "unknown"}

AllowApplies(p) == rules[p].effect = "ALLOW" /\ Verdict(p) = "true"

\* The policies whose rules are looked at for this request.
Candidates(d) == {p \in Policies : PolicyUsable(p, d) /\ "other target" \notin d}

EvaluatePolicySet(d) ==
    FirstRefusal(<< <<"unsafe attributes" \in d, "MALFORMED">>,
                    <<\E p \in Candidates(d) : DenyApplies(p), "DENY">>,
                    <<~\E p \in Candidates(d) : AllowApplies(p), "NO_MATCH_DENY">> >>, "ALLOW")

DetectPolicyConflict(d) ==
    IF \E p, q \in Candidates(d) :
          /\ AllowApplies(p) /\ rules[q].effect = "DENY" /\ Verdict(q) = "true"
          /\ rules[p].priority = rules[q].priority
    THEN "POLICY_CONFLICT" ELSE EvaluatePolicySet(d)

EvaluatePolicyActivation(by, d) ==
    FirstRefusal(<< <<by = "AGENT", "AI_CANNOT_ACTIVATE">>, <<"unsigned" \in d, "SIGNATURE_REQUIRED">>,
                    <<"no approval" \in d, "APPROVAL_REQUIRED">> >>, "ACTIVATED")

\* assertRevokedPolicyNotReused throws for a revoked version.
ActivatePolicy(p, by, d) ==
    /\ policies[p].status \notin {"revoked", "active"}
    /\ EvaluatePolicyActivation(by, d) = "ACTIVATED"
    /\ policies' = [policies EXCEPT ![p] = [status |-> "active", expiresAt |-> now + PolicyLife]]
    /\ UNCHANGED <<now, engineRest, rules, bag, signals, thresholds, lease, basis>>

RevokePolicy(p) ==
    /\ policies[p].status = "active"
    /\ policies' = [policies EXCEPT ![p].status = "revoked"]
    /\ UNCHANGED <<now, engineRest, rules, bag, signals, thresholds, lease, basis>>

LearnAttribute(a, v) ==
    /\ bag[a] = Unknown /\ bag' = [bag EXCEPT ![a] = v]
    /\ UNCHANGED <<now, engineRest, rules, policies, signals, thresholds, lease, basis>>

-----------------------------------------------------------------------------
(* Risk *)

\* A tenant may be stricter than the constitutional thresholds, never looser.
ClampOk(t) == t.highAt <= MinHighAt /\ t.criticalAt <= MaxCriticalAt

Score == LET sum == MapThenSumSet(LAMBDA f : f.weight, signals)
         IN  IF sum < 0 THEN 0 ELSE IF sum > 100 THEN 100 ELSE sum

LevelFor(t) ==
    IF Score >= t.criticalAt THEN "CRITICAL"
    ELSE IF Score >= t.highAt THEN "HIGH"
    ELSE IF 2 * Score >= t.highAt THEN "MEDIUM"
    ELSE IF Score > 0 THEN "LOW" ELSE "NEGLIGIBLE"

\* The level of the result; every status but SCORED has level UNKNOWN.
EvaluateRisk(t, complete) ==
    IF \/ ~ClampOk(t) \/ ~complete
       \/ \E f \in signals : ~f.evidenced \/ f.stale
       \/ \E f, g \in signals : f # g /\ f.id = g.id
    THEN "UNKNOWN" ELSE LevelFor(t)

SignalArrives(f) ==
    /\ f \notin signals /\ signals' = signals \cup {f}
    /\ UNCHANGED <<now, engineRest, rules, policies, bag, thresholds, lease, basis>>

SetThresholds(t) ==
    /\ thresholds' = t
    /\ UNCHANGED <<now, engineRest, rules, policies, bag, signals, lease, basis>>

-----------------------------------------------------------------------------
(* Capability and authorization *)

ResolveCapability(d) ==
    FirstRefusal(<< <<{"no grant", "unregistered"} \cap d # {}, "UNREGISTERED">>, <<"wildcard" \in d, "WILDCARD_DENIED">>,
                    <<lease.revoked, "REVOKED">>, <<"lease expired" \in d, "EXPIRED">>,
                    <<"lease scope" \in d, "TENANT_MISMATCH">>, <<"transferred" \in d, "TRANSFER_DENIED">>,
                    <<"other action" \in d, "ESCALATION_DENIED">>, <<"other context" \in d, "CONTEXT_HASH_MISMATCH">>,
                    <<lease.used, "REPLAYED">>, <<"uses exhausted" \in d, "USES_EXHAUSTED">>,
                    <<"region" \in d, "REGION_DENIED">> >>, "GRANTED")

EvaluateAuthorization(d, level) ==
    FirstRefusal(<< <<"subject revoked" \in d, "REVOKED">>, <<"tenant" \in d, "TENANT_MISMATCH">>,
                    <<"workspace" \in d, "WORKSPACE_MISMATCH">>, <<"unknown action" \in d, "UNKNOWN_ACTION">>,
                    <<"masquerade" \in d, "HUMAN_ROLE_MASQUERADE">>, <<"stale session" \in d, "STALE_SESSION">>,
                    <<"hidden impersonation" \in d, "IMPERSONATION_BYPASS_DENIED">>, <<"unknown role" \in d, "UNKNOWN_ROLE">>,
                    <<"self grant" \in d, "SELF_ESCALATION_DENIED">>, <<"beyond delegator" \in d, "DELEGATION_EXCEEDED">>,
                    <<"no role grants" \in d, "DENIED_NO_GRANT">>, <<level = "CRITICAL", "RISK_TOO_HIGH">>,
                    <<level \in {"HIGH", "UNKNOWN"}, "STEP_UP_REQUIRED">> >>, "AUTHORIZED")

RequestFaults == {"policy scope", "unsigned", "other target", "unsafe attributes", "no signals", "no grant", "unregistered",
    "wildcard", "lease expired", "lease scope", "transferred", "other action", "other context", "uses exhausted", "region",
    "subject revoked", "tenant", "workspace", "unknown action", "masquerade", "stale session", "hidden impersonation",
    "unknown role", "self grant", "beyond delegator", "no role grants"}

LeaseChanges(field) ==
    /\ lease' = [lease EXCEPT ![field] = TRUE]
    /\ UNCHANGED <<now, engineRest, rules, policies, bag, signals, thresholds, basis>>

\* The verdicts as stage inputs: values with one effect on the pipeline are one.
StagesOf(d) ==
    LET level == EvaluateRisk(thresholds, "no signals" \notin d)
        authorization == EvaluateAuthorization(d, level)
        policy == DetectPolicyConflict(d)
    IN  [readiness |-> "READY", identityRevoked |-> FALSE, identityVerified |-> TRUE,
         tenantMatches |-> TRUE, contextKnown |-> TRUE, approvalRequired |-> FALSE,
         capability |-> IF ResolveCapability(d) = "GRANTED" THEN "GRANTED" ELSE "MISSING",
         authorization |-> IF authorization \in {"AUTHORIZED", "RISK_TOO_HIGH", "STEP_UP_REQUIRED"}
                           THEN authorization ELSE "DENIED",
         policy |-> IF policy \in {"ALLOW", "POLICY_CONFLICT"} THEN policy ELSE "DENY",
         riskLevel |-> IF level \in {"HIGH", "CRITICAL", "UNKNOWN"} THEN level ELSE "LOW"]

\* A decision on the verdicts of the engines, each evaluated now.
DecideByEngines(e, context, d) ==
    /\ Decide(e, context, StagesOf(d), {})
    /\ basis' = IF result'[e].outcome = "ALLOW" THEN Candidates(d) ELSE {}
    /\ UNCHANGED <<rules, policies, bag, signals, thresholds, lease>>

GovTick == Tick /\ UNCHANGED engineVars

PolicySteps ==
    \/ \E p \in Policies, by \in {"HUMAN", "AGENT"}, d \in {{}, {"unsigned"}, {"no approval"}} : ActivatePolicy(p, by, d)
    \/ \E p \in Policies : RevokePolicy(p)
    \/ \E a \in Attributes, v \in Amounts : LearnAttribute(a, v)
    \/ \E e \in Decision : DecideByEngines(e, BoundContext, {})
    \/ GovTick

RiskSteps ==
    \/ ActivatePolicy("grant", "HUMAN", {})
    \/ \E f \in SignalSet : SignalArrives(f)
    \/ \E t \in ThresholdSet : SetThresholds(t)
    \/ \E field \in {"revoked", "used"} : LeaseChanges(field)
    \/ \E e \in Decision, d \in {{}} \cup {{f} : f \in RequestFaults} : DecideByEngines(e, BoundContext, d)

\* The engines beside the rest of GovernedAction.
GovernanceNext ==
    \/ Next /\ UNCHANGED engineVars
    \/ PolicySteps
    \/ RiskSteps

GovernanceSpec == Init /\ EnginesInit /\ [][GovernanceNext]_<<vars, engineVars>>

-----------------------------------------------------------------------------
(* Properties *)

\* The reference: what a condition says of a request all of whose attributes are
\* known, by what its parts say.
Says(c, total, H) ==
    CASE c.op = "always" -> TRUE
      [] c.op = "attr_eq" -> total[c.attr] = c.value
      [] c.op = "attr_ne" -> total[c.attr] # c.value
      [] c.op = "attr_in" -> total[c.attr] \in c.values
      [] c.op = "attr_gte" -> total[c.attr] \in 0..9 /\ total[c.attr] >= c.value
      [] c.op = "attr_lte" -> total[c.attr] \in 0..9 /\ total[c.attr] <= c.value
      [] c.op = "and" -> \A x \in c.of : H[x]
      [] c.op = "or" -> \E x \in c.of : H[x]
      [] c.op = "not" -> \A x \in c.of : ~H[x]

Holds(c, total) ==
    LET H[x \in Conditions] == Says(x, total, [y \in PartsOf(x) |-> H[y]])
    IN  H[c]

Completions == {t \in [Attributes -> Amounts] : \A a \in Attributes : bag[a] # Unknown => t[a] = bag[a]}

\* "an unknown attribute can never produce ALLOW" (policy.ts:5): what was allowed
\* on the attributes known then is right for whatever the others turn out to be,
\* an ALLOW rule in use applies and no DENY rule does.
AllowStands ==
    basis # {} =>
        \A t \in Completions :
            /\ \E p \in basis : rules[p].effect = "ALLOW" /\ Holds(rules[p].condition, t)
            /\ \A p \in basis : rules[p].effect = "DENY" => ~Holds(rules[p].condition, t)

Levels == <<"NEGLIGIBLE", "LOW", "MEDIUM", "HIGH", "CRITICAL", "UNKNOWN">>
LevelRank(l) == CHOOSE i \in 1..6 : Levels[i] = l

\* However a tenant sets its thresholds, no set of signals is rated below what
\* the constitutional thresholds make of it (clampThresholds, evaluateRisk).
RiskNotLoosened ==
    LevelRank(EvaluateRisk(thresholds, TRUE))
        >= LevelRank(LevelFor([highAt |-> MinHighAt, criticalAt |-> MaxCriticalAt]))

\* What the engines hand to the decision: an ALLOW that no missing attribute can
\* undo, and a risk no tenant's thresholds made smaller.
EnginesSafe ==
    /\ AllowStands
    /\ RiskNotLoosened
=============================================================================
