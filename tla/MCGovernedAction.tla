-------------------------- MODULE MCGovernedAction --------------------------
(* Model-checking instance of GovernedAction with the engines of Governance,  *)
(* and of AgentRuntime, which meets them only in the gate result that         *)
(* EvaluateAction reads: the initial state chooses the part a behaviour       *)
(* explores.                                                                  *)
(* Governed: one decision over the contexts of two tenants; two actions are   *)
(* evaluated with it, so that two tickets share its permit, and two           *)
(* executions present them.  Policy: one decision on two rules with any of    *)
(* eight conditions over two attributes.   Risk: six signals, thresholds at   *)
(* and beside the constitutional ones, every fault of a request.  Loop: two   *)
(* turns and a schedule of one agent.  Team: two supervisors and a worker.    *)
(* Task: one background task.                                                 *)
EXTENDS Governance, AgentRuntime

CONSTANTS Parts,     \* the parts this run explores
          x, y, text
VARIABLE part

MCTenantOf == [c \in {"cx", "cy"} |-> IF c = "cx" THEN "x" ELSE "y"]

Positive == [readiness |-> "READY", identityRevoked |-> FALSE,
             identityVerified |-> TRUE, tenantMatches |-> TRUE,
             contextKnown |-> TRUE, capability |-> "GRANTED",
             authorization |-> "AUTHORIZED", policy |-> "ALLOW",
             riskLevel |-> "LOW", approvalRequired |-> FALSE]

\* Every stage positive, with and without high risk and an approval, and one
\* stage blocking.
MCStages ==
    {Positive, [Positive EXCEPT !.approvalRequired = TRUE, !.riskLevel = "HIGH"],
     [Positive EXCEPT !.readiness = "NOT_READY"],
     [Positive EXCEPT !.identityRevoked = TRUE],
     [Positive EXCEPT !.identityVerified = FALSE],
     [Positive EXCEPT !.tenantMatches = FALSE],
     [Positive EXCEPT !.contextKnown = FALSE],
     [Positive EXCEPT !.capability = "MISSING"]}
    \cup {[Positive EXCEPT !.authorization = v] :
              v \in {"DENIED", "RISK_TOO_HIGH", "STEP_UP_REQUIRED"}}
    \cup {[Positive EXCEPT !.policy = v] : v \in {"DENY", "POLICY_CONFLICT"}}
    \cup {[Positive EXCEPT !.riskLevel = v] : v \in {"CRITICAL", "UNKNOWN"}}

\* Nobody, one human, a quorum, one with the requester, one with an agent.
MCSubmissions ==
    {{}, {"h1"}, {"h1", "h2"}, {"h1", "req"}, {"h1", "agent"}}

Not(c) == [op |-> "not", of |-> {c}]
And(c, d) == [op |-> "and", of |-> {c, d}]
Or(c, d) == [op |-> "or", of |-> {c, d}]
Always == [op |-> "always"]
Eq(a) == [op |-> "attr_eq", attr |-> a, value |-> 1]
Ne(a) == [op |-> "attr_ne", attr |-> a, value |-> 1]
In(a) == [op |-> "attr_in", attr |-> a, values |-> {0, text}]
Gte(a) == [op |-> "attr_gte", attr |-> a, value |-> 1]
Lte(a) == [op |-> "attr_lte", attr |-> a, value |-> 0]

\* Every operator, over one and both attributes, and one condition too deep.
MCRuleConditions ==
    {Always, Eq(x), In(y), Not(Lte(y)), And(Eq(x), Gte(y)), Or(Ne(x), Lte(y)),
     Not(And(Ne(x), Eq(y))), Not(Not(Not(Eq(x))))}

MCConditions == MCRuleConditions \cup
    UNION {{Eq(z), Ne(z), Gte(z), Lte(z)} : z \in {x, y}}
    \cup {And(Ne(x), Eq(y)), Not(Eq(x)), Not(Not(Eq(x)))}

MCHeight == [c \in MCConditions |->
    IF c \in {Not(Not(Not(Eq(x))))} THEN 3
    ELSE IF c \in {Not(Not(Eq(x))), Not(And(Ne(x), Eq(y)))} THEN 2
    ELSE IF c.op \in Compound THEN 1 ELSE 0]

Signal(i, w, evidenced, stale) == [id |-> i, weight |-> w, evidenced |-> evidenced, stale |-> stale]
MCSignals == {Signal("a", 30, TRUE, FALSE), Signal("b", 30, TRUE, FALSE), Signal("c", 30, TRUE, FALSE),
              Signal("c", -10, TRUE, FALSE), Signal("d", 5, FALSE, FALSE), Signal("e", 5, TRUE, TRUE)}
MCThresholds == {[highAt |-> h, criticalAt |-> c] : h \in {30, 59, 60, 61}, c \in {40, 90, 91}}

MCKindOf == [h \in Deciders |-> IF h = "bot" THEN "SERVICE" ELSE "HUMAN"]

\* Each decider in full, and once with what would give it away left out.
MCEnvelopes == {[by |-> h, kind |-> MCKindOf[h], id |-> h] : h \in Deciders}
    \cup {[by |-> "bot", kind |-> "absent", id |-> "bot"], [by |-> "req", kind |-> "HUMAN", id |-> "absent"]}

MCInit ==
    /\ part \in Parts /\ Init /\ AgentInit /\ EnginesInit
    /\ part # "policy" => rules["grant"].condition = Always /\ rules["forbid"].condition = Always
                          /\ rules["grant"].priority = 1

\* Bound: after the decision only attributes still become known.
DecidedRests == (\E d \in Decision : result[d] # NoResult) => UNCHANGED <<policies, now>>

MCNext ==
    /\ UNCHANGED part
    /\ \/ part = "governed" /\ Next /\ UNCHANGED <<engineVars, agentVars>>
       \/ part = "policy" /\ PolicySteps /\ UNCHANGED agentVars /\ DecidedRests
       \/ part = "risk" /\ RiskSteps /\ UNCHANGED agentVars
       \/ part = "loop" /\ LoopSteps /\ UNCHANGED <<vars, engineVars>>
       \/ part = "team" /\ TeamSteps /\ UNCHANGED <<vars, engineVars>>
       \/ part = "task" /\ TaskSteps /\ UNCHANGED <<vars, engineVars>>

MCSpec == MCInit /\ [][MCNext]_<<part, vars, engineVars, agentVars>>

=============================================================================
