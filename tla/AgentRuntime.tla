----------------------------- MODULE AgentRuntime -----------------------------
(* agent-runtime/src: how an agent comes to act.  A turn of a conversation or *)
(* a due schedule begins an iteration of the loop; the iteration plans,       *)
(* screens, asks governance and acts or halts, and a halt for approval begins *)
(* again once a human has answered.  Beside it, agents message each other and *)
(* background tasks are tried until they succeed or are dead-lettered.  The   *)
(* package decides; the host that calls it keeps the records.                 *)
EXTENDS Gates, Integers, FiniteSets

CONSTANTS Team, Supervisors,      \* agents that message each other
          MaxTurn,                \* bound: turns of the conversation
          Contexts, Critical,     \* action contexts, and those with requiresHumanApproval
          Deciders, KindOf,       \* who answers requests, and of what kind they are
          Envelopes, AskedBy,     \* answers as they reach the relay; the requester
          ApprovalLife, FireAt, ScheduleExpiry, LeasePeriod, MaxTaskAttempts,
          MaxFired, MaxDecisions, \* bounds: acts of the schedule, answers that count
          MaxAgentClock,          \* bound: ticks of the clock
          NoAgent

AiKinds == {"AGENT", "DIGITAL_EMPLOYEE", "SERVICE"}

ASSUME AgentRuntimeAssumption ==
    /\ Supervisors \subseteq Team /\ Critical \subseteq Contexts /\ NoAgent \notin Team
    /\ KindOf \in [Deciders -> {"HUMAN"} \cup AiKinds]
    /\ \A e \in Envelopes : /\ e.by \in Deciders
                            /\ e.kind \in {KindOf[e.by], "absent"} /\ e.id \in {e.by, "absent"}
    /\ IsFiniteSet(Team) /\ {MaxTurn, ApprovalLife, LeasePeriod, MaxTaskAttempts} \subseteq Nat

VARIABLES agentClock,
          lifecycle,   \* AgentState of the agent that runs the loop
          convo,       \* the Conversation [state, last]
          loop,        \* its current iteration
          request,     \* the approval request last made
          schedule,    \* ScheduleState
          acts,        \* [turns (0: the schedule) -> iterations that reached ACT]
          criticalActs, answers,  \* acts in a critical context; answers the relay may accept
          parent,      \* the lineage: [Team -> whose message made it speak]
          task, runs   \* a background task, and how often it was started

loopVars == <<lifecycle, convo, loop, request, schedule, acts, criticalActs, answers>>
taskVars == <<task, runs>>
agentVars == <<agentClock, loopVars, parent, taskVars>>

AgentState == {"REGISTERED", "PROVISIONED", "IDLE", "ACTIVE", "AWAITING_APPROVAL",
               "SUSPENDED", "REVOKED", "TERMINATED"}
Phases == {"PERCEIVE", "PLAN", "SCREEN", "GOVERN", "ACT", "OBSERVE", "HALT"}
Idle == [phase |-> "none", turn |-> 0, context |-> "none", screen |-> "none",
         status |-> "none"]
NoRequest == [context |-> "none"]

AgentInit ==
    /\ agentClock = 0 /\ lifecycle = "none" /\ convo = [state |-> "OPEN", last |-> 0]
    /\ loop = Idle /\ request = NoRequest /\ schedule = "PENDING"
    /\ acts = [n \in 0..MaxTurn |-> 0] /\ criticalActs = 0 /\ answers = 0
    /\ parent = [a \in Team |-> NoAgent]
    /\ task = [state |-> "QUEUED", attempts |-> 0, lease |-> LeasePeriod] /\ runs = 0

-----------------------------------------------------------------------------
(* Identity and life cycle *)

EvaluateAgentRegistration(d) ==
    FirstRefusal(<< <<"kind" \in d, "NOT_AN_AGENT_KIND">>, <<"revoked" \in d, "REVOKED">>,
                    <<"ownerless" \in d, "OWNERLESS_DENIED">>, <<"no purpose" \in d, "NO_PURPOSE_DENIED">>,
                    <<"privileged" \in d, "PRIVILEGED_AGENT_DENIED">> >>, "REGISTERED")

\* TRANSITIONS: where an event leads from a state; no entry, no transition.
Transitions ==
    [s \in AgentState |->
        CASE s = "REGISTERED" -> {<<"PROVISION", "PROVISIONED">>, <<"REVOKE", "REVOKED">>, <<"TERMINATE", "TERMINATED">>}
          [] s = "PROVISIONED" -> {<<"READY", "IDLE">>, <<"REVOKE", "REVOKED">>, <<"TERMINATE", "TERMINATED">>}
          [] s = "IDLE" -> {<<"ASSIGN", "ACTIVE">>, <<"REVOKE", "REVOKED">>, <<"TERMINATE", "TERMINATED">>}
          [] s = "ACTIVE" -> {<<"APPROVAL_REQUIRED", "AWAITING_APPROVAL">>, <<"COMPLETE", "IDLE">>,
                              <<"SUSPEND", "SUSPENDED">>, <<"TERMINATE", "TERMINATED">>}
          [] s = "AWAITING_APPROVAL" -> {<<"APPROVED", "ACTIVE">>, <<"SUSPEND", "SUSPENDED">>, <<"TERMINATE", "TERMINATED">>}
          [] s = "SUSPENDED" -> {<<"RESUME", "IDLE">>, <<"REVOKE", "REVOKED">>, <<"TERMINATE", "TERMINATED">>}
          [] OTHER -> {}]

\* evaluateTransition: an event that is not valid leaves the agent where it is.
Transitioned(e) == lifecycle \in AgentState /\ \E t \in Transitions[lifecycle] : t[1] = e
NextState(e) ==
    IF Transitioned(e) THEN (CHOOSE t \in Transitions[lifecycle] : t[1] = e)[2] ELSE lifecycle

RegisterAgent(d) ==
    /\ lifecycle = "none" /\ EvaluateAgentRegistration(d) = "REGISTERED"
    /\ lifecycle' = "REGISTERED"
    /\ UNCHANGED <<agentClock, convo, loop, request, schedule, acts, criticalActs, answers, parent, taskVars>>

\* An event from outside the loop; assertHumanInitiatedHalt throws for an agent's halt.
LifecycleEvent(e, initiator) ==
    /\ e \in {"REVOKE", "TERMINATE"} => initiator \notin {"AGENT", "DIGITAL_EMPLOYEE"}
    /\ Transitioned(e) /\ lifecycle' = NextState(e)
    /\ UNCHANGED <<agentClock, convo, loop, request, schedule, acts, criticalActs, answers, parent, taskVars>>

-----------------------------------------------------------------------------
(* What begins an iteration *)

Begin(n) == [Idle EXCEPT !.phase = "PERCEIVE", !.turn = n]

EvaluateTurnAppend(n, d) ==
    FirstRefusal(<< <<"tenant" \in d, "TENANT_MISMATCH">>, <<convo.state = "CLOSED", "CONVERSATION_CLOSED">>,
                    <<n <= convo.last, "SEQUENCE_ROLLBACK">> >>, "APPENDED")

EvaluateVoiceTurn(d) ==
    FirstRefusal(<< <<"full duplex" \in d, "FULL_DUPLEX_NOT_SUPPORTED">>,
                    <<"capturing" \in d, "NOT_FINALIZED">> >>, "ACCEPTED_AS_GOVERNED_INPUT")

\* A turn arrives, perhaps again: it is appended and the idle agent is assigned to it.
ReceiveTurn(n, source, d) ==
    /\ loop = Idle /\ Transitioned("ASSIGN")
    /\ source = "VOICE" => EvaluateVoiceTurn(d) = "ACCEPTED_AS_GOVERNED_INPUT"
    /\ EvaluateTurnAppend(n, d) = "APPENDED"
    /\ convo' = [convo EXCEPT !.last = n]
    /\ lifecycle' = NextState("ASSIGN") /\ loop' = Begin(n)
    /\ UNCHANGED <<agentClock, request, schedule, acts, criticalActs, answers, parent, taskVars>>

CloseConversation ==
    /\ convo.state = "OPEN" /\ convo' = [convo EXCEPT !.state = "CLOSED"]
    /\ UNCHANGED <<agentClock, lifecycle, loop, request, schedule, acts, criticalActs, answers, parent, taskVars>>

EvaluateScheduleFire ==
    FirstRefusal(<< <<schedule \in {"CANCELLED", "EXPIRED"}, "TERMINAL">>,
                    <<ScheduleExpiry <= agentClock, "EXPIRED">>,
                    <<FireAt > agentClock, "NOT_DUE">> >>, "FIRE_REQUIRES_FRESH_DECISION")

\* A due schedule begins an iteration of its own: it stores no authority.
FireSchedule ==
    /\ loop = Idle /\ Transitioned("ASSIGN")  /\ acts[0] < MaxFired
    /\ EvaluateScheduleFire = "FIRE_REQUIRES_FRESH_DECISION"
    /\ schedule' = "FIRED" /\ lifecycle' = NextState("ASSIGN") /\ loop' = Begin(0)
    /\ UNCHANGED <<agentClock, convo, request, acts, criticalActs, answers, parent, taskVars>>

CancelSchedule ==
    /\ schedule = "PENDING" /\ schedule' = "CANCELLED"
    /\ UNCHANGED <<agentClock, lifecycle, convo, loop, request, acts, criticalActs, answers, parent, taskVars>>

-----------------------------------------------------------------------------
(* The loop *)

Trust(source) ==
    IF source \in {"SYSTEM_POLICY", "TOOL_SCHEMA"} THEN "TRUSTED"
    ELSE IF source = "USER" THEN "SEMI_TRUSTED" ELSE "UNTRUSTED"

\* verdict "none": the classifier was not available.
EvaluateInjectionScreen(source, verdict) ==
    CASE Trust(source) = "TRUSTED" -> "PASS"
      [] Trust(source) # "TRUSTED" /\ verdict = "none" -> "QUARANTINE"
      [] Trust(source) # "TRUSTED" /\ verdict = "MALICIOUS" -> "BLOCK"
      [] Trust(source) # "TRUSTED" /\ verdict \in {"SUSPICIOUS", "UNSCREENED"} -> "STEP_UP_REQUIRED"
      [] OTHER -> "PASS"

ParseProposedAction(d) ==
    FirstRefusal(<< <<"not an object" \in d, "MALFORMED">>, <<"unsafe keys" \in d, "UNSAFE">>,
                    <<"unknown kind" \in d, "UNKNOWN_KIND">>, <<"missing field" \in d, "MALFORMED">> >>, "PARSED")

ResolveTool(d) ==
    FirstRefusal(<< <<"unknown tool" \in d, "UNKNOWN_TOOL">>, <<"unregistered" \in d, "UNREGISTERED">>,
                    <<"tool revoked" \in d, "REVOKED">>, <<"unsigned" \in d, "UNSIGNED_PLUGIN_DENIED">> >>, "RESOLVED")

\* evaluateAgentAction's status for a gate result.
EvaluateAction(screen, gate) ==
    FirstRefusal(<< <<screen \in {"BLOCK", "QUARANTINE"}, "BLOCKED_INJECTION">>,
                    <<screen = "STEP_UP_REQUIRED" \/ gate.outcome = "STEP_UP_REQUIRED", "STEP_UP_REQUIRED">>,
                    <<gate.outcome = "APPROVAL_REQUIRED", "APPROVAL_REQUIRED">>,
                    <<gate.outcome = "SYSTEM_NOT_READY", "NOT_READY">>,
                    <<gate.outcome # "ALLOW", "DENIED">>,
                    <<~gate.permit, "PERMIT_MISSING">>,
                    <<gate.context # loop.context, "DENIED">>,
                    <<~gate.audit, "AUDIT_UNAVAILABLE">> >>, "READY_TO_EXECUTE")

\* advanceLoop: the next phase, HALT where the boundary to ACT stays closed.
AdvanceLoop(phase, status) ==
    CASE phase = "PERCEIVE" -> "PLAN"
      [] phase = "PLAN" -> "SCREEN"
      [] phase = "SCREEN" -> "GOVERN"
      [] phase = "GOVERN" -> IF status = "READY_TO_EXECUTE" THEN "ACT" ELSE "HALT"
      [] phase = "ACT" -> "OBSERVE"
      [] OTHER -> phase

loopRest == <<agentClock, convo, schedule, parent, taskVars>>

\* Phases that decide nothing: perceiving, and acting once it is done.
Proceed ==
    /\ loop.phase \in {"PERCEIVE", "ACT"} /\ loop' = [loop EXCEPT !.phase = AdvanceLoop(@, loop.status)]
    /\ UNCHANGED <<loopRest, lifecycle, request, acts, criticalActs, answers>>

\* The reasoner's proposal: a well-formed action on a known tool, or none.
Plan(c, d) ==
    /\ loop.phase = "PLAN"
    /\ loop' = [loop EXCEPT !.phase = AdvanceLoop(@, loop.status),
                            !.context = IF ParseProposedAction(d) = "PARSED" /\ ResolveTool(d) = "RESOLVED"
                                        THEN c ELSE "none"]
    /\ UNCHANGED <<loopRest, lifecycle, request, acts, criticalActs, answers>>

\* What the iteration read, from wherever it came, is screened before governance is asked.
ScreenInput(source, verdict) ==
    /\ loop.phase = "SCREEN"
    /\ loop' = [loop EXCEPT !.phase = AdvanceLoop(@, loop.status),
                            !.screen = EvaluateInjectionScreen(source, verdict)]
    /\ UNCHANGED <<loopRest, lifecycle, request, acts, criticalActs, answers>>

\* Governance answers for the planned action.  A critical one is allowed on an
\* approval that the relay has accepted for its context, which is thereby consumed.
Govern(gate) ==
    LET approved == request # NoRequest /\ request.accepted /\ ~request.consumed
                    /\ request.context = loop.context
    IN  /\ loop.phase = "GOVERN" /\ loop.status = "none" /\ loop.context # "none"
        /\ loop.context \in Critical /\ ~approved => gate.outcome # "ALLOW"
        /\ loop' = [loop EXCEPT !.status = EvaluateAction(loop.screen, gate)]
        /\ request' = IF loop.context \in Critical /\ gate.outcome = "ALLOW"
                      THEN [request EXCEPT !.consumed = TRUE] ELSE request
        /\ UNCHANGED <<loopRest, lifecycle, acts, criticalActs, answers>>

\* The boundary between GOVERN and ACT, with or without an answer of governance.
Boundary ==
    LET next == AdvanceLoop("GOVERN", loop.status)
    IN  /\ loop.phase = "GOVERN" /\ loop' = [loop EXCEPT !.phase = next]
        /\ acts' = IF next = "ACT" THEN [acts EXCEPT ![loop.turn] = @ + 1] ELSE acts
        /\ criticalActs' = IF next = "ACT" /\ loop.context \in Critical THEN criticalActs + 1 ELSE criticalActs
        /\ UNCHANGED <<loopRest, lifecycle, request, answers>>

\* A completed or halted iteration: the agent is idle again, or waits for an approval.
EndIteration ==
    /\ loop.phase \in {"OBSERVE", "HALT"}
    /\ LET waits == loop.status = "APPROVAL_REQUIRED"
       IN  /\ lifecycle' = NextState(IF waits THEN "APPROVAL_REQUIRED" ELSE "COMPLETE")
           /\ request' = IF waits
                         THEN [context |-> loop.context, turn |-> loop.turn,
                               by |-> "none", kind |-> "absent", id |-> "absent",
                               expiresAt |-> agentClock + ApprovalLife, consumed |-> FALSE, accepted |-> FALSE]
                         ELSE request
    /\ loop' = Idle
    /\ UNCHANGED <<loopRest, acts, criticalActs, answers>>

-----------------------------------------------------------------------------
(* The approval center *)

\* Someone answers the request: a person or, wrongly, an agent or a service.  What
\* reaches the relay may leave out the kind and the id of who answered.
DecideApproval(e) ==
    /\ request # NoRequest /\ request.by = "none" /\ answers < MaxDecisions
    /\ request' = [request EXCEPT !.by = e.by, !.kind = e.kind, !.id = e.id]
    /\ answers' = IF e.kind \notin AiKinds /\ e.id # AskedBy THEN answers + 1 ELSE answers
    /\ UNCHANGED <<loopRest, lifecycle, loop, acts, criticalActs>>

\* A list of what is refused: an answer that leaves out kind and id is not.
EvaluateApprovalRelay(current) ==
    FirstRefusal(<< <<request.by = "none", "REQUEST_DELIVERED">>,
                    <<request.kind \in AiKinds, "AI_APPROVER_DENIED">>,
                    <<request.id = AskedBy, "SELF_APPROVAL_DENIED">>,
                    <<request.consumed, "ALREADY_CONSUMED">>,
                    <<request.expiresAt <= agentClock, "EXPIRED">>,
                    <<request.context # current, "CONTEXT_CHANGED">> >>, "APPROVAL_ACCEPTED")

\* An accepted approval resumes the waiting agent: the iteration begins again.
RelayApproval(current) ==
    /\ request # NoRequest /\ loop = Idle /\ Transitioned("APPROVED")
    /\ EvaluateApprovalRelay(current) = "APPROVAL_ACCEPTED"
    /\ request' = [request EXCEPT !.accepted = TRUE]
    /\ lifecycle' = NextState("APPROVED") /\ loop' = Begin(request.turn)
    /\ UNCHANGED <<loopRest, acts, criticalActs, answers>>

AgentTick ==
    /\ agentClock < MaxAgentClock /\ agentClock' = agentClock + 1
    /\ UNCHANGED <<loopVars, parent, taskVars>>

-----------------------------------------------------------------------------
(* Messages between agents *)

\* Whose message lies k messages before a's.
Cause(lineage, a, k) ==
    LET up[i \in 0..k] == IF i = 0 THEN a
                          ELSE IF up[i - 1] = NoAgent THEN NoAgent ELSE lineage[up[i - 1]]
    IN  up[k]

\* Mutant of HasLineageCycle: only two agents that answer each other are seen.
HasLineageCycleDirect(lineage, from) ==
    lineage[from] # NoAgent /\ lineage[lineage[from]] = from

\* hasLineageCycle: following causes from the sender never ends.
HasLineageCycle(lineage, from) == Cause(lineage, from, Cardinality(Team)) # NoAgent

EvaluateMessageRouting(from, to, kind, cause, d) ==
    FirstRefusal(<< <<"tenant" \in d, "CROSS_TENANT_DENIED">>, <<from = to, "SELF_MESSAGE_DENIED">>,
                    <<{from, to} \cap Supervisors = {}, "PEER_TO_PEER_DENIED">>,
                    <<kind = "TASK_ASSIGNMENT" /\ from \notin Supervisors, "INVALID_DIRECTION">>,
                    <<HasLineageCycle([parent EXCEPT ![from] = cause], from), "LINEAGE_CYCLE_DENIED">> >>, "ROUTED")

RouteMessage(from, to, kind, cause, d) ==
    /\ EvaluateMessageRouting(from, to, kind, cause, d) = "ROUTED"
    /\ parent' = [parent EXCEPT ![from] = cause]
    /\ UNCHANGED <<agentClock, loopVars, taskVars>>

-----------------------------------------------------------------------------
(* Background tasks *)

EvaluateWorkerAdmission ==
    FirstRefusal(<< <<task.state \in {"COMPLETED", "DEAD_LETTERED"}, "TERMINAL">>,
                    <<task.attempts >= MaxTaskAttempts, "DEAD_LETTER">>,
                    <<task.lease <= agentClock, "LEASE_EXPIRED">> >>, "ADMITTED")

\* A worker takes the task: queued, suspended and authorized again, or left RUNNING by a lost worker.
StartTask(reauthorized) ==
    /\ task.state = "SUSPENDED" => reauthorized
    /\ EvaluateWorkerAdmission = "ADMITTED"
    /\ task' = [task EXCEPT !.state = "RUNNING", !.attempts = @ + 1] /\ runs' = runs + 1
    /\ UNCHANGED <<agentClock, loopVars, parent>>

TaskEnds(state) ==
    /\ task.state = "RUNNING" /\ task' = [task EXCEPT !.state = state]
    /\ UNCHANGED <<agentClock, loopVars, parent, runs>>

\* What the host does with a refusal that is not final.
TaskRefused ==
    /\ \/ EvaluateWorkerAdmission = "DEAD_LETTER" /\ task' = [task EXCEPT !.state = "DEAD_LETTERED"]
       \/ EvaluateWorkerAdmission = "LEASE_EXPIRED" /\ task' = [task EXCEPT !.lease = agentClock + LeasePeriod]
    /\ UNCHANGED <<agentClock, loopVars, parent, runs>>

-----------------------------------------------------------------------------

OneOf(S) == {{}} \cup {{x} : x \in S}

LoopSteps ==
    \/ \E d \in OneOf({"kind", "revoked", "ownerless", "no purpose", "privileged"}) : RegisterAgent(d)
    \/ \E e \in {"PROVISION", "READY", "SUSPEND", "RESUME", "REVOKE", "TERMINATE"},
          i \in {"HUMAN", "AGENT"} : LifecycleEvent(e, i)
    \/ \E n \in 1..MaxTurn, s \in {"USER", "VOICE"},
          d \in OneOf({"tenant", "full duplex", "capturing"}) : ReceiveTurn(n, s, d)
    \/ CloseConversation \/ FireSchedule \/ CancelSchedule
    \/ Proceed \/ Boundary \/ EndIteration
    \/ \E c \in Contexts, d \in OneOf({"not an object", "unsafe keys", "unknown kind", "missing field",
                                       "unknown tool", "unregistered", "tool revoked", "unsigned"}) : Plan(c, d)
    \/ \E s \in {"TOOL_SCHEMA", "USER", "VOICE"},
          v \in {"CLEAN", "SUSPICIOUS", "MALICIOUS", "UNSCREENED", "none"} : ScreenInput(s, v)
    \/ \E g \in [outcome : {"ALLOW", "DENY", "STEP_UP_REQUIRED", "APPROVAL_REQUIRED", "SYSTEM_NOT_READY"},
                 permit : BOOLEAN, context : Contexts, audit : BOOLEAN] : Govern(g)
    \/ \E e \in Envelopes : DecideApproval(e)
    \/ \E c \in Contexts : RelayApproval(c)
    \/ AgentTick

TeamSteps ==
    \/ \E from, to \in Team, kind \in {"TASK_ASSIGNMENT", "TASK_RESULT"}, cause \in Team \cup {NoAgent},
          d \in OneOf({"tenant"}) : RouteMessage(from, to, kind, cause, d)

TaskSteps ==
    \/ \E r \in BOOLEAN : StartTask(r)
    \/ \E s \in {"QUEUED", "SUSPENDED", "COMPLETED"} : TaskEnds(s)
    \/ TaskRefused \/ AgentTick

AgentSpec == AgentInit /\ [][LoopSteps \/ TeamSteps \/ TaskSteps]_agentVars

-----------------------------------------------------------------------------

\* The agent is in a state of its life cycle and its iteration in a phase of the loop.
AgentTypeOK ==
    /\ lifecycle \in AgentState \cup {"none"} /\ loop.phase \in Phases \cup {"none"}
    /\ convo.last \in 0..MaxTurn /\ parent \in [Team -> Team \cup {NoAgent}]

\* A turn acts at most once, although it may be delivered again, its iteration
\* may be begun again after an approval and its agent may be suspended and
\* resumed in between (evaluateTurnAppend, evaluateTransition, advanceLoop).
TurnActsOnce == \A n \in 1..MaxTurn : acts[n] <= 1

\* Every act in a critical context has an answer of its own that was given neither
\* under a declared AI kind nor under the requester's id, whoever answers requests,
\* however the plan changes after it and however late it is relayed
\* (evaluateApprovalRelay).
ActsApproved == criticalActs <= answers

\* approval.ts:4, "An AI/agent/service can never approve; the requester cannot
\* self-approve": what a critical act rests on was answered by another human.
HumanApproves ==
    [][criticalActs' > criticalActs => KindOf[request.by] = "HUMAN" /\ request.by # AskedBy]_agentVars

\* Who made whom speak is never a circle, although every message replaces its
\* sender's cause and the check starts at the sender only (hasLineageCycle).
LineageEnds == \A S \in SUBSET Team : S # {} => \E a \in S : parent[a] \notin S

\* A poison task is not started more often than its attempts allow, through
\* failures, lost workers, suspensions and renewed leases (evaluateWorkerAdmission).
PoisonBounded == runs <= MaxTaskAttempts

\* What an agent comes to do: a turn acts once, a critical act has an answer of its
\* own that the relay may accept, messages close no circle of causes, and a task is tried boundedly.
AgentSafe ==
    /\ AgentTypeOK
    /\ TurnActsOnce
    /\ ActsApproved
    /\ LineageEnds
    /\ PoisonBounded
=============================================================================
