------------------------ MODULE GovernedAction_proofs ------------------------
(***************************************************************************)
(* Proofs about GovernedAction for any number of decisions, actions and     *)
(* executions.  The invariant follows the authority of an effect backwards: *)
(* a call behind sandbox.admit holds a spent permit no other call holds, a  *)
(* ticket names a decision that allowed, and such a decision had every      *)
(* stage positive.  Then the agent runtime, whose critical acts each have a *)
(* human's answer of their own, and the engines behind the stages of the    *)
(* decision: the evaluation of conditions and the rating of risks.          *)
(***************************************************************************)
EXTENDS Governance, AgentRuntime, Gates_proofs, SequenceTheorems

\* What evaluateGovernancePipeline guarantees of a permit it mints.
SoundPermit(p) ==
    /\ p \in Permit
    /\ AllPositive(p.stages)
    /\ p.stages.approvalRequired =>
           /\ Cardinality((p.approvers \cap Human) \ {Requester}) >= Quorum
           /\ p.approvers \subseteq Human
           /\ p.context = BoundContext
           /\ p.issuedAt < ApprovalExpiry

\* Calls that have consumed their permit and are not refused afterwards.
Holder(k) == pc[k] \in {"admitting", "running"} \/ k \in ran

DecisionsSound ==
    \A d \in Decision : result[d].outcome = "ALLOW" =>
        SoundPermit(result[d].permit) /\ result[d].permit.issuedAt <= now

TicketsSound ==
    \A a \in Action : ticket[a] # NoTicket =>
        /\ ticket[a] \in Ticket
        /\ result[ticket[a].permit].outcome = "ALLOW"

HoldersSound ==
    \A k \in Call : Holder(k) =>
        /\ PermitOf(k) \in spent
        /\ ticket[presented[k]].tenant
               = TenantOf[result[PermitOf(k)].permit.context]
        /\ result[PermitOf(k)].permit.issuedAt <= startedAt[k]
        /\ startedAt[k] < result[PermitOf(k)].permit.expiresAt

HoldersDistinct ==
    \A k, l \in Call : Holder(k) /\ Holder(l) /\ PermitOf(k) = PermitOf(l) => k = l

Inv == TypeOK /\ DecisionsSound /\ TicketsSound /\ HoldersSound /\ HoldersDistinct

\* A permit and a ticket differ from the markers of their absence.
LEMMA Markers == NoPermit \notin Permit /\ NoTicket \notin Ticket
  BY GovernedAssumption DEF GovernedAssumption, NoPermit, NoTicket, Permit, Ticket

\* The pipeline allows only if every stage is positive, the approval included.
LEMMA AllowedIsPositive ==
  ASSUME NEW s \in Stages, NEW b \in BOOLEAN, PipelineOutcome(s, b) = "ALLOW"
  PROVE  AllPositive(s) /\ (s.approvalRequired => b)
  <1>1. s \in StageInput
    BY GovernedAssumption DEF GovernedAssumption
  <1> QED  BY <1>1 DEF PipelineOutcome, AllPositive, StageInput

\* An approval that evaluateApproval accepts has its quorum of other humans.
LEMMA ApprovedIsQuorum ==
  ASSUME NEW c, NEW S, Approved(c, S)
  PROVE  /\ Cardinality((S \cap Human) \ {Requester}) >= Quorum
         /\ S \subseteq Human
         /\ c = BoundContext
         /\ now < ApprovalExpiry
  <1>1. (S \cap Human) \ {Requester} = S
    BY DEF Approved, AcceptableApprover
  <1> QED  BY <1>1 DEF Approved, AcceptableApprover

LEMMA OutcomeType ==
  ASSUME NEW s \in Stages, NEW b \in BOOLEAN
  PROVE  PipelineOutcome(s, b) \in GovernanceOutcome
  <1>1. s \in StageInput
    BY GovernedAssumption DEF GovernedAssumption
  <1> QED  BY <1>1 DEF PipelineOutcome, GovernanceOutcome, StageInput

LEMMA AppendType ==
  ASSUME NEW R, NEW q \in Seq(R), NEW x \in R
  PROVE  Append(q, x) \in Seq(R)
  OBVIOUS

\* execute() ends with an outcome and at most one record more.
LEMMA AnswerType ==
  ASSUME TypeOK, NEW k \in Call, NEW t \in Ticket, NEW o \in ExecutionOutcome, Answer(k, t, o)
  PROVE  /\ pc' = [pc EXCEPT ![k] = "answered"]
         /\ pc' \in [Call -> {"idle", "admitting", "running", "answered", "threw"}]
         /\ outcome' \in [Call -> ExecutionOutcome \cup {"none"}]
         /\ log' \in Seq([permit : Decision, event : Event])
  <1>1. [permit |-> t.permit, event |-> EventOf(o)] \in [permit : Decision, event : Event]
    BY DEF Ticket, EventOf, Event
  <1>2. log' \in Seq([permit : Decision, event : Event])
    <2>1. log \in Seq([permit : Decision, event : Event])
      BY DEF TypeOK
    <2>2. Append(log, [permit |-> t.permit, event |-> EventOf(o)])
              \in Seq([permit : Decision, event : Event])
      BY ONLY <1>1, <2>1, AppendType
    <2> QED  BY <2>1, <2>2 DEF Answer
  <1> QED  BY <1>2 DEF Answer, TypeOK

LEMMA GateType ==
  ASSUME NEW a \in BOOLEAN, NEW b \in BOOLEAN, NEW c \in BOOLEAN, NEW d \in BOOLEAN, NEW e \in BOOLEAN
  PROVE  ExecutionGate(a, b, c, d, e) \in ExecutionOutcome
  BY DEF ExecutionGate, ExecutionOutcome

\* The permit a decision mints is sound.
LEMMA DecideSound ==
  ASSUME Inv, NEW d \in Decision, NEW c \in Context, NEW s \in Stages,
         NEW S \in Submissions, Decide(d, c, s, S)
  PROVE  Inv'
  <1> DEFINE o == PipelineOutcome(s, Approved(c, S))
             p == [context |-> c, issuedAt |-> now, expiresAt |-> ExpiresAt,
                   stages |-> s, approvers |-> S]
             r == [outcome |-> o, permit |-> IF o = "ALLOW" THEN p ELSE NoPermit]
  <1>0. result[d] = NoResult /\ result' = [result EXCEPT ![d] = r]
    BY DEF Decide
  <1>u. UNCHANGED <<now, approval, registered, ticket, spent, allowed, writable, pc,
                    presented, startedAt, admitted, ran, outcome, log>>
    BY DEF Decide, ticketVars, callVars
  <1>1. Approved(c, S) \in BOOLEAN
    BY DEF Approved
  <1>2. o \in GovernanceOutcome
    BY <1>1, OutcomeType
  <1>3. p \in Permit
    BY GovernedAssumption DEF Permit, ExpiresAt, Inv, TypeOK, GovernedAssumption
  <1>4. r \in Result
    BY <1>2, <1>3 DEF Result
  <1>5. ASSUME o = "ALLOW"
        PROVE  SoundPermit(p)
    <2>1. AllPositive(s) /\ (s.approvalRequired => Approved(c, S))
      BY <1>1, <1>5, AllowedIsPositive
    <2> QED  BY <2>1, <1>3, ApprovedIsQuorum DEF SoundPermit
  <1> HIDE DEF o, p, r
  <1>6. d \notin registered
    BY <1>0, Markers DEF Inv, TypeOK, NoResult
  <1>7. \A e \in Decision : e # d => result'[e] = result[e]
    BY <1>0 DEF Inv, TypeOK
  <1>8. result'[d] = r
    BY <1>0 DEF Inv, TypeOK
  <1>9. TypeOK'
    BY <1>0, <1>u, <1>4, <1>6, <1>7 DEF Inv, TypeOK
  <1>10. DecisionsSound'
    <2> SUFFICES ASSUME NEW e \in Decision, result'[e].outcome = "ALLOW"
                 PROVE  SoundPermit(result'[e].permit) /\ result'[e].permit.issuedAt <= now'
      BY DEF DecisionsSound, SoundPermit
    <2>1. CASE e = d
      BY <2>1, <1>5, <1>8, <1>u DEF r, p, Inv, TypeOK
    <2>2. CASE e # d
      BY <2>2, <1>7, <1>u DEF Inv, DecisionsSound
    <2> QED  BY <2>1, <2>2
  <1>11. TicketsSound'
    <2>1. \A a \in Action : ticket[a] # NoTicket =>
             ticket[a] \in Ticket /\ ticket[a].permit \in Decision /\ ticket[a].permit # d
      BY <1>0 DEF Inv, TicketsSound, NoResult, Ticket
    <2> QED  BY <2>1, <1>7, <1>u DEF Inv, TicketsSound
  <1>12. HoldersSound' /\ HoldersDistinct'
    <2>1. \A k \in Call : Holder(k) => PermitOf(k) \in Decision /\ PermitOf(k) # d
      BY <1>6 DEF Inv, HoldersSound, TypeOK
    <2>2. \A k \in Call : Holder(k)' = Holder(k) /\ PermitOf(k)' = PermitOf(k)
      BY <1>u DEF Holder, PermitOf
    <2> QED  BY <2>1, <2>2, <1>7, <1>u DEF Inv, HoldersSound, HoldersDistinct
  <1> QED  BY <1>9, <1>10, <1>11, <1>12 DEF Inv

\* Where decisions, tickets, permits and the clock are left alone, and a call
\* neither starts to hold a permit nor changes what it was given, the sound
\* parts of the invariant carry over.
LEMMA HoldersKept ==
  ASSUME Inv, TypeOK', UNCHANGED <<now, result, ticket, spent>>,
         \A k \in Call : Holder(k)' => /\ Holder(k)
                                       /\ presented'[k] = presented[k]
                                       /\ startedAt'[k] = startedAt[k]
  PROVE  Inv'
  <1>1. DecisionsSound' /\ TicketsSound'
    BY DEF Inv, DecisionsSound, TicketsSound, SoundPermit
  <1>2. \A k \in Call : Holder(k)' => PermitOf(k)' = PermitOf(k)
    BY DEF PermitOf
  <1>3. HoldersSound'
    BY <1>2 DEF Inv, HoldersSound
  <1>4. HoldersDistinct'
    BY <1>2 DEF Inv, HoldersDistinct
  <1> QED  BY <1>1, <1>3, <1>4 DEF Inv

\* A ticket is minted only for a decision that allowed, and for an action no
\* call was given yet.
LEMMA EvaluateSound ==
  ASSUME Inv, NEW a \in Action, NEW d \in Decision, NEW tenant \in Tenant,
         NEW screen \in Screen, EvaluateAgentAction(a, d, tenant, screen)
  PROVE  Inv'
  <1>u. UNCHANGED <<now, approval, result, spent, allowed, writable, pc, presented,
                    startedAt, admitted, ran, outcome, log>>
    BY DEF EvaluateAgentAction, decisionVars, callVars
  <1>1. GateAllows(d) => SoundPermit(result[d].permit)
    BY DEF GateAllows, Inv, DecisionsSound
  <1>2. /\ registered' \subseteq Decision
        /\ spent \subseteq registered'
        /\ \A e \in registered' : result[e].permit \in Permit
    BY <1>1 DEF EvaluateAgentAction, Register, Inv, TypeOK, SoundPermit
  <1>3. /\ ticket[a] = NoTicket
        /\ \/ ticket' = ticket
           \/ /\ GateAllows(d)
              /\ ticket' = [ticket EXCEPT ![a] = [permit |-> d, tenant |-> tenant,
                                              context |-> result[d].permit.context]]
    BY DEF EvaluateAgentAction, MintTicket
  <1>4. GateAllows(d) => [permit |-> d, tenant |-> tenant,
                          context |-> result[d].permit.context] \in Ticket
    BY <1>1 DEF SoundPermit, Permit, Ticket
  <1>5. /\ ticket' \in [Action -> Ticket \cup {NoTicket}]
        /\ \A b \in Action : b # a => ticket'[b] = ticket[b]
        /\ ticket'[a] # NoTicket => ticket'[a] \in Ticket /\ ticket'[a].permit = d /\ GateAllows(d)
    <2> DEFINE t == [permit |-> d, tenant |-> tenant, context |-> result[d].permit.context]
    <2>1. ticket \in [Action -> Ticket \cup {NoTicket}]
      BY DEF Inv, TypeOK
    <2>2. t.permit = d
      OBVIOUS
    <2>3. CASE ticket' = ticket
      BY <1>3, <2>1, <2>3
    <2>4. CASE GateAllows(d) /\ ticket' = [ticket EXCEPT ![a] = t]
      <3>1. t \in Ticket
        BY <1>4, <2>4
      <3> HIDE DEF t
      <3> QED  BY <2>1, <2>2, <2>4, <3>1
    <2> QED  BY <1>3, <2>3, <2>4
  <1>6. \A k \in Call : pc[k] # "idle" => presented[k] \in Action /\ presented[k] # a
    BY <1>3, Markers DEF Inv, TypeOK
  <1>7. TypeOK'
    BY <1>u, <1>2, <1>5, <1>6 DEF Inv, TypeOK
  <1>8. DecisionsSound'
    BY <1>u DEF Inv, DecisionsSound, SoundPermit
  <1>9. TicketsSound'
    BY <1>u, <1>5 DEF Inv, TicketsSound, GateAllows
  <1>10. \A k \in Call : Holder(k)' => /\ Holder(k)
                                       /\ ticket'[presented'[k]] = ticket[presented[k]]
                                       /\ PermitOf(k)' = PermitOf(k)
    BY <1>u, <1>5, <1>6 DEF Inv, TypeOK, Holder, PermitOf
  <1>11. HoldersSound'
    BY <1>u, <1>10 DEF Inv, HoldersSound
  <1>12. HoldersDistinct'
    BY <1>10 DEF Inv, HoldersDistinct
  <1> QED  BY <1>7, <1>8, <1>9, <1>11, <1>12 DEF Inv

\* A call that consumes its permit becomes its only holder.
LEMMA ConsumedSound ==
  ASSUME Inv, NEW k \in Call, NEW a \in Action, NEW c \in Context, NEW seen \in BOOLEAN,
         NEW capability \in Capability, Consumed(k, a, c, seen, capability)
  PROVE  Inv'
  <1>u. UNCHANGED <<now, approval, result, registered, ticket, allowed, writable, ran,
                    outcome, log>>
    BY DEF Consumed, decisionVars, ticketVars
  <1>1. /\ pc[k] = "idle"
        /\ ticket[a] \in Ticket
        /\ result[ticket[a].permit].outcome = "ALLOW"
    BY DEF Consumed, Present, Inv, TicketsSound
  <1>2. /\ presented' = [presented EXCEPT ![k] = a]
        /\ startedAt' = [startedAt EXCEPT ![k] = now]
        /\ pc' = [pc EXCEPT ![k] = "admitting"]
        /\ admitted' = [admitted EXCEPT ![k] = capability \in allowed]
        /\ spent' = spent \cup {ticket[a].permit}
        /\ ticket[a].permit \in registered
        /\ ticket[a].permit \notin spent
        /\ now < result[ticket[a].permit].permit.expiresAt
        /\ ticket[a].tenant = TenantOf[result[ticket[a].permit].permit.context]
    BY DEF Consumed, Present, Spend, Consumable
  <1>3. result[ticket[a].permit].permit.issuedAt <= now
    BY <1>1 DEF Inv, DecisionsSound, Ticket
  <1>4. TypeOK'
    BY <1>u, <1>1, <1>2 DEF Inv, TypeOK
  <1>5. DecisionsSound' /\ TicketsSound'
    BY <1>u DEF Inv, DecisionsSound, TicketsSound, SoundPermit
  <1>6. \A l \in Call : l # k =>
            /\ Holder(l)' = Holder(l)
            /\ presented'[l] = presented[l]
            /\ startedAt'[l] = startedAt[l]
            /\ PermitOf(l)' = PermitOf(l)
    BY <1>u, <1>2 DEF Inv, TypeOK, Holder, PermitOf
  <1>7. presented'[k] = a /\ startedAt'[k] = now /\ PermitOf(k)' = ticket[a].permit
    BY <1>u, <1>2 DEF Inv, TypeOK, PermitOf
  <1>8. HoldersSound'
    BY <1>u, <1>2, <1>3, <1>6, <1>7 DEF Inv, HoldersSound
  <1>9. \A l \in Call : l # k /\ Holder(l) => PermitOf(l) # ticket[a].permit
    BY <1>2 DEF Inv, HoldersSound
  <1>10. HoldersDistinct'
    BY <1>6, <1>7, <1>9 DEF Inv, HoldersDistinct
  <1> QED  BY <1>4, <1>5, <1>8, <1>10 DEF Inv

\* The other steps of execute() make no call a holder.
LEMMA RefusedSound ==
  ASSUME Inv, NEW k \in Call, NEW a \in Action, NEW c \in Context, NEW seen \in BOOLEAN,
         Refused(k, a, c, seen)
  PROVE  Inv'
  <1>u. UNCHANGED <<now, approval, result, registered, ticket, spent, allowed, writable,
                    admitted, ran>>
    BY DEF Refused, decisionVars, ticketVars
  <1>1. pc[k] = "idle" /\ ticket[a] \in Ticket
    BY DEF Refused, Present, Inv, TicketsSound
  <1>2. /\ presented' = [presented EXCEPT ![k] = a]
        /\ startedAt' = [startedAt EXCEPT ![k] = now]
    BY DEF Refused, Present
  <1> DEFINE o == ExecutionGate(ticket[a].context = c, FALSE, FALSE, FALSE, FALSE)
  <1>3. Answer(k, ticket[a], o) /\ o \in ExecutionOutcome
    BY GateType DEF Refused
  <1> HIDE DEF o
  <1>4. /\ pc' = [pc EXCEPT ![k] = "answered"]
        /\ outcome' \in [Call -> ExecutionOutcome \cup {"none"}]
        /\ log' \in Seq([permit : Decision, event : Event])
    BY <1>1, <1>3, AnswerType DEF Inv
  <1>5. TypeOK'
    BY <1>u, <1>1, <1>2, <1>4 DEF Inv, TypeOK
  <1>6. \A l \in Call : Holder(l)' => /\ Holder(l)
                                      /\ presented'[l] = presented[l]
                                      /\ startedAt'[l] = startedAt[l]
    BY <1>u, <1>1, <1>2, <1>4 DEF Inv, TypeOK, Holder
  <1> QED  BY <1>u, <1>5, <1>6, HoldersKept

LEMMA AnswerSound ==
  ASSUME Inv, NEW k \in Call, NEW o \in ExecutionOutcome, pc[k] \in {"admitting", "running"},
         Answer(k, ticket[presented[k]], o),
         UNCHANGED <<now, decisionVars, ticketVars, spent, allowed, writable, presented,
                     startedAt, admitted, ran>>
  PROVE  Inv'
  <1>u. UNCHANGED <<now, approval, result, registered, ticket, spent, allowed, writable,
                    presented, startedAt, admitted, ran>>
    BY DEF decisionVars, ticketVars
  <1>1. ticket[presented[k]] \in Ticket
    BY DEF Inv, TypeOK
  <1>2. /\ pc' = [pc EXCEPT ![k] = "answered"]
        /\ outcome' \in [Call -> ExecutionOutcome \cup {"none"}]
        /\ log' \in Seq([permit : Decision, event : Event])
    BY <1>1, AnswerType DEF Inv
  <1>3. TypeOK'
    BY <1>u, <1>2 DEF Inv, TypeOK
  <1>4. \A l \in Call : Holder(l)' => Holder(l)
    BY <1>u, <1>2 DEF Inv, TypeOK, Holder
  <1> QED  BY <1>u, <1>3, <1>4, HoldersKept

LEMMA ExecuteSound ==
  ASSUME Inv, NEW k \in Call, Execute(k)
  PROVE  Inv'
  <1>1. CASE \E a \in Action, c \in Context, seen \in BOOLEAN : Refused(k, a, c, seen)
    BY <1>1, RefusedSound
  <1>2. CASE \E a \in Action, c \in Context, seen \in BOOLEAN, capability \in Capability :
                Consumed(k, a, c, seen, capability)
    BY <1>2, ConsumedSound
  <1>3. CASE RunExecutor(k)
    <2>u. UNCHANGED <<now, approval, result, registered, ticket, spent, allowed, writable,
                      presented, startedAt, admitted, outcome, log>>
      BY <1>3 DEF RunExecutor, decisionVars, ticketVars
    <2>1. pc[k] = "admitting" /\ pc' = [pc EXCEPT ![k] = "running"] /\ ran' = ran \cup {k}
      BY <1>3 DEF RunExecutor
    <2>2. TypeOK'
      BY <2>u, <2>1 DEF Inv, TypeOK
    <2>3. \A l \in Call : Holder(l)' => Holder(l)
      BY <2>1 DEF Inv, TypeOK, Holder
    <2> QED  BY <2>u, <2>2, <2>3, HoldersKept
  <1>4. CASE NotAdmitted(k)
    <2>1. ExecutionGate(TRUE, TRUE, admitted[k], FALSE, FALSE) \in ExecutionOutcome
      BY GateType DEF Inv, TypeOK
    <2> QED  BY <1>4, <2>1, AnswerSound DEF NotAdmitted
  <1>5. CASE AdmitThrows(k)
    <2>u. UNCHANGED <<now, approval, result, registered, ticket, spent, allowed, writable,
                      presented, startedAt, admitted, ran, outcome, log>>
      BY <1>5 DEF AdmitThrows, decisionVars, ticketVars
    <2>1. pc[k] = "admitting" /\ pc' = [pc EXCEPT ![k] = "threw"]
      BY <1>5 DEF AdmitThrows
    <2>2. TypeOK'
      BY <2>u, <2>1 DEF Inv, TypeOK
    <2>3. \A l \in Call : Holder(l)' => Holder(l)
      BY <2>u, <2>1 DEF Inv, TypeOK, Holder
    <2> QED  BY <2>u, <2>2, <2>3, HoldersKept
  <1>6. CASE \E handlerThrew \in BOOLEAN : ExecutorReturns(k, handlerThrew)
    <2> PICK e \in BOOLEAN : ExecutorReturns(k, e)
      BY <1>6
    <2>1. ExecutionGate(TRUE, TRUE, TRUE, TRUE, e) \in ExecutionOutcome
      BY GateType
    <2> QED  BY <2>1, AnswerSound DEF ExecutorReturns
  <1> QED  BY <1>1, <1>2, <1>3, <1>4, <1>5, <1>6 DEF Execute

\* Steps of the environment, and stuttering.
LEMMA EnvironmentSound ==
  ASSUME Inv, UNCHANGED <<result, ticketVars, spent, callVars, log>>,
         now' = now \/ (now' = now + 1 /\ now < MaxTime),
         approval' \in [revoked : BOOLEAN, consumed : BOOLEAN],
         allowed' \subseteq Capability, writable' \in BOOLEAN
  PROVE  Inv'
  <1>u. UNCHANGED <<result, registered, ticket, spent, pc, presented, startedAt, admitted,
                    ran, outcome, log>>
    BY DEF ticketVars, callVars
  <1>1. TypeOK'
    BY <1>u, GovernedAssumption DEF Inv, TypeOK, GovernedAssumption
  <1>2. DecisionsSound'
    <2> SUFFICES ASSUME NEW d \in Decision, result[d].outcome = "ALLOW"
                 PROVE  SoundPermit(result[d].permit) /\ result[d].permit.issuedAt <= now'
      BY <1>u DEF DecisionsSound, SoundPermit
    <2>1. SoundPermit(result[d].permit) /\ result[d].permit.issuedAt <= now
      BY DEF Inv, DecisionsSound
    <2>2. result[d].permit.issuedAt \in Nat /\ now \in Nat
      BY <2>1, GovernedAssumption DEF SoundPermit, Permit, Inv, TypeOK, GovernedAssumption
    <2> QED  BY <2>1, <2>2
  <1>3. TicketsSound' /\ HoldersSound' /\ HoldersDistinct'
    BY <1>u DEF Inv, TicketsSound, HoldersSound, HoldersDistinct, Holder, PermitOf
  <1> QED  BY <1>1, <1>2, <1>3 DEF Inv

LEMMA NextSound == Inv /\ [Next]_vars => Inv'
  <1> SUFFICES ASSUME Inv, [Next]_vars
               PROVE  Inv'
    OBVIOUS
  <1>1. CASE \E d \in Decision, c \in Context, s \in Stages, S \in Submissions :
                Decide(d, c, s, S)
    BY <1>1, DecideSound
  <1>2. CASE \E a \in Action, d \in Decision, tenant \in Tenant, screen \in Screen :
                EvaluateAgentAction(a, d, tenant, screen)
    BY <1>2, EvaluateSound
  <1>3. CASE \E k \in Call : Execute(k)
    BY <1>3, ExecuteSound
  <1>t. /\ approval \in [revoked : BOOLEAN, consumed : BOOLEAN]
        /\ allowed \subseteq Capability
        /\ writable \in BOOLEAN
    BY DEF Inv, TypeOK
  <1>4. CASE RevokeApproval \/ MarkConsumed
    <2>1. UNCHANGED <<result, ticketVars, spent, callVars, log>>
      BY <1>4 DEF RevokeApproval, MarkConsumed
    <2>2. now' = now \/ (now' = now + 1 /\ now < MaxTime)
      BY <1>4 DEF RevokeApproval, MarkConsumed
    <2>3. /\ approval' \in [revoked : BOOLEAN, consumed : BOOLEAN]
          /\ allowed' \subseteq Capability
          /\ writable' \in BOOLEAN
      BY <1>4, <1>t DEF RevokeApproval, MarkConsumed
    <2> QED  BY <2>1, <2>2, <2>3, EnvironmentSound
  <1>5. CASE \E capability \in Capability : Allow(capability)
    <2>1. UNCHANGED <<result, ticketVars, spent, callVars, log>>
      BY <1>5 DEF Allow, decisionVars
    <2>2. now' = now \/ (now' = now + 1 /\ now < MaxTime)
      BY <1>5 DEF Allow, decisionVars
    <2>3. /\ approval' \in [revoked : BOOLEAN, consumed : BOOLEAN]
          /\ allowed' \subseteq Capability
          /\ writable' \in BOOLEAN
      BY <1>5, <1>t DEF Allow, decisionVars
    <2> QED  BY <2>1, <2>2, <2>3, EnvironmentSound
  <1>6. CASE \E v \in BOOLEAN : SetWritable(v)
    <2>1. UNCHANGED <<result, ticketVars, spent, callVars, log>>
      BY <1>6 DEF SetWritable, decisionVars
    <2>2. now' = now \/ (now' = now + 1 /\ now < MaxTime)
      BY <1>6 DEF SetWritable, decisionVars
    <2>3. /\ approval' \in [revoked : BOOLEAN, consumed : BOOLEAN]
          /\ allowed' \subseteq Capability
          /\ writable' \in BOOLEAN
      BY <1>6, <1>t DEF SetWritable, decisionVars
    <2> QED  BY <2>1, <2>2, <2>3, EnvironmentSound
  <1>7. CASE Tick
    <2>1. UNCHANGED <<result, ticketVars, spent, callVars, log>>
      BY <1>7 DEF Tick, decisionVars
    <2>2. now' = now \/ (now' = now + 1 /\ now < MaxTime)
      BY <1>7 DEF Tick, decisionVars
    <2>3. /\ approval' \in [revoked : BOOLEAN, consumed : BOOLEAN]
          /\ allowed' \subseteq Capability
          /\ writable' \in BOOLEAN
      BY <1>7, <1>t DEF Tick, decisionVars
    <2> QED  BY <2>1, <2>2, <2>3, EnvironmentSound
  <1>8. CASE UNCHANGED vars
    <2>1. UNCHANGED <<result, ticketVars, spent, callVars, log>>
      BY <1>8 DEF vars, decisionVars
    <2>2. now' = now \/ (now' = now + 1 /\ now < MaxTime)
      BY <1>8 DEF vars, decisionVars
    <2>3. /\ approval' \in [revoked : BOOLEAN, consumed : BOOLEAN]
          /\ allowed' \subseteq Capability
          /\ writable' \in BOOLEAN
      BY <1>8, <1>t DEF vars, decisionVars
    <2> QED  BY <2>1, <2>2, <2>3, EnvironmentSound
  <1> QED  BY <1>1, <1>2, <1>3, <1>4, <1>5, <1>6, <1>7, <1>8 DEF Next

LEMMA InitSound == Init => Inv
  <1> SUFFICES ASSUME Init
               PROVE  Inv
    OBVIOUS
  <1>1. log \in Seq([permit : Decision, event : Event])
    BY DEF Init
  <1>2. TypeOK
    BY <1>1, GovernedAssumption DEF Init, TypeOK, GovernedAssumption
  <1>3. DecisionsSound /\ TicketsSound
    BY DEF Init, DecisionsSound, TicketsSound, NoResult
  <1>4. HoldersSound /\ HoldersDistinct
    BY DEF Init, HoldersSound, HoldersDistinct, Holder
  <1> QED  BY <1>2, <1>3, <1>4 DEF Inv

\* The invariant holds throughout: authority flows from decision to effect.
LEMMA GovernedInvariant == Spec => []Inv
  BY InitSound, NextSound, PTL DEF Spec

\* The variables keep the shapes of the code's types; in particular a spent
\* permit is a registered one and a registered one is a minted one.
THEOREM GovernedTypeOK == Spec => []TypeOK
  <1>1. Inv => TypeOK
    BY DEF Inv
  <1> QED  BY <1>1, GovernedInvariant, PTL

\* Whatever the number of evaluations of a decision and of executions of its
\* tickets, a permit is behind at most one effect.
THEOREM GovernedEffectOnce == Spec => []EffectOnce
  <1>1. Inv => EffectOnce
    BY DEF Inv, HoldersDistinct, EffectOnce, Holder, TypeOK
  <1> QED  BY <1>1, GovernedInvariant, PTL

\* Every effect rests on an unexpired permit of its own tenant and context,
\* minted by a decision in which every stage was positive.
THEOREM GovernedEffectAuthorised == Spec => []EffectAuthorised
  <1>1. Inv => EffectAuthorised
    <2> SUFFICES ASSUME Inv, NEW k \in ran
                 PROVE  LET t == ticket[presented[k]]
                            p == result[t.permit].permit
                        IN  /\ p \in Permit
                            /\ AllPositive(p.stages)
                            /\ t.tenant = TenantOf[p.context]
                            /\ startedAt[k] \in p.issuedAt..(p.expiresAt - 1)
      BY DEF EffectAuthorised
    <2> DEFINE t == ticket[presented[k]]
               p == result[t.permit].permit
    <2>1. k \in Call /\ Holder(k) /\ presented[k] \in Action /\ t \in Ticket
      BY DEF Inv, TypeOK, Holder
    <2>2. t.permit \in Decision /\ result[t.permit].outcome = "ALLOW"
      BY <2>1, Markers DEF Inv, TicketsSound, Ticket
    <2>3. p \in Permit /\ AllPositive(p.stages)
      BY <2>2 DEF Inv, DecisionsSound, SoundPermit
    <2>4. /\ t.tenant = TenantOf[p.context]
          /\ p.issuedAt <= startedAt[k]
          /\ startedAt[k] < p.expiresAt
      BY <2>1 DEF Inv, HoldersSound, PermitOf
    <2>5. p.issuedAt \in Nat /\ p.expiresAt \in Nat /\ startedAt[k] \in Nat
      BY <2>1, <2>3, GovernedAssumption DEF Permit, Inv, TypeOK, GovernedAssumption
    <2> QED  BY <2>3, <2>4, <2>5
  <1> QED  BY <1>1, GovernedInvariant, PTL

\* No effect that required an approval lacks its quorum of other humans, each
\* for the effect's own context and before the approval expired.
THEOREM GovernedHumanQuorum == Spec => []HumanQuorum
  <1>1. Inv => HumanQuorum
    <2> SUFFICES ASSUME Inv, NEW k \in ran
                 PROVE  SoundPermit(result[PermitOf(k)].permit)
      BY DEF HumanQuorum, SoundPermit
    <2>1. presented[k] \in Action /\ ticket[presented[k]] \in Ticket
      BY DEF Inv, TypeOK
    <2>2. PermitOf(k) \in Decision /\ result[PermitOf(k)].outcome = "ALLOW"
      BY <2>1, Markers DEF Inv, TicketsSound, Ticket, PermitOf
    <2> QED  BY <2>2 DEF Inv, DecisionsSound
  <1> QED  BY <1>1, GovernedInvariant, PTL

\* The executor is invoked only with a writable sink and a spent permit.
THEOREM GovernedAuditBeforeEffect == Spec => AuditBeforeEffect
  <1>1. Inv /\ [Next]_vars =>
            [\A k \in Call : pc'[k] = "running" /\ pc[k] # "running" =>
                 writable /\ PermitOf(k) \in spent]_vars
    <2> SUFFICES ASSUME Inv, Next, NEW k \in Call, pc'[k] = "running", pc[k] # "running"
                 PROVE  writable /\ PermitOf(k) \in spent
      OBVIOUS
    <2>1. PICK l \in Call : Execute(l)
      BY DEF Next, Decide, EvaluateAgentAction, RevokeApproval, MarkConsumed, Allow,
             SetWritable, Tick, callVars
    <2>2. pc \in [Call -> {"idle", "admitting", "running", "answered", "threw"}]
      BY DEF Inv, TypeOK
    <2>3. l = k /\ RunExecutor(k)
      BY <2>1, <2>2 DEF Execute, Refused, Consumed, RunExecutor, NotAdmitted, AdmitThrows,
                        ExecutorReturns, Answer
    <2> QED  BY <2>3 DEF RunExecutor, Inv, HoldersSound, Holder
  <1> QED  BY <1>1, GovernedInvariant, PTL DEF Spec, AuditBeforeEffect

\* The authority of every effect, for any number of decisions, evaluations and
\* executions: one effect per permit, an all-positive decision, its human quorum.
THEOREM GovernedSafety == Spec => []GovernedSafe
  BY GovernedTypeOK, GovernedEffectOnce, GovernedEffectAuthorised, GovernedHumanQuorum, PTL
     DEF GovernedSafe

(***************************************************************************)
(* The audit chain.                                                         *)
(***************************************************************************)

\* Calls answered after their effect, and the records of effects.
EffectAnswered(k) == k \in ran /\ pc[k] = "answered"
EffectRecord(i) == log[i].event # "execution_denied"

\* An effect's record is that of a call that was answered after its effect, and a
\* permit has one.
RecordBacked(i) ==
    \E k \in ran : /\ PermitOf(k) = log[i].permit /\ pc[k] = "answered"
                   /\ (log[i].event = "execution_completed") = (outcome[k] = "EXECUTED")

LogInv ==
    /\ \A k \in Call : pc[k] = "running" => k \in ran
    /\ \A i \in 1..Len(log) : EffectRecord(i) => RecordBacked(i)
    /\ \A i, j \in 1..Len(log) : EffectRecord(i) /\ EffectRecord(j) /\ log[i].permit = log[j].permit => i = j

\* What was answered stays so, and with it every record that is there.
LEMMA RecordsKept ==
  ASSUME LogInv, \A k \in Call : pc'[k] = "running" => k \in ran',
         log' = log, TypeOK,
         \A k \in Call : EffectAnswered(k) => EffectAnswered(k)' /\ PermitOf(k)' = PermitOf(k) /\ outcome'[k] = outcome[k]
  PROVE  LogInv'
  <1>1. \A i \in 1..Len(log) : EffectRecord(i) => RecordBacked(i)'
    <2> TAKE i \in 1..Len(log)
    <2> HAVE EffectRecord(i)
    <2>1. PICK k \in ran : /\ PermitOf(k) = log[i].permit /\ pc[k] = "answered"
                           /\ (log[i].event = "execution_completed") = (outcome[k] = "EXECUTED")
      BY DEF LogInv, RecordBacked
    <2>2. k \in Call
      BY DEF TypeOK
    <2> QED  BY <2>1, <2>2 DEF RecordBacked, EffectAnswered
  <1> QED  BY <1>1 DEF LogInv, EffectRecord

\* An answer is recorded; it is the record of an effect exactly when the call ran.
LEMMA AnswerRecorded ==
  ASSUME Inv, Inv', LogInv, NEW k \in Call, NEW t \in Ticket, NEW o \in ExecutionOutcome, Answer(k, t, o),
         UNCHANGED <<ticket, ran>>, t.permit = PermitOf(k)', pc[k] \in {"idle", "admitting", "running"},
         \A l \in Call : l # k => presented'[l] = presented[l],
         o \in {"EXECUTED", "HANDLER_FAILED"} => pc[k] = "running" /\ presented'[k] = presented[k]
  PROVE  LogInv'
  <1> DEFINE entry == [permit |-> t.permit, event |-> EventOf(o)]
  <1>n. PICK n : n = Len(log)
    OBVIOUS
  <1>0. TypeOK /\ HoldersDistinct
    BY DEF Inv
  <1>1. /\ pc' = [pc EXCEPT ![k] = "answered"] /\ outcome' = [outcome EXCEPT ![k] = o]
        /\ log' = log \/ log' = Append(log, entry)
    BY DEF Answer
  <1>2. /\ pc'[k] = "answered" /\ outcome'[k] = o
        /\ \A l \in Call : l # k => pc'[l] = pc[l] /\ outcome'[l] = outcome[l]
    BY <1>0, <1>1 DEF TypeOK
  <1>3. \A l \in Call : pc'[l] = "running" => l \in ran'
    BY <1>2 DEF LogInv
  <1>4. \A l \in Call : EffectAnswered(l) =>
            EffectAnswered(l)' /\ PermitOf(l)' = PermitOf(l) /\ outcome'[l] = outcome[l]
    BY <1>2 DEF EffectAnswered, PermitOf
  <1>5. CASE log' = log
    BY <1>0, <1>3, <1>4, <1>5, RecordsKept
  <1>6. CASE log' = Append(log, entry)
    <2>1. entry \in [permit : Decision, event : Event] /\ entry.permit = t.permit /\ entry.event = EventOf(o)
      BY DEF Ticket, EventOf, Event
    <2> HIDE DEF entry
    <2>2. /\ n \in Nat /\ Len(log') = n + 1 /\ log'[n + 1] = entry
          /\ \A i \in 1..n : log'[i] = log[i]
      <3>1. log \in Seq([permit : Decision, event : Event])
        BY <1>0 DEF TypeOK
      <3> QED  BY <1>6, <1>n, <2>1, <3>1, AppendProperties, LenProperties
    <2>3. \A i \in 1..(n + 1) : i \in 1..n \/ i = n + 1
      BY <2>2
    <2>4. \A i \in 1..n : EffectRecord(i)' => EffectRecord(i) /\ RecordBacked(i)
      BY <1>n, <2>2 DEF EffectRecord, LogInv
    <2>5. \A i \in 1..n : EffectRecord(i)' => RecordBacked(i)'
      <3> SUFFICES ASSUME NEW i \in 1..n, EffectRecord(i)' PROVE RecordBacked(i)'
        OBVIOUS
      <3>1. PICK l \in ran : /\ PermitOf(l) = log[i].permit /\ pc[l] = "answered"
                             /\ (log[i].event = "execution_completed") = (outcome[l] = "EXECUTED")
        BY <2>4 DEF RecordBacked
      <3>2. l \in Call /\ EffectAnswered(l)
        BY <1>0, <3>1 DEF TypeOK, EffectAnswered
      <3>3. l \in ran' /\ pc'[l] = "answered" /\ PermitOf(l)' = log'[i].permit
            /\ (log'[i].event = "execution_completed") = (outcome'[l] = "EXECUTED")
        BY <1>4, <2>2, <3>1, <3>2 DEF EffectAnswered
      <3> QED  BY <3>3 DEF RecordBacked
    <2>6. CASE EventOf(o) = "execution_denied"
      <3>1. ~EffectRecord(n + 1)'
        BY <2>1, <2>2, <2>6 DEF EffectRecord
      <3>2. \A i \in 1..(n + 1) : EffectRecord(i)' => i \in 1..n
        BY <2>3, <3>1
      <3>3. \A i, j \in 1..(n + 1) : EffectRecord(i)' /\ EffectRecord(j)' /\ log'[i].permit = log'[j].permit => i = j
        BY <1>n, <2>2, <2>4, <3>2 DEF LogInv
      <3> QED  BY <1>3, <2>2, <2>5, <3>2, <3>3 DEF LogInv
    <2>7. CASE EventOf(o) # "execution_denied"
      <3>1. o \in {"EXECUTED", "HANDLER_FAILED"} /\ (EventOf(o) = "execution_completed") = (o = "EXECUTED")
        BY <2>7 DEF EventOf
      <3>2. pc[k] = "running" /\ k \in ran /\ PermitOf(k)' = PermitOf(k)
        BY <3>1 DEF LogInv, PermitOf
      <3>3. RecordBacked(n + 1)'
        <4>1. k \in ran' /\ PermitOf(k)' = log'[n + 1].permit /\ pc'[k] = "answered"
              /\ (log'[n + 1].event = "execution_completed") = (outcome'[k] = "EXECUTED")
          BY <1>2, <2>1, <2>2, <3>1, <3>2
        <4> QED  BY <4>1 DEF RecordBacked
      <3>4. \A i \in 1..n : EffectRecord(i) => log[i].permit # t.permit
        <4> SUFFICES ASSUME NEW i \in 1..n, EffectRecord(i), log[i].permit = t.permit PROVE FALSE
          OBVIOUS
        <4>1. PICK l \in ran : PermitOf(l) = log[i].permit /\ pc[l] = "answered"
          BY <1>n DEF LogInv, RecordBacked
        <4>2. l \in Call /\ Holder(l) /\ Holder(k)
          BY <1>0, <3>2 DEF TypeOK, Holder
        <4>3. PermitOf(l) = PermitOf(k)
          BY <3>2, <4>1
        <4>4. l = k
          BY <1>0, <4>2, <4>3 DEF HoldersDistinct
        <4> QED  BY <3>2, <4>1, <4>4
      <3>5. \A i, j \in 1..(n + 1) : EffectRecord(i)' /\ EffectRecord(j)' /\ log'[i].permit = log'[j].permit => i = j
        <4> SUFFICES ASSUME NEW i \in 1..(n + 1), NEW j \in 1..(n + 1), EffectRecord(i)', EffectRecord(j)',
                            log'[i].permit = log'[j].permit
                     PROVE  i = j
          OBVIOUS
        <4>1. CASE i \in 1..n /\ j \in 1..n
          BY <1>n, <2>2, <2>4, <4>1 DEF LogInv
        <4>2. CASE i \in 1..n /\ j = n + 1
          BY <2>1, <2>2, <2>4, <3>4, <4>2
        <4>3. CASE j \in 1..n /\ i = n + 1
          BY <2>1, <2>2, <2>4, <3>4, <4>3
        <4> QED  BY <2>3, <4>1, <4>2, <4>3
      <3> QED  BY <1>3, <2>2, <2>3, <2>5, <3>3, <3>5 DEF LogInv
    <2> QED  BY <2>6, <2>7
  <1> QED  BY <1>1, <1>5, <1>6

\* Every step of an execution.
LEMMA ExecuteRecorded ==
  ASSUME Inv, Inv', LogInv, NEW k \in Call, Execute(k)
  PROVE  LogInv'
  <1>0. TypeOK /\ pc \in [Call -> {"idle", "admitting", "running", "answered", "threw"}]
    BY DEF Inv, TypeOK
  <1>1. ASSUME NEW a \in Action, NEW c \in Context, NEW seen \in BOOLEAN, Refused(k, a, c, seen)
        PROVE  LogInv'
    <2> DEFINE o == ExecutionGate(ticket[a].context = c, FALSE, FALSE, FALSE, FALSE)
    <2>1. /\ pc[k] = "idle" /\ ticket[a] \in Ticket /\ presented' = [presented EXCEPT ![k] = a]
          /\ UNCHANGED <<ticket, ran>> /\ Answer(k, ticket[a], o)
      BY <1>1 DEF Refused, Present, ticketVars, Inv, TicketsSound
    <2>2. o \in ExecutionOutcome /\ o \notin {"EXECUTED", "HANDLER_FAILED"}
      BY GateType DEF ExecutionGate
    <2>3. /\ ticket[a].permit = PermitOf(k)'
          /\ \A l \in Call : l # k => presented'[l] = presented[l]
      BY <1>0, <2>1 DEF TypeOK, PermitOf
    <2> HIDE DEF o
    <2> QED  BY <2>1, <2>2, <2>3, AnswerRecorded
  <1>2. ASSUME NEW a \in Action, NEW c \in Context, NEW seen \in BOOLEAN, NEW capability \in Capability,
               Consumed(k, a, c, seen, capability)
        PROVE  LogInv'
    <2>1. /\ pc[k] = "idle" /\ presented' = [presented EXCEPT ![k] = a] /\ pc' = [pc EXCEPT ![k] = "admitting"]
          /\ UNCHANGED <<ticket, ran, log, outcome>>
      BY <1>2 DEF Consumed, Present, ticketVars
    <2>2. \A l \in Call : l # k => presented'[l] = presented[l] /\ pc'[l] = pc[l]
      BY <1>0, <2>1 DEF TypeOK
    <2>3. pc'[k] = "admitting"
      BY <1>0, <2>1
    <2>4. \A l \in Call : pc'[l] = "running" => l \in ran'
      BY <2>1, <2>2, <2>3 DEF LogInv
    <2>5. \A l \in Call : EffectAnswered(l) =>
              EffectAnswered(l)' /\ PermitOf(l)' = PermitOf(l) /\ outcome'[l] = outcome[l]
      BY <2>1, <2>2 DEF EffectAnswered, PermitOf
    <2> QED  BY <1>0, <2>1, <2>4, <2>5, RecordsKept
  <1>3. CASE RunExecutor(k) \/ AdmitThrows(k)
    <2>1. /\ pc[k] = "admitting" /\ UNCHANGED <<ticket, presented, log, outcome>>
          /\ \/ pc' = [pc EXCEPT ![k] = "running"] /\ ran' = ran \cup {k}
             \/ pc' = [pc EXCEPT ![k] = "threw"] /\ ran' = ran
      BY <1>3 DEF RunExecutor, AdmitThrows, ticketVars
    <2>2. /\ \A l \in Call : l # k => pc'[l] = pc[l]
          /\ pc'[k] = "running" => k \in ran'
      BY <1>0, <2>1
    <2>3. \A l \in Call : pc'[l] = "running" => l \in ran'
      BY <2>1, <2>2 DEF LogInv
    <2>4. \A l \in Call : EffectAnswered(l) =>
              EffectAnswered(l)' /\ PermitOf(l)' = PermitOf(l) /\ outcome'[l] = outcome[l]
      BY <2>1, <2>2 DEF EffectAnswered, PermitOf
    <2> QED  BY <1>0, <2>1, <2>3, <2>4, RecordsKept
  <1>4. ASSUME NEW o \in ExecutionOutcome, pc[k] \in {"admitting", "running"},
               o \in {"EXECUTED", "HANDLER_FAILED"} => pc[k] = "running",
               Answer(k, ticket[presented[k]], o), UNCHANGED <<ticket, ran, presented>>
        PROVE  LogInv'
    <2>1. ticket[presented[k]] \in Ticket /\ ticket[presented[k]].permit = PermitOf(k)'
      BY <1>0, <1>4 DEF TypeOK, PermitOf
    <2> QED  BY <1>4, <2>1, AnswerRecorded
  <1>5. CASE NotAdmitted(k)
    <2> DEFINE o == ExecutionGate(TRUE, TRUE, admitted[k], FALSE, FALSE)
    <2>1. o \in ExecutionOutcome
      BY <1>0, GateType DEF TypeOK
    <2>2. o \notin {"EXECUTED", "HANDLER_FAILED"}
      BY DEF ExecutionGate
    <2>3. pc[k] = "admitting" /\ Answer(k, ticket[presented[k]], o) /\ UNCHANGED <<ticket, ran, presented>>
      BY <1>5 DEF NotAdmitted, ticketVars
    <2> HIDE DEF o
    <2> QED  BY <1>4, <2>1, <2>2, <2>3
  <1>6. ASSUME NEW e \in BOOLEAN, ExecutorReturns(k, e)
        PROVE  LogInv'
    <2> DEFINE o == ExecutionGate(TRUE, TRUE, TRUE, TRUE, e)
    <2>1. o \in ExecutionOutcome
      BY GateType
    <2>2. pc[k] = "running" /\ Answer(k, ticket[presented[k]], o) /\ UNCHANGED <<ticket, ran, presented>>
      BY <1>6 DEF ExecutorReturns, ticketVars
    <2> HIDE DEF o
    <2> QED  BY <1>4, <2>1, <2>2
  <1> QED  BY <1>1, <1>2, <1>3, <1>5, <1>6 DEF Execute

LEMMA LogStep == Inv /\ LogInv /\ [Next]_vars => LogInv'
  <1> SUFFICES ASSUME Inv, LogInv, [Next]_vars
               PROVE  LogInv'
    OBVIOUS
  <1>0. Inv' /\ TypeOK
    BY NextSound DEF Inv
  <1>1. CASE \E k \in Call : Execute(k)
    BY <1>0, <1>1, ExecuteRecorded
  <1>2. CASE UNCHANGED <<pc, ran, log, outcome, presented, ticket>>
    <2>1. \A k \in Call : EffectAnswered(k) =>
              EffectAnswered(k)' /\ PermitOf(k)' = PermitOf(k) /\ outcome'[k] = outcome[k]
      BY <1>2 DEF EffectAnswered, PermitOf
    <2> QED  BY <1>0, <1>2, <2>1, RecordsKept DEF LogInv
  <1>3. ASSUME NEW a \in Action, NEW d \in Decision, NEW tenant \in Tenant, NEW screen \in Screen,
               EvaluateAgentAction(a, d, tenant, screen)
        PROVE  LogInv'
    <2>1. UNCHANGED <<pc, ran, log, outcome, presented>>
      BY <1>3 DEF EvaluateAgentAction, callVars
    <2>2. ticket[a] = NoTicket /\ \A b \in Action : b # a => ticket'[b] = ticket[b]
      BY <1>0, <1>3 DEF EvaluateAgentAction, MintTicket, TypeOK
    <2>3. \A k \in Call : pc[k] # "idle" => presented[k] \in Action /\ presented[k] # a
      BY <1>0, <2>2, Markers DEF TypeOK
    <2>4. \A k \in Call : EffectAnswered(k) =>
              EffectAnswered(k)' /\ PermitOf(k)' = PermitOf(k) /\ outcome'[k] = outcome[k]
      BY <2>1, <2>2, <2>3 DEF EffectAnswered, PermitOf
    <2> QED  BY <1>0, <2>1, <2>4, RecordsKept DEF LogInv
  <1>4. CASE \E d \in Decision, c \in Context, s \in Stages, S \in Submissions : Decide(d, c, s, S)
    <2>1. UNCHANGED <<pc, ran, log, outcome, presented, ticket>>
      BY <1>4 DEF Decide, ticketVars, callVars
    <2> QED  BY <1>2, <2>1
  <1>5. CASE \/ RevokeApproval \/ MarkConsumed \/ Tick
             \/ \E capability \in Capability : Allow(capability)
             \/ \E v \in BOOLEAN : SetWritable(v)
    <2>1. UNCHANGED <<pc, ran, log, outcome, presented, ticket>>
      BY <1>5 DEF RevokeApproval, MarkConsumed, Tick, Allow, SetWritable, ticketVars, callVars
    <2> QED  BY <1>2, <2>1
  <1>6. CASE UNCHANGED vars
    BY <1>2, <1>6 DEF vars, ticketVars, callVars
  <1> QED  BY <1>1, <1>3, <1>4, <1>5, <1>6 DEF Next

\* The audit chain tells the truth about effects, however executions interleave and
\* whenever the sink fails: at most one completed or failed record per permit, only
\* after its effect, and of the outcome that was answered.
THEOREM GovernedLogTruth == Spec => []LogTruth
  <1>1. Init => LogInv
    <2> SUFFICES ASSUME Init PROVE LogInv
      OBVIOUS
    <2>1. Len(log) = 0
      BY DEF Init
    <2>2. \A k \in Call : pc[k] # "running"
      BY DEF Init
    <2> QED  BY <2>1, <2>2 DEF LogInv
  <1>2. Spec => []LogInv
    BY <1>1, LogStep, GovernedInvariant, PTL DEF Spec
  <1>3. Inv /\ LogInv => LogTruth
    <2> SUFFICES ASSUME Inv, LogInv, NEW d \in Decision
                 PROVE  LET records == {i \in DOMAIN log : log[i].permit = d /\ log[i].event # "execution_denied"}
                        IN  /\ Cardinality(records) <= 1
                            /\ \A i \in records : \E k \in ran :
                                   /\ PermitOf(k) = d
                                   /\ pc[k] = "answered"
                                   /\ (log[i].event = "execution_completed") = (outcome[k] = "EXECUTED")
      BY DEF LogTruth
    <2> DEFINE records == {i \in DOMAIN log : log[i].permit = d /\ log[i].event # "execution_denied"}
    <2>1. DOMAIN log = 1..Len(log)
      <3>1. log \in Seq([permit : Decision, event : Event])
        BY DEF Inv, TypeOK
      <3> QED  BY <3>1, LenProperties
    <2>2. \A i \in records : i \in 1..Len(log) /\ EffectRecord(i) /\ log[i].permit = d
      BY <2>1 DEF EffectRecord
    <2>3. \A i, j \in records : i = j
      BY <2>2 DEF LogInv
    <2>4. \A i \in records : \E k \in ran : /\ PermitOf(k) = d
                                            /\ pc[k] = "answered"
                                            /\ (log[i].event = "execution_completed") = (outcome[k] = "EXECUTED")
      BY <2>2 DEF LogInv, RecordBacked
    <2> HIDE DEF records
    <2>5. Cardinality(records) <= 1
      <3>1. CASE records = {}
        BY <3>1, FS_EmptySet
      <3>2. CASE records # {}
        <4>1. PICK i : i \in records
          BY <3>2
        <4>2. records = {i}
          BY <2>3, <4>1
        <4> QED  BY <4>2, FS_Singleton
      <3> QED  BY <3>1, <3>2
    <2> QED  BY <2>4, <2>5 DEF records
  <1> QED  BY <1>2, <1>3, GovernedInvariant, PTL

(***************************************************************************)
(* The agent runtime: who made whom speak.                                  *)
(***************************************************************************)

\* Following causes inside a set that is closed under them never leaves it.
LEMMA CauseStays ==
  ASSUME NEW lineage, NEW S, NEW a \in S, NEW k \in Nat, NoAgent \notin S,
         \A b \in S : lineage[b] \in S
  PROVE  Cause(lineage, a, k) \in S
  <1> DEFINE Step(x) == IF x = NoAgent THEN NoAgent ELSE lineage[x]
             Follows(f, n) == f = [i \in 0..n |-> IF i = 0 THEN a ELSE Step(f[i - 1])]
  <1>1. ASSUME NEW n \in Nat, NEW f, Follows(f, n)
        PROVE  \E g : Follows(g, n + 1)
    <2> DEFINE g == [i \in 0..(n + 1) |-> IF i = n + 1 THEN Step(f[n]) ELSE f[i]]
    <2>1. \A i \in 0..n : g[i] = f[i] /\ i \in 0..(n + 1) /\ i # n + 1
      OBVIOUS
    <2>2. \A i \in 0..n : f[i] = IF i = 0 THEN a ELSE Step(f[i - 1])
      BY <1>1
    <2>3. \A i \in 0..(n + 1) : g[i] = IF i = 0 THEN a ELSE Step(g[i - 1])
      <3> HIDE DEF Step, Follows
      <3> TAKE i \in 0..(n + 1)
      <3>1. CASE i = n + 1
        <4>1. g[i] = Step(f[n]) /\ i # 0 /\ i - 1 = n /\ n \in 0..n
          BY <3>1
        <4>2. g[i - 1] = f[n]
          BY <2>1, <4>1
        <4> QED  BY <4>1, <4>2
      <3>2. CASE i # n + 1 /\ i # 0
        <4>1. i \in 0..n /\ i - 1 \in 0..n
          BY <3>2
        <4>2. g[i] = f[i] /\ g[i - 1] = f[i - 1]
          BY <2>1, <4>1
        <4> QED  BY <2>2, <3>2, <4>1, <4>2
      <3>3. CASE i # n + 1 /\ i = 0
        <4>1. i \in 0..n
          BY <3>3
        <4> QED  BY <2>1, <2>2, <3>3, <4>1
      <3> QED  BY <3>1, <3>2, <3>3
    <2>4. g = [i \in 0..(n + 1) |-> g[i]]
      OBVIOUS
    <2> HIDE DEF g, Step
    <2>5. g = [i \in 0..(n + 1) |-> IF i = 0 THEN a ELSE Step(g[i - 1])]
      BY <2>3, <2>4
    <2> QED  BY <2>5
  <1>2. \A n \in Nat : \E f : Follows(f, n)
    <2> DEFINE bad == {n \in Nat : ~\E f : Follows(f, n)}
    <2> SUFFICES ASSUME bad # {} PROVE FALSE
      OBVIOUS
    <2>1. PICK n \in bad : \A m \in bad : n <= m
      <3>1. bad \subseteq Nat
        OBVIOUS
      <3> HIDE DEF bad
      <3> QED  BY <3>1, LeastNatural
    <2>2. n \in Nat /\ ~\E f : Follows(f, n)
      BY <2>1
    <2>3. n # 0
      <3> SUFFICES ASSUME n = 0 PROVE FALSE
        OBVIOUS
      <3> DEFINE h == [i \in 0..0 |-> a]
      <3>1. h = [i \in 0..0 |-> IF i = 0 THEN a ELSE Step(h[i - 1])]
        OBVIOUS
      <3> HIDE DEF h
      <3>2. Follows(h, n)
        BY <3>1
      <3> HIDE DEF Follows
      <3> QED  BY <2>2, <3>2
    <2>4. n - 1 \in Nat /\ ~(n <= n - 1) /\ (n - 1) + 1 = n
      BY <2>2, <2>3
    <2> HIDE DEF Follows
    <2>5. \E f : Follows(f, n - 1)
      BY <2>1, <2>4
    <2> QED  BY <1>1, <2>2, <2>4, <2>5
  <1> DEFINE up == CHOOSE f : Follows(f, k)
  <1>3. Follows(up, k)
    <2> HIDE DEF Follows
    <2> QED  BY <1>2
  <1>4. Cause(lineage, a, k) = up[k]
    BY DEF Cause
  <1> HIDE DEF up
  <1>5. \A i \in 0..k : up[i] = IF i = 0 THEN a ELSE Step(up[i - 1])
    BY <1>3
  <1>6. \A i \in 0..k : up[i] \in S
    <2> DEFINE out == {i \in 0..k : up[i] \notin S}
    <2> SUFFICES ASSUME out # {} PROVE FALSE
      OBVIOUS
    <2>1. PICK i \in out : \A j \in out : i <= j
      <3>1. out \subseteq Nat
        OBVIOUS
      <3> HIDE DEF out
      <3> QED  BY <3>1, LeastNatural
    <2>2. i \in 0..k /\ up[i] \notin S
      BY <2>1
    <2>3. i # 0
      BY <1>5, <2>2
    <2>4. i - 1 \in 0..k /\ ~(i <= i - 1)
      BY <2>2, <2>3
    <2>5. up[i - 1] \in S
      BY <2>1, <2>4
    <2> QED  BY <1>5, <2>2, <2>3, <2>5
  <1>7. k \in 0..k
    OBVIOUS
  <1> QED  BY <1>4, <1>6, <1>7

LineageInv == parent \in [Team -> Team \cup {NoAgent}] /\ LineageEnds

\* A routed message closes no circle: a circle through the sender is one its own
\* causes never leave, and one without it was there before.
LEMMA RouteMessageKeeps ==
  ASSUME LineageInv, NEW from \in Team, NEW to \in Team, NEW kind, NEW cause \in Team \cup {NoAgent}, NEW d,
         RouteMessage(from, to, kind, cause, d)
  PROVE  LineageInv'
  <1> USE AgentRuntimeAssumption
  <1> DEFINE L == [parent EXCEPT ![from] = cause]
             checks == << <<"tenant" \in d, "CROSS_TENANT_DENIED">>, <<from = to, "SELF_MESSAGE_DENIED">>,
                          <<{from, to} \cap Supervisors = {}, "PEER_TO_PEER_DENIED">>,
                          <<kind = "TASK_ASSIGNMENT" /\ from \notin Supervisors, "INVALID_DIRECTION">>,
                          <<HasLineageCycle(L, from), "LINEAGE_CYCLE_DENIED">> >>
  <1>1. FirstRefusal(checks, "ROUTED") = "ROUTED"
    BY DEF RouteMessage, EvaluateMessageRouting
  <1>2. /\ Len(checks) = 5
        /\ checks[1][2] # "ROUTED" /\ checks[2][2] # "ROUTED" /\ checks[3][2] # "ROUTED"
        /\ checks[4][2] # "ROUTED" /\ checks[5][2] # "ROUTED"
    OBVIOUS
  <1>3. ~checks[5][1]
    <2> HIDE DEF checks
    <2>1. \A i \in 1..5 : checks[i][2] # "ROUTED"
      BY <1>2
    <2>2. \A i \in 1..5 : ~checks[i][1]
      BY <1>1, <1>2, <2>1, NoRefusal
    <2> QED  BY <2>2
  <1>4. ~HasLineageCycle(L, from)
    BY <1>3
  <1> HIDE DEF checks
  <1>5. parent' = L
    BY DEF RouteMessage
  <1>6. L \in [Team -> Team \cup {NoAgent}] /\ L[from] = cause /\ \A b \in Team : b # from => L[b] = parent[b]
    BY DEF LineageInv
  <1> HIDE DEF L
  <1>7. Cause(L, from, Cardinality(Team)) = NoAgent /\ Cardinality(Team) \in Nat
    BY <1>4, FS_CardinalityType DEF HasLineageCycle
  <1>8. \A S \in SUBSET Team : S # {} => \E a \in S : L[a] \notin S
    <2> SUFFICES ASSUME NEW S \in SUBSET Team, S # {}, \A a \in S : L[a] \in S PROVE FALSE
      OBVIOUS
    <2>1. CASE from \in S
      <3>1. Cause(L, from, Cardinality(Team)) \in S
        BY <1>7, <2>1, CauseStays
      <3> QED  BY <1>7, <3>1
    <2>2. CASE from \notin S
      <3>1. \A a \in S : parent[a] \in S
        BY <1>6, <2>2
      <3> QED  BY <3>1 DEF LineageInv, LineageEnds
    <2> QED  BY <2>1, <2>2
  <1> QED  BY <1>5, <1>6, <1>8 DEF LineageInv, LineageEnds

(***************************************************************************)
(* Background tasks.                                                        *)
(***************************************************************************)

TaskInv ==
    /\ agentClock \in Nat
    /\ task \in [state : {"QUEUED", "RUNNING", "SUSPENDED", "COMPLETED", "DEAD_LETTERED"},
                 attempts : Nat, lease : Nat]
    /\ runs = task.attempts /\ runs <= MaxTaskAttempts

LEMMA TaskStepsKeep ==
  ASSUME TaskInv, TaskSteps
  PROVE  TaskInv'
  <1> USE AgentRuntimeAssumption
  <1> DEFINE a == task.state \in {"COMPLETED", "DEAD_LETTERED"}
             b == task.attempts >= MaxTaskAttempts
             c == task.lease <= agentClock
  <1>0. EvaluateWorkerAdmission = IF a THEN "TERMINAL" ELSE IF b THEN "DEAD_LETTER"
                                  ELSE IF c THEN "LEASE_EXPIRED" ELSE "ADMITTED"
    <2>1. EvaluateWorkerAdmission
              = FirstRefusal(<< <<a, "TERMINAL">>, <<b, "DEAD_LETTER">>, <<c, "LEASE_EXPIRED">> >>, "ADMITTED")
      BY DEF EvaluateWorkerAdmission
    <2> HIDE DEF a, b, c
    <2> QED  BY <2>1, ThreeChecks
  <1>1. ASSUME NEW r \in BOOLEAN, StartTask(r) PROVE TaskInv'
    <2>1. /\ task' = [task EXCEPT !.state = "RUNNING", !.attempts = @ + 1] /\ runs' = runs + 1
          /\ agentClock' = agentClock /\ ~b
      BY <1>0, <1>1 DEF StartTask
    <2>2. task.attempts \in Nat /\ task.attempts + 1 \in Nat /\ task.attempts + 1 <= MaxTaskAttempts
      BY <2>1 DEF TaskInv
    <2> QED  BY <2>1, <2>2 DEF TaskInv
  <1>2. ASSUME NEW s \in {"QUEUED", "SUSPENDED", "COMPLETED"}, TaskEnds(s) PROVE TaskInv'
    BY <1>2 DEF TaskEnds, TaskInv
  <1>3. CASE TaskRefused
    <2>1. agentClock + LeasePeriod \in Nat
      BY DEF TaskInv
    <2> QED  BY <1>3, <2>1 DEF TaskRefused, TaskInv
  <1>4. CASE AgentTick
    BY <1>4 DEF AgentTick, TaskInv, taskVars
  <1> QED  BY <1>1, <1>2, <1>3, <1>4 DEF TaskSteps

(***************************************************************************)
(* The loop: turns, approvals and acts.                                     *)
(***************************************************************************)

Status == {"none", "BLOCKED_INJECTION", "STEP_UP_REQUIRED", "APPROVAL_REQUIRED", "NOT_READY", "DENIED",
           "PERMIT_MISSING", "AUDIT_UNAVAILABLE", "READY_TO_EXECUTE"}
Iteration == [phase : Phases \cup {"none"}, turn : 0..MaxTurn, context : Contexts \cup {"none"},
              screen : Screen \cup {"none"}, status : Status]
ApprovalRequest == [context : Contexts \cup {"none"}, turn : 0..MaxTurn, by : Deciders \cup {"none"},
                    kind : {"HUMAN", "absent"} \cup AiKinds, id : Deciders \cup {"absent"}, expiresAt : Nat, consumed : BOOLEAN, accepted : BOOLEAN]

LoopTypes ==
    /\ agentClock \in Nat /\ lifecycle \in AgentState \cup {"none"}
    /\ convo \in [state : {"OPEN", "CLOSED"}, last : 0..MaxTurn]
    /\ loop \in Iteration /\ request \in ApprovalRequest \cup {NoRequest}
    /\ acts \in [0..MaxTurn -> Nat] /\ criticalActs \in Nat /\ answers \in Nat

\* Nothing was done for a turn that has not come; acts[0] counts the schedule's.
Undone(n) == n > 0 => acts[n] = 0

\* An iteration has a status only once governance answered, and acts only on the
\* one that lets it; until then its turn has not acted.
IterationSound ==
    /\ loop.phase \in {"none", "PERCEIVE", "PLAN", "SCREEN"} => loop.status = "none"
    /\ loop.phase \in {"ACT", "OBSERVE"} => loop.status = "READY_TO_EXECUTE"
    /\ loop.turn <= convo.last
    /\ loop.phase \notin {"ACT", "OBSERVE"} => Undone(loop.turn)

TurnsSound ==
    /\ \A n \in 1..MaxTurn : acts[n] <= 1 /\ (n > convo.last => acts[n] = 0)
    /\ lifecycle = "AWAITING_APPROVAL" =>
           /\ loop = Idle /\ request # NoRequest
           /\ request.turn <= convo.last /\ Undone(request.turn)

\* An answer the relay may accept is spent by the request it was given for, then by the
\* iteration that governance let through on it, then by the act.
Answered(q) == q.by # "none" /\ q.kind \notin AiKinds /\ q.id # AskedBy
RequestToken == IF request # NoRequest /\ Answered(request) /\ ~request.consumed THEN 1 ELSE 0
LoopToken == IF loop.phase = "GOVERN" /\ loop.status = "READY_TO_EXECUTE" /\ loop.context \in Critical THEN 1 ELSE 0

ActsPaid ==
    /\ request # NoRequest /\ request.accepted => Answered(request)
    /\ criticalActs + LoopToken + RequestToken <= answers

LoopInv == LoopTypes /\ IterationSound /\ TurnsSound /\ ActsPaid

\* Where an event leads.
LEMMA TransitionTarget ==
  ASSUME NEW e, Transitioned(e)
  PROVE  /\ NextState(e) \in AgentState
         /\ NextState(e) = "AWAITING_APPROVAL" => e = "APPROVAL_REQUIRED"
         /\ e = "APPROVED" => lifecycle = "AWAITING_APPROVAL"
         /\ e \in {"ASSIGN", "APPROVED"} => NextState(e) = "ACTIVE"
  <1> DEFINE t == CHOOSE t \in Transitions[lifecycle] : t[1] = e
  <1>1. lifecycle \in AgentState /\ t \in Transitions[lifecycle] /\ t[1] = e /\ NextState(e) = t[2]
    BY DEF Transitioned, NextState
  <1> HIDE DEF t
  <1>2. t \in {<<"PROVISION", "PROVISIONED">>, <<"REVOKE", "REVOKED">>, <<"TERMINATE", "TERMINATED">>,
               <<"READY", "IDLE">>, <<"ASSIGN", "ACTIVE">>, <<"APPROVAL_REQUIRED", "AWAITING_APPROVAL">>,
               <<"COMPLETE", "IDLE">>, <<"SUSPEND", "SUSPENDED">>, <<"RESUME", "IDLE">>, <<"APPROVED", "ACTIVE">>}
    BY <1>1 DEF Transitions, AgentState
  <1>3. t = <<"APPROVED", "ACTIVE">> => lifecycle = "AWAITING_APPROVAL"
    BY <1>1 DEF Transitions, AgentState
  <1>4. t[2] \in AgentState
    BY <1>2 DEF AgentState
  <1>5. /\ t[2] = "AWAITING_APPROVAL" => t[1] = "APPROVAL_REQUIRED"
        /\ t[1] = "APPROVED" => t = <<"APPROVED", "ACTIVE">>
        /\ t[1] \in {"ASSIGN", "APPROVED"} => t[2] = "ACTIVE"
    BY <1>2
  <1> QED  BY <1>1, <1>3, <1>4, <1>5

\* An event that is not valid changes nothing.
LEMMA NextStateKnown ==
  ASSUME NEW e, lifecycle \in AgentState \cup {"none"}
  PROVE  /\ NextState(e) \in AgentState \cup {"none"}
         /\ NextState(e) = "AWAITING_APPROVAL" => e = "APPROVAL_REQUIRED" \/ lifecycle = "AWAITING_APPROVAL"
  <1>1. CASE Transitioned(e)
    BY <1>1, TransitionTarget
  <1>2. CASE ~Transitioned(e)
    BY <1>2 DEF NextState
  <1> QED  BY <1>1, <1>2

\* evaluateTurnAppend: a turn that is appended is newer than the last.
LEMMA AppendedIsNew ==
  ASSUME NEW n, NEW d, EvaluateTurnAppend(n, d) = "APPENDED"
  PROVE  ~(n <= convo.last)
  <1> DEFINE a == "tenant" \in d
             b == convo.state = "CLOSED"
             c == n <= convo.last
  <1>1. FirstRefusal(<< <<a, "TENANT_MISMATCH">>, <<b, "CONVERSATION_CLOSED">>, <<c, "SEQUENCE_ROLLBACK">> >>,
                     "APPENDED") = "APPENDED"
    BY DEF EvaluateTurnAppend
  <1> HIDE DEF a, b, c
  <1>2. ~c
    BY <1>1, ThreeChecks
  <1> QED  BY <1>2 DEF c

\* evaluateAgentAction lets through only what governance allowed.
LEMMA ActionAnswers ==
  ASSUME NEW screen, NEW gate
  PROVE  /\ EvaluateAction(screen, gate) \in Status
         /\ EvaluateAction(screen, gate) = "READY_TO_EXECUTE" => gate.outcome = "ALLOW"
  <1> DEFINE checks == << <<screen \in {"BLOCK", "QUARANTINE"}, "BLOCKED_INJECTION">>,
                          <<screen = "STEP_UP_REQUIRED" \/ gate.outcome = "STEP_UP_REQUIRED", "STEP_UP_REQUIRED">>,
                          <<gate.outcome = "APPROVAL_REQUIRED", "APPROVAL_REQUIRED">>,
                          <<gate.outcome = "SYSTEM_NOT_READY", "NOT_READY">>,
                          <<gate.outcome # "ALLOW", "DENIED">>,
                          <<~gate.permit, "PERMIT_MISSING">>,
                          <<gate.context # loop.context, "DENIED">>,
                          <<~gate.audit, "AUDIT_UNAVAILABLE">> >>
             V == Status \ {"READY_TO_EXECUTE"}
  <1>1. EvaluateAction(screen, gate) = FirstRefusal(checks, "READY_TO_EXECUTE")
    BY DEF EvaluateAction
  <1>2. /\ Len(checks) = 8 /\ (~checks[5][1] => gate.outcome = "ALLOW")
        /\ checks[1][2] \in V /\ checks[2][2] \in V /\ checks[3][2] \in V /\ checks[4][2] \in V
        /\ checks[5][2] \in V /\ checks[6][2] \in V /\ checks[7][2] \in V /\ checks[8][2] \in V
    BY DEF Status
  <1>3. "READY_TO_EXECUTE" \in Status /\ "READY_TO_EXECUTE" \notin V /\ V \subseteq Status
    BY DEF Status
  <1> HIDE DEF checks, V
  <1>4. \A i \in 1..8 : checks[i][2] \in V
    BY <1>2
  <1>5. \/ FirstRefusal(checks, "READY_TO_EXECUTE") = "READY_TO_EXECUTE" /\ \A j \in 1..8 : ~checks[j][1]
        \/ \E i \in 1..8 : checks[i][1] /\ FirstRefusal(checks, "READY_TO_EXECUTE") = checks[i][2]
    BY <1>2, GateDecides
  <1> QED  BY <1>1, <1>2, <1>3, <1>4, <1>5

\* evaluateApprovalRelay accepts what no declared AI kind and not the requester's id answered.
LEMMA RelayAccepts ==
  ASSUME NEW current, EvaluateApprovalRelay(current) = "APPROVAL_ACCEPTED"
  PROVE  Answered(request)
  <1> DEFINE o == "APPROVAL_ACCEPTED"
             checks == << <<request.by = "none", "REQUEST_DELIVERED">>,
                          <<request.kind \in AiKinds, "AI_APPROVER_DENIED">>,
                          <<request.id = AskedBy, "SELF_APPROVAL_DENIED">>,
                          <<request.consumed, "ALREADY_CONSUMED">>,
                          <<request.expiresAt <= agentClock, "EXPIRED">>,
                          <<request.context # current, "CONTEXT_CHANGED">> >>
  <1>1. FirstRefusal(checks, o) = o
    BY DEF EvaluateApprovalRelay
  <1>2. /\ Len(checks) = 6 /\ checks[1][2] # o /\ checks[2][2] # o /\ checks[3][2] # o
        /\ checks[4][2] # o /\ checks[5][2] # o /\ checks[6][2] # o
    OBVIOUS
  <1>3. ~checks[1][1] /\ ~checks[2][1] /\ ~checks[3][1]
    <2> HIDE DEF checks, o
    <2>1. \A i \in 1..6 : checks[i][2] # o
      BY <1>2
    <2>2. \A i \in 1..6 : ~checks[i][1]
      BY <1>1, <1>2, <2>1, NoRefusal
    <2> QED  BY <2>2
  <1> QED  BY <1>3 DEF Answered

\* What none of the loop's own steps touches.
LEMMA LoopFrame ==
  ASSUME LoopInv, UNCHANGED <<loop, request, acts, criticalActs, answers>>,
         agentClock' \in Nat, lifecycle' \in AgentState \cup {"none"},
         lifecycle' = "AWAITING_APPROVAL" => lifecycle = "AWAITING_APPROVAL",
         convo' \in [state : {"OPEN", "CLOSED"}, last : 0..MaxTurn], convo'.last = convo.last
  PROVE  LoopInv'
  <1>1. LoopTypes'
    BY DEF LoopInv, LoopTypes
  <1>2. IterationSound'
    BY DEF LoopInv, IterationSound, Undone
  <1>3. TurnsSound'
    BY DEF LoopInv, TurnsSound, Undone
  <1>4. ActsPaid'
    BY DEF LoopInv, ActsPaid, LoopToken, RequestToken
  <1> QED  BY <1>1, <1>2, <1>3, <1>4 DEF LoopInv

\* An iteration begins for a turn that has not acted.
LEMMA BeginKeeps ==
  ASSUME LoopInv, NEW n \in 0..MaxTurn, loop' = Begin(n), lifecycle' = "ACTIVE",
         UNCHANGED <<agentClock, acts, criticalActs, answers>>,
         convo' \in [state : {"OPEN", "CLOSED"}, last : 0..MaxTurn],
         convo.last <= convo'.last, n <= convo'.last, Undone(n),
         request' \in ApprovalRequest \cup {NoRequest}, RequestToken' = RequestToken,
         request' # NoRequest /\ request'.accepted => Answered(request')
  PROVE  LoopInv'
  <1> USE AgentRuntimeAssumption
  <1>1. /\ loop' \in Iteration /\ loop'.phase = "PERCEIVE" /\ loop'.turn = n /\ loop'.status = "none"
    BY DEF Begin, Idle, Iteration, Phases, Status
  <1>2. LoopTypes'
    BY <1>1 DEF LoopInv, LoopTypes, AgentState
  <1>3. IterationSound'
    BY <1>1 DEF IterationSound, Undone
  <1>4. TurnsSound'
    <2>1. convo.last \in Int /\ convo'.last \in Int
      BY DEF LoopInv, LoopTypes
    <2>2. \A m \in 1..MaxTurn : m > convo'.last => m > convo.last
      BY <2>1
    <2> QED  BY <2>2 DEF LoopInv, TurnsSound
  <1>5. LoopToken' = 0
    BY <1>1 DEF LoopToken
  <1>6. ActsPaid'
    <2>1. LoopToken \in {0, 1} /\ RequestToken \in {0, 1}
      BY DEF LoopToken, RequestToken
    <2>2. criticalActs + LoopToken + RequestToken <= answers /\ criticalActs \in Nat /\ answers \in Nat
      BY DEF LoopInv, ActsPaid, LoopTypes
    <2>3. criticalActs + 0 + RequestToken <= answers
      BY <2>1, <2>2
    <2>4. criticalActs' + LoopToken' + RequestToken' <= answers'
      BY <1>5, <2>3
    <2> QED  BY <2>4 DEF ActsPaid
  <1> QED  BY <1>2, <1>3, <1>4, <1>6 DEF LoopInv

LEMMA ReceiveTurnKeeps ==
  ASSUME LoopInv, NEW n \in 1..MaxTurn, NEW source, NEW d, ReceiveTurn(n, source, d)
  PROVE  LoopInv'
  <1> USE AgentRuntimeAssumption
  <1>1. /\ Transitioned("ASSIGN") /\ EvaluateTurnAppend(n, d) = "APPENDED" /\ convo' = [convo EXCEPT !.last = n]
        /\ lifecycle' = NextState("ASSIGN") /\ loop' = Begin(n)
        /\ UNCHANGED <<agentClock, request, acts, criticalActs, answers>>
    BY DEF ReceiveTurn
  <1>2. ~(n <= convo.last)
    BY <1>1, AppendedIsNew
  <1>3. convo' \in [state : {"OPEN", "CLOSED"}, last : 0..MaxTurn] /\ convo'.last = n /\ convo.last \in Int
    BY <1>1 DEF LoopInv, LoopTypes
  <1>4. n > convo.last /\ convo.last <= convo'.last /\ n <= convo'.last /\ n \in 0..MaxTurn
    BY <1>2, <1>3
  <1>5. Undone(n)
    BY <1>4 DEF LoopInv, TurnsSound, Undone
  <1>6. lifecycle' = "ACTIVE"
    BY <1>1, TransitionTarget
  <1>7. RequestToken' = RequestToken /\ request' \in ApprovalRequest \cup {NoRequest}
        /\ (request' # NoRequest /\ request'.accepted => Answered(request'))
    BY <1>1 DEF RequestToken, LoopInv, LoopTypes, ActsPaid
  <1> QED  BY <1>1, <1>3, <1>4, <1>5, <1>6, <1>7, BeginKeeps

LEMMA FireScheduleKeeps ==
  ASSUME LoopInv, FireSchedule
  PROVE  LoopInv'
  <1> USE AgentRuntimeAssumption
  <1>1. /\ Transitioned("ASSIGN") /\ lifecycle' = NextState("ASSIGN") /\ loop' = Begin(0)
        /\ UNCHANGED <<agentClock, convo, request, acts, criticalActs, answers>>
    BY DEF FireSchedule
  <1>2. lifecycle' = "ACTIVE"
    BY <1>1, TransitionTarget
  <1>3. 0 \in 0..MaxTurn /\ convo.last \in 0..MaxTurn /\ convo.last <= convo'.last /\ 0 <= convo'.last
        /\ convo' \in [state : {"OPEN", "CLOSED"}, last : 0..MaxTurn]
    BY <1>1 DEF LoopInv, LoopTypes
  <1>4. Undone(0)
    BY DEF Undone
  <1>5. RequestToken' = RequestToken /\ request' \in ApprovalRequest \cup {NoRequest}
        /\ (request' # NoRequest /\ request'.accepted => Answered(request'))
    BY <1>1 DEF RequestToken, LoopInv, LoopTypes, ActsPaid
  <1> QED  BY <1>1, <1>2, <1>3, <1>4, <1>5, BeginKeeps

\* An approval resumes the iteration it was asked for, whose turn has not acted.
LEMMA RelayApprovalKeeps ==
  ASSUME LoopInv, NEW current, RelayApproval(current)
  PROVE  LoopInv'
  <1> USE AgentRuntimeAssumption
  <1>1. /\ request # NoRequest /\ Transitioned("APPROVED") /\ EvaluateApprovalRelay(current) = "APPROVAL_ACCEPTED"
        /\ request' = [request EXCEPT !.accepted = TRUE] /\ lifecycle' = NextState("APPROVED")
        /\ loop' = Begin(request.turn) /\ UNCHANGED <<agentClock, convo, acts, criticalActs, answers>>
    BY DEF RelayApproval, loopRest
  <1>2. lifecycle = "AWAITING_APPROVAL" /\ lifecycle' = "ACTIVE"
    BY <1>1, TransitionTarget
  <1>3. request \in ApprovalRequest /\ request.turn \in 0..MaxTurn /\ request.turn <= convo.last /\ Undone(request.turn)
    BY <1>1, <1>2 DEF LoopInv, LoopTypes, TurnsSound, ApprovalRequest
  <1>4. /\ request' \in ApprovalRequest /\ request'.consumed = request.consumed
        /\ request'.by = request.by /\ request'.kind = request.kind /\ request'.id = request.id
    BY <1>1, <1>3 DEF ApprovalRequest
  <1>5. NoRequest \notin ApprovalRequest
    BY DEF NoRequest, ApprovalRequest
  <1>6. RequestToken' = RequestToken
    BY <1>1, <1>4, <1>5 DEF RequestToken, Answered
  <1>7. Answered(request')
    BY <1>1, <1>4, RelayAccepts DEF Answered
  <1>8. convo' \in [state : {"OPEN", "CLOSED"}, last : 0..MaxTurn] /\ convo.last <= convo'.last
        /\ request.turn <= convo'.last
    BY <1>1, <1>3 DEF LoopInv, LoopTypes
  <1> QED  BY <1>1, <1>2, <1>3, <1>4, <1>6, <1>7, <1>8, BeginKeeps

\* The phases before governance only move on.
LEMMA PhaseKeeps ==
  ASSUME LoopInv, UNCHANGED <<loopRest, lifecycle, request, acts, criticalActs, answers>>,
         loop' \in Iteration, loop'.turn = loop.turn, loop'.status = loop.status,
         \/ loop.phase = "PERCEIVE" /\ loop'.phase = "PLAN"
         \/ loop.phase = "PLAN" /\ loop'.phase = "SCREEN"
         \/ loop.phase = "SCREEN" /\ loop'.phase = "GOVERN"
         \/ loop.phase = "ACT" /\ loop'.phase = "OBSERVE"
  PROVE  LoopInv'
  <1>0. UNCHANGED <<agentClock, convo>>
    BY DEF loopRest
  <1>1. LoopTypes'
    BY <1>0 DEF LoopInv, LoopTypes
  <1>2. IterationSound'
    BY <1>0 DEF LoopInv, IterationSound, Undone
  <1>3. TurnsSound'
    <2>1. loop # Idle
      BY DEF Idle
    <2> QED  BY <1>0, <2>1 DEF LoopInv, TurnsSound
  <1>4. LoopToken = 0 /\ LoopToken' = 0
    BY DEF LoopToken, LoopInv, IterationSound
  <1>5. ActsPaid'
    BY <1>4 DEF LoopInv, ActsPaid, RequestToken
  <1> QED  BY <1>1, <1>2, <1>3, <1>5 DEF LoopInv

LEMMA PhasesKeep ==
  ASSUME LoopInv
  PROVE  /\ Proceed => LoopInv'
         /\ \A c \in Contexts : \A d : Plan(c, d) => LoopInv'
         /\ \A s, v : ScreenInput(s, v) => LoopInv'
  <1>0. loop \in Iteration
    BY DEF LoopInv, LoopTypes
  <1>1. ASSUME Proceed PROVE LoopInv'
    <2> DEFINE q == AdvanceLoop(loop.phase, loop.status)
    <2>1. /\ loop.phase \in {"PERCEIVE", "ACT"} /\ loop' = [loop EXCEPT !.phase = q]
          /\ UNCHANGED <<loopRest, lifecycle, request, acts, criticalActs, answers>>
      BY <1>1 DEF Proceed
    <2>2. (loop.phase = "PERCEIVE" /\ q = "PLAN") \/ (loop.phase = "ACT" /\ q = "OBSERVE")
      BY <2>1 DEF AdvanceLoop
    <2>3. q \in Phases
      BY <2>2 DEF Phases
    <2> HIDE DEF q
    <2>4. loop' \in Iteration /\ loop'.turn = loop.turn /\ loop'.status = loop.status /\ loop'.phase = q
      BY <1>0, <2>1, <2>3 DEF Iteration
    <2> QED  BY <2>1, <2>2, <2>4, PhaseKeeps
  <1>2. ASSUME NEW c \in Contexts, NEW d, Plan(c, d) PROVE LoopInv'
    <2> DEFINE q == AdvanceLoop(loop.phase, loop.status)
               w == IF ParseProposedAction(d) = "PARSED" /\ ResolveTool(d) = "RESOLVED" THEN c ELSE "none"
    <2>1. /\ loop.phase = "PLAN" /\ loop' = [loop EXCEPT !.phase = q, !.context = w]
          /\ UNCHANGED <<loopRest, lifecycle, request, acts, criticalActs, answers>>
      BY <1>2 DEF Plan
    <2>2. q = "SCREEN" /\ w \in Contexts \cup {"none"}
      BY <2>1 DEF AdvanceLoop
    <2> HIDE DEF q, w
    <2>3. loop' \in Iteration /\ loop'.turn = loop.turn /\ loop'.status = loop.status /\ loop'.phase = "SCREEN"
      BY <1>0, <2>1, <2>2 DEF Iteration, Phases
    <2> QED  BY <2>1, <2>3, PhaseKeeps
  <1>3. ASSUME NEW s, NEW v, ScreenInput(s, v) PROVE LoopInv'
    <2> DEFINE q == AdvanceLoop(loop.phase, loop.status)
               w == EvaluateInjectionScreen(s, v)
    <2>1. /\ loop.phase = "SCREEN" /\ loop' = [loop EXCEPT !.phase = q, !.screen = w]
          /\ UNCHANGED <<loopRest, lifecycle, request, acts, criticalActs, answers>>
      BY <1>3 DEF ScreenInput
    <2>2. q = "GOVERN" /\ w \in Screen
      BY <2>1 DEF AdvanceLoop, EvaluateInjectionScreen, Screen
    <2> HIDE DEF q, w
    <2>3. loop' \in Iteration /\ loop'.turn = loop.turn /\ loop'.status = loop.status /\ loop'.phase = "GOVERN"
      BY <1>0, <2>1, <2>2 DEF Iteration, Phases
    <2> QED  BY <2>1, <2>3, PhaseKeeps
  <1> QED  BY <1>1, <1>2, <1>3

\* Governance lets a critical iteration through only by consuming the answer that
\* a human gave for its context.
LEMMA GovernKeeps ==
  ASSUME LoopInv, NEW gate, Govern(gate)
  PROVE  LoopInv'
  <1> DEFINE critical == loop.context \in Critical /\ gate.outcome = "ALLOW"
             o == EvaluateAction(loop.screen, gate)
  <1>1. /\ loop.phase = "GOVERN" /\ loop.status = "none"
        /\ critical => request # NoRequest /\ request.accepted /\ ~request.consumed
        /\ loop' = [loop EXCEPT !.status = o]
        /\ request' = IF critical THEN [request EXCEPT !.consumed = TRUE] ELSE request
        /\ UNCHANGED <<agentClock, convo, lifecycle, acts, criticalActs, answers>>
    BY DEF Govern, loopRest
  <1>2. o \in Status /\ (o = "READY_TO_EXECUTE" /\ loop.context \in Critical => critical)
    BY ActionAnswers
  <1> HIDE DEF o, critical
  <1>3. /\ loop \in Iteration /\ loop' \in Iteration /\ loop'.phase = "GOVERN" /\ loop'.turn = loop.turn
        /\ loop'.context = loop.context /\ loop'.status = o
    BY <1>1, <1>2 DEF LoopInv, LoopTypes, Iteration
  <1>4. NoRequest \notin ApprovalRequest
    BY DEF NoRequest, ApprovalRequest
  <1>5. critical => /\ request' \in ApprovalRequest /\ request'.consumed
                    /\ request'.accepted = request.accepted
                    /\ request'.by = request.by /\ request'.kind = request.kind /\ request'.id = request.id
    BY <1>1 DEF LoopInv, LoopTypes, ApprovalRequest
  <1>6. LoopTypes'
    BY <1>1, <1>3, <1>5 DEF LoopInv, LoopTypes
  <1>7. IterationSound'
    BY <1>1, <1>3 DEF LoopInv, IterationSound, Undone
  <1>8. TurnsSound'
    <2>1. loop # Idle
      BY <1>1 DEF Idle
    <2> QED  BY <1>1, <2>1 DEF LoopInv, TurnsSound
  <1>9. LoopToken = 0 /\ LoopToken' \in {0, 1} /\ (LoopToken' = 1 => critical)
    BY <1>1, <1>2, <1>3 DEF LoopToken
  <1>10. /\ critical => RequestToken = 1 /\ RequestToken' = 0
         /\ ~critical => RequestToken' = RequestToken
    BY <1>1, <1>4, <1>5 DEF RequestToken, LoopInv, ActsPaid
  <1>11. criticalActs + LoopToken + RequestToken <= answers /\ criticalActs \in Nat /\ answers \in Nat
         /\ RequestToken \in {0, 1}
    BY DEF LoopInv, ActsPaid, LoopTypes, RequestToken
  <1>12. criticalActs + LoopToken' + RequestToken' <= answers
    BY <1>9, <1>10, <1>11
  <1>13. ActsPaid'
    BY <1>1, <1>4, <1>5, <1>12 DEF ActsPaid, LoopInv, Answered
  <1> QED  BY <1>6, <1>7, <1>8, <1>13 DEF LoopInv

\* The boundary to ACT: the turn acts for the first time, on the token it has.
LEMMA BoundaryKeeps ==
  ASSUME LoopInv, Boundary
  PROVE  LoopInv'
  <1> USE AgentRuntimeAssumption
  <1> DEFINE ready == loop.status = "READY_TO_EXECUTE"
             q == IF ready THEN "ACT" ELSE "HALT"
  <1>1. /\ loop.phase = "GOVERN" /\ loop' = [loop EXCEPT !.phase = q]
        /\ acts' = IF ready THEN [acts EXCEPT ![loop.turn] = @ + 1] ELSE acts
        /\ criticalActs' = IF ready /\ loop.context \in Critical THEN criticalActs + 1 ELSE criticalActs
        /\ UNCHANGED <<agentClock, convo, lifecycle, request, answers>>
    BY DEF Boundary, AdvanceLoop, loopRest
  <1>2. /\ loop \in Iteration /\ loop' \in Iteration /\ loop'.phase = q /\ loop'.turn = loop.turn
        /\ loop'.status = loop.status /\ loop.turn \in 0..MaxTurn
    BY <1>1 DEF LoopInv, LoopTypes, Iteration, Phases
  <1>3. acts \in [0..MaxTurn -> Nat] /\ criticalActs \in Nat /\ answers \in Nat
    BY DEF LoopInv, LoopTypes
  <1>4. acts[loop.turn] \in Nat /\ acts[loop.turn] + 1 \in Nat
    BY <1>2, <1>3
  <1>5. acts' \in [0..MaxTurn -> Nat] /\ criticalActs' \in Nat
    <2>1. acts' = acts \/ acts' = [acts EXCEPT ![loop.turn] = acts[loop.turn] + 1]
      BY <1>1
    <2>2. acts' \in [0..MaxTurn -> Nat]
      BY <1>3, <1>4, <2>1
    <2>3. criticalActs' = criticalActs \/ criticalActs' = criticalActs + 1
      BY <1>1
    <2> QED  BY <1>3, <2>2, <2>3
  <1>6. LoopTypes'
    BY <1>1, <1>2, <1>5 DEF LoopInv, LoopTypes
  <1>7. /\ \A n \in 0..MaxTurn : n # loop.turn => acts'[n] = acts[n]
        /\ ~ready => acts' = acts
        /\ ready => acts'[loop.turn] = acts[loop.turn] + 1
    BY <1>1, <1>2, <1>3
  <1>8. loop.turn <= convo.last /\ Undone(loop.turn) /\ convo.last \in Int
    BY <1>1 DEF LoopInv, IterationSound, LoopTypes
  <1>9. IterationSound'
    <2>1. loop'.phase \notin {"ACT", "OBSERVE"} => acts' = acts
      BY <1>2, <1>7
    <2> QED  BY <1>1, <1>2, <1>8, <2>1 DEF IterationSound, Undone
  <1>10. TurnsSound'
    <2>1. lifecycle' # "AWAITING_APPROVAL"
      BY <1>1 DEF LoopInv, TurnsSound, Idle
    <2>2. ASSUME NEW n \in 1..MaxTurn PROVE acts'[n] <= 1 /\ (n > convo.last => acts'[n] = 0)
      <3>0. n \in 0..MaxTurn /\ acts[n] <= 1 /\ (n > convo.last => acts[n] = 0)
        BY DEF LoopInv, TurnsSound
      <3>1. CASE n # loop.turn \/ ~ready
        BY <1>7, <3>0, <3>1
      <3>2. CASE n = loop.turn /\ ready
        <4>1. acts[n] = 0 /\ ~(n > convo.last)
          BY <1>2, <1>8, <3>2 DEF Undone
        <4> QED  BY <1>7, <3>2, <4>1
      <3> QED  BY <3>1, <3>2
    <2> QED  BY <1>1, <2>1, <2>2 DEF TurnsSound
  <1>11. LoopToken' = 0 /\ RequestToken' = RequestToken /\ LoopToken \in {0, 1} /\ RequestToken \in {0, 1}
         /\ (ready /\ loop.context \in Critical => LoopToken = 1)
    BY <1>1, <1>2 DEF LoopToken, RequestToken
  <1>12. criticalActs + LoopToken + RequestToken <= answers
    BY DEF LoopInv, ActsPaid
  <1>13. criticalActs' + LoopToken' + RequestToken' <= answers'
    <2>1. CASE ready /\ loop.context \in Critical
      BY <1>1, <1>3, <1>11, <1>12, <2>1
    <2>2. CASE ~(ready /\ loop.context \in Critical)
      BY <1>1, <1>3, <1>11, <1>12, <2>2
    <2> QED  BY <2>1, <2>2
  <1>14. ActsPaid'
    BY <1>1, <1>13 DEF LoopInv, ActsPaid
  <1> QED  BY <1>6, <1>9, <1>10, <1>14 DEF LoopInv

\* The iteration ends; one that halted for an approval leaves a request for its turn.
LEMMA EndIterationKeeps ==
  ASSUME LoopInv, EndIteration
  PROVE  LoopInv'
  <1> USE AgentRuntimeAssumption
  <1> DEFINE waits == loop.status = "APPROVAL_REQUIRED"
             asked == [context |-> loop.context, turn |-> loop.turn,
                       by |-> "none", kind |-> "absent", id |-> "absent",
                       expiresAt |-> agentClock + ApprovalLife, consumed |-> FALSE, accepted |-> FALSE]
             e == IF waits THEN "APPROVAL_REQUIRED" ELSE "COMPLETE"
  <1>1. /\ loop.phase \in {"OBSERVE", "HALT"} /\ lifecycle' = NextState(e)
        /\ request' = IF waits THEN asked ELSE request
        /\ loop' = Idle /\ UNCHANGED <<agentClock, convo, acts, criticalActs, answers>>
    BY DEF EndIteration, loopRest
  <1>2. LoopTypes
    BY DEF LoopInv
  <1>3. agentClock + ApprovalLife \in Nat
    BY <1>2 DEF LoopTypes
  <1>4. /\ asked \in ApprovalRequest /\ asked.turn = loop.turn /\ asked.by = "none" /\ ~asked.accepted
    BY <1>2, <1>3 DEF LoopTypes, Iteration, ApprovalRequest
  <1>5. NoRequest \notin ApprovalRequest
    BY DEF NoRequest, ApprovalRequest
  <1> HIDE DEF asked
  <1>6. Idle \in Iteration /\ Idle.phase = "none" /\ Idle.turn = 0 /\ Idle.status = "none"
    BY DEF Idle, Iteration, Status
  <1>7. /\ lifecycle' \in AgentState \cup {"none"}
        /\ lifecycle' = "AWAITING_APPROVAL" => e = "APPROVAL_REQUIRED" \/ lifecycle = "AWAITING_APPROVAL"
    BY <1>1, <1>2, NextStateKnown DEF LoopTypes
  <1>8. lifecycle # "AWAITING_APPROVAL"
    BY <1>1, <1>6 DEF LoopInv, TurnsSound
  <1>9. LoopTypes'
    BY <1>1, <1>2, <1>4, <1>6, <1>7 DEF LoopTypes
  <1>10. convo.last \in 0..MaxTurn
    BY <1>2 DEF LoopTypes
  <1>11. IterationSound'
    BY <1>1, <1>6, <1>10 DEF IterationSound, Undone
  <1>12. lifecycle' = "AWAITING_APPROVAL" => waits
    BY <1>7, <1>8
  <1>13. waits => loop.turn <= convo.last /\ Undone(loop.turn)
    BY <1>1 DEF LoopInv, IterationSound
  <1>14. TurnsSound'
    BY <1>1, <1>4, <1>5, <1>12, <1>13 DEF LoopInv, TurnsSound, Undone
  <1>15. /\ LoopToken' = 0 /\ LoopToken \in {0, 1} /\ RequestToken \in {0, 1}
         /\ RequestToken' \in {0, RequestToken}
    <2>1. LoopToken' = 0 /\ LoopToken \in {0, 1} /\ RequestToken \in {0, 1}
      BY <1>1, <1>6 DEF LoopToken, RequestToken
    <2>2. waits => RequestToken' = 0
      BY <1>1, <1>4 DEF RequestToken, Answered
    <2>3. ~waits => RequestToken' = RequestToken
      BY <1>1 DEF RequestToken
    <2> QED  BY <2>1, <2>2, <2>3
  <1>16. criticalActs + LoopToken + RequestToken <= answers /\ criticalActs \in Nat /\ answers \in Nat
    BY <1>2 DEF LoopInv, ActsPaid, LoopTypes
  <1>17. criticalActs + LoopToken' + RequestToken' <= answers
    <2>1. CASE RequestToken' = 0
      BY <1>15, <1>16, <2>1
    <2>2. CASE RequestToken' = RequestToken
      BY <1>15, <1>16, <2>2
    <2> QED  BY <1>15, <2>1, <2>2
  <1>18. request' # NoRequest /\ request'.accepted => Answered(request')
    BY <1>1, <1>4 DEF LoopInv, ActsPaid
  <1>19. ActsPaid'
    BY <1>1, <1>17, <1>18 DEF ActsPaid
  <1> QED  BY <1>9, <1>11, <1>14, <1>19 DEF LoopInv

\* Someone answers: an answer the relay may accept is a token.
LEMMA DecideApprovalKeeps ==
  ASSUME LoopInv, NEW e \in Envelopes, DecideApproval(e)
  PROVE  LoopInv'
  <1> DEFINE accepts == e.kind \notin AiKinds /\ e.id # AskedBy
  <1>1. /\ request # NoRequest /\ request.by = "none"
        /\ request' = [request EXCEPT !.by = e.by, !.kind = e.kind, !.id = e.id]
        /\ answers' = IF accepts THEN answers + 1 ELSE answers
        /\ UNCHANGED <<agentClock, convo, lifecycle, loop, acts, criticalActs>>
    BY DEF DecideApproval, loopRest
  <1>2. LoopTypes /\ request \in ApprovalRequest
    BY <1>1 DEF LoopInv, LoopTypes
  <1>e. e.by \in Deciders /\ e.kind \in {"HUMAN", "absent"} \cup AiKinds /\ e.id \in Deciders \cup {"absent"}
    BY AgentRuntimeAssumption
  <1>3. /\ request' \in ApprovalRequest /\ request'.turn = request.turn
        /\ request'.by = e.by /\ request'.kind = e.kind /\ request'.id = e.id
        /\ request'.accepted = request.accepted
    BY <1>1, <1>2, <1>e DEF ApprovalRequest
  <1>4. NoRequest \notin ApprovalRequest
    BY DEF NoRequest, ApprovalRequest
  <1>5. answers \in Nat /\ answers' \in Nat
    BY <1>1, <1>2 DEF LoopTypes
  <1>6. LoopTypes'
    BY <1>1, <1>2, <1>3, <1>5 DEF LoopTypes
  <1>7. IterationSound'
    BY <1>1 DEF LoopInv, IterationSound, Undone
  <1>8. TurnsSound'
    BY <1>1, <1>3, <1>4 DEF LoopInv, TurnsSound, Undone
  <1>9. LoopToken' = LoopToken /\ LoopToken \in {0, 1} /\ RequestToken = 0 /\ RequestToken' \in {0, 1}
        /\ (RequestToken' = 1 => accepts)
    BY <1>1, <1>3 DEF LoopToken, RequestToken, Answered
  <1>10. criticalActs + LoopToken + RequestToken <= answers /\ criticalActs \in Nat
    BY <1>2 DEF LoopInv, ActsPaid, LoopTypes
  <1>11. criticalActs + LoopToken' + RequestToken' <= answers'
    <2>1. CASE accepts
      BY <1>1, <1>5, <1>9, <1>10, <2>1
    <2>2. CASE ~accepts
      BY <1>1, <1>5, <1>9, <1>10, <2>2
    <2> QED  BY <2>1, <2>2
  <1>12. ~request.accepted
    BY <1>1 DEF LoopInv, ActsPaid, Answered
  <1>13. ActsPaid'
    BY <1>1, <1>3, <1>11, <1>12 DEF ActsPaid
  <1> QED  BY <1>6, <1>7, <1>8, <1>13 DEF LoopInv

LEMMA LoopStepsKeep ==
  ASSUME LoopInv, LoopSteps
  PROVE  LoopInv'
  <1>0. LoopTypes
    BY DEF LoopInv
  <1>1. ASSUME NEW d, RegisterAgent(d) PROVE LoopInv'
    <2>1. lifecycle' = "REGISTERED" /\ UNCHANGED <<agentClock, convo, loop, request, acts, criticalActs, answers>>
      BY <1>1 DEF RegisterAgent
    <2> QED  BY <1>0, <2>1, LoopFrame DEF LoopTypes, AgentState
  <1>2. ASSUME NEW e \in {"PROVISION", "READY", "SUSPEND", "RESUME", "REVOKE", "TERMINATE"}, NEW i, LifecycleEvent(e, i)
        PROVE  LoopInv'
    <2>1. /\ Transitioned(e) /\ lifecycle' = NextState(e)
          /\ UNCHANGED <<agentClock, convo, loop, request, acts, criticalActs, answers>>
      BY <1>2 DEF LifecycleEvent
    <2>2. lifecycle' \in AgentState /\ lifecycle' # "AWAITING_APPROVAL"
      BY <2>1, TransitionTarget
    <2> QED  BY <1>0, <2>1, <2>2, LoopFrame DEF LoopTypes
  <1>3. CASE CloseConversation
    <2>1. /\ convo' = [convo EXCEPT !.state = "CLOSED"]
          /\ UNCHANGED <<agentClock, lifecycle, loop, request, acts, criticalActs, answers>>
      BY <1>3 DEF CloseConversation
    <2>2. convo' \in [state : {"OPEN", "CLOSED"}, last : 0..MaxTurn] /\ convo'.last = convo.last
      BY <1>0, <2>1 DEF LoopTypes
    <2> QED  BY <1>0, <2>1, <2>2, LoopFrame DEF LoopTypes
  <1>4. CASE CancelSchedule
    BY <1>0, <1>4, LoopFrame DEF CancelSchedule, LoopTypes
  <1>5. CASE AgentTick
    BY <1>0, <1>5, LoopFrame DEF AgentTick, loopVars, LoopTypes
  <1>6. CASE Proceed \/ Boundary \/ EndIteration \/ FireSchedule
    BY <1>6, PhasesKeep, BoundaryKeeps, EndIterationKeeps, FireScheduleKeeps
  <1>7. ASSUME NEW n \in 1..MaxTurn, NEW s, NEW d, ReceiveTurn(n, s, d) PROVE LoopInv'
    BY <1>7, ReceiveTurnKeeps
  <1>8. ASSUME NEW c \in Contexts, NEW d, Plan(c, d) PROVE LoopInv'
    BY <1>8, PhasesKeep
  <1>9. ASSUME NEW s, NEW v, ScreenInput(s, v) PROVE LoopInv'
    BY <1>9, PhasesKeep
  <1>10. ASSUME NEW g, Govern(g) PROVE LoopInv'
    BY <1>10, GovernKeeps
  <1>11. ASSUME NEW e \in Envelopes, DecideApproval(e) PROVE LoopInv'
    BY <1>11, DecideApprovalKeeps
  <1>12. ASSUME NEW c, RelayApproval(c) PROVE LoopInv'
    BY <1>12, RelayApprovalKeeps
  <1> QED  BY <1>1, <1>2, <1>3, <1>4, <1>5, <1>6, <1>7, <1>8, <1>9, <1>10, <1>11, <1>12 DEF LoopSteps

AgentInv == LoopInv /\ LineageInv /\ TaskInv

LEMMA AgentInitInv == AgentInit => AgentInv
  <1> SUFFICES ASSUME AgentInit PROVE AgentInv
    OBVIOUS
  <1> USE AgentRuntimeAssumption
  <1>1. Idle \in Iteration /\ Idle.phase = "none" /\ Idle.turn = 0 /\ Idle.status = "none"
    BY DEF Idle, Iteration, Status
  <1>2. /\ agentClock = 0 /\ lifecycle = "none" /\ convo = [state |-> "OPEN", last |-> 0]
        /\ loop = Idle /\ request = NoRequest /\ acts = [n \in 0..MaxTurn |-> 0] /\ criticalActs = 0 /\ answers = 0
    BY DEF AgentInit
  <1>3. LoopTypes
    BY <1>1, <1>2 DEF LoopTypes
  <1>4. IterationSound /\ TurnsSound
    BY <1>1, <1>2 DEF IterationSound, TurnsSound, Undone
  <1>5. ActsPaid
    BY <1>1, <1>2 DEF ActsPaid, LoopToken, RequestToken
  <1>6. LineageInv
    BY DEF AgentInit, LineageInv, LineageEnds
  <1>7. TaskInv
    BY DEF AgentInit, TaskInv
  <1> QED  BY <1>3, <1>4, <1>5, <1>6, <1>7 DEF AgentInv, LoopInv

\* The loop, the messages and the tasks leave each other alone; they share the clock.
LEMMA AgentStep == AgentInv /\ [LoopSteps \/ TeamSteps \/ TaskSteps]_agentVars => AgentInv'
  <1> SUFFICES ASSUME AgentInv, [LoopSteps \/ TeamSteps \/ TaskSteps]_agentVars PROVE AgentInv'
    OBVIOUS
  <1>1. ASSUME UNCHANGED loopVars, agentClock' \in Nat PROVE LoopInv'
    BY <1>1, LoopFrame DEF AgentInv, LoopInv, LoopTypes, loopVars
  <1>2. ASSUME UNCHANGED parent PROVE LineageInv'
    BY <1>2 DEF AgentInv, LineageInv, LineageEnds
  <1>3. ASSUME UNCHANGED taskVars, agentClock' \in Nat PROVE TaskInv'
    BY <1>3 DEF AgentInv, TaskInv, taskVars
  <1>4. CASE LoopSteps
    <2>1. LoopInv'
      BY <1>4, LoopStepsKeep DEF AgentInv
    <2>2. agentClock' \in Nat
      BY <2>1 DEF LoopInv, LoopTypes
    <2>3. UNCHANGED <<parent, taskVars>>
      BY <1>4 DEF LoopSteps, RegisterAgent, LifecycleEvent, ReceiveTurn, CloseConversation, FireSchedule,
                  CancelSchedule, Proceed, Boundary, EndIteration, Plan, ScreenInput, Govern, DecideApproval,
                  RelayApproval, AgentTick, loopRest
    <2> QED  BY <1>2, <1>3, <2>1, <2>2, <2>3 DEF AgentInv
  <1>5. CASE TeamSteps
    <2>1. LineageInv'
      BY <1>5, RouteMessageKeeps DEF TeamSteps, AgentInv
    <2>2. UNCHANGED <<agentClock, loopVars, taskVars>>
      BY <1>5 DEF TeamSteps, RouteMessage
    <2>3. agentClock' \in Nat
      BY <2>2 DEF AgentInv, TaskInv
    <2> QED  BY <1>1, <1>3, <2>1, <2>2, <2>3 DEF AgentInv
  <1>6. CASE TaskSteps
    <2>1. TaskInv'
      BY <1>6, TaskStepsKeep DEF AgentInv
    <2>2. UNCHANGED <<loopVars, parent>>
      BY <1>6 DEF TaskSteps, StartTask, TaskEnds, TaskRefused, AgentTick
    <2>3. agentClock' \in Nat
      BY <2>1 DEF TaskInv
    <2> QED  BY <1>1, <1>2, <2>1, <2>2, <2>3 DEF AgentInv
  <1>7. CASE UNCHANGED agentVars
    <2>1. UNCHANGED <<agentClock, loopVars, parent, taskVars>>
      BY <1>7 DEF agentVars
    <2>2. agentClock' \in Nat
      BY <2>1 DEF AgentInv, TaskInv
    <2> QED  BY <1>1, <1>2, <1>3, <2>1, <2>2 DEF AgentInv
  <1> QED  BY <1>4, <1>5, <1>6, <1>7

\* For any team, turns, contexts and limits: a turn acts once although it may be
\* begun again after an approval, every critical act has an answer of its own given
\* neither under a declared AI kind nor under the requester's id, messages close no
\* circle of causes, and a task's starts are bounded.  An answer that leaves out its
\* kind and id counts as such an answer: see HumanApproves.
THEOREM AgentSafety == AgentSpec => []AgentSafe
  <1>1. AgentSpec => []AgentInv
    BY AgentInitInv, AgentStep, PTL DEF AgentSpec
  <1>2. AgentInv => AgentSafe
    <2> SUFFICES ASSUME AgentInv PROVE AgentSafe
      OBVIOUS
    <2>1. AgentTypeOK
      BY DEF AgentInv, LoopInv, LoopTypes, Iteration, LineageInv, AgentTypeOK
    <2>2. TurnActsOnce /\ LineageEnds /\ PoisonBounded
      BY DEF AgentInv, LoopInv, TurnsSound, LineageInv, TaskInv, TurnActsOnce, PoisonBounded
    <2>3. ActsApproved
      <3>1. criticalActs + LoopToken + RequestToken <= answers /\ criticalActs \in Nat /\ answers \in Nat
        BY DEF AgentInv, LoopInv, ActsPaid, LoopTypes
      <3>2. LoopToken \in {0, 1} /\ RequestToken \in {0, 1}
        BY DEF LoopToken, RequestToken
      <3> QED  BY <3>1, <3>2 DEF ActsApproved
    <2> QED  BY <2>1, <2>2, <2>3 DEF AgentSafe
  <1> QED  BY <1>1, <1>2, PTL

-----------------------------------------------------------------------------
(* The engines: three-valued conditions against what they say *)

Verdicts == {"true", "false", "unknown"}

\* The course of the evaluation, level by level.
Levelled(attrs, f) ==
    f = [k \in 0..(MaxConditionDepth + 1) |->
            [x \in Conditions |-> IF k = 0 THEN "unknown"
                 ELSE ConditionVerdict(x, attrs, {f[k - 1][y] : y \in PartsOf(x)})]]

LEMMA EvaluationIsLevelled ==
    ASSUME NEW c, NEW attrs
    PROVE  EvaluateCondition(c, attrs) = (CHOOSE f : Levelled(attrs, f))[MaxConditionDepth + 1][c]
  BY DEF EvaluateCondition, Levelled

LEMMA Parts ==
    ASSUME NEW c \in Conditions
    PROVE  /\ PartsOf(c) \subseteq Conditions
           /\ \A x \in PartsOf(c) : Height[x] < Height[c]
           /\ c.op \in Compound => PartsOf(c) = c.of
           /\ c.op = "not" => \E x \in Conditions : c.of = {x}
           /\ c.op \in {"always", "and", "or", "not", "attr_eq", "attr_ne", "attr_in", "attr_gte", "attr_lte"}
           /\ Height[c] \in Nat /\ Height[c] <= MaxHeight
  BY EnginesAssumption DEF PartsOf, Compound, Numeric, Plain

LEMMA VerdictTyped ==
    ASSUME NEW c \in Conditions, NEW attrs, NEW parts
    PROVE  ConditionVerdict(c, attrs, parts) \in Verdicts
<1>1. c.op \in {"always", "and", "or", "not", "attr_eq", "attr_ne", "attr_in", "attr_gte", "attr_lte"}
  BY Parts
<1> QED BY <1>1 DEF ConditionVerdict, Truth, Verdicts

\* The evaluation takes its course, and each level is what the switch makes of the one
\* below it.
LEMMA LevelsRun ==
    ASSUME NEW attrs
    PROVE  LET f == CHOOSE g : Levelled(attrs, g)
           IN  /\ \A x \in Conditions : f[0][x] = "unknown"
               /\ \A k \in 1..(MaxConditionDepth + 1) : \A x \in Conditions :
                     f[k][x] = ConditionVerdict(x, attrs, {f[k - 1][y] : y \in PartsOf(x)})
<1> DEFINE N == MaxConditionDepth + 1
           V == [Conditions -> Verdicts]
           Up(h) == [x \in Conditions |-> ConditionVerdict(x, attrs, {h[y] : y \in PartsOf(x)})]
           F == [k \in 1..N |-> [h \in V |-> Up(h)]]
           a == [x \in Conditions |-> "unknown"]
           f == CHOOSE g : Levelled(attrs, g)
<1>1. N \in Nat
  BY EnginesAssumption
<1>2. \A h \in V : Up(h) \in V
  BY VerdictTyped
<1>3. F \in [1..N -> [V -> V]] /\ a \in V
  BY <1>2 DEF Verdicts
<1>4. \A k \in 1..N : \A h \in V : F[k][h] = Up(h)
  OBVIOUS
<1> HIDE DEF N, V, F
<1>5. \E g : Levelled(attrs, g)
  <2>1. PICK g \in [0..N -> V] : g[0] = a /\ \A k \in 1..N : g[k] = F[k][g[k - 1]]
    <3> HIDE DEF a
    <3> QED BY <1>1, <1>3, LoopRuns
  <2>2. ASSUME NEW k \in 0..N
        PROVE  g[k] = [x \in Conditions |-> IF k = 0 THEN "unknown"
                          ELSE ConditionVerdict(x, attrs, {g[k - 1][y] : y \in PartsOf(x)})]
    <3>1. CASE k = 0 BY <2>1, <3>1
    <3>2. CASE k # 0
      <4>1. k \in 1..N /\ k - 1 \in 0..N BY <1>1, <3>2
      <4>2. g[k - 1] \in V BY <2>1, <4>1
      <4>3. g[k] = Up(g[k - 1])
        <5> HIDE DEF Up
        <5> QED BY <1>4, <2>1, <4>1, <4>2
      <4> QED BY <3>2, <4>3
    <3> QED BY <3>1, <3>2
  <2>3. g = [k \in 0..N |-> [x \in Conditions |-> IF k = 0 THEN "unknown"
                ELSE ConditionVerdict(x, attrs, {g[k - 1][y] : y \in PartsOf(x)})]]
    BY <2>1, <2>2
  <2> QED BY <2>3 DEF Levelled, N
<1>6. Levelled(attrs, f)
  BY <1>5
<1> HIDE DEF f
<1>7. /\ 0 \in 0..N /\ \A k \in 1..N : k \in 0..N /\ k # 0
  BY <1>1
<1>8. \A k \in 0..N : f[k] = [x \in Conditions |-> IF k = 0 THEN "unknown"
                                  ELSE ConditionVerdict(x, attrs, {f[k - 1][y] : y \in PartsOf(x)})]
  BY <1>6 DEF Levelled, N
<1>9. \A x \in Conditions : f[0][x] = "unknown"
  BY <1>7, <1>8
<1>10. \A k \in 1..N : \A x \in Conditions :
          f[k][x] = ConditionVerdict(x, attrs, {f[k - 1][y] : y \in PartsOf(x)})
  BY <1>7, <1>8
<1> QED BY <1>9, <1>10 DEF f, N

\* What a condition says depends on what its parts say.
LEMMA SaysByParts ==
    ASSUME NEW c \in Conditions, NEW total, NEW G, NEW H, \A x \in PartsOf(c) : G[x] = H[x]
    PROVE  Says(c, total, G) = Says(c, total, H)
<1>1. /\ c.op \in {"always", "and", "or", "not", "attr_eq", "attr_ne", "attr_in", "attr_gte", "attr_lte"}
      /\ c.op \in Compound => PartsOf(c) = c.of
  BY Parts
<1> QED BY <1>1 DEF Says, Compound

LEMMA SaysTyped ==
    ASSUME NEW c \in Conditions, NEW total, NEW G \in [Conditions -> BOOLEAN]
    PROVE  Says(c, total, G) \in BOOLEAN
<1>1. /\ c.op \in {"always", "and", "or", "not", "attr_eq", "attr_ne", "attr_in", "attr_gte", "attr_lte"}
      /\ c.op \in Compound => c.of \subseteq Conditions
  BY Parts
<1>2. CASE c.op = "always" BY <1>2 DEF Says
<1>3. CASE c.op = "attr_eq" BY <1>3 DEF Says
<1>4. CASE c.op = "attr_ne" BY <1>4 DEF Says
<1>5. CASE c.op = "attr_in" BY <1>5 DEF Says
<1>6. CASE c.op = "attr_gte" BY <1>6 DEF Says
<1>7. CASE c.op = "attr_lte" BY <1>7 DEF Says
<1>8. CASE c.op = "and" BY <1>8 DEF Says
<1>9. CASE c.op = "or" BY <1>9 DEF Says
<1>10. CASE c.op = "not" BY <1>10 DEF Says
<1> QED BY <1>1, <1>2, <1>3, <1>4, <1>5, <1>6, <1>7, <1>8, <1>9, <1>10

\* H gives every condition the truth value its parts make it have.
Meaning(total, H) == H = [x \in Conditions |-> Says(x, total, [y \in PartsOf(x) |-> H[y]])]

\* Conditions are finite trees: by their height, every one has a truth value.
LEMMA MeaningExists ==
    ASSUME NEW total
    PROVE  \E H : H \in [Conditions -> BOOLEAN] /\ Meaning(total, H)
<1> DEFINE N == MaxHeight + 2
           V == [Conditions -> BOOLEAN]
           Up(h) == [x \in Conditions |-> Says(x, total, h)]
           F == [k \in 1..N |-> [h \in V |-> Up(h)]]
           a == [x \in Conditions |-> FALSE]
<1>1. N \in Nat /\ MaxHeight \in Nat
  BY EnginesAssumption
<1>2. \A h \in V : Up(h) \in V
  BY SaysTyped
<1>3. F \in [1..N -> [V -> V]] /\ a \in V
  BY <1>2
<1>4. \A k \in 1..N : \A h \in V : F[k][h] = Up(h)
  OBVIOUS
<1>5. PICK g \in [0..N -> V] : \A k \in 1..N : g[k] = F[k][g[k - 1]]
  <2> HIDE DEF N, V, F, a
  <2> QED BY <1>1, <1>3, LoopRuns
<1>6. ASSUME NEW k \in 1..N PROVE g[k] = Up(g[k - 1])
  <2>1. k - 1 \in 0..N BY <1>1
  <2>2. g[k - 1] \in V
    <3> HIDE DEF N, V
    <3> QED BY <1>5, <2>1
  <2> HIDE DEF V, F, Up, N
  <2> QED BY <1>4, <1>5, <2>2
<1> DEFINE good == {k \in 0..(N - 1) : \A x \in Conditions : Height[x] < k => g[k + 1][x] = g[k][x]}
<1>7. \A k \in 0..(N - 1) : k \in good
  <2>1. N - 1 \in Nat BY <1>1
  <2>2. 0 \in good
    BY <2>1, Parts
  <2>3. ASSUME NEW k \in 0..((N - 1) - 1), k \in good PROVE k + 1 \in good
    <3>1. /\ k + 1 \in 1..N /\ (k + 1) - 1 = k /\ k + 2 \in 1..N /\ (k + 2) - 1 = k + 1 /\ (k + 1) + 1 = k + 2
          /\ k + 1 \in 0..(N - 1) /\ k \in Nat
      BY <1>1
    <3>2. g[k + 1] = Up(g[k]) /\ g[k + 2] = Up(g[k + 1]) BY <1>6, <3>1
    <3>3. ASSUME NEW x \in Conditions, Height[x] < k + 1 PROVE g[k + 2][x] = g[k + 1][x]
      <4>1. \A y \in PartsOf(x) : y \in Conditions /\ Height[y] < k BY <3>1, <3>3, Parts
      <4>2. \A y \in PartsOf(x) : g[k + 1][y] = g[k][y] BY <2>3, <4>1
      <4>3. Says(x, total, g[k + 1]) = Says(x, total, g[k]) BY <4>2, SaysByParts
      <4>4. g[k + 1][x] = Says(x, total, g[k]) /\ g[k + 2][x] = Says(x, total, g[k + 1]) BY <3>2
      <4> QED BY <4>3, <4>4
    <3> HIDE DEF N
    <3> QED BY <3>1, <3>3
  <2> HIDE DEF good, N
  <2> QED BY <2>1, <2>2, <2>3, UptoInduction
<1> DEFINE n == MaxHeight + 1
           H == g[n]
<1>8. n \in good /\ n \in 0..N /\ n + 1 \in 1..N /\ (n + 1) - 1 = n
  BY <1>1, <1>7
<1>9. H \in V
  <2> HIDE DEF N, V, n
  <2> QED BY <1>5, <1>8
<1>10. ASSUME NEW x \in Conditions PROVE H[x] = Says(x, total, [y \in PartsOf(x) |-> H[y]])
  <2>1. Height[x] < n BY <1>1, Parts
  <2>2. g[n + 1][x] = H[x] BY <1>8, <2>1
  <2>3. g[n + 1] = Up(H) BY <1>6, <1>8
  <2>4. H[x] = Says(x, total, H) BY <2>2, <2>3
  <2> HIDE DEF H
  <2>5. \A y \in PartsOf(x) : H[y] = [z \in PartsOf(x) |-> H[z]][y] OBVIOUS
  <2> QED BY <2>4, <2>5, SaysByParts
<1> HIDE DEF H
<1>11. H = [x \in Conditions |-> Says(x, total, [y \in PartsOf(x) |-> H[y]])]
  BY <1>9, <1>10
<1> QED BY <1>9, <1>11 DEF Meaning

\* The reference says of every condition what the reference says of its parts makes it.
LEMMA HoldsIsMeaning ==
    ASSUME NEW total
    PROVE  \E H : /\ \A c \in Conditions : Holds(c, total) = H[c]
                  /\ \A c \in Conditions : H[c] = Says(c, total, H)
<1> DEFINE H == CHOOSE h : Meaning(total, h)
<1>1. Meaning(total, H)
  BY MeaningExists
<1>2. \A c : Holds(c, total) = H[c]
  BY DEF Holds, Meaning
<1> HIDE DEF H
<1>3. ASSUME NEW c \in Conditions PROVE H[c] = Says(c, total, H)
  <2>1. H[c] = Says(c, total, [y \in PartsOf(c) |-> H[y]]) BY <1>1 DEF Meaning
  <2>2. \A y \in PartsOf(c) : [z \in PartsOf(c) |-> H[z]][y] = H[y] OBVIOUS
  <2> QED BY <2>1, <2>2, SaysByParts
<1> QED BY <1>2, <1>3

\* total is a request that the known attributes of attrs leave open.
Completes(total, attrs) ==
    /\ attrs \in [Attributes -> Amounts \cup {Unknown}] /\ total \in [Attributes -> Amounts]
    /\ \A a \in Attributes : attrs[a] # Unknown => total[a] = attrs[a]

\* A verdict that is not unknown agrees with the truth.
Agrees(v, holds) == (v = "true" => holds) /\ (v = "false" => ~holds)

\* One level: if the verdicts of the parts agree with the truth, so does the switch.
LEMMA SwitchAgrees ==
    ASSUME NEW c \in Conditions, NEW attrs, NEW total, Completes(total, attrs), NEW v, NEW H,
           \A x \in PartsOf(c) : v[x] \in Verdicts /\ Agrees(v[x], H[x])
    PROVE  Agrees(ConditionVerdict(c, attrs, {v[x] : x \in PartsOf(c)}), Says(c, total, H))
<1> DEFINE parts == {v[x] : x \in PartsOf(c)}
           w == ConditionVerdict(c, attrs, parts)
<1>1. /\ c.op \in {"always", "and", "or", "not", "attr_eq", "attr_ne", "attr_in", "attr_gte", "attr_lte"}
      /\ c.op \in Compound => PartsOf(c) = c.of
      /\ c.op = "not" => \E x \in Conditions : c.of = {x}
  BY Parts
<1>2. c.op \in Numeric \cup Plain => /\ c.attr \in Attributes
                                     /\ attrs[c.attr] # Unknown => total[c.attr] = attrs[c.attr]
  BY EnginesAssumption DEF Completes
<1>3. Unknown \notin 0..9
  BY EnginesAssumption
<1> USE DEF Agrees
<1>4. CASE c.op = "always" BY <1>4 DEF ConditionVerdict, Says
<1>5. CASE c.op \in Plain BY <1>2, <1>5 DEF ConditionVerdict, Says, Truth, Plain
<1>6. CASE c.op = "attr_gte"
  <2>1. c.op \in Numeric BY <1>6 DEF Numeric
  <2>2. w = IF attrs[c.attr] \notin 0..9 THEN "unknown" ELSE Truth(attrs[c.attr] >= c.value)
    BY <1>6 DEF ConditionVerdict
  <2>3. Says(c, total, H) <=> total[c.attr] \in 0..9 /\ total[c.attr] >= c.value BY <1>6 DEF Says
  <2> HIDE DEF w
  <2>4. CASE attrs[c.attr] \in 0..9
    <3>1. total[c.attr] = attrs[c.attr] BY <1>2, <1>3, <2>1, <2>4
    <3> QED BY <2>2, <2>3, <2>4, <3>1 DEF Truth, w
  <2>5. CASE attrs[c.attr] \notin 0..9 BY <2>2, <2>5 DEF w
  <2> QED BY <2>4, <2>5
<1>7. CASE c.op = "attr_lte"
  <2>1. c.op \in Numeric BY <1>7 DEF Numeric
  <2>2. w = IF attrs[c.attr] \notin 0..9 THEN "unknown" ELSE Truth(attrs[c.attr] <= c.value)
    BY <1>7 DEF ConditionVerdict
  <2>3. Says(c, total, H) <=> total[c.attr] \in 0..9 /\ total[c.attr] <= c.value BY <1>7 DEF Says
  <2> HIDE DEF w
  <2>4. CASE attrs[c.attr] \in 0..9
    <3>1. total[c.attr] = attrs[c.attr] BY <1>2, <1>3, <2>1, <2>4
    <3> QED BY <2>2, <2>3, <2>4, <3>1 DEF Truth, w
  <2>5. CASE attrs[c.attr] \notin 0..9 BY <2>2, <2>5 DEF w
  <2> QED BY <2>4, <2>5
<1>8. CASE c.op = "and"
  <2>1. PartsOf(c) = c.of BY <1>1, <1>8 DEF Compound
  <2>2. w = IF "false" \in parts THEN "false" ELSE IF "unknown" \in parts THEN "unknown" ELSE "true"
    BY <1>8 DEF ConditionVerdict
  <2>3. Says(c, total, H) <=> \A x \in c.of : H[x] BY <1>8 DEF Says
  <2> QED BY <2>1, <2>2, <2>3 DEF Verdicts
<1>9. CASE c.op = "or"
  <2>1. PartsOf(c) = c.of BY <1>1, <1>9 DEF Compound
  <2>2. w = IF "true" \in parts THEN "true" ELSE IF "unknown" \in parts THEN "unknown" ELSE "false"
    BY <1>9 DEF ConditionVerdict
  <2>3. Says(c, total, H) <=> \E x \in c.of : H[x] BY <1>9 DEF Says
  <2> QED BY <2>1, <2>2, <2>3 DEF Verdicts
<1>10. CASE c.op = "not"
  <2>1. PartsOf(c) = c.of BY <1>1, <1>10 DEF Compound
  <2>2. w = IF "unknown" \in parts THEN "unknown" ELSE Truth("false" \in parts)
    BY <1>10 DEF ConditionVerdict
  <2>3. Says(c, total, H) <=> \A x \in c.of : ~H[x] BY <1>10 DEF Says
  <2>4. PICK x \in Conditions : c.of = {x} BY <1>1, <1>10
  <2>5. parts = {v[x]} BY <2>1, <2>4
  <2>6. v[x] \in Verdicts /\ (v[x] = "true" => H[x]) /\ (v[x] = "false" => ~H[x]) BY <2>1, <2>4
  <2>7. Says(c, total, H) <=> ~H[x] BY <2>3, <2>4
  <2> HIDE DEF parts, w
  <2>8. w = IF v[x] = "unknown" THEN "unknown" ELSE IF v[x] = "false" THEN "true" ELSE "false"
    BY <2>2, <2>5 DEF Truth
  <2>9. Agrees(w, Says(c, total, H)) BY <2>6, <2>7, <2>8 DEF Verdicts
  <2> QED BY <2>9 DEF w, parts
<1> QED BY <1>1, <1>4, <1>5, <1>6, <1>7, <1>8, <1>9, <1>10 DEF Plain

\* evaluateCondition is sound for any condition however deep, and any request: what it
\* calls true or false is so whatever the attributes it does not know turn out to be.
THEOREM EvaluationSound ==
    ASSUME NEW c \in Conditions, NEW attrs, NEW total, Completes(total, attrs)
    PROVE  /\ EvaluateCondition(c, attrs) \in Verdicts
           /\ EvaluateCondition(c, attrs) = "true" => Holds(c, total)
           /\ EvaluateCondition(c, attrs) = "false" => ~Holds(c, total)
<1> DEFINE N == MaxConditionDepth + 1
           f == CHOOSE g : Levelled(attrs, g)
<1>1. N \in Nat
  BY EnginesAssumption
<1>2. /\ \A x \in Conditions : f[0][x] = "unknown"
      /\ \A k \in 1..N : \A x \in Conditions :
            f[k][x] = ConditionVerdict(x, attrs, {f[k - 1][y] : y \in PartsOf(x)})
  BY LevelsRun
<1>3. PICK H : /\ \A x \in Conditions : Holds(x, total) = H[x]
               /\ \A x \in Conditions : H[x] = Says(x, total, H)
  BY HoldsIsMeaning
<1>4. EvaluateCondition(c, attrs) = f[N][c]
  BY EvaluationIsLevelled
<1> HIDE DEF f, N
<1> DEFINE good == {k \in 0..N : \A x \in Conditions : f[k][x] \in Verdicts /\ Agrees(f[k][x], H[x])}
<1>5. \A k \in 0..N : k \in good
  <2>1. 0 \in good
    BY <1>1, <1>2 DEF Verdicts, Agrees
  <2>2. ASSUME NEW k \in 0..(N - 1), k \in good PROVE k + 1 \in good
    <3>1. k + 1 \in 1..N /\ (k + 1) - 1 = k /\ k + 1 \in 0..N BY <1>1
    <3>2. ASSUME NEW x \in Conditions PROVE f[k + 1][x] \in Verdicts /\ Agrees(f[k + 1][x], H[x])
      <4> DEFINE v == f[k]
      <4>1. f[k + 1][x] = ConditionVerdict(x, attrs, {v[y] : y \in PartsOf(x)}) BY <1>2, <3>1
      <4>2. \A y \in PartsOf(x) : v[y] \in Verdicts /\ Agrees(v[y], H[y]) BY <2>2, Parts
      <4> HIDE DEF v
      <4>3. Agrees(ConditionVerdict(x, attrs, {v[y] : y \in PartsOf(x)}), Says(x, total, H))
        BY <4>2, SwitchAgrees
      <4>4. ConditionVerdict(x, attrs, {v[y] : y \in PartsOf(x)}) \in Verdicts BY VerdictTyped
      <4> QED BY <1>3, <4>1, <4>3, <4>4
    <3> QED BY <3>1, <3>2
  <2> HIDE DEF good
  <2> QED BY <1>1, <2>1, <2>2, UptoInduction
<1>6. f[N][c] \in Verdicts /\ Agrees(f[N][c], H[c])
  BY <1>1, <1>5
<1> QED BY <1>3, <1>4, <1>6 DEF Agrees

-----------------------------------------------------------------------------
(* The engines: the risk score *)

PickSignal(S) == CHOOSE x \in S : TRUE

\* What the sum behind Score computes on the sets T, from the rest of each.
WeighOne(f, T) == IF T = {} THEN 0 ELSE PickSignal(T).weight + f[T \ {PickSignal(T)}]

Weighs(f, S) == f = [T \in SUBSET S |-> WeighOne(f, T)]

LEMMA WeightIsFold ==
    ASSUME NEW S
    PROVE  MapThenSumSet(LAMBDA f : f.weight, S) = (CHOOSE f : Weighs(f, S))[S]
  BY DEF MapThenSumSet, MapThenFoldSet, Weighs, WeighOne, PickSignal

LEMMA OneSignalLess ==
    ASSUME NEW T \in SUBSET SignalSet
    PROVE  /\ IsFiniteSet(T) /\ Cardinality(T) \in Nat /\ (T = {} <=> Cardinality(T) = 0)
           /\ Cardinality(T) <= Cardinality(SignalSet) /\ Cardinality(SignalSet) \in Nat
           /\ T # {} => /\ PickSignal(T) \in T /\ PickSignal(T).weight \in Int
                        /\ T \ {PickSignal(T)} \in SUBSET SignalSet
                        /\ Cardinality(T \ {PickSignal(T)}) = Cardinality(T) - 1
<1>1. IsFiniteSet(SignalSet) /\ \A f \in SignalSet : f.weight \in Int
  BY EnginesAssumption
<1>2. IsFiniteSet(T) /\ Cardinality(T) <= Cardinality(SignalSet) /\ Cardinality(SignalSet) \in Nat
  BY <1>1, FS_Subset, FS_CardinalityType
<1>3. Cardinality(T) \in Nat /\ (T = {} <=> Cardinality(T) = 0)
  BY <1>2, FS_CardinalityType, FS_EmptySet
<1>4. T # {} => PickSignal(T) \in T
  BY DEF PickSignal
<1>5. \A x \in T : Cardinality(T \ {x}) = Cardinality(T) - 1
  BY <1>2, FS_RemoveElement
<1> QED BY <1>1, <1>2, <1>3, <1>4, <1>5

\* Any set of signals has a weight, and it is a number.
LEMMA WeightTyped ==
    ASSUME NEW S \in SUBSET SignalSet
    PROVE  MapThenSumSet(LAMBDA f : f.weight, S) \in Int
<1> DEFINE D == SUBSET S
           N == Cardinality(SignalSet)
           V == [D -> Int]
           Up(h) == [T \in D |-> WeighOne(h, T)]
           F == [k \in 1..N |-> [h \in V |-> Up(h)]]
           a == [T \in D |-> 0]
<1>1. N \in Nat /\ \A T \in D : T \in SUBSET SignalSet
  BY OneSignalLess
<1>2. ASSUME NEW h \in V, NEW T \in D PROVE WeighOne(h, T) \in Int
  <2>1. CASE T = {} BY <2>1 DEF WeighOne
  <2>2. CASE T # {}
    <3>1. PickSignal(T).weight \in Int /\ T \ {PickSignal(T)} \in D BY <1>1, <2>2, OneSignalLess
    <3>2. h[T \ {PickSignal(T)}] \in Int BY <3>1
    <3> QED BY <2>2, <3>1, <3>2 DEF WeighOne
  <2> QED BY <2>1, <2>2
<1>3. \A h \in V : Up(h) \in V
  BY <1>2
<1>4. F \in [1..N -> [V -> V]] /\ a \in V
  <2>1. a \in V OBVIOUS
  <2> HIDE DEF V, Up, N, a
  <2>2. F \in [1..N -> [V -> V]] BY <1>3
  <2> QED BY <2>1, <2>2
<1>a. \A T \in D : Cardinality(T) \in Nat /\ (T = {} <=> Cardinality(T) = 0) /\ Cardinality(T) <= N
  <2>1. ASSUME NEW T \in D
        PROVE  Cardinality(T) \in Nat /\ (T = {} <=> Cardinality(T) = 0) /\ Cardinality(T) <= N
    BY <1>1, OneSignalLess
  <2> QED BY <2>1
<1>5. \A k \in 1..N : \A h \in V : F[k][h] = Up(h)
  OBVIOUS
<1>6. PICK g \in [0..N -> V] : g[0] = a /\ \A k \in 1..N : g[k] = F[k][g[k - 1]]
  <2> HIDE DEF N, V, F, a
  <2> QED BY <1>1, <1>4, LoopRuns
<1> HIDE DEF V, F, N
<1>7. ASSUME NEW k \in 1..N PROVE g[k] = Up(g[k - 1])
  <2>1. k - 1 \in 0..N BY <1>1
  <2>2. g[k - 1] \in V BY <1>6, <2>1
  <2> HIDE DEF Up
  <2> QED BY <1>5, <1>6, <2>2
<1> DEFINE good == {k \in 0..N : \A T \in D : Cardinality(T) <= k => g[k][T] = WeighOne(g[k], T)}
<1>8. \A k \in 0..N : k \in good
  <2>1. 0 \in good
    <3>1. ASSUME NEW T \in D, Cardinality(T) <= 0 PROVE g[0][T] = WeighOne(g[0], T)
      <4>1. T = {}
        <5>1. Cardinality(T) = 0 BY <1>a, <3>1
        <5> QED BY <1>a, <5>1
      <4>2. g[0][T] = 0 BY <1>6
      <4> QED BY <4>1, <4>2 DEF WeighOne
    <3>2. 0 \in 0..N BY <1>1
    <3> QED BY <3>1, <3>2
  <2>2. ASSUME NEW k \in 0..(N - 1), k \in good PROVE k + 1 \in good
    <3>1. k + 1 \in 1..N /\ (k + 1) - 1 = k /\ k + 1 \in 0..N /\ k \in Nat BY <1>1
    <3>2. g[k + 1] = Up(g[k]) BY <1>7, <3>1
    <3>3. \A T \in D : g[k + 1][T] = WeighOne(g[k], T) BY <3>2
    <3>4. \A T \in D : Cardinality(T) <= k => g[k + 1][T] = g[k][T] BY <2>2, <3>3
    <3>5. ASSUME NEW T \in D, Cardinality(T) <= k + 1 PROVE g[k + 1][T] = WeighOne(g[k + 1], T)
      <4>1. CASE T = {} BY <3>3, <4>1 DEF WeighOne
      <4>2. CASE T # {}
        <5> DEFINE R == T \ {PickSignal(T)}
        <5>1. R \in D /\ Cardinality(R) = Cardinality(T) - 1 /\ Cardinality(T) \in Nat
          BY <1>1, <4>2, OneSignalLess
        <5>2. g[k + 1][R] = g[k][R]
          <6>1. Cardinality(R) <= k BY <3>1, <3>5, <5>1
          <6> HIDE DEF R
          <6> QED BY <3>4, <5>1, <6>1
        <5> QED BY <3>3, <4>2, <5>2 DEF WeighOne
      <4> QED BY <4>1, <4>2
    <3> QED BY <3>1, <3>5
  <2> HIDE DEF good
  <2> QED BY <1>1, <2>1, <2>2, UptoInduction
<1> DEFINE h == g[N]
<1>9. h \in V /\ N \in good
  BY <1>1, <1>6, <1>8
<1>10. \A T \in D : h[T] = WeighOne(h, T)
  BY <1>1, <1>9, OneSignalLess DEF N
<1> HIDE DEF h
<1>11. h = [T \in D |-> h[T]] /\ \A T \in D : h[T] \in Int
  BY <1>9 DEF V
<1>12. h = [T \in D |-> WeighOne(h, T)]
  BY <1>10, <1>11
<1>13. Weighs(h, S)
  BY <1>12 DEF Weighs
<1> DEFINE f == CHOOSE x : Weighs(x, S)
<1>14. Weighs(f, S)
  BY <1>13
<1>15. MapThenSumSet(LAMBDA x : x.weight, S) = f[S]
  BY WeightIsFold
<1> HIDE DEF f
<1> DEFINE same == {k \in 0..N : \A T \in D : Cardinality(T) <= k => f[T] = h[T]}
<1>16. \A T \in D : f[T] = WeighOne(f, T)
  BY <1>14 DEF Weighs
<1>17. \A k \in 0..N : k \in same
  <2>1. 0 \in same
    <3>1. ASSUME NEW T \in D, Cardinality(T) <= 0 PROVE f[T] = h[T]
      <4>1. T = {}
        <5>1. Cardinality(T) = 0 BY <1>a, <3>1
        <5> QED BY <1>a, <5>1
      <4> QED BY <1>10, <1>16, <4>1 DEF WeighOne
    <3>2. 0 \in 0..N BY <1>1
    <3> QED BY <3>1, <3>2
  <2>2. ASSUME NEW k \in 0..(N - 1), k \in same PROVE k + 1 \in same
    <3>1. k + 1 \in 0..N /\ k \in Nat BY <1>1
    <3>2. ASSUME NEW T \in D, Cardinality(T) <= k + 1 PROVE f[T] = h[T]
      <4>1. CASE T = {} BY <1>10, <1>16, <4>1 DEF WeighOne
      <4>2. CASE T # {}
        <5> DEFINE R == T \ {PickSignal(T)}
        <5>1. R \in D /\ Cardinality(R) = Cardinality(T) - 1 /\ Cardinality(T) \in Nat
          BY <1>1, <4>2, OneSignalLess
        <5>2. f[R] = h[R]
          <6>1. Cardinality(R) <= k BY <3>1, <3>2, <5>1
          <6> HIDE DEF R
          <6> QED BY <2>2, <5>1, <6>1
        <5> QED BY <1>10, <1>16, <4>2, <5>2 DEF WeighOne
      <4> QED BY <4>1, <4>2
    <3> QED BY <3>1, <3>2
  <2> HIDE DEF same
  <2> QED BY <1>1, <2>1, <2>2, UptoInduction
<1>18. S \in D /\ Cardinality(S) <= N /\ N \in same
  <2>1. S \in D OBVIOUS
  <2>2. Cardinality(S) <= N BY <1>a, <2>1
  <2>3. N \in 0..N BY <1>1
  <2> HIDE DEF same
  <2>4. N \in same BY <1>17, <2>3
  <2> QED BY <2>1, <2>2, <2>4
<1> QED BY <1>11, <1>15, <1>18

LEMMA ScoreTyped ==
    ASSUME signals \subseteq SignalSet
    PROVE  Score \in Int
<1> DEFINE sum == MapThenSumSet(LAMBDA f : f.weight, signals)
<1>1. sum \in Int
  BY WeightTyped
<1>2. Score = IF sum < 0 THEN 0 ELSE IF sum > 100 THEN 100 ELSE sum
  BY DEF Score
<1> HIDE DEF sum
<1> QED BY <1>1, <1>2

LEMMA LevelRanks ==
    /\ LevelRank("NEGLIGIBLE") = 1 /\ LevelRank("LOW") = 2 /\ LevelRank("MEDIUM") = 3
    /\ LevelRank("HIGH") = 4 /\ LevelRank("CRITICAL") = 5 /\ LevelRank("UNKNOWN") = 6
<1>1. \A i \in 1..6 : i = 1 \/ i = 2 \/ i = 3 \/ i = 4 \/ i = 5 \/ i = 6
  OBVIOUS
<1>2. /\ Levels[1] = "NEGLIGIBLE" /\ Levels[2] = "LOW" /\ Levels[3] = "MEDIUM" /\ Levels[4] = "HIGH"
      /\ Levels[5] = "CRITICAL" /\ Levels[6] = "UNKNOWN"
  BY DEF Levels
<1> QED BY <1>1, <1>2 DEF LevelRank

\* Thresholds within the clamp rate no score lower than the constitutional ones.
LEMMA StricterRates ==
    ASSUME signals \subseteq SignalSet, NEW t \in [highAt : Int, criticalAt : Int],
           NEW u \in [highAt : Int, criticalAt : Int], t.highAt <= u.highAt, t.criticalAt <= u.criticalAt
    PROVE  LevelRank(LevelFor(t)) >= LevelRank(LevelFor(u))
<1>1. Score \in Int
  BY ScoreTyped
<1>2. t.highAt \in Int /\ t.criticalAt \in Int /\ u.highAt \in Int /\ u.criticalAt \in Int
  OBVIOUS
<1>3. LevelRank(LevelFor(t)) = IF Score >= t.criticalAt THEN 5 ELSE IF Score >= t.highAt THEN 4
                               ELSE IF 2 * Score >= t.highAt THEN 3 ELSE IF Score > 0 THEN 2 ELSE 1
  BY LevelRanks DEF LevelFor
<1>4. LevelRank(LevelFor(u)) = IF Score >= u.criticalAt THEN 5 ELSE IF Score >= u.highAt THEN 4
                               ELSE IF 2 * Score >= u.highAt THEN 3 ELSE IF Score > 0 THEN 2 ELSE 1
  BY LevelRanks DEF LevelFor
<1> QED BY <1>1, <1>2, <1>3, <1>4

-----------------------------------------------------------------------------
(* The engines: every step *)

CompletionsOf(g) == {t \in [Attributes -> Amounts] : \A a \in Attributes : g[a] # Unknown => t[a] = g[a]}

\* AllowStands of a basis b, rules r and attributes g.
Stands(b, r, g) ==
    b # {} => \A t \in CompletionsOf(g) :
                 /\ \E p \in b : r[p].effect = "ALLOW" /\ Holds(r[p].condition, t)
                 /\ \A p \in b : r[p].effect = "DENY" => ~Holds(r[p].condition, t)

EnginesTyped ==
    /\ DOMAIN result = Decision
    /\ \A p \in Policies : rules[p].condition \in Conditions
    /\ bag \in [Attributes -> Amounts \cup {Unknown}]
    /\ signals \subseteq SignalSet
    /\ thresholds \in [highAt : Int, criticalAt : Int]

EnginesInv == EnginesTyped /\ Stands(basis, rules, bag)

\* evaluatePolicySet allows only if an ALLOW rule applies and no DENY rule may.
LEMMA AllowNeedsRules ==
    ASSUME NEW d, DetectPolicyConflict(d) = "ALLOW"
    PROVE  /\ \E p \in Candidates(d) : AllowApplies(p)
           /\ \A p \in Candidates(d) : ~DenyApplies(p)
<1> DEFINE x == "unsafe attributes" \in d
           y == \E p \in Candidates(d) : DenyApplies(p)
           z == ~\E p \in Candidates(d) : AllowApplies(p)
<1>1. EvaluatePolicySet(d) = "ALLOW"
  BY DEF DetectPolicyConflict
<1>2. EvaluatePolicySet(d) = FirstRefusal(<< <<x, "MALFORMED">>, <<y, "DENY">>, <<z, "NO_MATCH_DENY">> >>, "ALLOW")
  BY DEF EvaluatePolicySet
<1> HIDE DEF x, y, z
<1>3. EvaluatePolicySet(d) = IF x THEN "MALFORMED" ELSE IF y THEN "DENY" ELSE IF z THEN "NO_MATCH_DENY" ELSE "ALLOW"
  BY <1>2, ThreeChecks
<1>4. ~y /\ ~z
  BY <1>1, <1>3
<1> QED BY <1>4 DEF y, z

\* What the policies in use allow now stands, whatever is learnt later.
LEMMA AllowedStands ==
    ASSUME EnginesTyped, NEW d, DetectPolicyConflict(d) = "ALLOW"
    PROVE  Stands(Candidates(d), rules, bag)
<1> SUFFICES ASSUME NEW t \in CompletionsOf(bag)
             PROVE  /\ \E p \in Candidates(d) : rules[p].effect = "ALLOW" /\ Holds(rules[p].condition, t)
                    /\ \A p \in Candidates(d) : rules[p].effect = "DENY" => ~Holds(rules[p].condition, t)
  BY DEF Stands
<1>1. Completes(t, bag)
  BY DEF CompletionsOf, Completes, EnginesTyped
<1>2. ASSUME NEW p \in Candidates(d)
      PROVE  /\ Verdict(p) \in Verdicts
             /\ Verdict(p) = "true" => Holds(rules[p].condition, t)
             /\ Verdict(p) = "false" => ~Holds(rules[p].condition, t)
  <2>1. rules[p].condition \in Conditions BY DEF EnginesTyped, Candidates
  <2> QED BY <1>1, <2>1, EvaluationSound DEF Verdict
<1>3. /\ \E p \in Candidates(d) : AllowApplies(p)
      /\ \A p \in Candidates(d) : ~DenyApplies(p)
  BY AllowNeedsRules
<1>4. \E p \in Candidates(d) : rules[p].effect = "ALLOW" /\ Holds(rules[p].condition, t)
  BY <1>2, <1>3 DEF AllowApplies
<1>5. ASSUME NEW p \in Candidates(d), rules[p].effect = "DENY" PROVE ~Holds(rules[p].condition, t)
  <2>1. Verdict(p) = "false" BY <1>2, <1>3, <1>5 DEF DenyApplies, Verdicts
  <2> QED BY <1>2, <2>1
<1> QED BY <1>4, <1>5

\* The pipeline decides ALLOW only on a policy stage that allows.
LEMMA AllowNeedsPolicy ==
    ASSUME NEW d, NEW ok, PipelineOutcome(StagesOf(d), ok) = "ALLOW"
    PROVE  DetectPolicyConflict(d) = "ALLOW"
<1>1. StagesOf(d).policy = "ALLOW" \/ StagesOf(d).policy # "ALLOW"
  OBVIOUS
<1>2. StagesOf(d).policy = "ALLOW"
  BY DEF PipelineOutcome
<1>3. StagesOf(d).policy = IF DetectPolicyConflict(d) \in {"ALLOW", "POLICY_CONFLICT"}
                           THEN DetectPolicyConflict(d) ELSE "DENY"
  BY DEF StagesOf
<1> QED BY <1>2, <1>3

LEMMA DecideByEnginesKeeps ==
    ASSUME EnginesInv, NEW e \in Decision, NEW d, DecideByEngines(e, BoundContext, d)
    PROVE  EnginesInv'
<1> DEFINE o == PipelineOutcome(StagesOf(d), Approved(BoundContext, {}))
           pm == IF o = "ALLOW" THEN [context |-> BoundContext, issuedAt |-> now, expiresAt |-> ExpiresAt,
                                      stages |-> StagesOf(d), approvers |-> {}] ELSE NoPermit
<1>1. result' = [result EXCEPT ![e] = [outcome |-> o, permit |-> pm]]
  BY DEF DecideByEngines, Decide
<1>2. UNCHANGED <<rules, policies, bag, signals, thresholds, lease>>
  BY DEF DecideByEngines
<1>3. basis' = IF result'[e].outcome = "ALLOW" THEN Candidates(d) ELSE {}
  BY DEF DecideByEngines
<1>4. o = "ALLOW" => DetectPolicyConflict(d) = "ALLOW"
  BY AllowNeedsPolicy
<1> HIDE DEF o, pm
<1>5. DOMAIN result' = Decision /\ result'[e].outcome = o
  BY <1>1 DEF EnginesInv, EnginesTyped
<1>6. EnginesTyped'
  BY <1>2, <1>5 DEF EnginesInv, EnginesTyped
<1>7. Stands(basis', rules, bag)
  <2>1. CASE o = "ALLOW"
    <3>1. Stands(Candidates(d), rules, bag) BY <1>4, <2>1, AllowedStands DEF EnginesInv
    <3> QED BY <1>3, <1>5, <2>1, <3>1
  <2>2. CASE o # "ALLOW" BY <1>3, <1>5, <2>2 DEF Stands
  <2> QED BY <2>1, <2>2
<1> QED BY <1>2, <1>6, <1>7 DEF EnginesInv

\* Learning an attribute leaves fewer ways to complete the request.
LEMMA LearnAttributeKeeps ==
    ASSUME EnginesInv, NEW a \in Attributes, NEW v \in Amounts, LearnAttribute(a, v)
    PROVE  EnginesInv'
<1>1. bag[a] = Unknown /\ bag' = [bag EXCEPT ![a] = v] /\ v # Unknown
  BY EnginesAssumption DEF LearnAttribute
<1>2. UNCHANGED <<result, rules, signals, thresholds, basis>>
  BY DEF LearnAttribute, engineRest, decisionVars
<1>3. bag \in [Attributes -> Amounts \cup {Unknown}]
  BY DEF EnginesInv, EnginesTyped
<1>4. bag' \in [Attributes -> Amounts \cup {Unknown}] /\ \A b \in Attributes : bag[b] # Unknown => bag'[b] = bag[b]
  BY <1>1, <1>3
<1>5. CompletionsOf(bag') \subseteq CompletionsOf(bag)
  BY <1>4 DEF CompletionsOf
<1>6. Stands(basis, rules, bag)
  BY DEF EnginesInv
<1>7. Stands(basis, rules, bag')
  BY <1>5, <1>6 DEF Stands
<1>8. EnginesTyped'
  BY <1>2, <1>4 DEF EnginesInv, EnginesTyped
<1> QED BY <1>2, <1>7, <1>8 DEF EnginesInv

LEMMA PolicyStatusKeeps ==
    ASSUME EnginesInv, UNCHANGED <<result, rules, bag, basis>>,
           signals' \subseteq SignalSet, thresholds' \in [highAt : Int, criticalAt : Int]
    PROVE  EnginesInv'
  BY DEF EnginesInv, EnginesTyped

LEMMA PolicyStepsKeep ==
    ASSUME EnginesInv, PolicySteps
    PROVE  EnginesInv'
<1>1. signals \subseteq SignalSet /\ thresholds \in [highAt : Int, criticalAt : Int]
  BY DEF EnginesInv, EnginesTyped
<1>2. ASSUME NEW p \in Policies, NEW by, NEW d, ActivatePolicy(p, by, d) PROVE EnginesInv'
  BY <1>1, <1>2, PolicyStatusKeeps DEF ActivatePolicy, engineRest, decisionVars
<1>3. ASSUME NEW p \in Policies, RevokePolicy(p) PROVE EnginesInv'
  BY <1>1, <1>3, PolicyStatusKeeps DEF RevokePolicy, engineRest, decisionVars
<1>4. ASSUME GovTick PROVE EnginesInv'
  BY <1>1, <1>4, PolicyStatusKeeps DEF GovTick, Tick, engineVars, decisionVars
<1> QED BY <1>2, <1>3, <1>4, LearnAttributeKeeps, DecideByEnginesKeeps DEF PolicySteps

LEMMA RiskStepsKeep ==
    ASSUME EnginesInv, RiskSteps
    PROVE  EnginesInv'
<1>1. signals \subseteq SignalSet /\ thresholds \in [highAt : Int, criticalAt : Int]
  BY DEF EnginesInv, EnginesTyped
<1>2. ASSUME ActivatePolicy("grant", "HUMAN", {}) PROVE EnginesInv'
  BY <1>1, <1>2, PolicyStatusKeeps DEF ActivatePolicy, engineRest, decisionVars
<1>3. ASSUME NEW f \in SignalSet, SignalArrives(f) PROVE EnginesInv'
  <2>1. signals' \subseteq SignalSet BY <1>1, <1>3 DEF SignalArrives
  <2> QED BY <1>1, <1>3, <2>1, PolicyStatusKeeps DEF SignalArrives, engineRest, decisionVars
<1>4. ASSUME NEW t \in ThresholdSet, SetThresholds(t) PROVE EnginesInv'
  <2>1. thresholds' \in [highAt : Int, criticalAt : Int] BY <1>4, EnginesAssumption DEF SetThresholds
  <2> QED BY <1>1, <1>4, <2>1, PolicyStatusKeeps DEF SetThresholds, engineRest, decisionVars
<1>5. ASSUME NEW field, LeaseChanges(field) PROVE EnginesInv'
  BY <1>1, <1>5, PolicyStatusKeeps DEF LeaseChanges, engineRest, decisionVars
<1> QED BY <1>2, <1>3, <1>4, <1>5, DecideByEnginesKeeps DEF RiskSteps

\* Of the rest of the system only a decision writes a result.
LEMMA ResultsKept ==
    ASSUME DOMAIN result = Decision, Next
    PROVE  DOMAIN result' = Decision
<1>1. ASSUME NEW d \in Decision, NEW context, NEW s, NEW approvers, Decide(d, context, s, approvers)
      PROVE  DOMAIN result' = Decision
  BY <1>1 DEF Decide
<1>2. ASSUME NEW k \in Call, Execute(k) PROVE result' = result
  BY <1>2 DEF Execute, Refused, Consumed, RunExecutor, NotAdmitted, AdmitThrows, ExecutorReturns, decisionVars
<1>3. ASSUME NEW a, NEW d, NEW tenant, NEW screen, EvaluateAgentAction(a, d, tenant, screen) PROVE result' = result
  BY <1>3 DEF EvaluateAgentAction, decisionVars
<1>4. ASSUME \/ RevokeApproval \/ MarkConsumed \/ Tick
             \/ \E capability \in Capability : Allow(capability)
             \/ \E v \in BOOLEAN : SetWritable(v)
      PROVE  result' = result
  BY <1>4 DEF RevokeApproval, MarkConsumed, Tick, Allow, SetWritable, decisionVars
<1> QED BY <1>1, <1>2, <1>3, <1>4 DEF Next

LEMMA EnginesStep == EnginesInv /\ [GovernanceNext]_<<vars, engineVars>> => EnginesInv'
<1> SUFFICES ASSUME EnginesInv, [GovernanceNext]_<<vars, engineVars>> PROVE EnginesInv'
  OBVIOUS
<1>1. CASE Next /\ UNCHANGED engineVars
  <2>1. DOMAIN result' = Decision BY <1>1, ResultsKept DEF EnginesInv, EnginesTyped
  <2> QED BY <1>1, <2>1 DEF EnginesInv, EnginesTyped, engineVars
<1>2. CASE UNCHANGED <<vars, engineVars>>
  BY <1>2 DEF EnginesInv, EnginesTyped, vars, engineVars, decisionVars
<1> QED BY <1>1, <1>2, PolicyStepsKeep, RiskStepsKeep DEF GovernanceNext

LEMMA EnginesInitInv == Init /\ EnginesInit => EnginesInv
<1> SUFFICES ASSUME Init, EnginesInit PROVE EnginesInv
  OBVIOUS
<1>1. DOMAIN result = Decision
  BY DEF Init
<1>2. \A p \in Policies : rules[p].condition \in Conditions
  BY EnginesAssumption DEF EnginesInit, Policies
<1>3. bag \in [Attributes -> Amounts \cup {Unknown}] /\ signals \subseteq SignalSet /\ basis = {}
  BY DEF EnginesInit
<1>4. thresholds \in [highAt : Int, criticalAt : Int]
  BY EnginesAssumption DEF EnginesInit
<1> QED BY <1>1, <1>2, <1>3, <1>4 DEF EnginesInv, EnginesTyped, Stands

\* No thresholds a tenant asks for lower a rating: looser ones are not clamped but
\* leave the risk UNKNOWN, which ranks above every level.
LEMMA RatingKept ==
    ASSUME EnginesTyped
    PROVE  RiskNotLoosened
<1> DEFINE u == [highAt |-> MinHighAt, criticalAt |-> MaxCriticalAt]
           level == EvaluateRisk(thresholds, TRUE)
<1>1. /\ signals \subseteq SignalSet /\ thresholds \in [highAt : Int, criticalAt : Int]
      /\ u \in [highAt : Int, criticalAt : Int]
  BY EnginesAssumption DEF EnginesTyped
<1>2. u.highAt = MinHighAt /\ u.criticalAt = MaxCriticalAt
  OBVIOUS
<1>3. level = "UNKNOWN" \/ (level = LevelFor(thresholds) /\ ClampOk(thresholds))
  <2> DEFINE blocked == \/ ~ClampOk(thresholds) \/ ~TRUE
                        \/ \E f \in signals : ~f.evidenced \/ f.stale
                        \/ \E f, g \in signals : f # g /\ f.id = g.id
  <2>1. level = IF blocked THEN "UNKNOWN" ELSE LevelFor(thresholds)
    BY DEF EvaluateRisk
  <2>2. ~blocked => ClampOk(thresholds)
    OBVIOUS
  <2>3. CASE blocked
    <3> HIDE DEF level, blocked
    <3> QED BY <2>1, <2>3
  <2>4. CASE ~blocked
    <3>1. level = LevelFor(thresholds)
      <4> HIDE DEF level, blocked
      <4> QED BY <2>1, <2>4
    <3> QED BY <2>2, <2>4, <3>1
  <2> QED BY <2>3, <2>4
<1> HIDE DEF u, level
<1>4. LevelRank(LevelFor(u)) \in 1..5
  BY LevelRanks DEF LevelFor
<1>5. CASE level = "UNKNOWN"
  <2>1. LevelRank(level) = 6 BY <1>5, LevelRanks
  <2>2. LevelRank(level) >= LevelRank(LevelFor(u)) BY <1>4, <2>1
  <2> QED BY <2>2 DEF RiskNotLoosened, u, level
<1>6. CASE level = LevelFor(thresholds) /\ ClampOk(thresholds)
  <2>1. thresholds.highAt <= u.highAt /\ thresholds.criticalAt <= u.criticalAt BY <1>2, <1>6 DEF ClampOk
  <2>2. LevelRank(LevelFor(thresholds)) >= LevelRank(LevelFor(u)) BY <1>1, <2>1, StricterRates
  <2> QED BY <1>6, <2>2 DEF RiskNotLoosened, u, level
<1> QED BY <1>3, <1>5, <1>6

\* Whatever the conditions, attributes, signals and thresholds: an ALLOW of the policy
\* engine stands however the unknown attributes turn out (evaluatePolicySet), and no
\* tenant's thresholds rate a request below the constitutional ones (evaluateRisk).
THEOREM EnginesSafety == GovernanceSpec => []EnginesSafe
<1>1. Init /\ EnginesInit => EnginesInv
  BY EnginesInitInv
<1>2. EnginesInv /\ [GovernanceNext]_<<vars, engineVars>> => EnginesInv'
  BY EnginesStep
<1>3. EnginesInv => EnginesSafe
  <2> SUFFICES ASSUME EnginesInv PROVE EnginesSafe
    OBVIOUS
  <2>1. AllowStands
    <3>1. Completions = CompletionsOf(bag) BY DEF Completions, CompletionsOf
    <3>2. Stands(basis, rules, bag) BY DEF EnginesInv
    <3> QED BY <3>1, <3>2 DEF AllowStands, Stands
  <2>2. RiskNotLoosened BY RatingKept DEF EnginesInv
  <2> QED BY <2>1, <2>2 DEF EnginesSafe
<1> QED BY <1>1, <1>2, <1>3, PTL DEF GovernanceSpec

=============================================================================
