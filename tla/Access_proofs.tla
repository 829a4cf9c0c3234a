----------------------------- MODULE Access_proofs -----------------------------
(* Proofs about the request gates, the isolated runtime, the tool firewall,   *)
(* memory, hardening and content screening.  Each package has a section: what *)
(* its gates (ordered lists of checks) let through, its inductive invariant,  *)
(* one lemma per operation, and the theorems.                                 *)
EXTENDS IdentityGate, IdentityTrust, ToolAccess, Isolation, Memory, Hardening, ContentScreen,
        Gates_proofs, SequenceTheorems, FiniteSetTheorems

-----------------------------------------------------------------------------
(* The edge and identity gates *)

\* evaluateIdentityGate: what an allowed request was checked for.
LEMMA AllowedByGate ==
    ASSUME NEW r, NEW h, NEW c, NEW mfa, NEW stepUp, NEW d,
           EvaluateIdentityGate(r, h, c, mfa, stepUp, d) = "ALLOW"
    PROVE  /\ GoodRecords(h.identity, h.session) /\ Future(h.session.expiresAt)
           /\ c \in MFA_REQUIRED_ACTIONS => \E m \in mfa : IsValidForRequest(m, c)
<1> DEFINE checks == << <<edge[r] # "validated" \/ h.identity.status # "active" \/ "subject" \in d, "authentication_failed">>,
                           Refuse(d, {"no session"}, "unknown_session"),
                           <<h.session.state = "revoked", "session_revoked">>,
                           <<h.session.state = "expired" \/ ~Future(h.session.expiresAt), "session_expired">>,
                           <<h.session.state # "active", "session_invalid">>,
                           <<h.session.hijack, "session_hijack_suspected">>,
                           Refuse(d, {"session subject"}, "session_invalid"),
                           <<c \in MFA_REQUIRED_ACTIONS /\ ~\E m \in mfa : IsValidForRequest(m, c), "mfa_required">>,
                           <<c \in STEP_UP_REQUIRED_ACTIONS /\ ~\E s \in stepUp : IsValidForRequest(s, c), "step_up_required">>,
                           <<{h.identity.risk, h.session.risk} \cap {"high", "critical"} # {}, "identity_risk_denied">>,
                           Refuse(d, {"binding"}, "context_binding_failed") >>
<1>1. FirstRefusal(checks, "ALLOW") = "ALLOW" BY DEF EvaluateIdentityGate
<1>2. Len(checks) = 11 OBVIOUS
<1>3. \A i \in 1..11 : checks[i][2] # "ALLOW"
    <2>1. /\ checks[1][2] # "ALLOW" /\ checks[2][2] # "ALLOW" /\ checks[3][2] # "ALLOW"
           /\ checks[4][2] # "ALLOW" /\ checks[5][2] # "ALLOW" /\ checks[6][2] # "ALLOW"
           /\ checks[7][2] # "ALLOW" /\ checks[8][2] # "ALLOW" /\ checks[9][2] # "ALLOW"
           /\ checks[10][2] # "ALLOW" /\ checks[11][2] # "ALLOW"
        BY DEF Refuse
    <2> HIDE DEF checks
    <2> QED BY <2>1
<1>4. ~checks[1][1] /\ ~checks[4][1] /\ ~checks[5][1] /\ ~checks[6][1] /\ ~checks[8][1] /\ ~checks[10][1]
    <2> HIDE DEF checks
    <2>1. \A i \in 1..11 : ~checks[i][1] BY <1>1, <1>2, <1>3, NoRefusal
    <2> QED BY <2>1
<1> QED BY <1>4 DEF GoodRecords

\* evaluateBreakGlassRecoveryRequest: an allowed elevation rests on a live result of the
\* strongest level and ends in the future.
LEMMA AllowedRecovery ==
    ASSUME NEW from, NEW to, NEW m, NEW approvals, NEW d,
           EvaluateBreakGlassRecoveryRequest(from, to, m, approvals, d) = "ALLOW"
    PROVE  Future(to) /\ m.level = "aal3" /\ Future(m.expiresAt)
<1> DEFINE checks == << Refuse(d, {"not human", "same identity", "no reason", "no ticket"}, "DENY"),
                           <<~Future(to), "DENY">>,
                           <<~(to > from /\ to - from <= MaxElevation), "DENY">>,
                           Refuse(d, {"no audit"}, "DENY"),
                           <<m.level # "aal3" \/ ~Future(m.expiresAt) \/ "other subject" \in d, "DENY">>,
                           Refuse(d, {"unbounded scope"}, "DENY"),
                           <<Len(approvals) < MinimumApprovals, "REQUIRES_APPROVAL">> >>
<1>1. FirstRefusal(checks, "ALLOW") = "ALLOW" BY DEF EvaluateBreakGlassRecoveryRequest
<1>2. Len(checks) = 7 OBVIOUS
<1>3. \A i \in 1..7 : checks[i][2] # "ALLOW"
    <2>1. /\ checks[1][2] # "ALLOW" /\ checks[2][2] # "ALLOW" /\ checks[3][2] # "ALLOW"
           /\ checks[4][2] # "ALLOW" /\ checks[5][2] # "ALLOW" /\ checks[6][2] # "ALLOW"
           /\ checks[7][2] # "ALLOW"
        BY DEF Refuse
    <2> HIDE DEF checks
    <2> QED BY <2>1
<1>4. ~checks[2][1] /\ ~checks[5][1]
    <2> HIDE DEF checks
    <2>1. \A i \in 1..7 : ~checks[i][1] BY <1>1, <1>2, <1>3, NoRefusal
    <2> QED BY <2>1
<1> QED BY <1>4

GateIdentities == [status : {"active", "suspended"}, risk : {"low", "high"}]
GateSessions == [state : {"active", "revoked"}, expiresAt : Nat, hijack : BOOLEAN, risk : {"low", "critical"}]
LoadedRecords == [identity : GateIdentities, session : GateSessions]

\* What the gate keeps beside the types of IdentityGateTypeOK.
IdentityStateOK ==
    /\ now \in Nat
    /\ identity \in GateIdentities /\ idSession \in GateSessions
    /\ gateRecords \in [EdgeRequests -> SUBSET LoadedRecords]
    /\ factor \in [enabled : BOOLEAN, level : {"aal1", "aal3"}]
    /\ challenges \in [MFA_REQUIRED_ACTIONS -> [status : {"none", "pending", "succeeded", "failed"}, expiresAt : Nat]]
    /\ mfaResults \subseteq [class : MFA_REQUIRED_ACTIONS, level : {"aal1", "aal3"}, expiresAt : Nat]
    /\ stepUps \subseteq [class : MFA_REQUIRED_ACTIONS, level : {"aal1", "aal3"}, expiresAt : Nat]
    /\ \A g \in grants : g.class \in ActionClasses /\ g.at \in Nat
    /\ \A e \in elevations : e.mfa.class \in MFA_REQUIRED_ACTIONS

\* A result rests on a challenge that was answered, and runs out within one
\* lifetime of it.
ResultsBacked ==
    \A m \in mfaResults : /\ challenges[m.class].status = "succeeded"
                          /\ m.expiresAt < challenges[m.class].expiresAt + MfaLife

GateInv ==
    /\ IdentityGateTypeOK /\ IdentityStateOK
    /\ ResultsBacked
    /\ GrantBacked /\ ChallengeRecent
    /\ RecoveryBacked

\* The invariant holds at the start.
LEMMA GateInitInv == now = 0 /\ IdentityGateInit => GateInv
<1> SUFFICES ASSUME now = 0, IdentityGateInit PROVE GateInv OBVIOUS
<1> USE DEF IdentityGateInit
<1>1. IdentityGateTypeOK BY DEF IdentityGateTypeOK
<1>2. IdentityStateOK
    <2>1. idSession \in GateSessions
        <3> DEFINE times == {1, MaxClock + 1}
        <3>1. times \subseteq Nat BY IdentityGateAssumption
        <3>2. idSession \in [state : {"active"}, expiresAt : times, hijack : {FALSE}, risk : {"low"}] OBVIOUS
        <3>3. {FALSE} \subseteq BOOLEAN OBVIOUS
        <3> HIDE DEF times, IdentityGateInit
        <3> QED BY <3>1, <3>2, <3>3 DEF GateSessions
    <2>2. challenges \in [MFA_REQUIRED_ACTIONS -> [status : {"none", "pending", "succeeded", "failed"}, expiresAt : Nat]]
        BY DEF NotIssued
    <2>3. factor \in [enabled : BOOLEAN, level : {"aal1", "aal3"}] OBVIOUS
    <2> QED BY <2>1, <2>2, <2>3 DEF IdentityStateOK, GateIdentities
<1>3. ResultsBacked BY DEF ResultsBacked
<1>4. GrantBacked /\ ChallengeRecent /\ RecoveryBacked BY DEF GrantBacked, ChallengeRecent, RecoveryBacked
<1> QED BY <1>1, <1>2, <1>3, <1>4 DEF GateInv

\* The strength that satisfies an aal2 requirement is not aal1.
LEMMA StrongEnough ==
    ASSUME NEW level \in {"aal1", "aal3"}, AssuranceMeets(level, "aal2")
    PROVE  level # "aal1"
<1>1. AssuranceRank["aal1"] = 1 /\ AssuranceRank["aal2"] = 2 BY DEF AssuranceRank
<1> QED BY <1>1 DEF AssuranceMeets

\* The arithmetic of life times, apart from the records that hold them.
LEMMA LifeFromNow ==
    ASSUME IdentityStateOK
    PROVE  /\ now \in Nat /\ MfaLife \in Nat /\ now + MfaLife \in Nat
           /\ \A c \in MFA_REQUIRED_ACTIONS :
                 challenges[c].expiresAt > now => now + MfaLife < challenges[c].expiresAt + MfaLife
<1>1. now \in Nat /\ MfaLife \in Nat BY IdentityGateAssumption DEF IdentityStateOK
<1>2. \A c \in MFA_REQUIRED_ACTIONS : challenges[c].expiresAt \in Nat BY DEF IdentityStateOK
<1> QED BY <1>1, <1>2

\* Steps that leave challenges, results and grants alone, whatever happens to
\* the request, the identity, its session and the clock.
LEMMA ResultsUntouched ==
    ASSUME GateInv, UNCHANGED <<challenges, mfaResults, stepUps, grants, elevations>>,
           IdentityStateOK',
           edge' \in [EdgeRequests -> {"raw", "limited", "validated", "challenged", "denied", "granted"}]
    PROVE  GateInv'
<1> USE DEF GateInv
<1>1. IdentityGateTypeOK' BY DEF IdentityGateTypeOK
<1>2. ResultsBacked' BY DEF ResultsBacked
<1>3. GrantBacked' BY DEF GrantBacked
<1>4. ChallengeRecent' BY DEF ChallengeRecent
<1>5. RecoveryBacked' BY DEF RecoveryBacked
<1> QED BY <1>1, <1>2, <1>3, <1>4, <1>5

\* A request passes the edge gate, or its records are loaded.
LEMMA EdgeKeepsInv ==
    ASSUME GateInv, NEW r \in EdgeRequests,
           \/ ReadRecords(r)
           \/ \E d \in AtMostOne(EdgeFaults), l \in {"ALLOW", "DENY", "throws"} : EdgeEnter(r, d, l)
           \/ \E d \in AtMostOne(EdgeFaults), a \in {"ALLOW", "CHALLENGE", "DENY", "UNKNOWN", "throws"} :
                 EdgeLeave(r, d, a)
    PROVE  GateInv'
<1> USE DEF GateInv
<1>1. UNCHANGED <<now, identity, idSession, factor, challenges, mfaResults, stepUps, grants, elevations>>
    BY DEF EdgeEnter, EdgeLeave, ReadRecords
<1>2. IdentityStateOK'
    <2>1. gateRecords' \in [EdgeRequests -> SUBSET LoadedRecords]
        <3>1. CASE ReadRecords(r)
            <4> DEFINE copy == [identity |-> identity, session |-> idSession]
            <4>1. gateRecords' = [gateRecords EXCEPT ![r] = {copy}] BY <3>1 DEF ReadRecords
            <4>2. copy \in LoadedRecords BY DEF IdentityStateOK, LoadedRecords
            <4>3. gateRecords \in [EdgeRequests -> SUBSET LoadedRecords] BY DEF IdentityStateOK
            <4> HIDE DEF copy
            <4> QED BY <4>1, <4>2, <4>3
        <3>2. CASE gateRecords' = gateRecords BY <3>2 DEF IdentityStateOK
        <3> QED BY <3>1, <3>2 DEF EdgeEnter, EdgeLeave
    <2> QED BY <1>1, <2>1 DEF IdentityStateOK
<1>3. edge \in [EdgeRequests -> {"raw", "limited", "validated", "challenged", "denied", "granted"}]
    BY DEF IdentityGateTypeOK
<1>4. CASE \E d \in AtMostOne(EdgeFaults), l \in {"ALLOW", "DENY", "throws"} : EdgeEnter(r, d, l)
    <2>1. edge' \in {[edge EXCEPT ![r] = "limited"], [edge EXCEPT ![r] = "denied"]} BY <1>4 DEF EdgeEnter
    <2> QED BY <1>1, <1>2, <1>3, <2>1, ResultsUntouched
<1>5. CASE \E d \in AtMostOne(EdgeFaults), a \in {"ALLOW", "CHALLENGE", "DENY", "UNKNOWN", "throws"} :
               EdgeLeave(r, d, a)
    <2>1. PICK d \in AtMostOne(EdgeFaults), a \in {"ALLOW", "CHALLENGE", "DENY", "UNKNOWN", "throws"} :
               EdgeLeave(r, d, a) BY <1>5
    <2> DEFINE checks == << <<a \in {"DENY", "UNKNOWN", "throws"}, "denied">>,
                            <<a = "CHALLENGE", "challenged">>,
                            Refuse(d, {"authentication", "context", "tenant"}, "denied") >>
    <2>2. edge' = [edge EXCEPT ![r] = FirstRefusal(checks, "validated")] BY <2>1 DEF EdgeLeave
    <2>3. FirstRefusal(checks, "validated") \in {"denied", "challenged", "validated"}
        <3>1. Len(checks) = 3 OBVIOUS
        <3>2. checks[1][2] = "denied" /\ checks[2][2] = "challenged" /\ checks[3][2] = "denied" BY DEF Refuse
        <3> DEFINE V == {"denied", "challenged", "validated"}
        <3> HIDE DEF checks
        <3>3. "validated" \in V /\ \A i \in 1..3 : checks[i][2] \in V BY <3>2
        <3> HIDE DEF V
        <3>4. FirstRefusal(checks, "validated") \in V BY <3>1, <3>3, RefusalRange
        <3> QED BY <3>4 DEF V
    <2> HIDE DEF checks
    <2> QED BY <1>1, <1>2, <1>3, <2>2, <2>3, ResultsUntouched
<1>6. CASE ReadRecords(r)
    <2>1. edge' = edge BY <1>6 DEF ReadRecords
    <2> QED BY <1>1, <1>2, <1>3, <2>1, ResultsUntouched
<1> QED BY <1>4, <1>5, <1>6

\* The identity or its session loses its standing, or time passes.
LEMMA StandingKeepsInv ==
    ASSUME GateInv, StandingChanges \/ IdentityTick \/ UNCHANGED identityGateVars
    PROVE  GateInv'
<1> USE DEF GateInv
<1>1. UNCHANGED <<edge, gateRecords, challenges, mfaResults, stepUps, grants, elevations>>
    BY DEF StandingChanges, IdentityTick, identityGateVars, identityGateState
<1>2. now' \in Nat BY DEF StandingChanges, IdentityTick, Tick, identityGateVars, IdentityStateOK
<1>3. identity' \in GateIdentities
    BY DEF GateIdentities, StandingChanges, IdentityTick, identityGateVars, identityGateState, IdentityStateOK
<1>4. idSession' \in GateSessions
    BY DEF GateSessions, StandingChanges, IdentityTick, identityGateVars, identityGateState, IdentityStateOK
<1>5. factor' \in [enabled : BOOLEAN, level : {"aal1", "aal3"}]
    BY DEF StandingChanges, IdentityTick, identityGateVars, identityGateState, IdentityStateOK
<1>6. IdentityStateOK' BY <1>1, <1>2, <1>3, <1>4, <1>5 DEF IdentityStateOK
<1> QED BY <1>1, <1>6, ResultsUntouched DEF IdentityGateTypeOK

\* A challenge is issued and answered.
LEMMA ChallengeKeepsInv ==
    ASSUME GateInv, NEW c \in MFA_REQUIRED_ACTIONS,
           IssueChallenge(c) \/ \E a \in {"succeeded", "failed"} : AnswerChallenge(c, a)
    PROVE  GateInv'
<1> USE DEF GateInv
<1> DEFINE CH == [status : {"none", "pending", "succeeded", "failed"}, expiresAt : Nat]
<1>1. UNCHANGED <<now, edge, identity, idSession, gateRecords, factor, mfaResults, stepUps, grants, elevations>>
    BY DEF IssueChallenge, AnswerChallenge
<1>2. /\ challenges \in [MFA_REQUIRED_ACTIONS -> CH] /\ now \in Nat /\ MfaLife \in Nat
    BY IdentityGateAssumption DEF IdentityStateOK
<1>3. /\ challenges' \in [MFA_REQUIRED_ACTIONS -> CH]
      /\ \A x \in MFA_REQUIRED_ACTIONS : challenges[x].status = "succeeded" => challenges'[x] = challenges[x]
      /\ \A x \in MFA_REQUIRED_ACTIONS \ {c} : challenges'[x] = challenges[x]
      /\ challenges[c].status # "succeeded"
    <2>1. CASE IssueChallenge(c) BY <1>2, <2>1 DEF IssueChallenge
    <2>2. CASE \E a \in {"succeeded", "failed"} : AnswerChallenge(c, a) BY <1>2, <2>2 DEF AnswerChallenge
    <2> QED BY <2>1, <2>2
<1>4. IdentityStateOK' BY <1>1, <1>3 DEF IdentityStateOK
<1>5. IdentityGateTypeOK' BY <1>1 DEF IdentityGateTypeOK
<1>6. \A m \in mfaResults : m.class \in MFA_REQUIRED_ACTIONS BY DEF IdentityStateOK
<1>7. ResultsBacked' BY <1>1, <1>3, <1>6 DEF ResultsBacked
<1>8. \A g \in grants : g.class # "standard" => challenges'[g.class] = challenges[g.class]
    BY <1>3 DEF GrantBacked, IdentityStateOK, MFA_REQUIRED_ACTIONS
<1>9. GrantBacked' BY <1>1, <1>8 DEF GrantBacked
<1>10. ChallengeRecent' BY <1>1, <1>8 DEF ChallengeRecent
<1>11. RecoveryBacked' BY <1>1, <1>3 DEF RecoveryBacked, IdentityStateOK
<1> QED BY <1>4, <1>5, <1>7, <1>9, <1>10, <1>11

\* An answered challenge, or a live result, becomes a result of one lifetime.
LEMMA ResultKeepsInv ==
    ASSUME GateInv,
           \/ \E c \in MFA_REQUIRED_ACTIONS, d \in AtMostOne({"other subject", "other factor"}) :
                 CreateMFAChallengeResult(c, d)
           \/ \E c \in ActionClasses, m \in mfaResults : CreateStepUpAuthenticationResult(c, m, "aal2")
    PROVE  GateInv'
<1> USE DEF GateInv
<1>1. UNCHANGED <<now, edge, identity, idSession, gateRecords, factor, challenges, grants, elevations>>
    BY DEF CreateMFAChallengeResult, CreateStepUpAuthenticationResult
<1>2. now + MfaLife \in Nat BY LifeFromNow
<1>3. CASE \E c \in MFA_REQUIRED_ACTIONS, d \in AtMostOne({"other subject", "other factor"}) :
               CreateMFAChallengeResult(c, d)
    <2>1. PICK c \in MFA_REQUIRED_ACTIONS, d \in AtMostOne({"other subject", "other factor"}) :
               CreateMFAChallengeResult(c, d) BY <1>3
    <2> DEFINE m == [class |-> c, level |-> factor.level, expiresAt |-> now + MfaLife]
    <2>2. /\ mfaResults' = {m} /\ stepUps' = stepUps
          /\ challenges[c].status = "succeeded" /\ challenges[c].expiresAt > now
        BY <2>1 DEF CreateMFAChallengeResult, Future
    <2>3. m \in [class : MFA_REQUIRED_ACTIONS, level : {"aal1", "aal3"}, expiresAt : Nat]
        <3>1. factor.level \in {"aal1", "aal3"} BY DEF IdentityStateOK
        <3> QED BY <1>2, <3>1
    <2>4. now + MfaLife < challenges[c].expiresAt + MfaLife BY <2>2, LifeFromNow
    <2>5. m.class = c /\ m.expiresAt < challenges[c].expiresAt + MfaLife BY <2>4
    <2> HIDE DEF m
    <2>6. ResultsBacked' BY <1>1, <2>2, <2>5 DEF ResultsBacked
    <2>7. IdentityStateOK' BY <1>1, <2>2, <2>3 DEF IdentityStateOK
    <2>8. IdentityGateTypeOK' BY <1>1, <2>2, <2>5 DEF IdentityGateTypeOK
    <2> QED BY <1>1, <2>6, <2>7, <2>8 DEF GrantBacked, ChallengeRecent, RecoveryBacked
<1>4. CASE \E c \in ActionClasses, m \in mfaResults : CreateStepUpAuthenticationResult(c, m, "aal2")
    <2>1. PICK c \in ActionClasses, m \in mfaResults : CreateStepUpAuthenticationResult(c, m, "aal2") BY <1>4
    <2> DEFINE s == [class |-> c, level |-> m.level, expiresAt |-> now + MfaLife]
    <2>2. stepUps' = {s} /\ mfaResults' = mfaResults /\ m.class = c
        BY <2>1 DEF CreateStepUpAuthenticationResult
    <2>3. s \in [class : MFA_REQUIRED_ACTIONS, level : {"aal1", "aal3"}, expiresAt : Nat] /\ s.class = c
        <3>1. m.level \in {"aal1", "aal3"} /\ c \in MFA_REQUIRED_ACTIONS BY <2>2 DEF IdentityStateOK
        <3> QED BY <1>2, <3>1
    <2> HIDE DEF s
    <2>4. IdentityStateOK' BY <1>1, <2>2, <2>3 DEF IdentityStateOK
    <2>5. IdentityGateTypeOK' BY <1>1, <2>2, <2>3 DEF IdentityGateTypeOK
    <2>6. ResultsBacked' BY <1>1, <2>2 DEF ResultsBacked
    <2> QED BY <1>1, <2>4, <2>5, <2>6 DEF GrantBacked, ChallengeRecent, RecoveryBacked
<1> QED BY <1>3, <1>4

\* The identity gate passes a request.
LEMMA PassKeepsInv ==
    ASSUME GateInv, NEW r \in EdgeRequests, NEW h, NEW c \in ActionClasses, NEW mfa \in AtMostOne(mfaResults),
           NEW s, NEW d, PassIdentityGate(r, h, c, mfa, s, d)
    PROVE  GateInv'
<1> USE DEF GateInv
<1> DEFINE allowed == EvaluateIdentityGate(r, h, c, mfa, s, d) = "ALLOW"
           g == [class |-> c, mfa |-> mfa, at |-> now]
<1>1. /\ edge' = [edge EXCEPT ![r] = IF allowed THEN "granted" ELSE "denied"]
      /\ grants' = IF allowed THEN {g} ELSE grants
      /\ UNCHANGED <<now, identity, idSession, gateRecords, factor, challenges, mfaResults, stepUps, elevations>>
    BY DEF PassIdentityGate
<1>2. mfa \subseteq mfaResults BY DEF AtMostOne
<1>3. IdentityStateOK' BY <1>1 DEF IdentityStateOK
<1>4. edge' \in [EdgeRequests -> {"raw", "limited", "validated", "challenged", "denied", "granted"}]
    <2>1. edge \in [EdgeRequests -> {"raw", "limited", "validated", "challenged", "denied", "granted"}]
        BY DEF IdentityGateTypeOK
    <2> QED BY <1>1, <2>1
<1>5. CASE ~allowed BY <1>1, <1>3, <1>4, <1>5, ResultsUntouched
<1>6. CASE allowed
    <2>1. c # "standard" => \E m \in mfa : IsValidForRequest(m, c)
        BY <1>6, AllowedByGate DEF MFA_REQUIRED_ACTIONS
    <2>2. ASSUME c # "standard"
          PROVE  /\ now < challenges[c].expiresAt + MfaLife
                 /\ \E m \in mfa : m.class = c /\ challenges[c].status = "succeeded"
                                   /\ m.level # "aal1" /\ m.expiresAt > now
        <3>1. PICK m \in mfa : IsValidForRequest(m, c) BY <2>1, <2>2
        <3>2. m \in mfaResults /\ m.class = c /\ m.expiresAt > now /\ AssuranceMeets(m.level, "aal2")
            BY <1>2, <3>1 DEF IsValidForRequest, Future
        <3>3. m.level \in {"aal1", "aal3"} /\ m.expiresAt \in Nat /\ now \in Nat /\ c \in MFA_REQUIRED_ACTIONS
            BY <3>2 DEF IdentityStateOK
        <3>4. challenges[c].expiresAt \in Nat /\ MfaLife \in Nat
            BY <3>3, IdentityGateAssumption DEF IdentityStateOK
        <3>5. challenges[c].status = "succeeded" /\ m.expiresAt < challenges[c].expiresAt + MfaLife
            BY <3>2 DEF ResultsBacked
        <3>6. now < challenges[c].expiresAt + MfaLife BY <3>2, <3>3, <3>4, <3>5
        <3>7. m.level # "aal1" BY <3>2, <3>3, StrongEnough
        <3> QED BY <3>2, <3>5, <3>6, <3>7
    <2>3. grants' = {g} /\ g.class = c /\ g.mfa = mfa /\ g.at = now BY <1>1, <1>6
    <2> HIDE DEF g, allowed
    <2>4. GrantBacked' BY <1>1, <2>2, <2>3 DEF GrantBacked
    <2>5. ChallengeRecent' BY <1>1, <2>2, <2>3 DEF ChallengeRecent
    <2>6. IdentityGateTypeOK' BY <1>1, <1>4 DEF IdentityGateTypeOK
    <2>7. ResultsBacked' /\ RecoveryBacked' BY <1>1 DEF ResultsBacked, RecoveryBacked
    <2> QED BY <1>3, <2>4, <2>5, <2>6, <2>7
<1> QED BY <1>5, <1>6

\* An emergency elevation is allowed.
LEMMA RecoveryKeepsInv ==
    ASSUME GateInv, NEW from, NEW to, NEW m \in mfaResults, NEW approvals, NEW d,
           BreakGlassRecovery(from, to, m, approvals, d)
    PROVE  GateInv'
<1> USE DEF GateInv
<1> DEFINE e == [at |-> now, until |-> to, mfa |-> m, by |-> {approvals[i] : i \in DOMAIN approvals}]
<1>1. /\ elevations' = {e}
      /\ UNCHANGED <<now, edge, identity, idSession, gateRecords, factor, challenges, mfaResults, stepUps, grants>>
    BY DEF BreakGlassRecovery
<1>2. to > now /\ m.level = "aal3" /\ m.expiresAt > now BY AllowedRecovery DEF BreakGlassRecovery, Future
<1>3. m.class \in MFA_REQUIRED_ACTIONS /\ m.expiresAt \in Nat /\ now \in Nat BY DEF IdentityStateOK
<1>4. challenges[m.class].status = "succeeded" /\ m.expiresAt < challenges[m.class].expiresAt + MfaLife
    BY DEF ResultsBacked
<1>5. challenges[m.class].expiresAt \in Nat /\ MfaLife \in Nat
    BY <1>3, IdentityGateAssumption DEF IdentityStateOK
<1>6. now < challenges[m.class].expiresAt + MfaLife BY <1>2, <1>3, <1>4, <1>5
<1>7. e.until = to /\ e.at = now /\ e.mfa = m OBVIOUS
<1> HIDE DEF e
<1>8. RecoveryBacked' BY <1>1, <1>2, <1>4, <1>6, <1>7 DEF RecoveryBacked
<1>9. IdentityStateOK' BY <1>1, <1>3, <1>7 DEF IdentityStateOK
<1>10. IdentityGateTypeOK' BY <1>1 DEF IdentityGateTypeOK
<1> QED BY <1>1, <1>8, <1>9, <1>10 DEF ResultsBacked, GrantBacked, ChallengeRecent

\* Every step of the package keeps the invariant.
LEMMA GateStepKeepsInv == GateInv /\ [IdentityGateSteps]_identityGateVars => GateInv'
<1> SUFFICES ASSUME GateInv, [IdentityGateSteps]_identityGateVars PROVE GateInv' OBVIOUS
<1>1. CASE MfaSteps BY <1>1, ChallengeKeepsInv, ResultKeepsInv, StandingKeepsInv DEF MfaSteps
<1>2. CASE GateSteps BY <1>1, <1>2, ResultKeepsInv, EdgeKeepsInv, PassKeepsInv DEF GateSteps
<1>3. CASE RecoverySteps BY <1>1, <1>3, RecoveryKeepsInv DEF RecoverySteps
<1> QED BY <1>2, <1>3, StandingKeepsInv DEF IdentityGateSteps

\* Edge and identity security: a privileged grant rests on a live factor result for its
\* own class whose challenge was answered, at most one lifetime after that challenge ran
\* out although step-ups are renewed, and a recovery on one of the strongest level, for every
\* set of requests and action classes (the edge gate, evaluateIdentityGate and
\* evaluateBreakGlassRecoveryRequest).  How long a recovery lasts is not part of it.
THEOREM IdentityGateSafety == IdentityGateSpec => []IdentityGateSafe
<1>1. IdentityGateSpec => []GateInv BY GateInitInv, GateStepKeepsInv, PTL DEF IdentityGateSpec
<1>2. GateInv => IdentityGateSafe BY DEF GateInv, IdentityGateSafe
<1> QED BY <1>1, <1>2, PTL

\* A lost standing reaches every request whose records are loaded after it: a request is
\* granted only on loaded records that pass, and while the standing is lost no request
\* comes to hold such records (evaluateIdentityGate judges the records it is handed).
THEOREM GrantsAreFresh == IdentityGateSpec => [][NoStaleGrant]_identityGateVars
<1>1. GateInv /\ [IdentityGateSteps]_identityGateVars => [NoStaleGrant]_identityGateVars
    <2> SUFFICES ASSUME GateInv, IdentityGateSteps PROVE NoStaleGrant OBVIOUS
    <2>1. ASSUME NEW r \in EdgeRequests, edge[r] # "granted", edge'[r] = "granted" PROVE r \in MayPass
        <3>1. edge \in [EdgeRequests -> {"raw", "limited", "validated", "challenged", "denied", "granted"}]
            BY DEF GateInv, IdentityGateTypeOK
        <3>2. CASE \E q \in EdgeRequests, d \in AtMostOne(EdgeFaults),
                      a \in {"ALLOW", "CHALLENGE", "DENY", "UNKNOWN", "throws"} : EdgeLeave(q, d, a)
            <4>1. PICK q \in EdgeRequests, d \in AtMostOne(EdgeFaults),
                       a \in {"ALLOW", "CHALLENGE", "DENY", "UNKNOWN", "throws"} : EdgeLeave(q, d, a) BY <3>2
            <4> DEFINE checks == << <<a \in {"DENY", "UNKNOWN", "throws"}, "denied">>,
                                    <<a = "CHALLENGE", "challenged">>,
                                    Refuse(d, {"authentication", "context", "tenant"}, "denied") >>
            <4>2. edge' = [edge EXCEPT ![q] = FirstRefusal(checks, "validated")] BY <4>1 DEF EdgeLeave
            <4>3. FirstRefusal(checks, "validated") # "granted"
                <5>1. Len(checks) = 3 OBVIOUS
                <5>2. checks[1][2] = "denied" /\ checks[2][2] = "challenged" /\ checks[3][2] = "denied" BY DEF Refuse
                <5> DEFINE V == {"denied", "challenged", "validated"}
                <5> HIDE DEF checks
                <5>3. "validated" \in V /\ \A i \in 1..3 : checks[i][2] \in V BY <5>2
                <5> HIDE DEF V
                <5>4. FirstRefusal(checks, "validated") \in V BY <5>1, <5>3, RefusalRange
                <5> QED BY <5>4 DEF V
            <4> HIDE DEF checks
            <4> QED BY <2>1, <3>1, <4>2, <4>3
        <3>3. CASE \E q \in EdgeRequests, d \in AtMostOne(EdgeFaults), l \in {"ALLOW", "DENY", "throws"} :
                      EdgeEnter(q, d, l)
            <4>1. PICK q \in EdgeRequests : edge' \in {[edge EXCEPT ![q] = "limited"], [edge EXCEPT ![q] = "denied"]}
                BY <3>3 DEF EdgeEnter
            <4> QED BY <2>1, <3>1, <4>1
        <3>4. CASE \E q \in EdgeRequests : \E h \in gateRecords[q], c \in ActionClasses, mfa \in AtMostOne(mfaResults),
                      s \in AtMostOne(stepUps), d \in AtMostOne(GateFaults) : PassIdentityGate(q, h, c, mfa, s, d)
            <4>1. PICK q \in EdgeRequests : \E h \in gateRecords[q], c \in ActionClasses, mfa \in AtMostOne(mfaResults),
                      s \in AtMostOne(stepUps), d \in AtMostOne(GateFaults) : PassIdentityGate(q, h, c, mfa, s, d)
                BY <3>4
            <4>2. PICK h \in gateRecords[q], c \in ActionClasses, mfa \in AtMostOne(mfaResults),
                      s \in AtMostOne(stepUps), d \in AtMostOne(GateFaults) : PassIdentityGate(q, h, c, mfa, s, d)
                BY <4>1
            <4> DEFINE allowed == EvaluateIdentityGate(q, h, c, mfa, s, d) = "ALLOW"
            <4>3. edge' = [edge EXCEPT ![q] = IF allowed THEN "granted" ELSE "denied"]
                BY <4>2 DEF PassIdentityGate
            <4>4. allowed /\ q = r
                <5> HIDE DEF allowed
                <5> QED BY <2>1, <3>1, <4>3
            <4>5. GoodRecords(h.identity, h.session) /\ Future(h.session.expiresAt) BY <4>4, AllowedByGate
            <4> QED BY <4>4, <4>5 DEF MayPass
        <3>5. CASE UNCHANGED edge BY <2>1, <3>5
        <3> QED BY <3>2, <3>3, <3>4, <3>5
            DEF IdentityGateSteps, GateSteps, RecoverySteps, MfaSteps, IssueChallenge, AnswerChallenge,
                CreateMFAChallengeResult, CreateStepUpAuthenticationResult, StandingChanges, IdentityTick,
                BreakGlassRecovery, ReadRecords
    <2>2. ASSUME ~Standing, NEW r \in MayPass' PROVE r \in MayPass
        <3>1. r \in EdgeRequests /\ \E h \in gateRecords'[r] : GoodRecords(h.identity, h.session) /\ h.session.expiresAt > now'
            BY <2>2 DEF MayPass, Future
        <3>2. PICK h \in gateRecords'[r] : GoodRecords(h.identity, h.session) /\ h.session.expiresAt > now' BY <3>1
        <3>3. CASE \E q \in EdgeRequests : ReadRecords(q)
            <4>1. PICK q \in EdgeRequests : ReadRecords(q) BY <3>3
            <4> DEFINE copy == [identity |-> identity, session |-> idSession]
            <4>2. gateRecords' = [gateRecords EXCEPT ![q] = {copy}] /\ now' = now BY <4>1 DEF ReadRecords
            <4>3. gateRecords \in [EdgeRequests -> SUBSET LoadedRecords] BY DEF GateInv, IdentityStateOK
            <4>4. ~GoodRecords(copy.identity, copy.session) BY <2>2 DEF Standing
            <4> HIDE DEF copy
            <4>5. h # copy BY <3>2, <4>4
            <4>6. h \in gateRecords[r] BY <3>1, <3>2, <4>2, <4>3, <4>5
            <4> QED BY <3>1, <3>2, <4>2, <4>6 DEF MayPass, Future
        <3>4. CASE gateRecords' = gateRecords /\ now' \in {now, now + 1}
            <4>1. h.session.expiresAt \in Nat /\ now \in Nat
                <5>1. gateRecords \in [EdgeRequests -> SUBSET LoadedRecords] /\ now \in Nat BY DEF GateInv, IdentityStateOK
                <5>2. h \in LoadedRecords BY <3>1, <3>2, <3>4, <5>1
                <5> QED BY <5>1, <5>2 DEF LoadedRecords, GateSessions
            <4>2. h.session.expiresAt > now BY <3>2, <3>4, <4>1
            <4>3. h \in gateRecords[r] BY <3>2, <3>4
            <4> QED BY <3>1, <3>2, <4>2, <4>3 DEF MayPass, Future
        <3>5. MfaSteps => gateRecords' = gateRecords /\ now' \in {now, now + 1}
            BY DEF MfaSteps, IssueChallenge, AnswerChallenge, CreateMFAChallengeResult, StandingChanges,
                   IdentityTick, Tick
        <3>6. RecoverySteps => gateRecords' = gateRecords /\ now' \in {now, now + 1}
            BY <3>5 DEF RecoverySteps, BreakGlassRecovery
        <3>7. GateSteps => \/ \E q \in EdgeRequests : ReadRecords(q)
                           \/ gateRecords' = gateRecords /\ now' \in {now, now + 1}
            <4>1. \A c, m : CreateStepUpAuthenticationResult(c, m, "aal2") => UNCHANGED <<gateRecords, now>>
                BY DEF CreateStepUpAuthenticationResult
            <4>2. \A q, d, a : EdgeEnter(q, d, a) \/ EdgeLeave(q, d, a) => UNCHANGED <<gateRecords, now>>
                BY DEF EdgeEnter, EdgeLeave
            <4>3. \A q, g, c, m, x, d : PassIdentityGate(q, g, c, m, x, d) => UNCHANGED <<gateRecords, now>>
                BY DEF PassIdentityGate
            <4> QED BY <3>5, <4>1, <4>2, <4>3 DEF GateSteps
        <3> QED BY <3>3, <3>4, <3>6, <3>7 DEF IdentityGateSteps
    <2> QED BY <2>1, <2>2 DEF NoStaleGrant
<1>2. IdentityGateSpec => []GateInv BY GateInitInv, GateStepKeepsInv, PTL DEF IdentityGateSpec
<1> QED BY <1>1, <1>2, PTL DEF IdentityGateSpec

-----------------------------------------------------------------------------
(* Identity and trust *)

\* verifySession: what a valid session was checked for.
LEMMA VerifiedSession ==
    ASSUME NEW s, NEW d, VerifySession(s, d) = "VALID"
    PROVE  /\ s # NoSession /\ s.state \notin {"REVOKED", "EXPIRED", "TERMINATED"}
           /\ s.absolute > now /\ ~(now - s.lastVerified > IdleTimeout)
<1> DEFINE checks == << <<s = NoSession, "NOT_ACTIVE">>,
                           <<s # NoSession /\ s.state = "REVOKED", "REVOKED">>,
                           <<s # NoSession /\ s.state \in {"EXPIRED", "TERMINATED"}, "EXPIRED">>,
                           <<s # NoSession /\ s.state \in {"SUSPENDED", "CREATED"}, "NOT_ACTIVE">>,
                           Refuse(d, {"binding"}, "COPY_DETECTED"),
                           Refuse(d, {"tenant"}, "TENANT_MISMATCH"),
                           <<s # NoSession /\ ~(Future(s.absolute) /\ Future(s.expiresAt)), "EXPIRED">>,
                           <<s # NoSession /\ now - s.lastVerified > IdleTimeout, "IDLE_TIMEOUT">>,
                           Refuse(d, {"privilege changed"}, "STEP_UP_REQUIRED") >>
<1>1. FirstRefusal(checks, "VALID") = "VALID" BY DEF VerifySession
<1>2. Len(checks) = 9 OBVIOUS
<1>3. \A i \in 1..9 : checks[i][2] # "VALID"
    <2>1. /\ checks[1][2] # "VALID" /\ checks[2][2] # "VALID" /\ checks[3][2] # "VALID"
           /\ checks[4][2] # "VALID" /\ checks[5][2] # "VALID" /\ checks[6][2] # "VALID"
           /\ checks[7][2] # "VALID" /\ checks[8][2] # "VALID" /\ checks[9][2] # "VALID"
        BY DEF Refuse
    <2> HIDE DEF checks
    <2> QED BY <2>1
<1>4. ~checks[1][1] /\ ~checks[2][1] /\ ~checks[3][1] /\ ~checks[7][1] /\ ~checks[8][1]
    <2> HIDE DEF checks
    <2>1. \A i \in 1..9 : ~checks[i][1] BY <1>1, <1>2, <1>3, NoRefusal
    <2> QED BY <2>1
<1> QED BY <1>4 DEF Future

\* verifyToken: an accepted token had not been seen.
LEMMA VerifiedToken ==
    ASSUME NEW j, NEW d, VerifyToken(j, d) = "VERIFIED"
    PROVE  j \notin seenJti
<1> DEFINE checks == << Refuse(d, {"malformed"}, "MALFORMED"),
                           Refuse(d, {"token type"}, "TYPE_MISUSE"),
                           Refuse(d, {"issuer"}, "ISSUER_UNTRUSTED"),
                           Refuse(d, {"audience"}, "AUDIENCE_MISMATCH"),
                           Refuse(d, {"algorithm"}, "ALGORITHM_NOT_ALLOWED"),
                           Refuse(d, {"tenant"}, "TENANT_MISMATCH"),
                           <<<<"token", j>> \in revokedIds, "REVOKED">>,
                           Refuse(d, {"token expired"}, "EXPIRED"),
                           <<j \in seenJti, "REPLAYED">> >>
<1>1. FirstRefusal(checks, "VERIFIED") = "VERIFIED" BY DEF VerifyToken
<1>2. Len(checks) = 9 OBVIOUS
<1>3. \A i \in 1..9 : checks[i][2] # "VERIFIED"
    <2>1. /\ checks[1][2] # "VERIFIED" /\ checks[2][2] # "VERIFIED" /\ checks[3][2] # "VERIFIED"
           /\ checks[4][2] # "VERIFIED" /\ checks[5][2] # "VERIFIED" /\ checks[6][2] # "VERIFIED"
           /\ checks[7][2] # "VERIFIED" /\ checks[8][2] # "VERIFIED" /\ checks[9][2] # "VERIFIED"
        BY DEF Refuse
    <2> HIDE DEF checks
    <2> QED BY <2>1
<1>4. ~checks[9][1]
    <2> HIDE DEF checks
    <2>1. \A i \in 1..9 : ~checks[i][1] BY <1>1, <1>2, <1>3, NoRefusal
    <2> QED BY <2>1
<1> QED BY <1>4

\* evaluateDelegation: what a granted link was checked for.
LEMMA GrantedDelegation ==
    ASSUME NEW chain, NEW parent, NEW p, NEW claims0, NEW d,
           EvaluateDelegation(chain, parent, p, claims0, d) = "GRANTED"
    PROVE  /\ ~(Len(chain) > DepthLimit) /\ p \notin {chain[i] : i \in DOMAIN chain} /\ claims0 \subseteq parent
<1> DEFINE checks == << Refuse(d, {"delegation revoked"}, "REVOKED"),
                           Refuse(d, {"tenant"}, "CROSS_TENANT"),
                           <<Len(chain) > DepthLimit, "DEPTH_EXCEEDED">>,
                           <<p \in {chain[i] : i \in DOMAIN chain}, "CYCLE">>,
                           <<~(claims0 \subseteq parent), "SCOPE_ESCALATION">>,
                           <<chain[Len(chain)] \in Agents /\ claims0 = {}, "AGENT_UNLIMITED_DENIED">>,
                           Refuse(d, {"delegation expired"}, "EXPIRED"),
                           Refuse(d, {"not approved"}, "APPROVAL_REQUIRED") >>
<1>1. FirstRefusal(checks, "GRANTED") = "GRANTED" BY DEF EvaluateDelegation
<1>2. Len(checks) = 8 OBVIOUS
<1>3. \A i \in 1..8 : checks[i][2] # "GRANTED"
    <2>1. /\ checks[1][2] # "GRANTED" /\ checks[2][2] # "GRANTED" /\ checks[3][2] # "GRANTED"
           /\ checks[4][2] # "GRANTED" /\ checks[5][2] # "GRANTED" /\ checks[6][2] # "GRANTED"
           /\ checks[7][2] # "GRANTED" /\ checks[8][2] # "GRANTED"
        BY DEF Refuse
    <2> HIDE DEF checks
    <2> QED BY <2>1
<1>4. ~checks[3][1] /\ ~checks[4][1] /\ ~checks[5][1]
    <2> HIDE DEF checks
    <2>1. \A i \in 1..8 : ~checks[i][1] BY <1>1, <1>2, <1>3, NoRefusal
    <2> QED BY <2>1
<1> QED BY <1>4

\* evaluateBreakGlass: what a granted emergency access was checked for.
LEMMA GrantedBreakGlass ==
    ASSUME NEW scope, NEW approvals, NEW until, NEW d, EvaluateBreakGlass(scope, approvals, until, d) = "GRANTED"
    PROVE  ~(until <= now) /\ ~(until - now > BreakGlassMax)
<1> DEFINE checks == << Refuse(d, {"AI initiator"}, "AI_DENIED"),
                           Refuse(d, {"no reason"}, "NO_REASON"),
                           <<Cardinality({i \in DOMAIN approvals : approvals[i] \notin Agents}) < (IF scope = "global" THEN 3 ELSE 2), "MULTI_APPROVAL_REQUIRED">>,
                           <<until <= now, "MUST_EXPIRE">>,
                           <<until - now > BreakGlassMax, "TOO_LONG">> >>
<1>1. FirstRefusal(checks, "GRANTED") = "GRANTED" BY DEF EvaluateBreakGlass
<1>2. Len(checks) = 5 OBVIOUS
<1>3. \A i \in 1..5 : checks[i][2] # "GRANTED"
    <2>1. /\ checks[1][2] # "GRANTED" /\ checks[2][2] # "GRANTED" /\ checks[3][2] # "GRANTED"
           /\ checks[4][2] # "GRANTED" /\ checks[5][2] # "GRANTED"
        BY DEF Refuse
    <2> HIDE DEF checks
    <2> QED BY <2>1
<1>4. ~checks[4][1] /\ ~checks[5][1]
    <2> HIDE DEF checks
    <2>1. \A i \in 1..5 : ~checks[i][1] BY <1>1, <1>2, <1>3, NoRefusal
    <2> QED BY <2>1
<1> QED BY <1>4

\* What the stores hold beside the types of IdentityTrustTypeOK; a session is
\* over AbsoluteLife after it was verified.
SessionTimes(x) == x # NoSession => x.absolute = x.lastVerified + AbsoluteLife

TrustStateOK ==
    /\ now \in Nat
    /\ sessions \in [SessionIds -> SessionRecords \cup {NoSession}]
    /\ \A s \in SessionIds : SessionTimes(sessions[s])
    /\ reading \subseteq [sid : SessionIds, copy : SessionRecords \cup {NoSession}]
    /\ \A r1, r2 \in reading : r1 = r2
    /\ \A r \in reading : SessionTimes(r.copy)
    /\ jtiUses \in [Jtis -> Nat] /\ lateServes \in [SessionIds -> Nat]
    /\ overstayed = FALSE

TokensSpent == \A j \in Jtis : jtiUses[j] <= 1 /\ (j \notin seenJti => jtiUses[j] = 0)

\* A late access was the one that had read its session before the session was
\* cut; whoever reads the session from then on reads that it is cut.
LateOnce ==
    /\ \A r \in reading : r.copy # NoSession => sessions[r.sid] # NoSession
    /\ \A s \in SessionIds :
          /\ lateServes[s] <= 1
          /\ lateServes[s] > 0 =>
                /\ sessions[s] # NoSession /\ sessions[s].state # "ACTIVE"
                /\ \A r \in reading : (r.sid = s /\ r.copy # NoSession) => r.copy.state # "ACTIVE"

ChainsOK ==
    /\ delegations \subseteq [chain : Seq(Persons), claims : SUBSET Claims]
    /\ \A l \in delegations : Len(l.chain) > 1

\* A grant in force ends, and was not made for longer than allowed.
GlassEnds ==
    \A g \in glass : /\ g.since \in Nat /\ g.until \in Nat /\ g.since <= now /\ g.until > now
                     /\ g.until - g.since <= BreakGlassMax

TrustInv ==
    /\ principal \in [Persons -> PrincipalStatus] /\ seenJti \subseteq Jtis
    /\ TrustStateOK
    /\ TokensSpent
    /\ LateOnce
    /\ ChainsOK /\ ChainsNarrow
    /\ GlassEnds

\* The invariant is strong enough.
LEMMA TrustInvImplies == TrustInv => IdentityTrustSafe
<1> SUFFICES ASSUME TrustInv PROVE IdentityTrustSafe OBVIOUS
<1> USE DEF TrustInv
<1>1. IdentityTrustTypeOK
    <2>1. Cardinality(reading) <= 1 BY AtMostOneMember DEF TrustStateOK
    <2>2. \A s \in SessionIds : sessions[s] = NoSession \/ sessions[s].state \in SessionState
        BY DEF TrustStateOK, SessionRecords, SessionState
    <2> QED BY <2>1, <2>2 DEF IdentityTrustTypeOK
<1>2. TokenOnce BY DEF TokensSpent, TokenOnce
<1>3. RevocationCutsOff BY DEF LateOnce, RevocationCutsOff
<1>4. ServedWithinLimits BY DEF TrustStateOK, ServedWithinLimits
<1>5. GlassBounded
    <2>1. now \in Nat /\ BreakGlassMax \in Nat BY IdentityTrustAssumption DEF TrustStateOK
    <2> QED BY <2>1 DEF GlassEnds, GlassBounded
<1> QED BY <1>1, <1>2, <1>3, <1>4, <1>5 DEF IdentityTrustSafe

\* It holds at the start.
LEMMA TrustInitInv == now = 0 /\ IdentityTrustInit => TrustInv
<1> SUFFICES ASSUME now = 0, IdentityTrustInit PROVE TrustInv OBVIOUS
<1> USE DEF IdentityTrustInit
<1>1. principal \in [Persons -> PrincipalStatus] /\ seenJti \subseteq Jtis BY DEF PrincipalStatus
<1>2. TrustStateOK BY DEF TrustStateOK, SessionTimes
<1>3. TokensSpent BY DEF TokensSpent
<1>4. LateOnce BY DEF LateOnce
<1>5. ChainsOK /\ ChainsNarrow BY DEF ChainsOK, ChainsNarrow
<1>6. GlassEnds BY DEF GlassEnds
<1> QED BY <1>1, <1>2, <1>3, <1>4, <1>5, <1>6 DEF TrustInv

\* How the session store changes: ids are taken, and sessions are only cut.
SessionsAdvance ==
    /\ sessions' \in [SessionIds -> SessionRecords \cup {NoSession}]
    /\ \A s \in SessionIds : SessionTimes(sessions'[s])
    /\ \A s \in SessionIds : sessions[s] # NoSession =>
          sessions'[s] # NoSession /\ (sessions[s].state # "ACTIVE" => sessions'[s].state # "ACTIVE")

\* What a session looks like when it is opened.
LEMMA NewSession ==
    ASSUME TrustStateOK, NEW p \in Persons
    PROVE  Session(p) \in SessionRecords /\ Session(p) # NoSession /\ SessionTimes(Session(p))
<1>1. now \in Nat /\ SessionLife \in Nat /\ AbsoluteLife \in Nat BY IdentityTrustAssumption DEF TrustStateOK
<1>2. Session(p) \in SessionRecords BY <1>1 DEF Session, SessionRecords
<1> QED BY <1>1, <1>2, NoSessionAssumption DEF Session, SessionTimes

\* What a session looks like when it is cut.
LEMMA CutSession ==
    ASSUME NEW x \in SessionRecords, NEW st \in {"REVOKED", "TERMINATED"}, SessionTimes(x)
    PROVE  /\ [x EXCEPT !.state = st] \in SessionRecords /\ [x EXCEPT !.state = st] # NoSession
           /\ [x EXCEPT !.state = st].state # "ACTIVE" /\ SessionTimes([x EXCEPT !.state = st])
<1>1. [x EXCEPT !.state = st] \in SessionRecords BY DEF SessionRecords
<1>2. [x EXCEPT !.state = st].state = st BY DEF SessionRecords
<1>3. x # NoSession BY NoSessionAssumption
<1> QED BY <1>1, <1>2, <1>3, NoSessionAssumption DEF SessionTimes, SessionRecords

\* Logins, rotations, revocations and recoveries open an unused id or cut a live one.
LEMMA SessionStepsAdvance ==
    ASSUME TrustStateOK,
           \/ \E p \in Persons, s \in SessionIds, f \in BOOLEAN : \E d \in AtMostOne(LoginFaults(p, f)) : Login(p, s, d, f)
           \/ \E old, new \in SessionIds : RotateSession(old, new)
           \/ \E s \in SessionIds : RevokeSession(s)
           \/ \E d : \E p \in Persons, n \in 0..2, critical \in BOOLEAN : Recover(p, n, critical, d)
           \/ UNCHANGED sessions
    PROVE  SessionsAdvance
<1>1. /\ sessions \in [SessionIds -> SessionRecords \cup {NoSession}]
      /\ \A s \in SessionIds : SessionTimes(sessions[s])
    BY DEF TrustStateOK
<1>2. CASE UNCHANGED sessions BY <1>1, <1>2 DEF SessionsAdvance
<1>3. CASE \E p \in Persons, s \in SessionIds, f \in BOOLEAN :
              \E d \in AtMostOne(LoginFaults(p, f)) : Login(p, s, d, f)
    <2>1. PICK p \in Persons, s \in SessionIds : sessions' = CreateSession(sessions, s, Session(p))
        BY <1>3 DEF Login
    <2>2. Session(p) \in SessionRecords /\ Session(p) # NoSession /\ SessionTimes(Session(p)) BY NewSession
    <2> QED BY <1>1, <2>1, <2>2 DEF CreateSession, SessionsAdvance
<1>4. CASE \E old, new \in SessionIds : RotateSession(old, new)
    <2>1. PICK old \in SessionIds, new \in SessionIds : RotateSession(old, new) BY <1>4
    <2> DEFINE p == sessions[old].owner
               x == [sessions[old] EXCEPT !.state = "TERMINATED"]
               cut == [sessions EXCEPT ![old] = x]
    <2>2. sessions[old] \in SessionRecords BY <1>1, <2>1 DEF RotateSession
    <2>3. p \in Persons BY <2>2 DEF SessionRecords
    <2>4. Session(p) \in SessionRecords /\ Session(p) # NoSession /\ SessionTimes(Session(p)) BY <2>3, NewSession
    <2>5. x \in SessionRecords /\ x # NoSession /\ x.state # "ACTIVE" /\ SessionTimes(x)
        BY <1>1, <2>2, CutSession
    <2>6. sessions' = CreateSession(cut, new, Session(p)) BY <2>1 DEF RotateSession
    <2> HIDE DEF x, p
    <2>7. /\ cut \in [SessionIds -> SessionRecords \cup {NoSession}] /\ cut[old] = x
          /\ \A s \in SessionIds \ {old} : cut[s] = sessions[s]
        BY <1>1, <2>5
    <2> HIDE DEF cut
    <2> QED BY <1>1, <2>4, <2>5, <2>6, <2>7 DEF CreateSession, SessionsAdvance
<1>5. CASE \E s \in SessionIds : RevokeSession(s)
    <2>1. PICK s \in SessionIds : RevokeSession(s) BY <1>5
    <2> DEFINE x == [sessions[s] EXCEPT !.state = "REVOKED"]
    <2>2. sessions[s] \in SessionRecords BY <1>1, <2>1 DEF RevokeSession
    <2>3. x \in SessionRecords /\ x # NoSession /\ x.state # "ACTIVE" /\ SessionTimes(x)
        BY <1>1, <2>2, CutSession
    <2>4. sessions' = [sessions EXCEPT ![s] = x] BY <2>1 DEF RevokeSession
    <2> HIDE DEF x
    <2> QED BY <1>1, <2>3, <2>4 DEF SessionsAdvance
<1>6. CASE \E d : \E p \in Persons, n \in 0..2, critical \in BOOLEAN : Recover(p, n, critical, d)
    <2> DEFINE cut(s) == [sessions[s] EXCEPT !.state = "REVOKED"]
    <2>1. PICK p \in Persons : sessions' = [s \in SessionIds |->
                IF sessions[s] # NoSession /\ sessions[s].owner = p THEN cut(s) ELSE sessions[s]]
        BY <1>6 DEF Recover
    <2>2. \A s \in SessionIds : sessions[s] # NoSession =>
              cut(s) \in SessionRecords /\ cut(s) # NoSession /\ cut(s).state # "ACTIVE" /\ SessionTimes(cut(s))
        <3> TAKE s \in SessionIds
        <3> HAVE sessions[s] # NoSession
        <3>1. sessions[s] \in SessionRecords BY <1>1
        <3> QED BY <1>1, <3>1, CutSession
    <2> HIDE DEF cut
    <2> QED BY <1>1, <2>1, <2>2 DEF SessionsAdvance
<1> QED BY <1>2, <1>3, <1>4, <1>5, <1>6

\* A step that only advances the sessions keeps every part of the invariant.
LEMMA AdvanceKeepsInv ==
    ASSUME TrustInv, SessionsAdvance, UNCHANGED <<reading, seenJti, jtiUses, overstayed, lateServes>>,
           now' = now, UNCHANGED <<delegations, glass>>, principal' \in [Persons -> PrincipalStatus]
    PROVE  TrustInv'
<1> USE DEF TrustInv
<1>1. TrustStateOK' BY DEF TrustStateOK, SessionsAdvance, SessionTimes
<1>2. TokensSpent' BY DEF TokensSpent
<1>3. LateOnce'
    <2>1. \A r \in reading : r.sid \in SessionIds BY DEF TrustStateOK
    <2> QED BY <2>1 DEF LateOnce, SessionsAdvance
<1>4. ChainsOK' /\ ChainsNarrow' BY DEF ChainsOK, ChainsNarrow
<1>5. GlassEnds' BY DEF GlassEnds
<1> QED BY <1>1, <1>2, <1>3, <1>4, <1>5

\* The first half of an access decision: the session is read.
LEMMA ReadKeepsInv ==
    ASSUME TrustInv, NEW s \in SessionIds, ReadSession(s)
    PROVE  TrustInv'
<1> USE DEF TrustInv
<1>1. /\ reading' = {[sid |-> s, copy |-> sessions[s]]}
      /\ UNCHANGED <<now, standingVars, sessions, seenJti, jtiUses, overstayed, lateServes, grantVars>>
    BY DEF ReadSession
<1>2. TrustStateOK' BY <1>1 DEF TrustStateOK, SessionTimes
<1>3. TokensSpent' BY <1>1 DEF TokensSpent
<1>4. LateOnce' BY <1>1 DEF LateOnce, TrustStateOK
<1>5. ChainsOK' /\ ChainsNarrow' BY <1>1 DEF ChainsOK, ChainsNarrow, grantVars
<1>6. GlassEnds' BY <1>1 DEF GlassEnds, grantVars
<1> QED BY <1>1, <1>2, <1>3, <1>4, <1>5, <1>6 DEF standingVars

\* The second half: the decision on what was read.
LEMMA DecideAccessKeepsInv ==
    ASSUME TrustInv, NEW j \in Jtis, NEW d, DecideAccess(j, d)
    PROVE  TrustInv'
<1> USE DEF TrustInv
<1>1. PICK r \in reading :
        /\ reading' = {} /\ UNCHANGED <<now, standingVars, sessions, grantVars>>
        /\ LET served == VerifySession(r.copy, d) = "VALID" /\ VerifyToken(j, d) = "VERIFIED"
           IN  /\ seenJti' = IF served THEN seenJti \cup {j} ELSE seenJti
               /\ jtiUses' = IF served THEN [jtiUses EXCEPT ![j] = @ + 1] ELSE jtiUses
               /\ overstayed' = (overstayed \/ (served /\ (\/ now - r.copy.lastVerified > IdleTimeout
                                                           \/ now - r.copy.lastVerified >= AbsoluteLife)))
               /\ lateServes' = IF served /\ sessions[r.sid].state # "ACTIVE"
                                THEN [lateServes EXCEPT ![r.sid] = @ + 1] ELSE lateServes
    BY DEF DecideAccess
<1> DEFINE served == VerifySession(r.copy, d) = "VALID" /\ VerifyToken(j, d) = "VERIFIED"
<1>2. ASSUME served
      PROVE  /\ r.copy \in SessionRecords /\ r.copy.state = "ACTIVE" /\ j \notin seenJti
             /\ ~(now - r.copy.lastVerified > IdleTimeout) /\ ~(now - r.copy.lastVerified >= AbsoluteLife)
    <2>1. /\ r.copy # NoSession /\ r.copy.state \notin {"REVOKED", "EXPIRED", "TERMINATED"}
          /\ r.copy.absolute > now /\ ~(now - r.copy.lastVerified > IdleTimeout)
        BY <1>2, VerifiedSession
    <2>2. r.copy \in SessionRecords /\ SessionTimes(r.copy) BY <2>1 DEF TrustStateOK
    <2>3. /\ r.copy.absolute \in Nat /\ r.copy.lastVerified \in Nat /\ now \in Nat /\ AbsoluteLife \in Nat
          /\ r.copy.absolute = r.copy.lastVerified + AbsoluteLife
        BY <2>1, <2>2, IdentityTrustAssumption DEF SessionRecords, TrustStateOK, SessionTimes
    <2>4. ~(now - r.copy.lastVerified >= AbsoluteLife) BY <2>1, <2>3
    <2> QED BY <1>2, <2>1, <2>2, <2>4, VerifiedToken DEF SessionRecords
<1>3. principal' \in [Persons -> PrincipalStatus] /\ seenJti' \subseteq Jtis BY <1>1 DEF standingVars
<1>4. overstayed' = FALSE BY <1>1, <1>2 DEF TrustStateOK
<1>5. r.sid \in SessionIds BY DEF TrustStateOK
<1>6. jtiUses' \in [Jtis -> Nat] /\ lateServes' \in [SessionIds -> Nat]
    <2>1. jtiUses \in [Jtis -> Nat] /\ lateServes \in [SessionIds -> Nat] BY DEF TrustStateOK
    <2> QED BY <1>1, <1>5, <2>1
<1>7. TrustStateOK' BY <1>1, <1>4, <1>6 DEF TrustStateOK, SessionTimes
<1>8. TokensSpent'
    <2>1. jtiUses \in [Jtis -> Nat] BY DEF TrustStateOK
    <2> QED BY <1>1, <1>2, <2>1 DEF TokensSpent
<1>9. LateOnce'
    <2>1. lateServes \in [SessionIds -> Nat] BY DEF TrustStateOK
    <2>2. ASSUME served, sessions[r.sid].state # "ACTIVE"
          PROVE  sessions[r.sid] # NoSession /\ lateServes[r.sid] = 0
        <3>1. r.copy # NoSession /\ r.copy.state = "ACTIVE" BY <1>2, <2>2, NoSessionAssumption
        <3> QED BY <1>5, <2>1, <3>1 DEF LateOnce
    <2> QED BY <1>1, <1>5, <2>1, <2>2 DEF LateOnce
<1>10. ChainsOK' /\ ChainsNarrow' BY <1>1 DEF ChainsOK, ChainsNarrow, grantVars
<1>11. GlassEnds' BY <1>1 DEF GlassEnds, grantVars
<1> QED BY <1>3, <1>7, <1>8, <1>9, <1>10, <1>11

\* Steps on the grants leave the accesses alone.
LEMMA AccessUntouched ==
    ASSUME TrustInv, UNCHANGED <<standingVars, accessVars>>, now' \in Nat
    PROVE  /\ principal' \in [Persons -> PrincipalStatus] /\ seenJti' \subseteq Jtis
           /\ TrustStateOK' /\ TokensSpent' /\ LateOnce'
<1> USE DEF TrustInv, standingVars, accessVars
<1>1. TrustStateOK' BY DEF TrustStateOK, SessionTimes
<1>2. TokensSpent' BY DEF TokensSpent
<1>3. LateOnce' BY DEF LateOnce
<1> QED BY <1>1, <1>2, <1>3

\* One more link: the chain it makes is narrower than the one it extends, and within
\* the depth limit.
LEMMA LinkKeepsChains ==
    ASSUME TrustInv, NEW chain \in Seq(Persons), Len(chain) > 0, NEW parent \in SUBSET Claims, NEW p \in Persons,
           NEW claims0 \in SUBSET Claims, NEW d, Delegate(chain, parent, p, claims0, d),
           \A i, k \in DOMAIN chain : i # k => chain[i] # chain[k],
           Len(chain) > 1 => [chain |-> chain, claims |-> parent] \in delegations
    PROVE  TrustInv'
<1> USE DEF TrustInv
<1> DEFINE longer == Append(chain, p)
           link == [chain |-> longer, claims |-> claims0]
<1>1. /\ delegations' = delegations \cup {link}
      /\ UNCHANGED <<now, standingVars, accessVars, evidenceUsed, glass>>
      /\ EvaluateDelegation(chain, parent, p, claims0, d) = "GRANTED"
    BY DEF Delegate
<1>2. ~(Len(chain) > DepthLimit) /\ p \notin {chain[i] : i \in DOMAIN chain} /\ claims0 \subseteq parent
    BY <1>1, GrantedDelegation
<1>3. DepthLimit \in Nat BY IdentityTrustAssumption DEF DepthLimit
<1>4. /\ longer \in Seq(Persons) /\ Len(longer) = Len(chain) + 1 /\ Len(chain) \in Nat
      /\ DOMAIN longer = 1..Len(chain) + 1 /\ DOMAIN chain = 1..Len(chain)
      /\ \A i \in DOMAIN chain : longer[i] = chain[i]
      /\ longer[Len(chain) + 1] = p
    OBVIOUS
<1>5. SubSeq(longer, 1, Len(longer) - 1) = chain
    <2>1. SubSeq(longer, 1, Len(chain)) \in Seq(Persons) /\ Len(SubSeq(longer, 1, Len(chain))) = Len(chain)
          /\ \A i \in 1..Len(chain) : SubSeq(longer, 1, Len(chain))[i] = chain[i]
        BY <1>4
    <2>2. Len(longer) - 1 = Len(chain) BY <1>4
    <2> HIDE DEF longer
    <2> QED BY <2>1, <2>2, SeqEqual
<1> HIDE DEF longer
<1>6. ChainsOK' BY <1>1, <1>4 DEF ChainsOK
<1>7. ChainsNarrow'
    <2>1. \A l \in delegations' : l \in delegations \/ l = link BY <1>1
    <2>2. /\ link.claims \subseteq Claims /\ Len(link.chain) <= DepthLimit + 1
          /\ \A i, k \in DOMAIN link.chain : i # k => link.chain[i] # link.chain[k]
        <3>1. link.chain = longer /\ link.claims = claims0 OBVIOUS
        <3>2. Len(longer) <= DepthLimit + 1 BY <1>2, <1>3, <1>4
        <3>3. \A i, k \in DOMAIN longer : i # k => longer[i] # longer[k]
            <4>1. \A i \in DOMAIN chain : longer[i] # p BY <1>2, <1>4
            <4>2. \A i \in DOMAIN longer : i \in DOMAIN chain \/ i = Len(chain) + 1 BY <1>4
            <4> QED BY <1>4, <4>1, <4>2
        <3> QED BY <3>1, <3>2, <3>3
    <2>3. Len(link.chain) > 2 => \E m \in delegations :
              m.chain = SubSeq(link.chain, 1, Len(link.chain) - 1) /\ link.claims \subseteq m.claims
        <3>1. link.chain = longer /\ link.claims = claims0 OBVIOUS
        <3>2. Len(longer) > 2 => [chain |-> chain, claims |-> parent] \in delegations BY <1>4
        <3> QED BY <1>2, <1>5, <3>1, <3>2
    <2> HIDE DEF link
    <2> QED BY <1>1, <2>1, <2>2, <2>3 DEF ChainsNarrow
<1>8. GlassEnds' BY <1>1 DEF GlassEnds
<1>9. now' \in Nat BY <1>1 DEF TrustStateOK
<1> QED BY <1>1, <1>6, <1>7, <1>8, <1>9, AccessUntouched

\* Steps on delegations.
LEMMA DelegationKeepsInv ==
    ASSUME TrustInv, NEW p \in Persons, NEW claims0 \in SUBSET Claims, NEW d,
           \/ Delegate(<<Root>>, Claims, p, claims0, d)
           \/ \E l \in delegations : Delegate(l.chain, l.claims, p, claims0, d)
    PROVE  TrustInv'
<1>1. CASE Delegate(<<Root>>, Claims, p, claims0, d)
    <2> DEFINE chain == <<Root>>
    <2>1. chain \in Seq(Persons) /\ Len(chain) = 1 /\ DOMAIN chain = 1..1 BY IdentityTrustAssumption
    <2>2. \A i, k \in DOMAIN chain : i = k BY <2>1
    <2>3. Delegate(chain, Claims, p, claims0, d) /\ Claims \in SUBSET Claims BY <1>1
    <2> HIDE DEF chain
    <2>4. /\ Len(chain) > 0 /\ ~(Len(chain) > 1)
          /\ \A i, k \in DOMAIN chain : i # k => chain[i] # chain[k]
        BY <2>1, <2>2
    <2> QED BY <2>1, <2>3, <2>4, LinkKeepsChains
<1>2. CASE \E l \in delegations : Delegate(l.chain, l.claims, p, claims0, d)
    <2>1. PICK l \in delegations : Delegate(l.chain, l.claims, p, claims0, d) BY <1>2
    <2>2. /\ l.chain \in Seq(Persons) /\ Len(l.chain) > 0 /\ l.claims \in SUBSET Claims
          /\ \A i, k \in DOMAIN l.chain : i # k => l.chain[i] # l.chain[k]
        BY DEF TrustInv, ChainsOK, ChainsNarrow
    <2>3. [chain |-> l.chain, claims |-> l.claims] \in delegations BY DEF TrustInv, ChainsOK
    <2> QED BY <2>1, <2>2, <2>3, LinkKeepsChains
<1> QED BY <1>1, <1>2

\* Steps on emergency access.
LEMMA BreakGlassKeepsInv ==
    ASSUME TrustInv, NEW scope, NEW approvals, NEW until \in 0..MaxClock, NEW d,
           BreakGlass(scope, approvals, until, d)
    PROVE  TrustInv'
<1> USE DEF TrustInv
<1>1. /\ glass' = {[scope |-> scope, since |-> now, until |-> until]}
      /\ UNCHANGED <<now, standingVars, accessVars, delegations, evidenceUsed>>
      /\ EvaluateBreakGlass(scope, approvals, until, d) = "GRANTED"
    BY DEF BreakGlass
<1>2. ~(until <= now) /\ ~(until - now > BreakGlassMax) BY <1>1, GrantedBreakGlass
<1>3. now \in Nat /\ until \in Nat /\ BreakGlassMax \in Nat BY IdentityTrustAssumption DEF TrustStateOK
<1>4. GlassEnds' BY <1>1, <1>2, <1>3 DEF GlassEnds
<1>5. ChainsOK' /\ ChainsNarrow' BY <1>1 DEF ChainsOK, ChainsNarrow
<1> QED BY <1>1, <1>3, <1>4, <1>5, AccessUntouched

\* Time passes.
LEMMA TrustTickKeepsInv ==
    ASSUME TrustInv, TrustTick
    PROVE  TrustInv'
<1> USE DEF TrustInv
<1>1. /\ now' = now + 1 /\ glass' = {g \in glass : g.until > now'}
      /\ UNCHANGED <<standingVars, accessVars, delegations, evidenceUsed>>
    BY DEF TrustTick, Tick
<1>2. now \in Nat /\ now' \in Nat BY <1>1 DEF TrustStateOK
<1>3. GlassEnds' BY <1>1, <1>2 DEF GlassEnds
<1>4. ChainsOK' /\ ChainsNarrow' BY <1>1 DEF ChainsOK, ChainsNarrow
<1> QED BY <1>1, <1>2, <1>3, <1>4, AccessUntouched

\* Every step of the package keeps the invariant.
LEMMA TrustStepKeepsInv == TrustInv /\ [IdentityTrustSteps]_trustVars => TrustInv'
<1> SUFFICES ASSUME TrustInv, [IdentityTrustSteps]_trustVars PROVE TrustInv' OBVIOUS
<1>0. TrustStateOK BY DEF TrustInv
<1>1. CASE \/ \E p \in Persons, s \in SessionIds, f \in BOOLEAN : \E d \in AtMostOne(LoginFaults(p, f)) : Login(p, s, d, f)
           \/ \E old, new \in SessionIds : RotateSession(old, new)
           \/ \E s \in SessionIds : RevokeSession(s)
           \/ \E p \in Persons, n \in 0..2, critical \in BOOLEAN,
                 d \in AtMostOne({"AI approver", "low channel", "challenge expired"}) : Recover(p, n, critical, d)
    <2>1. SessionsAdvance BY <1>0, <1>1, SessionStepsAdvance
    <2>2. /\ UNCHANGED <<reading, seenJti, jtiUses, overstayed, lateServes>> /\ now' = now
          /\ UNCHANGED <<delegations, glass>> /\ UNCHANGED principal
        BY <1>1 DEF Login, RotateSession, RevokeSession, Recover, grantVars, standingVars
    <2> QED BY <2>1, <2>2, AdvanceKeepsInv DEF TrustInv
<1>2. CASE LoseStanding(Persons)
    <2>1. UNCHANGED <<now, accessVars, grantVars>> BY <1>2 DEF LoseStanding
    <2>2. principal' \in [Persons -> PrincipalStatus] BY <1>2 DEF LoseStanding, TrustInv, PrincipalStatus
    <2>3. SessionsAdvance BY <1>0, <2>1, SessionStepsAdvance DEF accessVars
    <2> QED BY <2>1, <2>2, <2>3, AdvanceKeepsInv DEF accessVars, grantVars
<1>3. CASE \E s \in SessionIds : ReadSession(s) BY <1>3, ReadKeepsInv
<1>4. CASE \E j \in Jtis, d \in AtMostOne(AccessFaults) : DecideAccess(j, d) BY <1>4, DecideAccessKeepsInv
<1>5. CASE DelegationSteps BY <1>5, DelegationKeepsInv, TrustTickKeepsInv DEF DelegationSteps
<1>6. CASE BreakGlassSteps BY <1>6, BreakGlassKeepsInv, TrustTickKeepsInv DEF BreakGlassSteps
<1>7. CASE UNCHANGED trustVars
    <2>1. UNCHANGED <<now, standingVars, accessVars, grantVars>> BY <1>7 DEF trustVars, trustState
    <2>2. SessionsAdvance BY <1>0, <2>1, SessionStepsAdvance DEF accessVars
    <2>3. principal' = principal BY <2>1 DEF standingVars
    <2> QED BY <2>1, <2>2, <2>3, AdvanceKeepsInv DEF accessVars, grantVars, TrustInv
<1> QED BY <1>1, <1>2, <1>3, <1>4, <1>5, <1>6, <1>7, TrustTickKeepsInv DEF IdentityTrustSteps, SessionSteps

\* Identity and trust: a token is accepted once, a session that was cut serves at most the
\* access that had read it, accesses are served within the idle and absolute limits,
\* delegations narrow along chains without repetition and within the depth limit, and a
\* break-glass grant ends in time, for every set of persons, sessions, tokens and claims
\* (session.ts, token.ts, delegation.ts and break-glass.ts).
THEOREM IdentityTrustSafety == IdentityTrustSpec => []IdentityTrustSafe
<1>1. IdentityTrustSpec => []TrustInv BY TrustInitInv, TrustStepKeepsInv, PTL DEF IdentityTrustSpec
<1> QED BY <1>1, TrustInvImplies, PTL

\* A session id that was terminated, revoked or cut never becomes active again (create's
\* session_fixation_denied, and rotation).
THEOREM CutSessionsStayCut == IdentityTrustSpec => [][IdNeverRevives]_trustVars
<1>1. TrustInv /\ [IdentityTrustSteps]_trustVars => [IdNeverRevives]_trustVars
    <2> SUFFICES ASSUME TrustInv, IdentityTrustSteps PROVE IdNeverRevives OBVIOUS
    <2>1. TrustStateOK BY DEF TrustInv
    <2>2. SessionsAdvance
        <3>1. CASE \/ LoseStanding(Persons) \/ TrustTick \/ DelegationSteps \/ BreakGlassSteps
                   \/ (\E s \in SessionIds : ReadSession(s))
                   \/ (\E j \in Jtis, d \in AtMostOne(AccessFaults) : DecideAccess(j, d))
            <4>1. UNCHANGED sessions
                BY <3>1 DEF LoseStanding, TrustTick, DelegationSteps, BreakGlassSteps, Delegate, BreakGlass,
                            ReadSession, DecideAccess, accessVars
            <4> QED BY <2>1, <4>1, SessionStepsAdvance
        <3> QED BY <2>1, <3>1, SessionStepsAdvance DEF IdentityTrustSteps, SessionSteps
    <2> QED BY <2>2 DEF SessionsAdvance, IdNeverRevives
<1>2. IdentityTrustSpec => []TrustInv BY TrustInitInv, TrustStepKeepsInv, PTL DEF IdentityTrustSpec
<1> QED BY <1>1, <1>2, PTL DEF IdentityTrustSpec

-----------------------------------------------------------------------------
(* Tool calls and secrets *)

\* evaluateToolInvocation: an allowed invocation found no kill switch.
LEMMA AllowedIsAlive ==
    ASSUME NEW c, NEW d, EvaluateToolInvocation(c, d) = "ALLOW_INVOKE"
    PROVE  ~killed
<1> DEFINE checks == << <<EvaluateToolDescriptor(d) # "RESOLVED", "DESCRIPTOR_DENIED">>,
                           <<EvaluateKillSwitch # "ACTIVE", "KILLED">>,
                           <<EvaluateToolPermission(d) # "PERMITTED", "PERMISSION_DENIED">>,
                           <<ValidateToolParameters(d) # "VALID", "SCHEMA_DENIED">>,
                           Refuse(d, {"not approved"}, "APPROVAL_REQUIRED"),
                           <<EvaluateToolPermitBinding(c, d) # "BOUND", "PERMIT_DENIED">>,
                           Refuse(d, {"sandbox"}, "SANDBOX_DENIED"),
                           Refuse(d, {"audit down"}, "AUDIT_UNAVAILABLE") >>
<1>1. FirstRefusal(checks, "ALLOW_INVOKE") = "ALLOW_INVOKE" BY DEF EvaluateToolInvocation
<1>2. Len(checks) = 8 OBVIOUS
<1>3. \A i \in 1..8 : checks[i][2] # "ALLOW_INVOKE"
    <2>1. /\ checks[1][2] # "ALLOW_INVOKE" /\ checks[2][2] # "ALLOW_INVOKE" /\ checks[3][2] # "ALLOW_INVOKE"
           /\ checks[4][2] # "ALLOW_INVOKE" /\ checks[5][2] # "ALLOW_INVOKE" /\ checks[6][2] # "ALLOW_INVOKE"
           /\ checks[7][2] # "ALLOW_INVOKE" /\ checks[8][2] # "ALLOW_INVOKE"
        BY DEF Refuse
    <2> HIDE DEF checks
    <2> QED BY <2>1
<1>4. ~checks[2][1]
    <2> HIDE DEF checks
    <2>1. \A i \in 1..8 : ~checks[i][1] BY <1>1, <1>2, <1>3, NoRefusal
    <2> QED BY <2>1
<1> QED BY <1>4 DEF EvaluateKillSwitch

\* evaluateSecretAccess: granted access had an active lease.
LEMMA GrantedHasLease ==
    ASSUME NEW c, NEW d, EvaluateSecretAccess(c, d) = "ACCESS_GRANTED"
    PROVE  EvaluateSecretLease = "ACTIVE"
<1> DEFINE checks == << Refuse(d, {"plaintext"}, "PLAINTEXT_SUPPLIED"),
                           <<EvaluateSecretGrant(d) # "GRANTED", "GRANT_DENIED">>,
                           <<EvaluateAgentLimits(d) # "ALLOWED", "AGENT_LIMIT_DENIED">>,
                           Refuse(d, {"capability"}, "CAPABILITY_MISSING"),
                           <<EvaluateHumanApproval(d) # "APPROVED", "APPROVAL_DENIED">>,
                           <<EvaluateSecretLease # "ACTIVE", "LEASE_DENIED">>,
                           <<EvaluateSecretPermit(c, d) # "BOUND", "PERMIT_DENIED">>,
                           Refuse(d, {"sandbox"}, "SANDBOX_NOT_READY"),
                           <<~ledgerUp, "AUDIT_UNAVAILABLE">> >>
<1>1. FirstRefusal(checks, "ACCESS_GRANTED") = "ACCESS_GRANTED" BY DEF EvaluateSecretAccess
<1>2. Len(checks) = 9 OBVIOUS
<1>3. \A i \in 1..9 : checks[i][2] # "ACCESS_GRANTED"
    <2>1. /\ checks[1][2] # "ACCESS_GRANTED" /\ checks[2][2] # "ACCESS_GRANTED" /\ checks[3][2] # "ACCESS_GRANTED"
           /\ checks[4][2] # "ACCESS_GRANTED" /\ checks[5][2] # "ACCESS_GRANTED" /\ checks[6][2] # "ACCESS_GRANTED"
           /\ checks[7][2] # "ACCESS_GRANTED" /\ checks[8][2] # "ACCESS_GRANTED" /\ checks[9][2] # "ACCESS_GRANTED"
        BY DEF Refuse
    <2> HIDE DEF checks
    <2> QED BY <2>1
<1>4. ~checks[6][1]
    <2> HIDE DEF checks
    <2>1. \A i \in 1..9 : ~checks[i][1] BY <1>1, <1>2, <1>3, NoRefusal
    <2> QED BY <2>1
<1> QED BY <1>4

\* evaluateSecretLease: what an active lease is.
LEMMA LeaseAlive ==
    ASSUME EvaluateSecretLease = "ACTIVE"
    PROVE  ~lease.revoked /\ ~(LeaseLife <= now) /\ lease.version = rotation /\ ~lease.used
<1> DEFINE checks == << <<lease.revoked, "REVOKED">>,
                           <<LeaseLife <= now, "EXPIRED">>,
                           <<lease.version # rotation, "ROTATED">>,
                           <<lease.used, "EXHAUSTED">> >>
<1>1. FirstRefusal(checks, "ACTIVE") = "ACTIVE" BY DEF EvaluateSecretLease
<1>2. Len(checks) = 4 OBVIOUS
<1>3. \A i \in 1..4 : checks[i][2] # "ACTIVE"
    <2>1. /\ checks[1][2] # "ACTIVE" /\ checks[2][2] # "ACTIVE" /\ checks[3][2] # "ACTIVE"
           /\ checks[4][2] # "ACTIVE"
        BY DEF Refuse
    <2> HIDE DEF checks
    <2> QED BY <2>1
<1>4. ~checks[1][1] /\ ~checks[2][1] /\ ~checks[3][1] /\ ~checks[4][1]
    <2> HIDE DEF checks
    <2>1. \A i \in 1..4 : ~checks[i][1] BY <1>1, <1>2, <1>3, NoRefusal
    <2> QED BY <2>1
<1> QED BY <1>4

\* The calls that went past the consumption of their permit.
Ran(c) == toolPhase[c] \in {"running", "ended", "released", "blocked"}

\* What the host keeps beside the types of ToolAccessTypeOK.
ToolStateOK ==
    /\ now \in Nat
    /\ lease \in [revoked : BOOLEAN, used : BOOLEAN, version : {1}]
    /\ asked \in [Calls -> Nat] /\ ledger \in Seq(Calls)
    /\ output \in [Calls -> {"none", "clean", "pattern", "value"}]

\* Who ran has spent its nonce, and is the only one to have run on it.
NonceSpentByOne ==
    /\ \A c \in Calls : Ran(c) => ToolNonce[c] \in spentTool
    /\ \A c, e \in Calls : (Ran(c) /\ Ran(e) /\ ToolNonce[c] = ToolNonce[e]) => c = e

\* One call holds a ticket on a secret nonce; it is used up by the one request that is
\* awaited or was answered with the secret.
TicketsByNonce ==
    /\ \A c \in Calls : ticket[c] \in {"issued", "consumed"} => SecretNonce[c] \in spentSecret
    /\ \A c, e \in Calls : (/\ ticket[c] \in {"issued", "consumed"} /\ ticket[e] \in {"issued", "consumed"}
                            /\ SecretNonce[c] = SecretNonce[e]) => c = e
    /\ \A c \in Calls : /\ asked[c] + deliveries[c] <= 1
                        /\ asked[c] + deliveries[c] > 0 => ticket[c] = "consumed"

TicketsRecorded ==
    \A c \in Calls : ticket[c] \in {"offered", "issued", "consumed"} => \E i \in DOMAIN ledger : ledger[i] = c

ToolInv ==
    /\ ToolAccessTypeOK /\ ToolStateOK
    /\ NonceSpentByOne
    /\ TicketsByNonce
    /\ TicketsRecorded

\* The counters are naturals.
LEMMA CountsTyped ==
    ASSUME ToolAccessTypeOK, ToolStateOK
    PROVE  \A c \in Calls : deliveries[c] \in Nat /\ asked[c] \in Nat
<1>1. deliveries \in [Calls -> 0..3] BY DEF ToolAccessTypeOK
<1>2. asked \in [Calls -> Nat] BY DEF ToolStateOK
<1> QED BY <1>1, <1>2

\* The invariant is strong enough.
LEMMA ToolInvImplies == ToolInv => ToolAccessSafe
<1> SUFFICES ASSUME ToolInv PROVE ToolAccessSafe OBVIOUS
<1> USE DEF ToolInv
<1>1. RunsOncePerPermit
    <2> SUFFICES ASSUME NEW n
                 PROVE  Cardinality({c \in Calls : ToolNonce[c] = n /\ Ran(c)}) <= 1
        BY DEF RunsOncePerPermit, Ran
    <2> QED BY AtMostOneMember DEF NonceSpentByOne
<1>2. DeliveredOnce
    <2>1. \A c \in Calls : deliveries[c] \in Nat /\ asked[c] \in Nat BY CountsTyped
    <2>2. \A c \in Calls : deliveries[c] <= 1 BY <2>1 DEF TicketsByNonce
    <2>3. \A c \in Calls : deliveries[c] > 0 => ticket[c] = "consumed" BY <2>1 DEF TicketsByNonce
    <2> QED BY <2>2, <2>3 DEF DeliveredOnce, TicketsByNonce
<1>3. DeliveryRecorded
    <2>1. \A c \in Calls : deliveries[c] \in Nat /\ asked[c] \in Nat BY CountsTyped
    <2>2. \A c \in Calls : deliveries[c] > 0 => ticket[c] = "consumed" BY <2>1 DEF TicketsByNonce
    <2> QED BY <2>2 DEF TicketsRecorded, DeliveryRecorded
<1> QED BY <1>1, <1>2, <1>3 DEF ToolAccessSafe

\* It holds at the start.
LEMMA ToolInitInv == now = 0 /\ ToolAccessInit => ToolInv
<1> SUFFICES ASSUME now = 0, ToolAccessInit PROVE ToolInv OBVIOUS
<1> USE DEF ToolAccessInit
<1>1. ToolAccessTypeOK /\ ToolStateOK BY DEF ToolAccessTypeOK, ToolStateOK
<1>2. NonceSpentByOne BY DEF NonceSpentByOne, Ran
<1>3. TicketsByNonce BY DEF TicketsByNonce
<1>4. TicketsRecorded BY DEF TicketsRecorded
<1> QED BY <1>1, <1>2, <1>3, <1>4 DEF ToolInv

\* Steps of the host and its clock leave the calls alone.
LEMMA WorldKeepsInv ==
    ASSUME ToolInv, MarkLeaseUsed \/ ToolWorldChanges \/ ToolTick \/ UNCHANGED toolVars
    PROVE  ToolInv'
<1> USE DEF ToolInv
<1>1. /\ UNCHANGED <<toolPhase, spentTool, spentSecret, ticket, asked, deliveries, ledger, output>>
      /\ now' \in Nat
    BY DEF MarkLeaseUsed, hostVars, ToolWorldChanges, ToolTick, toolVars, toolState, secretVars, Tick, ToolStateOK
<1>2. lease' \in [revoked : BOOLEAN, used : BOOLEAN, version : {1}]
    BY DEF MarkLeaseUsed, ToolWorldChanges, ToolTick, toolVars, toolState, secretVars, ToolStateOK
<1>3. ToolAccessTypeOK' /\ ToolStateOK' BY <1>1, <1>2 DEF ToolAccessTypeOK, ToolStateOK
<1>4. NonceSpentByOne' BY <1>1 DEF NonceSpentByOne, Ran
<1>5. TicketsByNonce' BY <1>1 DEF TicketsByNonce
<1>6. TicketsRecorded' BY <1>1 DEF TicketsRecorded
<1> QED BY <1>3, <1>4, <1>5, <1>6

\* Steps that leave tickets, requests and deliveries alone.
LEMMA SecretsUntouched ==
    ASSUME TicketsByNonce, TicketsRecorded, UNCHANGED secretVars
    PROVE  TicketsByNonce' /\ TicketsRecorded'
BY DEF TicketsByNonce, TicketsRecorded, secretVars

\* The firewall decides a call; no nonce is spent by that.
LEMMA DecideKeepsInv ==
    ASSUME ToolInv, NEW c \in Calls, NEW d, DecideCall(c, d)
    PROVE  ToolInv'
<1> USE DEF ToolInv
<1>1. /\ toolPhase[c] = "requested" /\ UNCHANGED <<hostVars, spentTool, secretVars, output>>
      /\ toolPhase' \in {[toolPhase EXCEPT ![c] = "allowed"], [toolPhase EXCEPT ![c] = "denied"]}
    BY DEF DecideCall
<1>2. ToolAccessTypeOK' /\ ToolStateOK'
    BY <1>1 DEF ToolAccessTypeOK, ToolStateOK, hostVars, secretVars
<1>3. NonceSpentByOne' BY <1>1 DEF NonceSpentByOne, Ran, ToolAccessTypeOK
<1> QED BY <1>1, <1>2, <1>3, SecretsUntouched

\* The first call to spend a tool nonce runs, the others are denied.
LEMMA ConsumeToolKeepsInv ==
    ASSUME ToolInv, NEW c \in Calls, ConsumeToolPermit(c)
    PROVE  ToolInv'
<1> USE DEF ToolInv
<1>1. /\ toolPhase[c] = "allowed" /\ UNCHANGED <<hostVars, secretVars, output>>
      /\ toolPhase' = [toolPhase EXCEPT ![c] = IF ToolNonce[c] \in spentTool THEN "denied" ELSE "running"]
      /\ spentTool' = spentTool \cup {ToolNonce[c]}
    BY DEF ConsumeToolPermit
<1>2. ToolAccessTypeOK' /\ ToolStateOK'
    BY <1>1 DEF ToolAccessTypeOK, ToolStateOK, hostVars, secretVars
<1>3. NonceSpentByOne' BY <1>1 DEF NonceSpentByOne, Ran, ToolAccessTypeOK
<1> QED BY <1>1, <1>2, <1>3, SecretsUntouched

\* A granted request is recorded before its ticket is offered.
LEMMA RequestKeepsInv ==
    ASSUME ToolInv, NEW c \in Calls, NEW d, RequestSecret(c, d)
    PROVE  ToolInv'
<1> USE DEF ToolInv
<1> DEFINE leased == EvaluateSecretAccess(c, d) = "ACCESS_GRANTED"
<1>1. /\ ticket[c] = "none" /\ ticket' = [ticket EXCEPT ![c] = IF leased THEN "offered" ELSE "refused"]
      /\ ledger' = IF leased THEN Append(ledger, c) ELSE ledger
      /\ UNCHANGED <<hostVars, toolPhase, spentTool, spentSecret, lease, rotation, asked, deliveries, ledgerUp, output>>
    BY DEF RequestSecret
<1> HIDE DEF leased
<1>2. ToolAccessTypeOK' /\ ToolStateOK' BY <1>1 DEF ToolAccessTypeOK, ToolStateOK, hostVars
<1>3. NonceSpentByOne' BY <1>1 DEF NonceSpentByOne, Ran
<1>4. TicketsByNonce' BY <1>1 DEF TicketsByNonce, ToolAccessTypeOK
<1>5. TicketsRecorded'
    <2>1. \A e \in Calls : (\E i \in DOMAIN ledger : ledger[i] = e) => \E i \in DOMAIN ledger' : ledger'[i] = e
        <3>1. DOMAIN ledger \subseteq DOMAIN ledger' /\ \A i \in DOMAIN ledger : ledger'[i] = ledger[i]
            BY <1>1 DEF ToolStateOK
        <3> QED BY <3>1
    <2>2. leased => \E i \in DOMAIN ledger' : ledger'[i] = c
        <3>1. ASSUME leased PROVE Len(ledger) + 1 \in DOMAIN ledger' /\ ledger'[Len(ledger) + 1] = c
            BY <1>1, <3>1 DEF ToolStateOK
        <3> QED BY <3>1
    <2> QED BY <1>1, <2>1, <2>2 DEF TicketsRecorded, ToolAccessTypeOK
<1> QED BY <1>2, <1>3, <1>4, <1>5

\* The first ticket to spend a secret nonce is issued, the others are refused.
LEMMA ConsumeSecretKeepsInv ==
    ASSUME ToolInv, NEW c \in Calls, ConsumeSecretPermit(c)
    PROVE  ToolInv'
<1> USE DEF ToolInv
<1> DEFINE taken == SecretNonce[c] \in spentSecret
<1>1. /\ ticket[c] = "offered" /\ ticket' = [ticket EXCEPT ![c] = IF taken THEN "refused" ELSE "issued"]
      /\ spentSecret' = spentSecret \cup {SecretNonce[c]}
      /\ UNCHANGED <<hostVars, toolPhase, spentTool, lease, rotation, asked, deliveries, ledgerUp, ledger, output>>
    BY DEF ConsumeSecretPermit
<1>2. ToolAccessTypeOK' /\ ToolStateOK' BY <1>1 DEF ToolAccessTypeOK, ToolStateOK, hostVars
<1>3. NonceSpentByOne' BY <1>1 DEF NonceSpentByOne, Ran
<1>4. TicketsByNonce' BY <1>1 DEF TicketsByNonce, ToolAccessTypeOK
<1>5. TicketsRecorded' BY <1>1 DEF TicketsRecorded, ToolAccessTypeOK
<1> QED BY <1>2, <1>3, <1>4, <1>5

\* A delivery consumes the ticket before it asks the provider.
LEMMA DeliverKeepsInv ==
    ASSUME ToolInv, NEW c \in Calls, DeliverIntoSandbox(c)
    PROVE  ToolInv'
<1> USE DEF ToolInv
<1>1. /\ ticket[c] \in {"issued", "consumed"}
      /\ UNCHANGED <<hostVars, toolPhase, spentTool, spentSecret, lease, rotation, deliveries, ledgerUp, ledger, output>>
      /\ \/ UNCHANGED <<ticket, asked>>
         \/ ticket[c] = "issued" /\ ticket' = [ticket EXCEPT ![c] = "consumed"] /\ asked' = [asked EXCEPT ![c] = @ + 1]
    BY DEF DeliverIntoSandbox
<1>2. ToolAccessTypeOK' /\ ToolStateOK'
    <2>1. asked \in [Calls -> Nat] /\ ticket \in [Calls -> {"none", "offered", "issued", "consumed", "refused"}]
        BY DEF ToolAccessTypeOK, ToolStateOK
    <2>2. asked' \in [Calls -> Nat] BY <1>1, <2>1
    <2>3. ticket' \in [Calls -> {"none", "offered", "issued", "consumed", "refused"}] BY <1>1, <2>1
    <2> QED BY <1>1, <2>2, <2>3 DEF ToolAccessTypeOK, ToolStateOK, hostVars
<1>3. NonceSpentByOne' BY <1>1 DEF NonceSpentByOne, Ran
<1>4. TicketsByNonce'
    <2>1. \A e \in Calls : deliveries[e] \in Nat /\ asked[e] \in Nat BY CountsTyped
    <2>2. CASE UNCHANGED <<ticket, asked>> BY <1>1, <2>2 DEF TicketsByNonce
    <2>3. CASE ~UNCHANGED <<ticket, asked>>
        <3>1. /\ ticket[c] = "issued" /\ ticket'[c] = "consumed" /\ \A e \in Calls \ {c} : ticket'[e] = ticket[e]
              /\ asked'[c] = asked[c] + 1 /\ \A e \in Calls \ {c} : asked'[e] = asked[e]
            BY <1>1, <2>3 DEF ToolAccessTypeOK, ToolStateOK
        <3>2. asked[c] = 0 /\ deliveries[c] = 0 BY <2>1, <3>1 DEF TicketsByNonce
        <3> QED BY <1>1, <2>1, <3>1, <3>2 DEF TicketsByNonce
    <2> QED BY <2>2, <2>3
<1>5. TicketsRecorded' BY <1>1 DEF TicketsRecorded, ToolAccessTypeOK
<1> QED BY <1>2, <1>3, <1>4, <1>5

\* The provider answers, or fails.
LEMMA MaterializeKeepsInv ==
    ASSUME ToolInv, NEW c \in Calls, NEW answer, Materialize(c, answer)
    PROVE  ToolInv'
<1> USE DEF ToolInv
<1>1. /\ asked[c] > 0 /\ asked' = [asked EXCEPT ![c] = @ - 1]
      /\ \/ UNCHANGED deliveries \/ deliveries' = [deliveries EXCEPT ![c] = @ + 1]
      /\ UNCHANGED <<hostVars, toolPhase, spentTool, spentSecret, lease, rotation, ticket, ledgerUp, ledger, output>>
    BY DEF Materialize, ToolAccessTypeOK
<1>2. asked[c] = 1 /\ deliveries[c] = 0 BY <1>1, CountsTyped DEF TicketsByNonce
<1>3. ToolAccessTypeOK' /\ ToolStateOK' BY <1>1, <1>2 DEF ToolAccessTypeOK, ToolStateOK, hostVars
<1>4. NonceSpentByOne' BY <1>1 DEF NonceSpentByOne, Ran
<1>5. TicketsByNonce' BY <1>1, <1>2 DEF TicketsByNonce, ToolAccessTypeOK, ToolStateOK
<1>6. TicketsRecorded' BY <1>1 DEF TicketsRecorded
<1> QED BY <1>3, <1>4, <1>5, <1>6

\* A call ends, and its output is scanned before it is released.
LEMMA EndAndReleaseKeepInv ==
    ASSUME ToolInv, NEW c \in Calls,
           \/ \E preview, known \in BOOLEAN : ReleaseOutput(c, preview, known)
           \/ \E h \in {"clean", "pattern", "value"} : ToolEnds(c, h)
    PROVE  ToolInv'
<1> USE DEF ToolInv
<1>1. UNCHANGED <<hostVars, spentTool, secretVars>> BY DEF ReleaseOutput, ToolEnds
<1>2. CASE \E h \in {"clean", "pattern", "value"} : ToolEnds(c, h)
    <2>1. PICK h \in {"clean", "pattern", "value"} : ToolEnds(c, h) BY <1>2
    <2>2. /\ toolPhase[c] = "running" /\ toolPhase' = [toolPhase EXCEPT ![c] = "ended"]
          /\ output' = [output EXCEPT ![c] = h] /\ (h # "clean" => deliveries[c] > 0)
        BY <2>1 DEF ToolEnds
    <2>3. ToolAccessTypeOK' /\ ToolStateOK' BY <1>1, <2>2 DEF ToolAccessTypeOK, ToolStateOK, hostVars, secretVars
    <2>4. NonceSpentByOne' BY <1>1, <2>2 DEF NonceSpentByOne, Ran, ToolAccessTypeOK
    <2> QED BY <1>1, <2>3, <2>4, SecretsUntouched
<1>3. CASE \E preview, known \in BOOLEAN : ReleaseOutput(c, preview, known)
    <2>1. /\ toolPhase[c] = "ended" /\ output' = output
          /\ toolPhase' \in {[toolPhase EXCEPT ![c] = "blocked"], [toolPhase EXCEPT ![c] = "released"]}
        BY <1>3 DEF ReleaseOutput
    <2>3. ToolAccessTypeOK' /\ ToolStateOK' BY <1>1, <2>1 DEF ToolAccessTypeOK, ToolStateOK, hostVars, secretVars
    <2>4. NonceSpentByOne' BY <1>1, <2>1 DEF NonceSpentByOne, Ran, ToolAccessTypeOK
    <2> QED BY <1>1, <2>3, <2>4, SecretsUntouched
<1> QED BY <1>2, <1>3

\* Every step of the packages keeps the invariant.
LEMMA ToolStepKeepsInv == ToolInv /\ [ToolSteps]_toolVars => ToolInv'
<1> SUFFICES ASSUME ToolInv, [ToolSteps]_toolVars PROVE ToolInv' OBVIOUS
<1>1. ASSUME NEW c \in Calls,
             \/ \E d \in AtMostOne(ToolFaults) : DecideCall(c, d)
             \/ \E d \in AtMostOne(SecretFaults) : RequestSecret(c, d)
             \/ ConsumeToolPermit(c) \/ ConsumeSecretPermit(c) \/ DeliverIntoSandbox(c)
             \/ \E a \in {"value", "null", "throws"} : Materialize(c, a)
             \/ \E h \in {"clean", "pattern", "value"} : ToolEnds(c, h)
             \/ \E preview, known \in BOOLEAN : ReleaseOutput(c, preview, known)
      PROVE  ToolInv'
    BY <1>1, DecideKeepsInv, RequestKeepsInv, ConsumeToolKeepsInv, ConsumeSecretKeepsInv, DeliverKeepsInv,
       MaterializeKeepsInv, EndAndReleaseKeepInv
<1> QED BY <1>1, WorldKeepsInv DEF ToolSteps

\* Tool firewall and secret access: calls that carry one tool permit run once, and calls
\* that carry one secret permit put the secret into a sandbox once and only with a record
\* in the ledger, for every set of calls and every way they share nonces (the two permit
\* stores, access.ts and sandbox-delivery.ts).  It does not speak of the lease.
THEOREM ToolAccessSafety == ToolSpec => []ToolAccessSafe
<1>1. ToolSpec => []ToolInv BY ToolInitInv, ToolStepKeepsInv, PTL DEF ToolSpec
<1> QED BY <1>1, ToolInvImplies, PTL

\* From the moment a tool is killed no call joins those that may run (evaluateKillSwitch);
\* those that were allowed before go on.
THEOREM KilledToolsStop == ToolSpec => [][KillStops]_toolVars
<1>1. ToolInv /\ [ToolSteps]_toolVars => [KillStops]_toolVars
    <2> SUFFICES ASSUME ToolInv, ToolSteps, killed, NEW c \in Calls, toolPhase'[c] \in {"allowed", "running"}
                 PROVE  toolPhase[c] \in {"allowed", "running"}
        BY DEF KillStops, MayRun
    <2> USE DEF ToolInv, ToolAccessTypeOK
    <2>1. CASE \E e \in Calls, d \in AtMostOne(ToolFaults) : DecideCall(e, d)
        <3>1. PICK e \in Calls, d \in AtMostOne(ToolFaults) : DecideCall(e, d) BY <2>1
        <3>2. EvaluateToolInvocation(e, d) # "ALLOW_INVOKE" BY AllowedIsAlive
        <3>3. toolPhase' = [toolPhase EXCEPT ![e] = "denied"] BY <3>1, <3>2 DEF DecideCall
        <3> QED BY <3>3
    <2>2. CASE UNCHANGED toolPhase BY <2>2
    <2>3. CASE \E e \in Calls : ConsumeToolPermit(e) BY <2>3 DEF ConsumeToolPermit
    <2>4. CASE \E e \in Calls : \/ \E preview, known \in BOOLEAN : ReleaseOutput(e, preview, known)
                                \/ \E h \in {"clean", "pattern", "value"} : ToolEnds(e, h)
        <3>1. PICK e \in Calls : toolPhase' \in {[toolPhase EXCEPT ![e] = p] : p \in {"blocked", "released", "ended"}}
            BY <2>4 DEF ReleaseOutput, ToolEnds
        <3> QED BY <3>1
    <2> QED BY <2>1, <2>2, <2>3, <2>4 DEF ToolSteps, RequestSecret, ConsumeSecretPermit, DeliverIntoSandbox, Materialize,
               MarkLeaseUsed, ToolWorldChanges, ToolTick
<1>2. ToolSpec => []ToolInv BY ToolInitInv, ToolStepKeepsInv, PTL DEF ToolSpec
<1> QED BY <1>1, <1>2, PTL DEF ToolSpec

\* A lease that was revoked, rotated, has expired or is noted as used when the access is
\* decided yields no ticket (evaluateSecretLease).
THEOREM DeadLeaseNoTicket == ToolSpec => [][NoTicketFromDeadLease]_toolVars
<1>1. ToolInv /\ [ToolSteps]_toolVars => [NoTicketFromDeadLease]_toolVars
    <2> SUFFICES ASSUME ToolInv, ToolSteps, NEW c \in Calls, ticket'[c] = "offered", ticket[c] = "none"
                 PROVE  ~lease.revoked /\ ~lease.used /\ lease.version = rotation /\ LeaseLife > now
        BY DEF NoTicketFromDeadLease
    <2> USE DEF ToolInv, ToolAccessTypeOK
    <2>1. CASE \E e \in Calls, d \in AtMostOne(SecretFaults) : RequestSecret(e, d)
        <3>1. PICK e \in Calls, d \in AtMostOne(SecretFaults) : RequestSecret(e, d) BY <2>1
        <3>2. EvaluateSecretAccess(e, d) = "ACCESS_GRANTED" BY <3>1 DEF RequestSecret
        <3>3. LeaseLife \in Nat /\ now \in Nat BY ToolAccessAssumption DEF ToolStateOK
        <3> QED BY <3>2, <3>3, GrantedHasLease, LeaseAlive
    <2>2. CASE UNCHANGED ticket BY <2>2
    <2>3. CASE \E e \in Calls : ConsumeSecretPermit(e) \/ DeliverIntoSandbox(e)
        BY <2>3 DEF ConsumeSecretPermit, DeliverIntoSandbox
    <2> QED BY <2>1, <2>2, <2>3 DEF ToolSteps, DecideCall, ConsumeToolPermit, Materialize, ToolEnds, ReleaseOutput,
               MarkLeaseUsed, ToolWorldChanges, ToolTick, secretVars
<1>2. ToolSpec => []ToolInv BY ToolInitInv, ToolStepKeepsInv, PTL DEF ToolSpec
<1> QED BY <1>1, <1>2, PTL DEF ToolSpec

-----------------------------------------------------------------------------
(* Runtime isolation *)

\* evaluateSandboxProvider: what an ALLOWED capability was checked for.
LEMMA SandboxGate ==
    ASSUME NEW v, NEW env, NEW rules, NEW c, NEW d, EvaluateSandboxProvider(v, env, rules, c, d)
    PROVE  /\ v.env = env /\ (env = "production" => v.type = "productionDistributed")
           /\ v.attestation.result = "TRUSTED" /\ c \in v.capabilities
<1> DEFINE checks == << <<v.env # env, "environment mismatch">>,
                       <<env = "production" /\ v.type # "productionDistributed", "distributed required">>,
                       <<v.attestation.result # "TRUSTED", "not trusted">>,
                       <<c \notin v.capabilities \cap v.attestation.capabilities, "no capability">>,
                       <<EvaluateSandboxCapability(rules, c, d) # "ALLOWED", "policy">> >>
<1>1. FirstRefusal(checks, "ALLOWED") = "ALLOWED" BY DEF EvaluateSandboxProvider
<1>2. Len(checks) = 5 OBVIOUS
<1>3. \A i \in 1..5 : checks[i][2] # "ALLOWED"
  <2>1. /\ checks[1][2] # "ALLOWED" /\ checks[2][2] # "ALLOWED" /\ checks[3][2] # "ALLOWED"
        /\ checks[4][2] # "ALLOWED" /\ checks[5][2] # "ALLOWED" OBVIOUS
  <2> HIDE DEF checks
  <2> QED BY <2>1
<1>4. \A i \in 1..5 : ~checks[i][1]
  <2> HIDE DEF checks
  <2> QED BY <1>1, <1>2, <1>3, NoRefusal
<1>5. ~checks[1][1] /\ ~checks[2][1] /\ ~checks[3][1] /\ ~checks[4][1]
  <2> HIDE DEF checks
  <2> QED BY <1>4
<1> QED BY <1>5

\* Whose permit a gate call or a run holds, and the claim on its id.
PermitOf(r) == permits[r.permit]

\* A permit wraps a base permit nothing else wraps, for a decided identity.
PermitsSound ==
    /\ \A p \in DOMAIN permits : permits[p].base \in wrapped /\ permits[p].identity \in decisions
    /\ \A p, q \in DOMAIN permits : permits[p].base = permits[q].base => p = q

\* A permit is in one place: unused, in one gate call, in one run, or burnt.
OnePlace ==
    /\ gateCalls \subseteq [permit : consumed, mode : {"test", "production"}, store : {Distributed},
                            phase : {"sent", "won", "lost"}]
    /\ runs \subseteq [permit : consumed, mode : {"test", "production"}, store : Stores]
    /\ \A c \in gateCalls : c.permit \notin burnt /\ \A r \in runs : r.permit # c.permit
    /\ \A r \in runs : r.permit \notin burnt
    /\ \A c1, c2 \in gateCalls : c1.permit = c2.permit => c1 = c2
    /\ \A r1, r2 \in runs : r1.permit = r2.permit => r1 = r2

\* Whoever won or ran holds the claim of its permit id, and is alone in it.
ClaimsHeld ==
    /\ \A r \in runs : /\ r.mode = "production" => r.store = Distributed
                       /\ claims[r.store][PermitOf(r).id] = PermitOf(r).identity
    /\ \A c \in gateCalls : c.phase = "won" =>
          /\ claims[Distributed][PermitOf(c).id] = PermitOf(c).identity
          /\ \A r \in runs : r.store = Distributed => PermitOf(r).id # PermitOf(c).id
          /\ \A c2 \in gateCalls : (c2.phase = "won" /\ PermitOf(c2).id = PermitOf(c).id) => c2 = c
    /\ \A r1, r2 \in runs : (r1.store = r2.store /\ PermitOf(r1).id = PermitOf(r2).id) => r1 = r2

BucketsOwned == \A i \in Identities : buckets[i] \in {i, NoIdentity}

ProvidersAttested ==
    \A v \in providers : v.attestation \in attested
                         /\ SandboxProviderAttestationMatches(v.attestation, v.id, v.type, v.env, v.capabilities)

IsolationInv ==
    /\ IsolationTypeOK
    /\ PermitsSound
    /\ OnePlace
    /\ ClaimsHeld
    /\ BucketsOwned /\ StateIsolated
    /\ ProvidersAttested /\ SandboxAttested

\* The invariant is strong enough.
LEMMA IsolationInvImplies == IsolationInv => IsolationSafe
<1> SUFFICES ASSUME IsolationInv PROVE IsolationSafe OBVIOUS
<1> USE DEF IsolationInv
<1>1. BasePermitRunsOnce
    BY DEF IsolationTypeOK, PermitsSound, OnePlace, ClaimsHeld, PermitOf, BasePermitRunsOnce
<1>2. RunHoldsItsClaim
    BY DEF IsolationTypeOK, PermitsSound, OnePlace, ClaimsHeld, PermitOf, RunHoldsItsClaim
<1> QED BY <1>1, <1>2 DEF IsolationSafe

\* It holds at the start.
LEMMA IsolationInitInv == now = 0 /\ IsolationInit => IsolationInv
<1> SUFFICES ASSUME IsolationInit PROVE IsolationInv OBVIOUS
<1> USE DEF IsolationInit
<1>1. IsolationTypeOK BY IsolationAssumption DEF IsolationTypeOK, Stores
<1>2. PermitsSound BY DEF PermitsSound
<1>3. OnePlace BY DEF OnePlace
<1>4. ClaimsHeld BY DEF ClaimsHeld
<1>5. BucketsOwned /\ StateIsolated BY DEF BucketsOwned, StateIsolated
<1>6. ProvidersAttested /\ SandboxAttested BY DEF ProvidersAttested, SandboxAttested
<1> QED BY <1>1, <1>2, <1>3, <1>4, <1>5, <1>6 DEF IsolationInv

\* Steps that leave the permits, the gate and the replay stores alone.
LEMMA GateUntouched ==
    ASSUME IsolationTypeOK, PermitsSound, OnePlace, ClaimsHeld, UNCHANGED gateVars
    PROVE  PermitsSound' /\ OnePlace' /\ ClaimsHeld'
<1> USE DEF gateVars
<1>1. PermitsSound' BY DEF PermitsSound
<1>2. OnePlace' BY DEF OnePlace, Stores
<1>3. ClaimsHeld' BY DEF ClaimsHeld, PermitOf
<1> QED BY <1>1, <1>2, <1>3

\* What the store's parts of the invariant read.
LEMMA StoreUntouched ==
    ASSUME BucketsOwned, StateIsolated, UNCHANGED storeVars
    PROVE  BucketsOwned' /\ StateIsolated'
BY DEF storeVars, BucketsOwned, StateIsolated

\* What the sandbox's parts of the invariant read.
LEMMA SandboxUntouched ==
    ASSUME ProvidersAttested, SandboxAttested, UNCHANGED sandboxVars
    PROVE  ProvidersAttested' /\ SandboxAttested'
BY DEF sandboxVars, ProvidersAttested, SandboxAttested, SandboxProviderAttestationMatches

\* The boundary decision adds an identity the permits may be made for.
LEMMA BoundaryKeepsInv ==
    ASSUME IsolationInv, NEW i \in Identities, NEW d, EvaluateIsolationBoundary(i, d)
    PROVE  IsolationInv'
<1> USE DEF IsolationInv, EvaluateIsolationBoundary
<1>1. IsolationTypeOK' BY DEF IsolationTypeOK, storeVars, sandboxVars, Stores
<1>2. PermitsSound' BY DEF PermitsSound
<1>3. OnePlace' BY DEF OnePlace, Stores
<1>4. ClaimsHeld' BY DEF ClaimsHeld, PermitOf
<1> QED BY <1>1, <1>2, <1>3, <1>4, StoreUntouched, SandboxUntouched

\* A new permit wraps a base permit nothing wrapped before.
LEMMA CreatePermitKeepsInv ==
    ASSUME IsolationInv, NEW b \in BasePermits, NEW id \in PermitIds, NEW i \in Identities, NEW j \in Identities,
           CreateRuntimeExecutionPermit(b, id, i, j)
    PROVE  IsolationInv'
<1> USE DEF IsolationInv, CreateRuntimeExecutionPermit
<1> DEFINE n == Len(permits) + 1
           new == [base |-> b, id |-> id, identity |-> i]
<1>0. /\ DOMAIN permits = 1..Len(permits) /\ Len(permits) \in Nat
      /\ DOMAIN permits' = DOMAIN permits \cup {n} /\ n \notin DOMAIN permits
      /\ permits'[n] = new
      /\ \A p \in DOMAIN permits : permits'[p] = permits[p]
    BY DEF IsolationTypeOK
<1>1. IsolationTypeOK' BY <1>0 DEF IsolationTypeOK, storeVars, sandboxVars, Stores
<1>2. PermitsSound' BY <1>0 DEF PermitsSound
<1>3. OnePlace' BY DEF OnePlace, Stores
<1>4. \A r \in gateCalls \cup runs : permits'[r.permit] = PermitOf(r)
    BY <1>0 DEF IsolationTypeOK, OnePlace, PermitOf
<1>5. ClaimsHeld'
    <2>1. ClaimsHeld /\ UNCHANGED <<claims, gateCalls, runs>> OBVIOUS
    <2> HIDE DEF IsolationInv, CreateRuntimeExecutionPermit
    <2>2. \A r \in gateCalls \cup runs : permits'[r.permit] = permits[r.permit] BY <1>4 DEF PermitOf
    <2> QED BY <2>1, <2>2 DEF ClaimsHeld, PermitOf
<1> QED BY <1>1, <1>2, <1>3, <1>5, StoreUntouched, SandboxUntouched

\* The fields of a permit that was issued.
LEMMA PermitTyped ==
    ASSUME IsolationTypeOK, NEW p \in DOMAIN permits
    PROVE  permits[p].id \in PermitIds /\ permits[p].identity \in Identities /\ permits[p].identity # NoIdentity
<1>1. permits[p] \in [base : BasePermits, id : PermitIds, identity : Identities]
    <2>1. permits \in Seq([base : BasePermits, id : PermitIds, identity : Identities]) BY DEF IsolationTypeOK
    <2>2. p \in 1..Len(permits) BY <2>1
    <2> HIDE DEF IsolationTypeOK
    <2> QED BY <2>1, <2>2, ElementOfSeq
<1> QED BY <1>1, IsolationAssumption

\* A claim leaves every claim that is held as it is, and holds its id if it won.
LEMMA ClaimedFacts ==
    ASSUME IsolationTypeOK, NEW s \in Stores, NEW p \in DOMAIN permits
    PROVE  /\ Claimed(s, p) \in [Stores -> [PermitIds -> Identities \cup {NoIdentity}]]
           /\ \A t \in Stores, id \in PermitIds :
                 claims[t][id] # NoIdentity => Claimed(s, p)[t][id] = claims[t][id]
           /\ ClaimAllowed(s, p) => Claimed(s, p)[s][permits[p].id] = permits[p].identity
<1> permits[p].id \in PermitIds /\ permits[p].identity \in Identities BY PermitTyped
<1> QED BY DEF IsolationTypeOK, Claimed, ClaimAllowed

\* Whose claim is held is not free for anyone else.
LEMMA HeldIsTaken ==
    ASSUME IsolationInv, NEW s \in Stores, NEW p \in DOMAIN permits, ClaimAllowed(s, p)
    PROVE  /\ \A r \in runs : r.store = s => PermitOf(r).id # permits[p].id
           /\ s = Distributed => \A c \in gateCalls : c.phase = "won" => PermitOf(c).id # permits[p].id
<1> USE DEF IsolationInv
<1>1. \A q \in DOMAIN permits : permits[q].identity # NoIdentity BY PermitTyped
<1>2. \A r \in runs \cup gateCalls : r.permit \in DOMAIN permits BY DEF IsolationTypeOK, OnePlace
<1> QED BY <1>1, <1>2 DEF ClaimsHeld, ClaimAllowed, PermitOf

\* A gate call consumes its permit before it asks the claim store.
LEMMA GateBeginsKeepsInv ==
    ASSUME IsolationInv, NEW p \in DOMAIN permits, NEW presented \in Identities,
           NEW mode \in {"test", "production"}, NEW s \in Stores, GateBegins(p, presented, mode, s)
    PROVE  IsolationInv'
<1> USE DEF IsolationInv
<1> DEFINE call == [permit |-> p, mode |-> mode, store |-> s, phase |-> "sent"]
           run == [permit |-> p, mode |-> mode, store |-> s]
<1>1. /\ p \notin consumed /\ consumed' = consumed \cup {p}
      /\ UNCHANGED <<now, decisions, permits, wrapped, storeVars, sandboxVars>>
      /\ mode = "production" => s = Distributed
    BY DEF GateBegins, GatePasses, ProviderStores
<1>2. \A c \in gateCalls \cup runs : c.permit # p BY <1>1 DEF OnePlace
<1>3. p \notin burnt BY <1>1 DEF IsolationTypeOK
<1>4. PermitsSound' BY <1>1 DEF PermitsSound
<1>5. CASE s = Distributed
    <2>1. gateCalls' = gateCalls \cup {call} /\ UNCHANGED <<claims, runs, burnt>>
        BY <1>5 DEF GateBegins
    <2>2. IsolationTypeOK' BY <1>1, <2>1 DEF IsolationTypeOK, storeVars, sandboxVars
    <2>3. OnePlace' BY <1>1, <1>2, <1>3, <1>5, <2>1 DEF OnePlace, Stores
    <2>4. ClaimsHeld' BY <1>1, <2>1 DEF ClaimsHeld, PermitOf
    <2> QED BY <1>1, <1>4, <2>2, <2>3, <2>4, StoreUntouched, SandboxUntouched
<1>6. CASE s # Distributed
    <2>1. claims' = Claimed(s, p) /\ Settle(call, ClaimAllowed(s, p)) BY <1>6 DEF GateBegins
    <2>2. gateCalls' = gateCalls BY <1>2, <2>1 DEF Settle
    <2>3. claims' \in [Stores -> [PermitIds -> Identities \cup {NoIdentity}]] BY <2>1, ClaimedFacts
    <2>4. IsolationTypeOK' BY <1>1, <2>1, <2>3 DEF IsolationTypeOK, storeVars, sandboxVars, Settle
    <2>5. CASE ClaimAllowed(s, p)
        <3>1. runs' = runs \cup {run} /\ burnt' = burnt BY <2>1, <2>5 DEF Settle
        <3>2. OnePlace' BY <1>1, <1>2, <1>3, <2>2, <3>1 DEF OnePlace, Stores
        <3>3. ClaimsHeld'
            <4>1. claims'[s][permits[p].id] = permits[p].identity BY <2>1, <2>5, ClaimedFacts
            <4>2. \A r \in runs : r.store = s => PermitOf(r).id # permits[p].id BY <2>5, HeldIsTaken
            <4>3. \A c \in runs \cup gateCalls : /\ c.store \in Stores /\ PermitOf(c).id \in PermitIds /\ PermitOf(c).identity # NoIdentity
                <5>1. \A c \in runs \cup gateCalls : c.store \in Stores /\ c.permit \in DOMAIN permits
                    BY DEF IsolationTypeOK, OnePlace, Stores
                <5> QED BY <5>1, PermitTyped DEF PermitOf
            <4>4. \A t \in Stores, id \in PermitIds : claims[t][id] # NoIdentity => claims'[t][id] = claims[t][id]
                BY <2>1, ClaimedFacts
            <4> QED BY <1>1, <1>6, <2>2, <3>1, <4>1, <4>2, <4>3, <4>4 DEF ClaimsHeld, PermitOf, Stores
        <3> QED BY <1>1, <1>4, <2>4, <3>2, <3>3, StoreUntouched, SandboxUntouched
    <2>6. CASE ~ClaimAllowed(s, p)
        <3>1. runs' = runs /\ burnt' = burnt \cup {p} /\ claims' = claims BY <2>1, <2>6 DEF Settle, Claimed
        <3>2. OnePlace' BY <1>1, <1>2, <2>2, <3>1 DEF OnePlace, Stores
        <3>3. ClaimsHeld' BY <1>1, <2>2, <3>1 DEF ClaimsHeld, PermitOf
        <3> QED BY <1>1, <1>4, <2>4, <3>2, <3>3, StoreUntouched, SandboxUntouched
    <2> QED BY <2>5, <2>6
<1> QED BY <1>5, <1>6

\* The claim store answers the first asker of an id with a win.
LEMMA ClaimLandsKeepsInv ==
    ASSUME IsolationInv, NEW call \in gateCalls, ClaimLands(call)
    PROVE  IsolationInv'
<1> USE DEF IsolationInv
<1> DEFINE p == call.permit
           won == ClaimAllowed(Distributed, p)
           landed == [call EXCEPT !.phase = IF won THEN "won" ELSE "lost"]
<1>1. /\ p \in DOMAIN permits /\ p \in consumed /\ Distributed \in Stores
      /\ call \in [permit : consumed, mode : {"test", "production"}, store : {Distributed},
                   phase : {"sent", "won", "lost"}]
    BY DEF OnePlace, IsolationTypeOK, Stores
<1>2. /\ claims' = Claimed(Distributed, p) /\ gateCalls' = (gateCalls \ {call}) \cup {landed}
      /\ UNCHANGED <<now, decisions, permits, wrapped, consumed, runs, burnt, storeVars, sandboxVars>>
    BY DEF ClaimLands
<1>3. landed \in [permit : consumed, mode : {"test", "production"}, store : {Distributed},
                  phase : {"won", "lost"}] /\ landed.permit = p /\ (landed.phase = "won" <=> won)
    BY <1>1
<1>4. IsolationTypeOK'
    <2>1. claims' \in [Stores -> [PermitIds -> Identities \cup {NoIdentity}]] BY <1>1, <1>2, ClaimedFacts
    <2> QED BY <1>2, <2>1 DEF IsolationTypeOK, storeVars, sandboxVars
<1>5. PermitsSound' BY <1>2 DEF PermitsSound
<1>6. OnePlace'
    <2> HIDE DEF landed
    <2> QED BY <1>1, <1>2, <1>3 DEF OnePlace, Stores
<1>7. ClaimsHeld'
    <2>1. won => claims'[Distributed][permits[p].id] = permits[p].identity BY <1>1, <1>2, ClaimedFacts
    <2>2. won => /\ \A r \in runs : r.store = Distributed => PermitOf(r).id # permits[p].id
                 /\ \A c \in gateCalls : c.phase = "won" => PermitOf(c).id # permits[p].id
        BY <1>1, HeldIsTaken
    <2>3. \A c \in runs \cup gateCalls : c.store \in Stores /\ c.permit \in DOMAIN permits
        BY <1>1 DEF IsolationTypeOK, OnePlace
    <2>4. \A c \in runs \cup gateCalls : PermitOf(c).id \in PermitIds /\ PermitOf(c).identity # NoIdentity
        BY <2>3, PermitTyped DEF PermitOf
    <2>5. \A t \in Stores, id \in PermitIds : claims[t][id] # NoIdentity => claims'[t][id] = claims[t][id]
        BY <1>1, <1>2, ClaimedFacts
    <2>6. /\ \A r \in runs : /\ r.mode = "production" => r.store = Distributed
                             /\ claims'[r.store][PermitOf(r).id] = PermitOf(r).identity
          /\ \A c \in gateCalls : c.phase = "won" => claims'[Distributed][PermitOf(c).id] = PermitOf(c).identity
        BY <1>1, <2>3, <2>4, <2>5 DEF ClaimsHeld
    <2> HIDE DEF landed, won
    <2> QED BY <1>2, <1>3, <2>1, <2>2, <2>6 DEF ClaimsHeld, PermitOf, p
<1> QED BY <1>2, <1>4, <1>5, <1>6, <1>7, StoreUntouched, SandboxUntouched

\* The answer, or its loss, turns a gate call into a run or burns the permit.
LEMMA GateAnswersKeepsInv ==
    ASSUME IsolationInv, NEW call \in gateCalls, NEW delivered \in BOOLEAN, GateAnswers(call, delivered)
    PROVE  IsolationInv'
<1> USE DEF IsolationInv
<1> DEFINE run == [permit |-> call.permit, mode |-> call.mode, store |-> call.store]
           ok == delivered /\ call.phase = "won"
<1>1. /\ gateCalls' = gateCalls \ {call}
      /\ runs' = IF ok THEN runs \cup {run} ELSE runs
      /\ burnt' = IF ok THEN burnt ELSE burnt \cup {call.permit}
      /\ UNCHANGED <<now, decisions, permits, wrapped, consumed, claims, storeVars, sandboxVars>>
    BY DEF GateAnswers, Settle
<1>2. call.permit \in consumed /\ call.store = Distributed /\ call.mode \in {"test", "production"}
    BY DEF OnePlace
<1>3. IsolationTypeOK' BY <1>1, <1>2 DEF IsolationTypeOK, storeVars, sandboxVars
<1>4. PermitsSound' BY <1>1 DEF PermitsSound
<1>5. CASE ok
    <2>1. OnePlace' BY <1>1, <1>2, <1>5 DEF OnePlace, Stores
    <2>2. ClaimsHeld' BY <1>1, <1>2, <1>5 DEF ClaimsHeld, PermitOf
    <2> QED BY <1>1, <1>3, <1>4, <2>1, <2>2, StoreUntouched, SandboxUntouched
<1>6. CASE ~ok
    <2>1. OnePlace' BY <1>1, <1>2, <1>6 DEF OnePlace, Stores
    <2>2. ClaimsHeld' BY <1>1, <1>6 DEF ClaimsHeld, PermitOf
    <2> QED BY <1>1, <1>3, <1>4, <2>1, <2>2, StoreUntouched, SandboxUntouched
<1> QED BY <1>5, <1>6

\* What the type invariant reads.
LEMMA IsolationTypeUntouched ==
    ASSUME IsolationTypeOK, UNCHANGED <<gateVars, storeVars, attested>>
    PROVE  IsolationTypeOK'
BY DEF IsolationTypeOK, gateVars, storeVars, Stores

\* Steps on buckets, attestations and providers.
LEMMA SandboxStepsKeepInv == ASSUME IsolationInv, SandboxSteps PROVE IsolationInv'
<1> USE DEF IsolationInv
<1>1. CASE \E i \in Identities : WriteState(i) \/ \E j \in Identities : ReadState(i, j)
    <2>1. PICK i \in Identities : WriteState(i) \/ \E j \in Identities : ReadState(i, j) BY <1>1
    <2>2. UNCHANGED <<gateVars, sandboxVars>> BY <2>1 DEF WriteState, ReadState
    <2>3. BucketsOwned' /\ StateIsolated'
        BY <2>1 DEF WriteState, ReadState, BucketsOwned, StateIsolated, IsolationTypeOK
    <2>4. IsolationTypeOK'
        BY <2>1, <2>2 DEF IsolationTypeOK, gateVars, sandboxVars, Stores, WriteState, ReadState
    <2> QED BY <2>2, <2>3, <2>4, GateUntouched, SandboxUntouched
<1>2. CASE \E a \in Attestations : CreateSandboxProviderAttestation(a)
    <2>1. PICK a \in Attestations : CreateSandboxProviderAttestation(a) BY <1>2
    <2> USE <2>1 DEF CreateSandboxProviderAttestation
    <2>2. IsolationTypeOK' BY DEF IsolationTypeOK, gateVars, storeVars, Stores
    <2>3. ProvidersAttested' BY DEF ProvidersAttested, SandboxProviderAttestationMatches
    <2>4. SandboxAttested' BY DEF SandboxAttested
    <2> QED BY <2>2, <2>3, <2>4, GateUntouched, StoreUntouched
<1>3. CASE \E a \in attested : \E id \in SandboxIds, type \in ProviderTypes, env \in {"test", "production"},
              caps \in SUBSET Capabilities : CreateSandboxProvider(a, id, type, env, caps)
    <2>1. PICK a \in attested, id \in SandboxIds, type \in ProviderTypes, env \in {"test", "production"},
              caps \in SUBSET Capabilities : CreateSandboxProvider(a, id, type, env, caps) BY <1>3
    <2> USE <2>1 DEF CreateSandboxProvider
    <2>2. IsolationTypeOK' BY IsolationTypeUntouched
    <2>3. ProvidersAttested' BY DEF ProvidersAttested, SandboxProviderAttestationMatches
    <2>4. SandboxAttested' BY DEF SandboxAttested
    <2> QED BY <2>2, <2>3, <2>4, GateUntouched, StoreUntouched
<1>4. CASE \E v \in providers, env \in {"test", "production"}, rules \in SUBSET Capabilities, c \in Capabilities,
              d \in AtMostOne({"no policy", "identity", "quota"}) : EvaluateSandboxProvider(v, env, rules, c, d)
    <2>1. PICK v \in providers, env \in {"test", "production"}, rules \in SUBSET Capabilities, c \in Capabilities,
              d \in AtMostOne({"no policy", "identity", "quota"}) : EvaluateSandboxProvider(v, env, rules, c, d)
        BY <1>4
    <2>2. /\ sandboxed' = sandboxed \cup {[provider |-> v.id, capability |-> c, env |-> env]}
          /\ UNCHANGED <<now, gateVars, storeVars, attested, providers>>
        BY <2>1 DEF EvaluateSandboxProvider
    <2>3. IsolationTypeOK' BY <2>2, IsolationTypeUntouched
    <2>4. ProvidersAttested' BY <2>2 DEF ProvidersAttested, SandboxProviderAttestationMatches
    <2>5. /\ v.env = env /\ (env = "production" => v.type = "productionDistributed")
          /\ v.attestation.result = "TRUSTED" /\ c \in v.capabilities
        BY <2>1, SandboxGate
    <2>6. SandboxAttested'
        <3> DEFINE a == v.attestation
        <3>1. a \in attested /\ SandboxProviderAttestationMatches(a, v.id, v.type, v.env, v.capabilities)
            BY DEF ProvidersAttested
        <3>2. /\ a.result = "TRUSTED" /\ a.provider = v.id /\ a.env = env /\ c \in a.capabilities
              /\ env = "production" => a.type = "productionDistributed"
            BY <2>5, <3>1 DEF SandboxProviderAttestationMatches
        <3> HIDE DEF a
        <3> SUFFICES ASSUME NEW g \in sandboxed'
                     PROVE  \E x \in attested :
                                /\ x.result = "TRUSTED" /\ x.provider = g.provider /\ x.env = g.env
                                /\ g.capability \in x.capabilities
                                /\ g.env = "production" => x.type = "productionDistributed"
            BY <2>2 DEF SandboxAttested
        <3>3. CASE g \in sandboxed BY <3>3 DEF SandboxAttested
        <3>4. CASE g = [provider |-> v.id, capability |-> c, env |-> env] BY <3>1, <3>2, <3>4
        <3> QED BY <2>2, <3>3, <3>4
    <2> QED BY <2>2, <2>3, <2>4, <2>6, GateUntouched, StoreUntouched
<1> QED BY <1>1, <1>2, <1>3, <1>4 DEF SandboxSteps

\* Every step of the package keeps the invariant.
LEMMA IsolationStepKeepsInv == IsolationInv /\ [IsolationSteps]_isolationVars => IsolationInv'
<1> SUFFICES ASSUME IsolationInv, [IsolationSteps]_isolationVars PROVE IsolationInv' OBVIOUS
<1>1. ASSUME UNCHANGED isolationState PROVE IsolationInv'
    <2> USE DEF IsolationInv
    <2>1. UNCHANGED <<gateVars, storeVars, sandboxVars>> BY <1>1 DEF isolationState
    <2>2. IsolationTypeOK' BY <2>1, IsolationTypeUntouched DEF sandboxVars
    <2> QED BY <2>1, <2>2, GateUntouched, StoreUntouched, SandboxUntouched
<1>2. ASSUME PermitSteps PROVE IsolationInv'
    <2>1. CASE IsolationTick BY <1>1, <2>1 DEF IsolationTick, isolationState
    <2> QED BY <1>2, <2>1, BoundaryKeepsInv, CreatePermitKeepsInv, GateBeginsKeepsInv, ClaimLandsKeepsInv,
               GateAnswersKeepsInv DEF PermitSteps
<1> QED BY <1>1, <1>2, SandboxStepsKeepInv DEF IsolationSteps, isolationVars

\* Runtime isolation: an execution permit runs at most once and no two runs of one store
\* carry one permit id, a production run holds the shared claim of its id with an identity
\* that was decided, state is read by the identity that wrote it, and sandbox capabilities
\* are attested, for every number of hosts, identities, permits and outstanding claims
\* (evaluateRuntimeExecutionGate, the state store and the sandbox registry).
THEOREM IsolationSafety == IsolationSpec => []IsolationSafe
<1>1. IsolationSpec => []IsolationInv
    BY IsolationInitInv, IsolationStepKeepsInv, PTL DEF IsolationSpec
<1> QED BY <1>1, IsolationInvImplies, PTL

\* A permit whose claim was refused, lost or garbled never runs afterwards
\* (evaluateRuntimeExecutionGate consumes the object before it awaits the claim).
THEOREM BurntForGood == IsolationSpec => [][BurntNeverRuns]_isolationVars
<1>1. IsolationInv /\ IsolationInv' /\ [IsolationSteps]_isolationVars => [BurntNeverRuns]_isolationVars
    <2> SUFFICES ASSUME IsolationInv, IsolationInv', IsolationSteps PROVE BurntNeverRuns
        OBVIOUS
    <2>1. burnt \subseteq burnt'
        <3>1. CASE PermitSteps
            <4>1. \A c, a : Settle(c, a) => burnt \subseteq burnt' BY DEF Settle
            <4>2. CASE \E p \in DOMAIN permits, i \in Identities, mode \in {"test", "production"}, s \in Stores :
                           GateBegins(p, i, mode, s)
                BY <4>1, <4>2 DEF GateBegins
            <4>3. CASE \E call \in gateCalls : ClaimLands(call) \/ \E delivered \in BOOLEAN : GateAnswers(call, delivered)
                BY <4>1, <4>3 DEF ClaimLands, GateAnswers
            <4> QED BY <3>1, <4>2, <4>3 DEF PermitSteps, EvaluateIsolationBoundary,
                       CreateRuntimeExecutionPermit, IsolationTick, gateVars
        <3>2. CASE SandboxSteps
            BY <3>2 DEF SandboxSteps, WriteState, ReadState, CreateSandboxProviderAttestation,
                        CreateSandboxProvider, EvaluateSandboxProvider, gateVars
        <3> QED BY <3>1, <3>2 DEF IsolationSteps
    <2> QED BY <2>1 DEF BurntNeverRuns, IsolationInv, OnePlace
<1>2. IsolationSpec => []IsolationInv
    BY IsolationInitInv, IsolationStepKeepsInv, PTL DEF IsolationSpec
<1> QED BY <1>1, <1>2, PTL DEF IsolationSpec

-----------------------------------------------------------------------------
(* Memory *)

\* Where the parts of a concatenated key are.
LEMMA SeparatedIds ==
    ASSUME NEW C, NEW z \in C, NEW x \in Seq(C), NEW y \in Seq(C)
    PROVE  /\ Len((x \o <<z>>) \o y) = Len(x) + 1 + Len(y)
           /\ \A i \in 1..Len(x) : ((x \o <<z>>) \o y)[i] = x[i]
           /\ ((x \o <<z>>) \o y)[Len(x) + 1] = z
           /\ \A i \in 1..Len(y) : ((x \o <<z>>) \o y)[Len(x) + 1 + i] = y[i]
<1>1. <<z>> \in Seq(C) /\ Len(<<z>>) = 1 /\ <<z>>[1] = z OBVIOUS
<1>2. Len(x) \in Nat /\ Len(y) \in Nat BY LenProperties
<1> DEFINE m == x \o <<z>>
<1>3. /\ m \in Seq(C) /\ Len(m) = Len(x) + 1
      /\ \A i \in 1..Len(x) + 1 : m[i] = IF i <= Len(x) THEN x[i] ELSE <<z>>[i - Len(x)]
    <2>1. <<z>> \in Seq(C) BY <1>1
    <2>2. /\ m \in Seq(C) /\ Len(m) = Len(x) + Len(<<z>>)
          /\ \A i \in 1..Len(x) + Len(<<z>>) : m[i] = IF i <= Len(x) THEN x[i] ELSE <<z>>[i - Len(x)]
        BY <2>1, ConcatProperties, Zenon
    <2> QED BY <1>1, <2>2, Zenon
<1>4. (\A i \in 1..Len(x) : m[i] = x[i]) /\ m[Len(x) + 1] = z BY <1>1, <1>2, <1>3
<1> HIDE DEF m
<1>5. /\ Len(m \o y) = Len(m) + Len(y)
      /\ \A i \in 1..Len(m) + Len(y) : (m \o y)[i] = IF i <= Len(m) THEN m[i] ELSE y[i - Len(m)]
    <2>1. m \in Seq(C) BY <1>3
    <2> QED BY <2>1, ConcatProperties, Zenon
<1>6. \A i \in 1..Len(y) : (m \o y)[Len(x) + 1 + i] = y[i]
    <2> TAKE i \in 1..Len(y)
    <2> DEFINE j == Len(x) + 1 + i
    <2>1. j \in 1..Len(m) + Len(y) /\ ~(j <= Len(m)) /\ j - Len(m) = i BY <1>2, <1>3
    <2> HIDE DEF j
    <2>2. (m \o y)[j] = y[j - Len(m)] BY <1>5, <2>1
    <2> QED BY <2>1, <2>2 DEF j
<1>7. \A i \in 1..Len(x) + 1 : (m \o y)[i] = m[i] BY <1>2, <1>3, <1>5
<1>8. (\A i \in 1..Len(x) : i \in 1..Len(x) + 1) /\ Len(x) + 1 \in 1..Len(x) + 1 BY <1>2
<1>9. \A i \in 1..Len(x) : (m \o y)[i] = x[i] BY <1>4, <1>7, <1>8
<1>10. (m \o y)[Len(x) + 1] = z BY <1>4, <1>7, <1>8
<1>11. Len(m \o y) = Len(x) + 1 + Len(y) BY <1>3, <1>5
<1> QED BY <1>6, <1>9, <1>10, <1>11 DEF m

\* Where no tenant id holds the separator, two callers whose joined ids read the same
\* are one caller.
LEMMA PartitionKeysApart ==
    ASSUME SeparatorFree, NEW s \in Scopes, NEW t \in Scopes, PartitionKey(s) = PartitionKey(t)
    PROVE  s = t
<1> DEFINE a == s.tenant
           b == t.tenant
           u == s.workspace
           w == t.workspace
<1>1. /\ s \in [tenant : Seq(STRING), workspace : Seq(STRING)]
      /\ t \in [tenant : Seq(STRING), workspace : Seq(STRING)]
      /\ \A i \in 1..Len(a) : a[i] # "us"
      /\ \A i \in 1..Len(b) : b[i] # "us"
    BY MemoryAssumption DEF SeparatorFree
<1> DEFINE C == STRING \cup {"us"}
<1>2. a \in Seq(C) /\ b \in Seq(C) /\ u \in Seq(C) /\ w \in Seq(C) /\ "us" \in C
    <2>1. a \in Seq(STRING) /\ b \in Seq(STRING) /\ u \in Seq(STRING) /\ w \in Seq(STRING) BY <1>1
    <2>2. STRING \subseteq C /\ "us" \in C OBVIOUS
    <2> HIDE DEF a, b, u, w, C
    <2> QED BY <2>1, <2>2, SeqMonotonic
<1>3. (a \o <<"us">>) \o u = (b \o <<"us">>) \o w BY DEF PartitionKey
<1>4. a = b /\ u = w
    <2> HIDE DEF a, b, u, w, C
    <2>1. /\ Len(a) \in Nat /\ Len(b) \in Nat /\ Len(u) \in Nat /\ Len(w) \in Nat
        BY <1>2, LenProperties
    <2> DEFINE k == (a \o <<"us">>) \o u
    <2>3. /\ Len(k) = Len(a) + 1 + Len(u) /\ k[Len(a) + 1] = "us"
          /\ \A i \in 1..Len(a) : k[i] = a[i]
          /\ \A i \in 1..Len(u) : k[Len(a) + 1 + i] = u[i]
        BY <1>2, SeparatedIds
    <2>4. /\ Len(k) = Len(b) + 1 + Len(w) /\ k[Len(b) + 1] = "us"
          /\ \A i \in 1..Len(b) : k[i] = b[i]
          /\ \A i \in 1..Len(w) : k[Len(b) + 1 + i] = w[i]
        <3>1. k = (b \o <<"us">>) \o w BY <1>3
        <3>2. /\ Len((b \o <<"us">>) \o w) = Len(b) + 1 + Len(w) /\ ((b \o <<"us">>) \o w)[Len(b) + 1] = "us"
              /\ \A i \in 1..Len(b) : ((b \o <<"us">>) \o w)[i] = b[i]
              /\ \A i \in 1..Len(w) : ((b \o <<"us">>) \o w)[Len(b) + 1 + i] = w[i]
            BY <1>2, SeparatedIds
        <3> HIDE DEF k
        <3> QED BY <3>1, <3>2
    <2> HIDE DEF k
    <2>5. ~(Len(a) < Len(b))
        <3> SUFFICES ASSUME Len(a) < Len(b) PROVE FALSE OBVIOUS
        <3>1. Len(a) + 1 \in 1..Len(b) BY <2>1
        <3> QED BY <1>1, <2>3, <2>4, <3>1 DEF b
    <2>6. ~(Len(b) < Len(a))
        <3> SUFFICES ASSUME Len(b) < Len(a) PROVE FALSE OBVIOUS
        <3>1. Len(b) + 1 \in 1..Len(a) BY <2>1
        <3> QED BY <1>1, <2>3, <2>4, <3>1 DEF a
    <2>7. Len(a) = Len(b) /\ Len(u) = Len(w) BY <2>1, <2>3, <2>4, <2>5, <2>6
    <2>8. \A i \in 1..Len(a) : a[i] = b[i] BY <2>3, <2>4, <2>7
    <2>9. \A i \in 1..Len(u) : u[i] = w[i] BY <2>3, <2>4, <2>7
    <2> QED BY <1>2, <2>7, <2>8, <2>9, SeqEqual
<1> QED BY <1>1, <1>4

\* A chain is a sequence, of whatever it holds.
IsChain(c) == c \in Seq({c[i] : i \in DOMAIN c})

\* What one more link changes.
LEMMA OneMoreLink ==
    ASSUME NEW c, NEW e, IsChain(c)
    PROVE  /\ IsChain(Append(c, e)) /\ Len(c) \in Nat /\ DOMAIN c = 1..Len(c)
           /\ DOMAIN Append(c, e) = 1..(Len(c) + 1) /\ Len(Append(c, e)) = Len(c) + 1
           /\ \A i \in 1..Len(c) : Append(c, e)[i] = c[i]
           /\ Append(c, e)[Len(c) + 1] = e
<1> DEFINE R == {c[i] : i \in DOMAIN c}
           S == R \cup {e}
           d == Append(c, e)
<1>1. c \in Seq(R) /\ R \subseteq S BY DEF IsChain
<1>2. c \in Seq(S) /\ e \in S
    <2>1. e \in S OBVIOUS
    <2> HIDE DEF R, S
    <2> QED BY <1>1, <2>1, SeqMonotonic
<1>3. Len(c) \in Nat /\ DOMAIN c = 1..Len(c)
    <2> HIDE DEF S
    <2> QED BY <1>2, LenProperties
<1>4. /\ d \in Seq(S) /\ Len(d) = Len(c) + 1 /\ d[Len(c) + 1] = e
      /\ \A i \in 1..Len(c) : d[i] = c[i]
    <2> HIDE DEF S
    <2> QED BY <1>2, AppendProperties
<1>5. d \in [1..Len(d) -> S] /\ DOMAIN d = 1..Len(d)
    <2> HIDE DEF S, d
    <2> QED BY <1>4, LenProperties
<1>6. d \in Seq({d[i] : i \in DOMAIN d})
    <2> HIDE DEF S, d
    <2>1. d \in [1..Len(d) -> {d[i] : i \in DOMAIN d}] BY <1>5
    <2>2. Len(d) \in Nat BY <1>3, <1>4
    <2> QED BY <2>1, <2>2, SeqDef
<1> QED BY <1>3, <1>4, <1>5, <1>6 DEF IsChain

\* A verified chain stays verified when a record is appended to it.
LEMMA AppendVerified ==
    ASSUME NEW c, NEW body, IsChain(c), VerifyMemChain(c)
    PROVE  IsChain(ChainAppend(c, body)) /\ VerifyMemChain(ChainAppend(c, body))
<1> DEFINE h == LinkHash(LastHash(c), Len(c) + 1, body)
           e == [seq |-> Len(c) + 1, previous |-> LastHash(c), body |-> body, hash |-> h]
           d == Append(c, e)
<1>1. /\ IsChain(d) /\ Len(c) \in Nat /\ DOMAIN c = 1..Len(c) /\ DOMAIN d = 1..(Len(c) + 1)
      /\ \A i \in 1..Len(c) : d[i] = c[i]
      /\ d[Len(c) + 1] = e
    <2> HIDE DEF e
    <2> QED BY OneMoreLink
<1>2. e.seq = Len(c) + 1 /\ e.previous = LastHash(c) /\ e.body = body /\ e.hash = h OBVIOUS
<1> HIDE DEF e, d, h
<1>3. LastHash(c) = IF Len(c) + 1 = 1 THEN Genesis ELSE d[Len(c)].hash
    <2>1. CASE Len(c) = 0
        <3>1. c = <<>> BY <1>1, <2>1, EmptySeq DEF IsChain
        <3> QED BY <2>1, <3>1 DEF LastHash
    <2>2. CASE Len(c) # 0
        <3>1. c # <<>> BY <2>2
        <3> QED BY <1>1, <2>2, <3>1 DEF LastHash
    <2> QED BY <2>1, <2>2
<1>4. ASSUME NEW i \in 1..(Len(c) + 1)
      PROVE  /\ d[i].previous = (IF i = 1 THEN Genesis ELSE d[i - 1].hash)
             /\ d[i].seq = i
             /\ d[i].hash = LinkHash(IF i = 1 THEN Genesis ELSE d[i - 1].hash, d[i].seq, d[i].body)
    <2>1. CASE i = Len(c) + 1
        <3>1. LastHash(c) = IF i = 1 THEN Genesis ELSE d[i - 1].hash BY <1>1, <1>3, <2>1
        <3>2. d[i] = e /\ i = Len(c) + 1 BY <1>1, <2>1
        <3> QED BY <1>2, <3>1, <3>2 DEF h
    <2>2. CASE i # Len(c) + 1
        <3>1. i \in 1..Len(c) /\ (i # 1 => i - 1 \in 1..Len(c)) BY <1>1, <2>2
        <3>2. /\ c[i].previous = (IF i = 1 THEN Genesis ELSE c[i - 1].hash)
              /\ c[i].seq = i
              /\ c[i].hash = LinkHash(IF i = 1 THEN Genesis ELSE c[i - 1].hash, c[i].seq, c[i].body)
            BY <1>1, <3>1 DEF VerifyMemChain
        <3>3. d[i] = c[i] /\ (i # 1 => d[i - 1] = c[i - 1]) BY <1>1, <3>1
        <3> QED BY <3>2, <3>3
    <2> QED BY <2>1, <2>2
<1>5. VerifyMemChain(d) BY <1>1, <1>4 DEF VerifyMemChain
<1>6. ChainAppend(c, body) = d BY DEF ChainAppend, d, e, h
<1> QED BY <1>1, <1>5, <1>6

\* The changes a chain records.
Changes(c) == {i \in DOMAIN c : c[i].body = "changed"}

\* One more record counts as one more change exactly if it records one.
LEMMA AppendCounted ==
    ASSUME NEW c, NEW body, IsChain(c)
    PROVE  /\ Cardinality(Changes(c)) \in Nat
           /\ Cardinality(Changes(ChainAppend(c, body)))
                 = Cardinality(Changes(c)) + (IF body = "changed" THEN 1 ELSE 0)
<1> DEFINE e == [seq |-> Len(c) + 1, previous |-> LastHash(c), body |-> body,
                 hash |-> LinkHash(LastHash(c), Len(c) + 1, body)]
           d == Append(c, e)
<1>1. /\ Len(c) \in Nat /\ DOMAIN c = 1..Len(c) /\ DOMAIN d = 1..(Len(c) + 1)
      /\ \A i \in 1..Len(c) : d[i] = c[i]
      /\ d[Len(c) + 1] = e
    <2> HIDE DEF e
    <2> QED BY OneMoreLink
<1>2. e.body = body OBVIOUS
<1> HIDE DEF e, d
<1>3. IsFiniteSet(Changes(c)) /\ Len(c) + 1 \notin Changes(c)
    <2>1. IsFiniteSet(1..Len(c)) BY <1>1, FS_Interval
    <2>2. Changes(c) \in SUBSET (1..Len(c)) BY <1>1 DEF Changes
    <2>3. Len(c) + 1 \notin 1..Len(c) BY <1>1
    <2> QED BY <2>1, <2>2, <2>3, FS_Subset
<1>4. Changes(d) = IF body = "changed" THEN Changes(c) \cup {Len(c) + 1} ELSE Changes(c)
    <2>1. 1..(Len(c) + 1) = 1..Len(c) \cup {Len(c) + 1} BY <1>1
    <2> QED BY <1>1, <1>2, <2>1 DEF Changes
<1>5. ChainAppend(c, body) = d BY DEF ChainAppend, d, e
<1> HIDE DEF Changes
<1>6. CASE body = "changed" BY <1>3, <1>4, <1>5, <1>6, FS_AddElement, FS_CardinalityType
<1>7. CASE body # "changed" BY <1>3, <1>4, <1>5, <1>7, FS_CardinalityType
<1> QED BY <1>6, <1>7

\* The shapes of what the store keeps.
VersionRecords == [scope : Scopes, version : Nat, expires : Nat]
KeyEntries == [versions : Seq(VersionRecords), tombstone : BOOLEAN]
Digests == SUBSET (MemKeys \X Nat)
SnapshotRecords == [scope : Scopes, digest : Digests, integrity : Scopes \X Digests]
PartitionKeys == {PartitionKey(s) : s \in Scopes}
ChainKeys == {ChainKey(s) : s \in Scopes}
WorkingKeys == {WorkingKey(s) : s \in Scopes}

\* Versions are numbered records, of the partition's own scope where partitions are
\* kept apart.
RecordsSound ==
    /\ now \in Nat
    /\ partitions \in [PartitionKeys -> [MemKeys -> KeyEntries]]
    /\ \A p \in PartitionKeys, k \in MemKeys : Len(partitions[p][k].versions) <= MaxVersions
    /\ SeparatorFree => MemoryScoped

\* Both chains verify, and the audit chain counts the answered changes.
ChainsSound ==
    /\ DOMAIN memAudit = ChainKeys /\ DOMAIN episodes = ChainKeys /\ DOMAIN answered = ChainKeys
    /\ \A p \in ChainKeys :
          /\ IsChain(memAudit[p]) /\ VerifyMemChain(memAudit[p])
          /\ IsChain(episodes[p]) /\ VerifyMemChain(episodes[p])
          /\ answered[p] = Cardinality(Changes(memAudit[p]))

SlotsSound == \A x \in DOMAIN working : x[1] \in WorkingKeys /\ working[x].scope \in Scopes

\* Every copy, damaged or not, carries the integrity hash of a snapshot that was taken.
SnapshotsSound ==
    /\ held \subseteq SnapshotRecords /\ snapshots \subseteq held
    /\ \A snap \in snapshots : snap.integrity = <<snap.scope, snap.digest>>
    /\ \A copy \in held : \E snap \in snapshots : copy.integrity = snap.integrity
    /\ RestoredAsTaken

MemoryInv ==
    /\ RecordsSound
    /\ ChainsSound
    /\ SlotsSound
    /\ SnapshotsSound
    /\ sinkUp \in BOOLEAN /\ legalHold \in BOOLEAN

\* The sets of keys, written out.
LEMMA KeySets ==
    Keys(PartitionKey) = PartitionKeys /\ Keys(ChainKey) = ChainKeys /\ Keys(WorkingKey) = WorkingKeys
BY DEF Keys, PartitionKeys, ChainKeys, WorkingKeys

\* The invariant is strong enough.
LEMMA MemoryInvImplies ==
    MemoryInv => /\ MemoryTypeOK /\ AnsweredIsAudited /\ RestoredAsTaken
                 /\ SeparatorFree => MemoryScoped
<1> SUFFICES ASSUME MemoryInv
             PROVE  /\ MemoryTypeOK /\ AnsweredIsAudited /\ RestoredAsTaken
                    /\ SeparatorFree => MemoryScoped
    OBVIOUS
<1>1. MemoryTypeOK
    <2>1. DOMAIN partitions = PartitionKeys BY DEF MemoryInv, RecordsSound
    <2>2. DOMAIN memAudit = ChainKeys BY DEF MemoryInv, ChainsSound
    <2> QED BY KeySets, <2>1, <2>2 DEF MemoryTypeOK, MemoryInv, RecordsSound, SlotsSound, SnapshotsSound
<1>2. AnsweredIsAudited BY DEF MemoryInv, ChainsSound, AnsweredIsAudited, Changes
<1> QED BY <1>1, <1>2 DEF MemoryInv, RecordsSound, SnapshotsSound

\* It holds at the start.
LEMMA MemoryInitInv == now = 0 /\ MemoryInit => MemoryInv
<1> SUFFICES ASSUME now = 0, MemoryInit PROVE MemoryInv OBVIOUS
<1>1. RecordsSound
    <2>1. <<>> \in Seq(VersionRecords) /\ Len(<<>>) = 0 /\ DOMAIN <<>> = {} BY EmptySeq
    <2>2. partitions = [p \in PartitionKeys |-> [k \in MemKeys |-> [versions |-> <<>>, tombstone |-> FALSE]]]
        BY KeySets DEF MemoryInit
    <2>3. partitions \in [PartitionKeys -> [MemKeys -> KeyEntries]] BY <2>1, <2>2 DEF KeyEntries
    <2>4. \A s \in Scopes, k \in MemKeys : Entry(s, k).versions = <<>>
        BY <2>2 DEF Entry, PartitionKeys
    <2>5. \A p \in PartitionKeys, k \in MemKeys : Len(partitions[p][k].versions) <= MaxVersions
        BY <2>1, <2>2, MemoryAssumption
    <2> QED BY <2>1, <2>3, <2>4, <2>5 DEF RecordsSound, MemoryScoped
<1>2. ChainsSound
    <2>1. IsChain(<<>>) /\ VerifyMemChain(<<>>) /\ Changes(<<>>) = {}
        <3>1. DOMAIN <<>> = {} BY EmptySeq
        <3> QED BY <3>1, EmptySeq DEF IsChain, VerifyMemChain, Changes
    <2>2. Cardinality({}) = 0 BY FS_EmptySet
    <2>3. /\ episodes = [p \in ChainKeys |-> <<>>] /\ memAudit = [p \in ChainKeys |-> <<>>]
          /\ answered = [p \in ChainKeys |-> 0]
        BY KeySets DEF MemoryInit
    <2> QED BY <2>1, <2>2, <2>3 DEF ChainsSound
<1>3. SlotsSound BY EmptySeq DEF SlotsSound, MemoryInit
<1>4. SnapshotsSound BY DEF SnapshotsSound, RestoredAsTaken, MemoryInit
<1> QED BY <1>1, <1>2, <1>3, <1>4 DEF MemoryInv, MemoryInit

\* What the records' part of the invariant reads.
LEMMA RecordsUntouched ==
    ASSUME RecordsSound, UNCHANGED partitions, now' \in Nat PROVE RecordsSound'
BY DEF RecordsSound, MemoryScoped, Entry, PartitionKeys

\* What the chains' part reads.
LEMMA ChainsUntouched ==
    ASSUME ChainsSound, UNCHANGED <<memAudit, episodes, answered>> PROVE ChainsSound'
BY DEF ChainsSound

\* What the snapshots' part reads.
LEMMA SnapshotsUntouched ==
    ASSUME SnapshotsSound, UNCHANGED snapshotVars PROVE SnapshotsSound'
BY DEF SnapshotsSound, RestoredAsTaken, snapshotVars

\* An audited operation keeps the chains sound and the count right.
LEMMA AuditedKeepsChains ==
    ASSUME ChainsSound, NEW s \in Scopes, NEW outcome, Audited(s, outcome), UNCHANGED episodes,
           \/ outcome = "changed" /\ Answered(s)
           \/ outcome # "changed" /\ UNCHANGED answered
    PROVE  ChainsSound'
<1> DEFINE q == ChainKey(s)
<1>1. q \in ChainKeys BY DEF ChainKeys
<1>2. CASE ~sinkUp BY <1>2, ChainsUntouched DEF Audited, Answered
<1>3. CASE sinkUp
    <2>1. memAudit' = [memAudit EXCEPT ![q] = ChainAppend(memAudit[q], outcome)] BY <1>3 DEF Audited
    <2>2. DOMAIN memAudit = ChainKeys /\ DOMAIN episodes = ChainKeys /\ DOMAIN answered = ChainKeys
        BY DEF ChainsSound
    <2>3. IsChain(memAudit[q]) /\ VerifyMemChain(memAudit[q]) /\ answered[q] = Cardinality(Changes(memAudit[q]))
        BY <1>1 DEF ChainsSound
    <2>4. IsChain(ChainAppend(memAudit[q], outcome)) /\ VerifyMemChain(ChainAppend(memAudit[q], outcome))
        BY <2>3, AppendVerified
    <2>5. /\ Cardinality(Changes(memAudit[q])) \in Nat
          /\ Cardinality(Changes(ChainAppend(memAudit[q], outcome)))
                = Cardinality(Changes(memAudit[q])) + (IF outcome = "changed" THEN 1 ELSE 0)
        BY <2>3, AppendCounted
    <2> HIDE DEF q
    <2>6. DOMAIN memAudit' = ChainKeys /\ memAudit'[q] = ChainAppend(memAudit[q], outcome)
          /\ \A p \in ChainKeys \ {q} : memAudit'[p] = memAudit[p]
        BY <1>1, <2>1, <2>2
    <2>7. /\ DOMAIN answered' = ChainKeys
          /\ \A p \in ChainKeys \ {q} : answered'[p] = answered[p]
          /\ answered'[q] = answered[q] + (IF outcome = "changed" THEN 1 ELSE 0)
        <3>1. CASE outcome = "changed" /\ Answered(s)
            BY <1>1, <1>3, <2>2, <3>1 DEF Answered, q
        <3>2. CASE outcome # "changed" /\ UNCHANGED answered
            BY <2>2, <2>3, <2>5, <3>2
        <3> QED BY <3>1, <3>2
    <2>8. answered'[q] = Cardinality(Changes(memAudit'[q])) BY <2>3, <2>5, <2>6, <2>7
    <2>9. ASSUME NEW p \in ChainKeys
          PROVE  /\ IsChain(memAudit'[p]) /\ VerifyMemChain(memAudit'[p])
                 /\ IsChain(episodes'[p]) /\ VerifyMemChain(episodes'[p])
                 /\ answered'[p] = Cardinality(Changes(memAudit'[p]))
        <3>1. CASE p = q BY <2>4, <2>6, <2>8, <3>1 DEF ChainsSound
        <3>2. CASE p # q BY <2>6, <2>7, <3>2 DEF ChainsSound
        <3> QED BY <3>1, <3>2
    <2> QED BY <2>2, <2>6, <2>7, <2>9 DEF ChainsSound
<1> QED BY <1>2, <1>3

\* A step that puts one entry in place of another, of the same caller's.
LEMMA EntryReplaced ==
    ASSUME RecordsSound, NEW s \in Scopes, NEW k \in MemKeys, NEW e \in KeyEntries,
           partitions' = [partitions EXCEPT ![PartitionKey(s)][k] = e], UNCHANGED now,
           Len(e.versions) <= MaxVersions,
           SeparatorFree => \A i \in DOMAIN e.versions : e.versions[i].scope = s
    PROVE  RecordsSound'
<1> DEFINE q == PartitionKey(s)
<1>1. q \in PartitionKeys BY DEF PartitionKeys
<1>2. partitions \in [PartitionKeys -> [MemKeys -> KeyEntries]] BY DEF RecordsSound
<1>3. /\ partitions' \in [PartitionKeys -> [MemKeys -> KeyEntries]]
      /\ \A p \in PartitionKeys, j \in MemKeys :
            partitions'[p][j] = IF p = q /\ j = k THEN e ELSE partitions[p][j]
    <2> HIDE DEF q
    <2> DEFINE row == [partitions[q] EXCEPT ![k] = e]
    <2>1. partitions' = [partitions EXCEPT ![q] = row] BY DEF q
    <2>2. /\ row \in [MemKeys -> KeyEntries]
          /\ \A j \in MemKeys : row[j] = IF j = k THEN e ELSE partitions[q][j]
        BY <1>1, <1>2
    <2> HIDE DEF row
    <2> QED BY <1>1, <1>2, <2>1, <2>2
<1>4. \A p \in PartitionKeys, j \in MemKeys : Len(partitions'[p][j].versions) <= MaxVersions
    BY <1>3 DEF RecordsSound
<1>5. ASSUME SeparatorFree, NEW t \in Scopes, NEW j \in MemKeys, NEW i \in DOMAIN partitions'[PartitionKey(t)][j].versions
      PROVE  partitions'[PartitionKey(t)][j].versions[i].scope = t
    <2>1. PartitionKey(t) \in PartitionKeys BY DEF PartitionKeys
    <2>2. CASE PartitionKey(t) = q /\ j = k
        <3>1. t = s BY <1>5, <2>2, PartitionKeysApart
        <3>2. partitions'[PartitionKey(t)][j] = e BY <1>3, <2>1, <2>2
        <3> QED BY <1>5, <3>1, <3>2
    <2>3. CASE ~(PartitionKey(t) = q /\ j = k)
        <3>1. partitions'[PartitionKey(t)][j] = partitions[PartitionKey(t)][j] BY <1>3, <2>1, <2>3
        <3> QED BY <1>5, <3>1 DEF RecordsSound, MemoryScoped, Entry
    <2> QED BY <2>2, <2>3
<1> HIDE DEF q
<1> QED BY <1>3, <1>4, <1>5 DEF RecordsSound, MemoryScoped, Entry

\* A denial is recorded.
LEMMA MemDeniedKeepsInv ==
    ASSUME MemoryInv, NEW s \in Scopes, NEW d, MemDenied(s, d) PROVE MemoryInv'
<1>1. Audited(s, "DENIED") /\ UNCHANGED <<now, partitions, working, episodes, sinkUp, answered, legalHold, snapshotVars>>
    BY DEF MemDenied
<1>2. ChainsSound' BY <1>1, AuditedKeepsChains DEF MemoryInv
<1>3. RecordsSound' BY <1>1, RecordsUntouched DEF MemoryInv, RecordsSound
<1>4. SnapshotsSound' BY <1>1, SnapshotsUntouched DEF MemoryInv
<1> QED BY <1>1, <1>2, <1>3, <1>4 DEF MemoryInv, SlotsSound

\* A read is recorded.
LEMMA MemReadKeepsInv ==
    ASSUME MemoryInv, NEW s \in Scopes, NEW ks, MemRead(s, ks) PROVE MemoryInv'
<1>1. PICK outcome \in {"not_found", "read"} : Audited(s, outcome)
    BY DEF MemRead
<1>2. UNCHANGED <<now, partitions, working, episodes, sinkUp, answered, legalHold, snapshotVars>>
    BY DEF MemRead
<1>3. ChainsSound' BY <1>1, <1>2, AuditedKeepsChains DEF MemoryInv
<1>4. RecordsSound' BY <1>2, RecordsUntouched DEF MemoryInv, RecordsSound
<1>5. SnapshotsSound' BY <1>2, SnapshotsUntouched DEF MemoryInv
<1> QED BY <1>2, <1>3, <1>4, <1>5 DEF MemoryInv, SlotsSound

\* The shape of an entry.
LEMMA EntryType ==
    ASSUME RecordsSound, NEW s \in Scopes, NEW k \in MemKeys
    PROVE  /\ PartitionKey(s) \in PartitionKeys
           /\ Entry(s, k) \in KeyEntries /\ Entry(s, k).versions \in Seq(VersionRecords)
           /\ Len(Entry(s, k).versions) \in Nat
           /\ DOMAIN Entry(s, k).versions = 1..Len(Entry(s, k).versions)
           /\ Entry(s, k).versions # <<>> => Latest(Entry(s, k)) \in VersionRecords
<1>1. PartitionKey(s) \in PartitionKeys BY DEF PartitionKeys
<1>2. Entry(s, k) \in KeyEntries BY <1>1 DEF RecordsSound, Entry
<1>3. Entry(s, k).versions \in Seq(VersionRecords) BY <1>2 DEF KeyEntries
<1> DEFINE v == Entry(s, k).versions
<1>4. Len(v) \in Nat /\ DOMAIN v = 1..Len(v) /\ (v # <<>> => v[Len(v)] \in VersionRecords)
    <2> HIDE DEF v
    <2>1. v \in Seq(VersionRecords) BY <1>3 DEF v
    <2>2. Len(v) \in Nat /\ DOMAIN v = 1..Len(v) BY <2>1, LenProperties
    <2>3. v # <<>> => Len(v) \in 1..Len(v) BY <2>1, <2>2, EmptySeq
    <2> QED BY <2>1, <2>2, <2>3, ElementOfSeq
<1> QED BY <1>1, <1>2, <1>3, <1>4 DEF Latest

\* What a write makes of an entry.
Written(s, k, ttl) ==
    [versions |-> Append(Entry(s, k).versions, [scope |-> s, version |-> Len(Entry(s, k).versions) + 1,
                                                expires |-> ExpiryOf(ttl)]),
     tombstone |-> FALSE]

\* A write continues the entry it finds.
LEMMA WrittenSound ==
    ASSUME RecordsSound, NEW s \in Scopes, NEW k \in MemKeys, NEW ttl \in {0, MemTtl},
           Len(Entry(s, k).versions) < MaxVersions, MaxVersions \in Nat
    PROVE  /\ Written(s, k, ttl) \in KeyEntries /\ Len(Written(s, k, ttl).versions) <= MaxVersions
           /\ SeparatorFree => \A i \in DOMAIN Written(s, k, ttl).versions : Written(s, k, ttl).versions[i].scope = s
           /\ \A i \in 1..Len(Entry(s, k).versions) : Written(s, k, ttl).versions[i] = Entry(s, k).versions[i]
           /\ Len(Written(s, k, ttl).versions) = Len(Entry(s, k).versions) + 1
<1> DEFINE v == Entry(s, k).versions
           r == [scope |-> s, version |-> Len(v) + 1, expires |-> ExpiryOf(ttl)]
<1>1. v \in Seq(VersionRecords) /\ Len(v) \in Nat /\ DOMAIN v = 1..Len(v) BY EntryType
<1>2. ExpiryOf(ttl) \in Nat BY MemoryAssumption DEF ExpiryOf, RecordsSound
<1>3. Len(v) + 1 \in Nat BY <1>1
<1>4. r \in VersionRecords /\ r.scope = s BY <1>2, <1>3 DEF VersionRecords
<1>5. SeparatorFree => \A i \in DOMAIN v : v[i].scope = s BY DEF RecordsSound, MemoryScoped
<1>6. Written(s, k, ttl) = [versions |-> Append(v, r), tombstone |-> FALSE] BY DEF Written
<1>7. Len(v) < MaxVersions OBVIOUS
<1> HIDE DEF v, r
<1>8. /\ Append(v, r) \in Seq(VersionRecords) /\ Len(Append(v, r)) = Len(v) + 1
      /\ \A i \in 1..Len(v) : Append(v, r)[i] = v[i]
      /\ Append(v, r)[Len(v) + 1] = r
    BY <1>1, <1>4, AppendProperties
<1>9. DOMAIN Append(v, r) = 1..(Len(v) + 1) BY <1>8, LenProperties
<1>10. SeparatorFree => \A i \in DOMAIN Append(v, r) : Append(v, r)[i].scope = s
    <2> SUFFICES ASSUME SeparatorFree, NEW i \in DOMAIN Append(v, r) PROVE Append(v, r)[i].scope = s OBVIOUS
    <2>1. i \in 1..Len(v) \/ i = Len(v) + 1 BY <1>1, <1>9
    <2> QED BY <1>1, <1>4, <1>5, <1>8, <2>1
<1> QED BY <1>1, <1>6, <1>7, <1>8, <1>10 DEF KeyEntries, v

\* A write.
LEMMA MemWriteKeepsInv ==
    ASSUME MemoryInv, NEW s \in Scopes, NEW k \in MemKeys, NEW ttl \in {0, MemTtl}, MemWrite(s, k, ttl)
    PROVE  MemoryInv'
<1>1. /\ Len(Entry(s, k).versions) < MaxVersions
      /\ Audited(s, "changed") /\ Answered(s)
      /\ UNCHANGED <<now, working, episodes, sinkUp, legalHold, snapshotVars>>
    BY DEF MemWrite
<1>2. partitions' = [partitions EXCEPT ![PartitionKey(s)][k] = Written(s, k, ttl)]
    BY DEF MemWrite, Written, Entry
<1>3. ChainsSound' BY <1>1, AuditedKeepsChains DEF MemoryInv
<1>4. RecordsSound'
    <2>1. RecordsSound BY DEF MemoryInv
    <2>2. /\ Written(s, k, ttl) \in KeyEntries /\ Len(Written(s, k, ttl).versions) <= MaxVersions
          /\ SeparatorFree => \A i \in DOMAIN Written(s, k, ttl).versions : Written(s, k, ttl).versions[i].scope = s
        BY <1>1, <2>1, WrittenSound, MemoryAssumption
    <2> HIDE DEF Written
    <2> QED BY <1>1, <1>2, <2>1, <2>2, EntryReplaced
<1>5. SnapshotsSound' BY <1>1, SnapshotsUntouched DEF MemoryInv
<1> QED BY <1>1, <1>3, <1>4, <1>5 DEF MemoryInv, SlotsSound

\* A delete, authorized or not.
LEMMA MemDeleteKeepsInv ==
    ASSUME MemoryInv, NEW s \in Scopes, NEW k \in MemKeys, NEW human, MemDelete(s, k, human)
    PROVE  MemoryInv'
<1>1. UNCHANGED <<now, working, episodes, sinkUp, legalHold, snapshotVars>> BY DEF MemDelete
<1>2. SnapshotsSound' BY <1>1, SnapshotsUntouched DEF MemoryInv
<1>3. CASE Audited(s, "DENIED") /\ UNCHANGED <<partitions, answered>>
    <2>1. ChainsSound' BY <1>1, <1>3, AuditedKeepsChains DEF MemoryInv
    <2>2. RecordsSound' BY <1>1, <1>3, RecordsUntouched DEF MemoryInv, RecordsSound
    <2> QED BY <1>1, <1>2, <2>1, <2>2 DEF MemoryInv, SlotsSound
<1>4. CASE /\ partitions' = [partitions EXCEPT ![PartitionKey(s)][k].tombstone = TRUE]
           /\ Audited(s, "changed") /\ Answered(s)
    <2>1. ChainsSound' BY <1>1, <1>4, AuditedKeepsChains DEF MemoryInv
    <2> DEFINE e == [Entry(s, k) EXCEPT !.tombstone = TRUE]
    <2>2. partitions' = [partitions EXCEPT ![PartitionKey(s)][k] = e] BY <1>4 DEF Entry
    <2>3. RecordsSound BY DEF MemoryInv
    <2>4. Entry(s, k) \in KeyEntries /\ PartitionKey(s) \in PartitionKeys BY <2>3, EntryType
    <2>5. e \in KeyEntries /\ e.versions = Entry(s, k).versions BY <2>4 DEF KeyEntries
    <2>6. Len(e.versions) <= MaxVersions /\ (SeparatorFree => \A i \in DOMAIN e.versions : e.versions[i].scope = s)
        BY <2>3, <2>4, <2>5 DEF RecordsSound, MemoryScoped, Entry
    <2> HIDE DEF e
    <2>7. RecordsSound' BY <1>1, <2>2, <2>3, <2>5, <2>6, EntryReplaced
    <2> QED BY <1>1, <1>2, <2>1, <2>7 DEF MemoryInv, SlotsSound
<1> QED BY <1>3, <1>4 DEF MemDelete

\* An episode is appended.
LEMMA EpisodeKeepsInv ==
    ASSUME MemoryInv, NEW s \in Scopes, NEW type, EpisodeAppend(s, type) PROVE MemoryInv'
<1> DEFINE q == ChainKey(s)
<1>1. /\ UNCHANGED <<now, partitions, working, memAudit, answered, sinkUp, legalHold, snapshotVars>>
      /\ episodes' = [episodes EXCEPT ![q] = ChainAppend(episodes[q], type)]
    BY DEF EpisodeAppend
<1>2. ChainsSound'
    <2>1. q \in ChainKeys BY DEF ChainKeys
    <2>2. IsChain(ChainAppend(episodes[q], type)) /\ VerifyMemChain(ChainAppend(episodes[q], type))
        BY <2>1, AppendVerified DEF MemoryInv, ChainsSound
    <2> HIDE DEF q
    <2> QED BY <1>1, <2>1, <2>2 DEF MemoryInv, ChainsSound
<1>3. RecordsSound' BY <1>1, RecordsUntouched DEF MemoryInv, RecordsSound
<1>4. SnapshotsSound' BY <1>1, SnapshotsUntouched DEF MemoryInv
<1> QED BY <1>1, <1>2, <1>3, <1>4 DEF MemoryInv, SlotsSound

\* The working memory is read, written and pruned.
LEMMA WorkingKeepsInv ==
    ASSUME MemoryInv, NEW s \in Scopes, NEW k \in MemKeys,
           \/ \E ttl \in {0, MemTtl} : WorkingSet(s, k, ttl)
           \/ WorkingGet(s, k) \/ WorkingDrop(s, {SlotKey(s, k)}) \/ WorkingPrune(s)
    PROVE  MemoryInv'
<1>1. UNCHANGED <<now, partitions, episodes, memAudit, answered, sinkUp, legalHold, snapshotVars>>
    BY DEF WorkingSet, WorkingGet, WorkingDrop, WorkingPrune
<1>2. SlotsSound'
    <2>1. \A K : working' = Without(working, K) => SlotsSound' BY DEF MemoryInv, SlotsSound, Without
    <2>2. ASSUME NEW ttl, WorkingSet(s, k, ttl) PROVE SlotsSound'
        <3>1. SlotKey(s, k)[1] \in WorkingKeys BY DEF SlotKey, WorkingKeys
        <3> QED BY <2>2, <3>1 DEF WorkingSet, MemoryInv, SlotsSound
    <2>3. UNCHANGED working => SlotsSound' BY DEF MemoryInv, SlotsSound
    <2> QED BY <2>1, <2>2, <2>3 DEF WorkingGet, WorkingDrop, WorkingPrune
<1>3. ChainsSound' BY <1>1, ChainsUntouched DEF MemoryInv
<1>4. RecordsSound' BY <1>1, RecordsUntouched DEF MemoryInv, RecordsSound
<1>5. SnapshotsSound' BY <1>1, SnapshotsUntouched DEF MemoryInv
<1> QED BY <1>1, <1>2, <1>3, <1>4, <1>5 DEF MemoryInv

\* evaluateSnapshotRestore: what an authorized restore was checked for.
LEMMA RestoreGate ==
    ASSUME NEW snap, NEW target, NEW human, EvaluateSnapshotRestore(snap, target, human)
    PROVE  VerifySnapshotIntegrity(snap) /\ snap.scope = target
<1> DEFINE checks == << <<~VerifySnapshotIntegrity(snap), "snapshot_integrity_failed">>,
                        <<~human, "restore_requires_human_approval">>,
                        <<snap.scope # target, "cross_tenant_restore">> >>
<1>1. FirstRefusal(checks, "restore_authorized") = "restore_authorized" BY DEF EvaluateSnapshotRestore
<1>2. Len(checks) = 3 OBVIOUS
<1>3. \A i \in 1..3 : checks[i][2] # "restore_authorized"
    <2>1. /\ checks[1][2] # "restore_authorized" /\ checks[2][2] # "restore_authorized"
          /\ checks[3][2] # "restore_authorized" OBVIOUS
    <2> HIDE DEF checks
    <2> QED BY <2>1
<1>4. ~checks[1][1] /\ ~checks[3][1]
    <2> HIDE DEF checks
    <2>1. \A i \in 1..3 : ~checks[i][1] BY <1>1, <1>2, <1>3, NoRefusal
    <2> QED BY <2>1
<1> QED BY <1>4

\* A digest names keys and versions.
LEMMA DigestType == ASSUME RecordsSound, NEW s \in Scopes PROVE ContentDigest(s) \in Digests
<1> SUFFICES ASSUME NEW k \in MemKeys, Readable(Entry(s, k)) PROVE <<k, Latest(Entry(s, k)).version>> \in MemKeys \X Nat
    BY DEF ContentDigest, Digests
<1>1. Latest(Entry(s, k)) \in VersionRecords BY EntryType DEF Readable
<1> QED BY <1>1 DEF VersionRecords

\* Snapshots are taken, damaged and restored.
LEMMA SnapshotsKeepInv ==
    ASSUME MemoryInv,
           \/ \E s \in Scopes : CreateMemorySnapshot(s)
           \/ \E snap \in held, s \in Scopes, human \in BOOLEAN : EvaluateSnapshotRestore(snap, s, human)
           \/ \E snap \in held, s \in Scopes, digest \in {{}} \cup {x.digest : x \in snapshots} :
                  SnapshotDamaged(snap, s, digest)
    PROVE  MemoryInv'
<1>1. UNCHANGED <<now, recordVars>> BY DEF CreateMemorySnapshot, EvaluateSnapshotRestore, SnapshotDamaged
<1>2. UNCHANGED <<partitions, working, episodes, memAudit, sinkUp, answered, legalHold>> BY <1>1 DEF recordVars
<1>3. RecordsSound' BY <1>1, <1>2, RecordsUntouched DEF MemoryInv, RecordsSound
<1>4. ChainsSound' BY <1>2, ChainsUntouched DEF MemoryInv
<1>5. SnapshotsSound'
    <2> USE DEF MemoryInv, SnapshotsSound
    <2>1. ASSUME NEW s \in Scopes, CreateMemorySnapshot(s) PROVE SnapshotsSound'
        <3> DEFINE snap == [scope |-> s, digest |-> ContentDigest(s), integrity |-> Integrity(s, ContentDigest(s))]
        <3>1. snapshots' = snapshots \cup {snap} /\ held' = held \cup {snap} /\ UNCHANGED restores
            BY <2>1 DEF CreateMemorySnapshot
        <3>2. ContentDigest(s) \in Digests BY DigestType
        <3>3. snap \in SnapshotRecords /\ snap.integrity = <<snap.scope, snap.digest>>
            BY <3>2 DEF SnapshotRecords, Integrity
        <3> HIDE DEF snap
        <3>4. RestoredAsTaken' BY <3>1 DEF RestoredAsTaken
        <3> QED BY <3>1, <3>3, <3>4
    <2>2. ASSUME NEW snap \in held, NEW s \in Scopes, NEW human \in BOOLEAN, EvaluateSnapshotRestore(snap, s, human)
          PROVE SnapshotsSound'
        <3>1. VerifySnapshotIntegrity(snap) /\ snap.scope = s BY <2>2, RestoreGate
        <3>2. PICK taken \in snapshots : snap.integrity = taken.integrity OBVIOUS
        <3>3. taken.scope = snap.scope /\ taken.digest = snap.digest
            BY <3>1, <3>2 DEF VerifySnapshotIntegrity, Integrity
        <3> DEFINE r == [into |-> s, scope |-> snap.scope, digest |-> snap.digest]
        <3>4. restores' = restores \cup {r} /\ UNCHANGED <<snapshots, held>> BY <2>2 DEF EvaluateSnapshotRestore
        <3>5. r.into = r.scope /\ r.scope = taken.scope /\ r.digest = taken.digest BY <3>1, <3>3
        <3> HIDE DEF r
        <3>6. RestoredAsTaken' BY <3>2, <3>4, <3>5 DEF RestoredAsTaken
        <3> QED BY <3>4, <3>6
    <2>3. ASSUME NEW snap \in held, NEW s \in Scopes, NEW digest \in {{}} \cup {x.digest : x \in snapshots},
                 SnapshotDamaged(snap, s, digest)
          PROVE SnapshotsSound'
        <3> DEFINE copy == [snap EXCEPT !.scope = s, !.digest = digest]
        <3>1. held' = held \cup {copy} /\ UNCHANGED <<snapshots, restores>> BY <2>3 DEF SnapshotDamaged
        <3>2. snap \in SnapshotRecords /\ digest \in Digests
            <4>1. {} \in Digests BY DEF Digests
            <4>2. \A x \in snapshots : x.digest \in Digests BY DEF SnapshotRecords
            <4> QED BY <4>1, <4>2
        <3>3. copy \in SnapshotRecords /\ copy.integrity = snap.integrity BY <3>2 DEF SnapshotRecords
        <3> HIDE DEF copy
        <3>4. RestoredAsTaken' BY <3>1 DEF RestoredAsTaken
        <3> QED BY <3>1, <3>3, <3>4
    <2> QED BY <2>1, <2>2, <2>3
<1> QED BY <1>2, <1>3, <1>4, <1>5 DEF MemoryInv, SlotsSound

\* The sink or the policy changes, or time passes.
LEMMA MemoryQuiet ==
    ASSUME MemoryInv, UNCHANGED <<partitions, working, episodes, memAudit, answered, snapshotVars>>,
           now' \in Nat, sinkUp' \in BOOLEAN, legalHold' \in BOOLEAN
    PROVE  MemoryInv'
BY RecordsUntouched, ChainsUntouched, SnapshotsUntouched DEF MemoryInv, SlotsSound

\* Every step of the package keeps the invariant.
LEMMA MemoryStepKeepsInv == MemoryInv /\ [MemorySteps]_memoryVars => MemoryInv'
<1> SUFFICES ASSUME MemoryInv, [MemorySteps]_memoryVars PROVE MemoryInv' OBVIOUS
<1>1. now \in Nat /\ sinkUp \in BOOLEAN /\ legalHold \in BOOLEAN BY DEF MemoryInv, RecordsSound
<1>2. CASE UNCHANGED memoryVars
    BY <1>1, <1>2, MemoryQuiet DEF memoryVars, memoryState, recordVars
<1>3. CASE MemoryTick
    BY <1>1, <1>3, MemoryQuiet DEF MemoryTick, Tick, recordVars
<1>4. CASE MemoryWorld
    BY <1>1, <1>4, MemoryQuiet DEF MemoryWorld
<1>5. CASE ImmutableSteps
    BY <1>3, <1>4, <1>5, MemDeniedKeepsInv, MemWriteKeepsInv, MemReadKeepsInv, MemDeleteKeepsInv DEF ImmutableSteps
<1>6. CASE SnapshotSteps BY <1>3, <1>6, MemWriteKeepsInv, SnapshotsKeepInv DEF SnapshotSteps
<1>7. CASE WorkingSteps BY <1>3, <1>7, WorkingKeepsInv, EpisodeKeepsInv DEF WorkingSteps
<1> QED BY <1>2, <1>5, <1>6, <1>7 DEF MemorySteps

\* Memory, whatever the callers' ids: every answered change is in a chain that verifies
\* and the other way round, and a restore brings back what a snapshot was taken of, for
\* every set of callers, keys and records (audit.ts, episodic.ts, replay.ts, snapshot.ts).
THEOREM MemoryAuditedAndRestored == MemorySpec => [](MemoryTypeOK /\ AnsweredIsAudited /\ RestoredAsTaken)
<1>1. MemorySpec => []MemoryInv BY MemoryInitInv, MemoryStepKeepsInv, PTL DEF MemorySpec
<1> QED BY <1>1, MemoryInvImplies, PTL

\* Memory, where no tenant id holds the separator of the partition keys: besides, every
\* version a caller reaches was written under the caller's own ids (immutable-store.ts).
\* The store does not check the condition, and scoping fails without it.
THEOREM MemorySafety == SeparatorFree => (MemorySpec => []MemorySafe)
<1> SUFFICES ASSUME SeparatorFree PROVE MemorySpec => []MemorySafe OBVIOUS
<1>1. MemorySpec => []MemoryInv BY MemoryInitInv, MemoryStepKeepsInv, PTL DEF MemorySpec
<1>2. MemoryInv => MemorySafe BY MemoryInvImplies DEF MemorySafe
<1> QED BY <1>1, <1>2, PTL

\* evaluateDelete: no delete is authorized under a legal hold.
LEMMA DeleteGate ==
    ASSUME NEW human, EvaluateDelete(human) = "delete_authorized" PROVE ~legalHold
<1> DEFINE checks == << <<legalHold, "legal_hold_active">>, <<~human, "delete_requires_human_approval">> >>
<1>1. FirstRefusal(checks, "delete_authorized") = "delete_authorized" BY DEF EvaluateDelete
<1>2. Len(checks) = 2 OBVIOUS
<1>3. \A i \in 1..2 : checks[i][2] # "delete_authorized"
    <2>1. checks[1][2] # "delete_authorized" /\ checks[2][2] # "delete_authorized" OBVIOUS
    <2> HIDE DEF checks
    <2> QED BY <2>1
<1>4. ~checks[1][1]
    <2> HIDE DEF checks
    <2>1. \A i \in 1..2 : ~checks[i][1] BY <1>1, <1>2, <1>3, NoRefusal
    <2> QED BY <2>1
<1> QED BY <1>4

\* One entry is replaced by one that continues it.
LEMMA HistoryContinued ==
    ASSUME RecordsSound, RecordsSound', NEW s \in Scopes, NEW k \in MemKeys, NEW e,
           partitions' = [partitions EXCEPT ![PartitionKey(s)][k] = e],
           Len(Entry(s, k).versions) <= Len(e.versions),
           \A i \in 1..Len(Entry(s, k).versions) : e.versions[i] = Entry(s, k).versions[i],
           (legalHold /\ e.tombstone) => Entry(s, k).tombstone
    PROVE  HistoryStep
<1> SUFFICES ASSUME NEW p \in DOMAIN partitions, NEW j \in MemKeys
             PROVE  /\ SubSeq(partitions'[p][j].versions, 1, Len(partitions[p][j].versions)) = partitions[p][j].versions
                    /\ (legalHold /\ partitions'[p][j].tombstone) => partitions[p][j].tombstone
    BY DEF HistoryStep
<1>1. /\ p \in PartitionKeys /\ PartitionKey(s) \in PartitionKeys
      /\ partitions \in [PartitionKeys -> [MemKeys -> KeyEntries]]
      /\ partitions' \in [PartitionKeys -> [MemKeys -> KeyEntries]]
    BY DEF RecordsSound, PartitionKeys
<1> DEFINE v == partitions[p][j].versions
           w == partitions'[p][j].versions
<1>2. v \in Seq(VersionRecords) /\ w \in Seq(VersionRecords) BY <1>1 DEF KeyEntries
<1>3. \/ p = PartitionKey(s) /\ j = k /\ partitions'[p][j] = e
      \/ partitions'[p][j] = partitions[p][j]
    <2> DEFINE q == PartitionKey(s)
    <2>1. partitions' = [partitions EXCEPT ![q] = [partitions[q] EXCEPT ![k] = e]] OBVIOUS
    <2>2. q \in PartitionKeys BY <1>1
    <2> HIDE DEF q
    <2>3. \/ p = q /\ j = k /\ partitions'[p][j] = e
          \/ partitions'[p][j] = partitions[p][j]
        BY <1>1, <2>1, <2>2
    <2> QED BY <2>3 DEF q
<1>4. Len(v) <= Len(w) /\ \A i \in 1..Len(v) : w[i] = v[i]
    <2>1. CASE p = PartitionKey(s) /\ j = k /\ partitions'[p][j] = e BY <2>1 DEF Entry
    <2>2. CASE partitions'[p][j] = partitions[p][j]
        <3>1. Len(v) \in Nat BY <1>2, LenProperties
        <3> QED BY <2>2, <3>1
    <2> QED BY <1>3, <2>1, <2>2
<1>5. (legalHold /\ partitions'[p][j].tombstone) => partitions[p][j].tombstone BY <1>3 DEF Entry
<1> HIDE DEF v, w
<1>6. SubSeq(w, 1, Len(v)) = v
    <2>1. Len(v) \in Nat /\ Len(w) \in Nat BY <1>2, LenProperties
    <2>2. \A i \in 1..Len(v) : w[i] \in VersionRecords BY <1>2, <1>4, <2>1, ElementOfSeq
    <2> DEFINE u == SubSeq(w, 1, Len(v))
    <2>3. /\ u \in Seq(VersionRecords)
          /\ Len(u) = IF 1 <= Len(v) THEN Len(v) - 1 + 1 ELSE 0
          /\ \A i \in 1..Len(v) - 1 + 1 : u[i] = w[1 + i - 1]
        BY <2>1, <2>2, SubSeqProperties
    <2>4. Len(u) = Len(v) /\ \A i \in 1..Len(u) : u[i] = w[i]
        <3> HIDE DEF u
        <3>1. Len(u) = Len(v) BY <2>1, <2>3
        <3>2. ASSUME NEW i \in 1..Len(u) PROVE u[i] = w[i]
            <4>1. i \in 1..Len(v) - 1 + 1 /\ 1 + i - 1 = i BY <2>1, <3>1
            <4> QED BY <2>3, <4>1
        <3> QED BY <3>1, <3>2
    <2> HIDE DEF u
    <2>5. \A i \in 1..Len(u) : u[i] = v[i] BY <1>4, <2>4
    <2>6. u = v BY <1>2, <2>3, <2>4, <2>5, SeqEqual
    <2> QED BY <2>6 DEF u
<1> QED BY <1>5, <1>6 DEF v, w

\* Where the records are left alone, so is their history.
LEMMA HistoryUntouched == ASSUME RecordsSound, UNCHANGED partitions PROVE HistoryStep
<1> SUFFICES ASSUME NEW p \in DOMAIN partitions, NEW j \in MemKeys
             PROVE  SubSeq(partitions[p][j].versions, 1, Len(partitions[p][j].versions)) = partitions[p][j].versions
    BY DEF HistoryStep
<1>1. partitions[p][j].versions \in Seq(VersionRecords) BY DEF RecordsSound, KeyEntries
<1> QED BY <1>1, SubSeqFull

\* Versions are only ever appended and a legal hold keeps a key readable (write and
\* delete of the immutable store).
THEOREM MemoryHistoryKept == MemorySpec => HistoryKept
<1>1. MemoryInv /\ MemoryInv' /\ [MemorySteps]_memoryVars => [HistoryStep]_memoryVars
    <2> SUFFICES ASSUME MemoryInv, MemoryInv', MemorySteps PROVE HistoryStep OBVIOUS
    <2>1. RecordsSound /\ RecordsSound' BY DEF MemoryInv
    <2>2. CASE UNCHANGED partitions BY <2>1, <2>2, HistoryUntouched
    <2>3. ASSUME NEW s \in Scopes, NEW k \in MemKeys, NEW ttl \in {0, MemTtl}, MemWrite(s, k, ttl) PROVE HistoryStep
        <3> DEFINE e == Written(s, k, ttl)
        <3>1. Len(Entry(s, k).versions) < MaxVersions BY <2>3 DEF MemWrite
        <3>2. partitions' = [partitions EXCEPT ![PartitionKey(s)][k] = e]
            BY <2>3 DEF MemWrite, Written, Entry
        <3>3. /\ \A i \in 1..Len(Entry(s, k).versions) : e.versions[i] = Entry(s, k).versions[i]
              /\ Len(e.versions) = Len(Entry(s, k).versions) + 1
            BY <2>1, <3>1, WrittenSound, MemoryAssumption
        <3>4. ~e.tombstone BY DEF Written
        <3>5. Len(Entry(s, k).versions) \in Nat BY <2>1, EntryType
        <3> HIDE DEF e
        <3>6. Len(Entry(s, k).versions) <= Len(e.versions) BY <3>3, <3>5
        <3> QED BY <2>1, <3>2, <3>3, <3>4, <3>6, HistoryContinued
    <2>4. ASSUME NEW s \in Scopes, NEW k \in MemKeys, NEW human \in BOOLEAN, MemDelete(s, k, human) PROVE HistoryStep
        <3>1. CASE EvaluateDelete(human) = "delete_authorized"
            <4> DEFINE e == [Entry(s, k) EXCEPT !.tombstone = TRUE]
            <4>1. partitions' = [partitions EXCEPT ![PartitionKey(s)][k] = e] BY <2>4, <3>1 DEF MemDelete, Entry
            <4>2. Entry(s, k) \in KeyEntries /\ Len(Entry(s, k).versions) \in Nat BY <2>1, EntryType
            <4>3. e.versions = Entry(s, k).versions BY <4>2 DEF KeyEntries
            <4>4. ~legalHold BY <3>1, DeleteGate
            <4> HIDE DEF e
            <4>5. /\ Len(Entry(s, k).versions) <= Len(e.versions)
                  /\ \A i \in 1..Len(Entry(s, k).versions) : e.versions[i] = Entry(s, k).versions[i]
                BY <4>2, <4>3
            <4> QED BY <2>1, <4>1, <4>4, <4>5, HistoryContinued, ZenonT(20)
        <3>2. CASE EvaluateDelete(human) # "delete_authorized" BY <2>2, <2>4, <3>2 DEF MemDelete
        <3> QED BY <3>1, <3>2
    <2>5. CASE ImmutableSteps
        BY <2>2, <2>3, <2>4, <2>5 DEF ImmutableSteps, MemDenied, MemRead, MemoryWorld, MemoryTick, recordVars
    <2>6. CASE SnapshotSteps
        BY <2>2, <2>3, <2>6 DEF SnapshotSteps, CreateMemorySnapshot, EvaluateSnapshotRestore, SnapshotDamaged,
                                MemoryTick, recordVars
    <2>7. CASE WorkingSteps
        BY <2>2, <2>7 DEF WorkingSteps, WorkingSet, WorkingGet, WorkingDrop, WorkingPrune, EpisodeAppend,
                          MemoryTick, recordVars
    <2> QED BY <2>5, <2>6, <2>7 DEF MemorySteps
<1>2. MemorySpec => []MemoryInv BY MemoryInitInv, MemoryStepKeepsInv, PTL DEF MemorySpec
<1> QED BY <1>1, <1>2, PTL DEF MemorySpec, HistoryKept

-----------------------------------------------------------------------------
(* Hardening *)

\* verifyArtifact: a verified artifact and its key are not revoked.
LEMMA VerifiedNotRevoked ==
    ASSUME NEW d, VerifyArtifact(d) = "VERIFIED"
    PROVE  revoked \cap {"signing_key", "artifact"} = {}
<1> DEFINE checks == << Refuse(d, {"digest"}, "DIGEST_MISMATCH"),
                           <<VerifyReleaseEvidence(d) # "COMPLETE", "EVIDENCE_MISSING">>,
                           Refuse(d, {"unknown key"}, "UNTRUSTED_ISSUER"),
                           <<revoked \cap {"signing_key", "artifact"} # {}, "REVOKED">>,
                           Refuse(d, {"bad signature"}, "REJECTED"),
                           Refuse(d, {"expired"}, "EXPIRED"),
                           Refuse(d, {"environment", "tenant", "region"}, "INCOMPATIBLE") >>
<1>1. FirstRefusal(checks, "VERIFIED") = "VERIFIED" BY DEF VerifyArtifact
<1>2. Len(checks) = 7 OBVIOUS
<1>3. \A i \in 1..7 : checks[i][2] # "VERIFIED"
    <2>1. /\ checks[1][2] # "VERIFIED" /\ checks[2][2] # "VERIFIED" /\ checks[3][2] # "VERIFIED"
           /\ checks[4][2] # "VERIFIED" /\ checks[5][2] # "VERIFIED" /\ checks[6][2] # "VERIFIED"
           /\ checks[7][2] # "VERIFIED"
        BY DEF Refuse
    <2> HIDE DEF checks
    <2> QED BY <2>1
<1>4. ~checks[4][1]
    <2> HIDE DEF checks
    <2>1. \A i \in 1..7 : ~checks[i][1] BY <1>1, <1>2, <1>3, NoRefusal
    <2> QED BY <2>1
<1> QED BY <1>4

\* The policy gate: an activated policy carries the signature of its own hash.
LEMMA ActivatedIsSigned ==
    ASSUME NEW d, PolicyActivationVerdict(d) = "policy_activated"
    PROVE  policy.signed = policy.hash
<1> DEFINE checks == << Refuse(d, {"by AI"}, "ai_cannot_activate_policy"),
                           Refuse(d, {"unsigned"}, "unsigned_policy"),
                           <<~Trusted(d) \/ policy.signed # policy.hash, "untrusted_or_invalid_signature">>,
                           Refuse(d, {"no human"}, "activation_requires_human_approval") >>
<1>1. FirstRefusal(checks, "policy_activated") = "policy_activated" BY DEF PolicyActivationVerdict
<1>2. Len(checks) = 4 OBVIOUS
<1>3. \A i \in 1..4 : checks[i][2] # "policy_activated"
    <2>1. /\ checks[1][2] # "policy_activated" /\ checks[2][2] # "policy_activated" /\ checks[3][2] # "policy_activated"
           /\ checks[4][2] # "policy_activated"
        BY DEF Refuse
    <2> HIDE DEF checks
    <2> QED BY <2>1
<1>4. ~checks[3][1]
    <2> HIDE DEF checks
    <2>1. \A i \in 1..4 : ~checks[i][1] BY <1>1, <1>2, <1>3, NoRefusal
    <2> QED BY <2>1
<1> QED BY <1>4

\* The restore gate: a backup that holds permits is refused.
LEMMA RestoredWithoutPermits ==
    ASSUME NEW d, VerifyRestore(d) = "restore_verified"
    PROVE  backup.permits = {}
<1> DEFINE checks == << Refuse(d, {"digest"}, "restore_digest_mismatch"),
                           <<backup.permits # {}, "stale_permit_revival_blocked">> >>
<1>1. FirstRefusal(checks, "restore_verified") = "restore_verified" BY DEF VerifyRestore
<1>2. Len(checks) = 2 OBVIOUS
<1>3. \A i \in 1..2 : checks[i][2] # "restore_verified"
    <2>1. /\ checks[1][2] # "restore_verified" /\ checks[2][2] # "restore_verified"
        BY DEF Refuse
    <2> HIDE DEF checks
    <2> QED BY <2>1
<1>4. ~checks[2][1]
    <2> HIDE DEF checks
    <2>1. \A i \in 1..2 : ~checks[i][1] BY <1>1, <1>2, <1>3, NoRefusal
    <2> QED BY <2>1
<1> QED BY <1>4

\* The flag gate: a security flag is not turned off.
LEMMA FlagOnlyOn ==
    ASSUME NEW v, NEW d, ChangeFlag(v, d)
    PROVE  v
<1> DEFINE checks == << Refuse(d, {"no reason"}, "reason_and_actor_required"),
                           <<~v, "security_control_cannot_be_disabled">>,
                           Refuse(d, {"no human"}, "change_requires_human_approval") >>
<1>1. FirstRefusal(checks, "ok") = "ok" BY DEF ChangeFlag
<1>2. Len(checks) = 3 OBVIOUS
<1>3. \A i \in 1..3 : checks[i][2] # "ok"
    <2>1. /\ checks[1][2] # "ok" /\ checks[2][2] # "ok" /\ checks[3][2] # "ok"
        BY DEF Refuse
    <2> HIDE DEF checks
    <2> QED BY <2>1
<1>4. ~checks[2][1]
    <2> HIDE DEF checks
    <2>1. \A i \in 1..3 : ~checks[i][1] BY <1>1, <1>2, <1>3, NoRefusal
    <2> QED BY <2>1
<1> QED BY <1>4

\* An evaluation of a security flag reads enabled exactly when the flag is known.
LEMMA FlagShown ==
    ASSUME NEW requested \in BOOLEAN, NEW d
    PROVE  Enabled(requested, d) = ("unknown" \notin d)
<1> DEFINE unknown == d \cap {"unknown"} # {}
           off == ~requested
           aside == d \cap {"expired", "scope"} # {}
           verdict == IF unknown THEN "DENIED" ELSE IF off THEN "SAFE_DEFAULT" ELSE IF aside THEN "SAFE_DEFAULT" ELSE "REQUESTED"
<1>1. EvaluateFeatureFlag(requested, d)
        = FirstRefusal(<< <<unknown, "DENIED">>, <<off, "SAFE_DEFAULT">>, <<aside, "SAFE_DEFAULT">> >>, "REQUESTED")
    BY DEF EvaluateFeatureFlag, Refuse
<1>2. (unknown <=> "unknown" \in d) /\ (off <=> ~requested) OBVIOUS
<1> HIDE DEF unknown, off, aside
<1>3. FirstRefusal(<< <<unknown, "DENIED">>, <<off, "SAFE_DEFAULT">>, <<aside, "SAFE_DEFAULT">> >>, "REQUESTED") = verdict
    BY ThreeChecks
<1>4. EvaluateFeatureFlag(requested, d) = verdict BY <1>1, <1>3, Zenon
<1> QED BY <1>2, <1>4 DEF Enabled

\* A policy on its way: the hash is that of its rules; what was validated, and
\* what was signed, has no conflict, whatever the rules were altered to since.
PolicyOnItsWay ==
    /\ policy \in [stage : {"none", "compiled", "valid", "signed"}, rules : SUBSET Rules, hash : SUBSET Rules,
                   signed : SUBSET Rules]
    /\ policy.hash = policy.rules
    /\ policy.stage = "valid" => ConflictsOf(policy.rules) = {}
    /\ policy.stage = "signed" => ConflictsOf(policy.signed) = {}

ReleaseInv ==
    /\ granted \subseteq Capacities /\ plugin.requested \subseteq Capacities /\ plugin.used \subseteq plugin.requested
    /\ active \subseteq Rules /\ node \in [Nodes -> Versions]
    /\ readiness \in {"STOPPED", "READY", "STARTUP_REJECTED", "READINESS_REVOKED"}
    /\ informed \in BOOLEAN /\ (informed => readiness # "READY")
    /\ PolicyOnItsWay /\ ActivePolicySound
    /\ ClusterCompatible

OperateInv ==
    /\ flag = TRUE /\ SecurityFlagOn
    /\ settings \in [SettingKeys -> {0, 1}]
    /\ baseline.values = <<>> \/ baseline.values = SafeValues(baseline.of)
    /\ DriftExact
    /\ backup.permits \subseteq HardPermits /\ livePermits \subseteq HardPermits
    /\ NoPermitRevival
    /\ emergency \in {"NORMAL", "LOCKDOWN"}

\* The invariant is strong enough.
LEMMA HardInvImplies == ReleaseInv /\ OperateInv => HardeningSafe
BY DEF ReleaseInv, OperateInv, HardeningSafe, HardeningTypeOK

\* It holds at the start.
LEMMA HardInitInv == HardeningInit => ReleaseInv /\ OperateInv
<1> SUFFICES ASSUME HardeningInit PROVE ReleaseInv /\ OperateInv OBVIOUS
<1> USE DEF HardeningInit
<1>1. plugin.requested = {} /\ plugin.used = {} BY DEF NoPlugin
<1>2. PolicyOnItsWay BY DEF PolicyOnItsWay, NoPolicy
<1>3. ActivePolicySound BY DEF ActivePolicySound, ConflictsOf
<1>4. ClusterCompatible
    <2>1. \A n \in Nodes : node[n] = MinSupported OBVIOUS
    <2>2. /\ {MinSupported.major, MinSupported.minor, MinSupported.patch} \subseteq Nat
          /\ {MaxSupported.major, MaxSupported.minor, MaxSupported.patch} \subseteq Nat
        BY HardeningAssumption
    <2> HIDE DEF HardeningInit
    <2> QED BY <2>1, <2>2, MatrixAssumption DEF ClusterCompatible, IsVersionCompatible, CompareVersions
<1>5. ReleaseInv BY <1>1, <1>2, <1>3, <1>4, HardeningAssumption DEF ReleaseInv
<1>6. baseline.values = <<>> /\ drift.found = {} /\ drift.real = {} /\ backup.permits = {} OBVIOUS
<1>7. OperateInv BY <1>6 DEF OperateInv, SecurityFlagOn, DriftExact, NoPermitRevival
<1> QED BY <1>5, <1>7

\* Steps on artifacts and plugins.
LEMMA LoadKeepsInv == ASSUME ReleaseInv, LoadSteps PROVE ReleaseInv' /\ UNCHANGED operateVars
<1>1. UNCHANGED <<operateVars, policy, active, node>>
    BY DEF LoadSteps, LoadArtifact, LoadPlugin, PluginUses, GrantShrinks, Revoke, EvaluateSecurityReadiness
<1>2. PolicyOnItsWay' /\ ActivePolicySound' /\ ClusterCompatible'
    BY <1>1 DEF ReleaseInv, PolicyOnItsWay, ActivePolicySound, ClusterCompatible, ConflictsOf
<1>3. granted' \subseteq Capacities
    BY DEF ReleaseInv, LoadSteps, LoadArtifact, LoadPlugin, PluginUses, GrantShrinks, Revoke, EvaluateSecurityReadiness
<1>4. plugin'.requested \subseteq Capacities /\ plugin'.used \subseteq plugin'.requested
    <2>1. CASE \E requested \in SUBSET Capacities, d \in AtMostOne(PluginFaults) : LoadPlugin(requested, d)
        BY <2>1 DEF LoadPlugin
    <2>2. CASE \E c \in Capacities : PluginUses(c)
        BY <2>2 DEF PluginUses, ReleaseInv
    <2>3. CASE UNCHANGED plugin BY <2>3 DEF ReleaseInv
    <2> QED BY <2>1, <2>2, <2>3 DEF LoadSteps, LoadArtifact, GrantShrinks, Revoke, EvaluateSecurityReadiness
<1>5. /\ readiness' \in {"STOPPED", "READY", "STARTUP_REJECTED", "READINESS_REVOKED"}
      /\ informed' \in BOOLEAN /\ (informed' => readiness' # "READY")
    <2>1. CASE \E d \in AtMostOne(ReadinessFaults) : EvaluateSecurityReadiness(d)
        BY <2>1 DEF EvaluateSecurityReadiness, RevocationSeen
    <2>2. CASE UNCHANGED <<readiness, informed>> BY <2>2 DEF ReleaseInv
    <2> QED BY <2>1, <2>2 DEF LoadSteps, LoadArtifact, LoadPlugin, PluginUses, GrantShrinks, Revoke
<1> QED BY <1>1, <1>2, <1>3, <1>4, <1>5 DEF ReleaseInv

\* Steps on policy sets.
LEMMA PolicyKeepsInv == ASSUME ReleaseInv, PolicySteps PROVE ReleaseInv' /\ UNCHANGED operateVars
<1> USE DEF PolicyOnItsWay
<1>0. PolicyOnItsWay BY DEF ReleaseInv
<1>1. UNCHANGED <<operateVars, granted, plugin, node, readiness, informed>>
    BY DEF PolicySteps, CompilePolicy, PolicyAltered, ValidatePolicyAst, SignPolicy, ActivatePolicy
<1>2. PolicyOnItsWay' /\ (UNCHANGED active \/ (active' \subseteq Rules /\ ConflictsOf(active') = {}))
    <2>1. CASE \E rules \in SUBSET Rules : CompilePolicy(rules) BY <1>0, <2>1 DEF CompilePolicy
    <2>2. CASE \E rules \in SUBSET Rules : PolicyAltered(rules) BY <1>0, <2>2 DEF PolicyAltered
    <2>3. CASE ValidatePolicyAst BY <1>0, <2>3 DEF ValidatePolicyAst
    <2>4. CASE SignPolicy BY <1>0, <2>4 DEF SignPolicy
    <2>5. CASE \E d \in AtMostOne({"by AI", "unsigned", "unknown key", "bad signature", "no human"}) : ActivatePolicy(d)
        <3>1. policy.signed = policy.hash /\ policy.stage = "signed" /\ active' = policy.rules /\ policy' = NoPolicy
            BY <2>5, ActivatedIsSigned DEF ActivatePolicy
        <3> QED BY <1>0, <3>1 DEF NoPolicy
    <2> QED BY <2>1, <2>2, <2>3, <2>4, <2>5 DEF PolicySteps
<1>3. ActivePolicySound' BY <1>2 DEF ActivePolicySound, ReleaseInv
<1>4. ClusterCompatible' BY <1>1 DEF ReleaseInv, ClusterCompatible
<1> QED BY <1>1, <1>2, <1>3, <1>4 DEF ReleaseInv

\* A node is upgraded to a version the matrix supports.
LEMMA UpgradeKeepsInv ==
    ASSUME ReleaseInv, NEW n \in Nodes, NEW v \in Versions, NEW d, UpgradeNode(n, v, d)
    PROVE  ReleaseInv' /\ UNCHANGED operateVars
<1>1. /\ UNCHANGED <<operateVars, granted, plugin, policy, active, readiness, informed>>
      /\ node' = [node EXCEPT ![n] = v] /\ IsVersionCompatible(v)
    BY DEF UpgradeNode, EvaluateVersionSkew
<1>2. PolicyOnItsWay' /\ ActivePolicySound' BY <1>1 DEF ReleaseInv, PolicyOnItsWay, ActivePolicySound, ConflictsOf
<1>3. node' \in [Nodes -> Versions] BY <1>1 DEF ReleaseInv
<1>4. ClusterCompatible'
    <2>1. /\ {MinSupported.major, MinSupported.minor, MinSupported.patch} \subseteq Nat
          /\ {MaxSupported.major, MaxSupported.minor, MaxSupported.patch} \subseteq Nat
          /\ {v.major, v.minor, v.patch} \subseteq Nat
        BY HardeningAssumption
    <2>2. /\ \/ v.major > MinSupported.major
             \/ v.major = MinSupported.major /\ v.minor > MinSupported.minor
             \/ v.major = MinSupported.major /\ v.minor = MinSupported.minor /\ v.patch >= MinSupported.patch
          /\ \/ MaxSupported.major > v.major
             \/ MaxSupported.major = v.major /\ MaxSupported.minor > v.minor
             \/ MaxSupported.major = v.major /\ MaxSupported.minor = v.minor /\ MaxSupported.patch >= v.patch
        BY <1>1, <2>1 DEF IsVersionCompatible, CompareVersions
    <2>3. node'[n] = v /\ \A m \in Nodes \ {n} : node'[m] = node[m] BY <1>1 DEF ReleaseInv
    <2>4. ClusterCompatible BY DEF ReleaseInv
    <2> QED BY <2>2, <2>3, <2>4 DEF ClusterCompatible
<1> QED BY <1>1, <1>2, <1>3, <1>4 DEF ReleaseInv

\* Steps on configuration and flags.
LEMMA ConfigurationKeepsInv ==
    ASSUME OperateInv,
           \/ \E d : \E k \in SettingKeys, v \in {0, 1} : ChangeConfiguration(k, v, d)
           \/ BuildConfigurationSnapshot \/ DetectConfigurationDrift
    PROVE  OperateInv' /\ UNCHANGED releaseVars
<1> USE DEF OperateInv
<1>1. UNCHANGED <<releaseVars, flag, shown, livePermits, usedPermits, backup, emergency>>
    BY DEF ChangeConfiguration, BuildConfigurationSnapshot, DetectConfigurationDrift
<1>2. SecurityFlagOn' /\ NoPermitRevival' BY <1>1 DEF SecurityFlagOn, NoPermitRevival
<1>3. settings' \in [SettingKeys -> {0, 1}] BY DEF ChangeConfiguration, BuildConfigurationSnapshot, DetectConfigurationDrift
<1>4. baseline'.values = <<>> \/ baseline'.values = SafeValues(baseline'.of)
    <2>1. CASE BuildConfigurationSnapshot
        <3>1. baseline' = [values |-> SafeValues(settings), of |-> settings]
            BY <2>1 DEF BuildConfigurationSnapshot
        <3> QED BY <3>1
    <2>2. CASE UNCHANGED baseline BY <2>2
    <2> QED BY <2>1, <2>2 DEF ChangeConfiguration, DetectConfigurationDrift
<1>5. DriftExact'
    <2>1. CASE UNCHANGED drift BY <2>1 DEF DriftExact
    <2>2. CASE BuildConfigurationSnapshot BY <2>2 DEF BuildConfigurationSnapshot, DriftExact
    <2>3. CASE DetectConfigurationDrift
        <3>1. /\ drift'.found = ChangedKeys(baseline.values, SafeValues(settings))
              /\ drift'.real = {k \in SettingKeys : settings[k] # baseline.of[k]}
              /\ baseline.values = SafeValues(baseline.of)
            BY <2>3 DEF DetectConfigurationDrift
        <3>2. ChangedKeys(SafeValues(baseline.of), SafeValues(settings))
                 = {k \in SettingKeys : settings[k] # baseline.of[k]} \ SecretSettings
            BY DEF ChangedKeys, SafeValues
        <3> QED BY <3>1, <3>2 DEF DriftExact
    <2> QED BY <2>1, <2>2, <2>3 DEF ChangeConfiguration
<1> QED BY <1>1, <1>2, <1>3, <1>4, <1>5

\* Steps on flags.
LEMMA FlagKeepsInv ==
    ASSUME OperateInv,
           \/ \E d : \E v \in BOOLEAN : ChangeFlag(v, d)
           \/ \E requested \in {flag, FALSE}, d \in AtMostOne({"unknown", "expired", "scope"}) : ReadFlag(requested, d)
    PROVE  OperateInv' /\ UNCHANGED releaseVars
<1> USE DEF OperateInv
<1>1. UNCHANGED <<releaseVars, settings, baseline, drift, livePermits, usedPermits, backup, emergency>>
    BY DEF ChangeFlag, ReadFlag
<1>2. DriftExact' /\ NoPermitRevival' BY <1>1 DEF DriftExact, NoPermitRevival
<1>3. flag' = TRUE /\ SecurityFlagOn'
    <2>1. CASE \E d : \E v \in BOOLEAN : ChangeFlag(v, d)
        <3>1. PICK v, d : v \in BOOLEAN /\ ChangeFlag(v, d) BY <2>1
        <3>2. v BY <3>1, FlagOnlyOn
        <3>3. flag' = v /\ shown' = shown BY <3>1 DEF ChangeFlag
        <3> QED BY <3>2, <3>3 DEF SecurityFlagOn
    <2>2. CASE \E requested \in {flag, FALSE}, d \in AtMostOne({"unknown", "expired", "scope"}) : ReadFlag(requested, d)
        <3>1. PICK requested \in {flag, FALSE}, d \in AtMostOne({"unknown", "expired", "scope"}) : ReadFlag(requested, d)
            BY <2>2
        <3>2. Enabled(requested, d) = ("unknown" \notin d) BY FlagShown
        <3>3. /\ shown' = shown \cup {[known |-> "unknown" \notin d, enabled |-> Enabled(requested, d)]}
              /\ flag' = flag
            BY <3>1 DEF ReadFlag
        <3> QED BY <3>2, <3>3 DEF SecurityFlagOn
    <2> QED BY <2>1, <2>2
<1> QED BY <1>1, <1>2, <1>3

\* Backup, restore and lockdown.
LEMMA RecoverKeepsInv == ASSUME OperateInv, RecoverSteps PROVE OperateInv' /\ UNCHANGED releaseVars
<1> USE DEF OperateInv
<1>1. UNCHANGED <<releaseVars, flag, shown, settings, baseline, drift>>
    BY DEF RecoverSteps, UsePermit, TakeBackup, Restore, Lockdown, LeaveLockdown
<1>2. SecurityFlagOn' /\ DriftExact' BY <1>1 DEF SecurityFlagOn, DriftExact
<1>3. emergency' \in {"NORMAL", "LOCKDOWN"} BY DEF RecoverSteps, UsePermit, TakeBackup, Restore, Lockdown, LeaveLockdown
<1>4. /\ backup'.permits \subseteq HardPermits /\ livePermits' \subseteq HardPermits /\ NoPermitRevival'
    <2>1. CASE \E p \in HardPermits : UsePermit(p) BY <2>1 DEF UsePermit, NoPermitRevival
    <2>2. CASE \E withPermits \in BOOLEAN : TakeBackup(withPermits) BY <2>2 DEF TakeBackup, NoPermitRevival
    <2>3. CASE \E d \in AtMostOne(RestoreFaults) : Restore(d)
        <3>1. PICK d : Restore(d) BY <2>3
        <3>2. /\ UNCHANGED <<backup, usedPermits>>
              /\ livePermits' = livePermits \/ (VerifyRestore(d) = "restore_verified" /\ livePermits' = backup.permits)
            BY <3>1 DEF Restore
        <3>3. livePermits' = livePermits \/ livePermits' = {} BY <3>2, RestoredWithoutPermits
        <3> QED BY <3>2, <3>3 DEF NoPermitRevival
    <2>4. CASE UNCHANGED <<livePermits, usedPermits, backup>> BY <2>4 DEF NoPermitRevival
    <2> QED BY <2>1, <2>2, <2>3, <2>4 DEF RecoverSteps, Lockdown, LeaveLockdown
<1> QED BY <1>1, <1>2, <1>3, <1>4

\* Every step of the package keeps the invariant.
LEMMA HardStepKeepsInv ==
    ReleaseInv /\ OperateInv /\ [HardeningSteps]_hardeningVars => ReleaseInv' /\ OperateInv'
<1> SUFFICES ASSUME ReleaseInv, OperateInv, [HardeningSteps]_hardeningVars PROVE ReleaseInv' /\ OperateInv' OBVIOUS
<1>1. ASSUME UNCHANGED releaseVars PROVE ReleaseInv'
    BY <1>1 DEF releaseVars, ReleaseInv, PolicyOnItsWay, ActivePolicySound, ClusterCompatible, ConflictsOf
<1>2. ASSUME UNCHANGED operateVars PROVE OperateInv'
    BY <1>2 DEF operateVars, OperateInv, SecurityFlagOn, DriftExact, NoPermitRevival, SafeValues
<1>3. CASE LoadSteps BY <1>2, <1>3, LoadKeepsInv
<1>4. CASE PolicySteps BY <1>2, <1>4, PolicyKeepsInv
<1>5. CASE OperateSteps BY <1>1, <1>2, <1>5, UpgradeKeepsInv, ConfigurationKeepsInv, FlagKeepsInv DEF OperateSteps
<1>6. CASE RecoverSteps BY <1>1, <1>6, RecoverKeepsInv
<1>7. CASE UNCHANGED hardeningVars BY <1>1, <1>2, <1>7 DEF hardeningVars, hardeningState
<1> QED BY <1>3, <1>4, <1>5, <1>6, <1>7 DEF HardeningSteps

\* Hardening: the active policy has no conflict, every node of a rolling upgrade stays
\* within the compatibility matrix, security flags read as enabled, drift is reported
\* exactly and a restore revives no used permit, for every set of nodes, versions, rules,
\* settings and permits (policy-compilation.ts, upgrade.ts, feature-flags.ts,
\* configuration and backup).
THEOREM HardeningSafety == HardeningSpec => []HardeningSafe
<1>1. HardeningSpec => [](ReleaseInv /\ OperateInv) BY HardInitInv, HardStepKeepsInv, PTL DEF HardeningSpec
<1> QED BY <1>1, HardInvImplies, PTL

\* Once the host has verified its artifact after the revocation of its key or of the
\* artifact itself, no later verification succeeds and no evaluation of the readiness
\* answers READY again, of a host that was ready or not (artifact-verifier.ts,
\* security-readiness.ts).  It says nothing of the time before that verification.
THEOREM RevocationReaches == HardeningSpec => [][RevocationReachesReadiness]_hardeningVars
<1>1. ReleaseInv /\ ReleaseInv' /\ [HardeningSteps]_hardeningVars => [RevocationReachesReadiness]_hardeningVars
    <2> SUFFICES ASSUME ReleaseInv', HardeningSteps, RevocationSeen PROVE RevocationSeen'
        BY DEF RevocationReachesReadiness, ReleaseInv
    <2>1. revoked \cap {"signing_key", "artifact"} # {} /\ ~signatures BY DEF RevocationSeen
    <2>2. CASE LoadSteps
        <3>1. CASE \E d \in AtMostOne(ArtifactFaults) : LoadArtifact(d)
            <4>1. PICK d \in AtMostOne(ArtifactFaults) : LoadArtifact(d) BY <3>1
            <4>2. VerifyArtifact(d) # "VERIFIED" BY <2>1, VerifiedNotRevoked
            <4>3. ~signatures' /\ revoked' = revoked BY <4>1, <4>2 DEF LoadArtifact
            <4> QED BY <2>1, <4>3 DEF RevocationSeen
        <3>2. CASE \E kind \in {"signing_key", "artifact", "publisher", "plugin"} : Revoke(kind)
            BY <2>1, <3>2 DEF Revoke, RevocationSeen
        <3>3. CASE UNCHANGED <<revoked, signatures>> BY <2>1, <3>3 DEF RevocationSeen
        <3> QED BY <2>2, <3>1, <3>2, <3>3 DEF LoadSteps, LoadPlugin, PluginUses, GrantShrinks, EvaluateSecurityReadiness
    <2>3. CASE UNCHANGED <<revoked, signatures>> BY <2>1, <2>3 DEF RevocationSeen
    <2>4. PolicySteps => UNCHANGED <<revoked, signatures>>
        BY DEF PolicySteps, CompilePolicy, PolicyAltered, ValidatePolicyAst, SignPolicy, ActivatePolicy
    <2>5. OperateSteps => UNCHANGED <<revoked, signatures>>
        BY DEF OperateSteps, UpgradeNode, ChangeConfiguration, BuildConfigurationSnapshot, DetectConfigurationDrift,
               ChangeFlag, ReadFlag, releaseVars
    <2>6. RecoverSteps => UNCHANGED <<revoked, signatures>>
        BY DEF RecoverSteps, UsePermit, TakeBackup, Restore, Lockdown, LeaveLockdown, releaseVars
    <2> QED BY <2>2, <2>3, <2>4, <2>5, <2>6 DEF HardeningSteps
<1>2. HardeningSpec => [](ReleaseInv /\ OperateInv) BY HardInitInv, HardStepKeepsInv, PTL DEF HardeningSpec
<1> QED BY <1>1, <1>2, PTL DEF HardeningSpec

-----------------------------------------------------------------------------
(* Content screening *)

\* The places the firewall's verdicts have in its order.
LEMMA FirewallRanks ==
    /\ RankIn(FirewallOrder, "ALLOW_AS_DATA") = 1
    /\ RankIn(FirewallOrder, "REQUIRE_HUMAN_REVIEW") = 3
    /\ RankIn(FirewallOrder, "QUARANTINE") = 4
    /\ RankIn(FirewallOrder, "REJECT") = 5
<1>1. DOMAIN FirewallOrder = 1..6 BY DEF FirewallOrder
<1>2. /\ FirewallOrder[1] = "ALLOW_AS_DATA" /\ FirewallOrder[2] = "ALLOW_WITH_REDACTION"
      /\ FirewallOrder[3] = "REQUIRE_HUMAN_REVIEW" /\ FirewallOrder[4] = "QUARANTINE"
      /\ FirewallOrder[5] = "REJECT" /\ FirewallOrder[6] = "SECURITY_LOCKDOWN"
    BY DEF FirewallOrder
<1>3. ASSUME NEW n \in 1..6, \A i \in 1..6 : FirewallOrder[i] = FirewallOrder[n] => i = n
      PROVE  RankIn(FirewallOrder, FirewallOrder[n]) = n
    BY <1>1, <1>3 DEF RankIn
<1>4. \A i \in 1..6 : i = 1 \/ i = 2 \/ i = 3 \/ i = 4 \/ i = 5 \/ i = 6 OBVIOUS
<1>5. RankIn(FirewallOrder, FirewallOrder[1]) = 1 BY <1>2, <1>3, <1>4
<1>6. RankIn(FirewallOrder, FirewallOrder[3]) = 3 BY <1>2, <1>3, <1>4
<1>7. RankIn(FirewallOrder, FirewallOrder[4]) = 4 BY <1>2, <1>3, <1>4
<1>8. RankIn(FirewallOrder, FirewallOrder[5]) = 5 BY <1>2, <1>3, <1>4
<1> QED BY <1>2, <1>5, <1>6, <1>7, <1>8

\* What is combined with a refusal is a refusal.
LEMMA AllowedByBoth ==
    ASSUME NEW a \in {"ALLOW_AS_DATA", "REQUIRE_HUMAN_REVIEW", "REJECT"},
           NEW b \in {"ALLOW_AS_DATA", "REQUIRE_HUMAN_REVIEW", "QUARANTINE", "REJECT"},
           MoreRestrictiveVerdict(a, b) = "ALLOW_AS_DATA"
    PROVE  a = "ALLOW_AS_DATA"
<1>1. CASE b = "ALLOW_AS_DATA"
    <2>1. RankIn(FirewallOrder, a) >= RankIn(FirewallOrder, b) BY <1>1, FirewallRanks
    <2> QED BY <2>1 DEF MoreRestrictiveVerdict
<1>2. CASE b # "ALLOW_AS_DATA" BY <1>2 DEF MoreRestrictiveVerdict
<1> QED BY <1>1, <1>2

ScreenVerdicts == {"ALLOW_AS_DATA", "REQUIRE_HUMAN_REVIEW", "QUARANTINE", "REJECT"}

\* The verdicts a screening can end with.
LEMMA VerdictsKnown == ScreenVerdicts \subseteq FirewallVerdicts
<1>1. DOMAIN FirewallOrder = 1..6 BY DEF FirewallOrder
<1>2. /\ FirewallOrder[1] = "ALLOW_AS_DATA" /\ FirewallOrder[3] = "REQUIRE_HUMAN_REVIEW"
      /\ FirewallOrder[4] = "QUARANTINE" /\ FirewallOrder[5] = "REJECT"
    BY DEF FirewallOrder
<1>3. 1 \in 1..6 /\ 3 \in 1..6 /\ 4 \in 1..6 /\ 5 \in 1..6 OBVIOUS
<1> QED BY <1>1, <1>2, <1>3 DEF ScreenVerdicts, FirewallVerdicts

\* What the firewall admits hides nothing from the injection screen.
LEMMA FirewallAdmits ==
    ASSUME NEW c \in [text : Texts, level : ContentTrustLevels], NEW d, NEW detection
    PROVE  /\ EvaluatePromptFirewall(c, d, detection) \in ScreenVerdicts
           /\ EvaluatePromptFirewall(c, d, detection) = "ALLOW_AS_DATA" =>
                 ~c.text.injected /\ c.text.layers = 0 /\ c.text.marks = {}
<1> DEFINE decoded == BoundedDecode(c.text)
           screen == IF ReferenceInjectionScreen(c.text, decoded) = "MALICIOUS" THEN "REJECT"
                     ELSE IF c.text.marks # {} \/ decoded.layers > 0
                          THEN MoreRestrictiveVerdict("ALLOW_AS_DATA", "REQUIRE_HUMAN_REVIEW")
                          ELSE "ALLOW_AS_DATA"
           trust == ContentTrustAsFirewallVerdict(EvaluateContentTrust(c, d, detection))
           o == MoreRestrictiveVerdict(screen, trust)
           checks == << <<~IsReady("prompt_firewall"), "QUARANTINE">>,
                        Refuse(d, {"tenant", "workspace"}, "REJECT"),
                        Refuse(d, {"oversized"}, "QUARANTINE"),
                        <<decoded.status = "OVER_DEPTH", "QUARANTINE">>,
                        <<"bidi" \in c.text.marks, "QUARANTINE">> >>
           answer == EvaluatePromptFirewall(c, d, detection)
<1>1. answer = FirstRefusal(checks, o) BY DEF EvaluatePromptFirewall
<1>2. c.text \in Texts /\ c.text.layers \in Nat /\ c.text.injected \in BOOLEAN
    BY ContentScreenAssumption DEF Texts
<1>3. /\ decoded.status # "OVER_DEPTH" => decoded.rest = 0
      /\ decoded.status # "OVER_DEPTH" => decoded.layers = c.text.layers
    <2> DEFINE t == c.text
               peeled == IF t.layers < MAX_DECODE_DEPTH THEN t.layers ELSE MAX_DECODE_DEPTH
    <2>1. decoded = [layers |-> peeled, rest |-> t.layers - peeled,
                     status |-> IF t.layers > peeled THEN "OVER_DEPTH"
                                ELSE IF peeled = 0 THEN "NO_ENCODING" ELSE "DECODED"]
        BY DEF BoundedDecode
    <2>2. t.layers \in Nat BY <1>2
    <2>3. peeled \in Nat /\ (~(t.layers > peeled) => t.layers = peeled) BY <2>2 DEF MAX_DECODE_DEPTH
    <2> HIDE DEF decoded, t, peeled
    <2>4. decoded.layers = peeled /\ decoded.rest = t.layers - peeled BY <2>1
    <2>5. t.layers > peeled => decoded.status = "OVER_DEPTH" BY <2>1
    <2>6. decoded.status # "OVER_DEPTH" => t.layers = peeled BY <2>3, <2>5
    <2> QED BY <2>2, <2>3, <2>4, <2>6 DEF t
<1>4. MoreRestrictiveVerdict("ALLOW_AS_DATA", "REQUIRE_HUMAN_REVIEW") = "REQUIRE_HUMAN_REVIEW"
    BY FirewallRanks DEF MoreRestrictiveVerdict
<1>5. screen \in {"ALLOW_AS_DATA", "REQUIRE_HUMAN_REVIEW", "REJECT"} BY <1>4
<1>6. trust \in ScreenVerdicts BY DEF ContentTrustAsFirewallVerdict, ScreenVerdicts
<1>7. o \in ScreenVerdicts
    <2> HIDE DEF screen, trust
    <2> QED BY <1>5, <1>6 DEF MoreRestrictiveVerdict, ScreenVerdicts
<1>8. /\ Len(checks) = 5
      /\ checks[1][2] = "QUARANTINE" /\ checks[2][2] = "REJECT" /\ checks[3][2] = "QUARANTINE"
      /\ checks[4][2] = "QUARANTINE" /\ checks[5][2] = "QUARANTINE"
      /\ checks[4][1] = (decoded.status = "OVER_DEPTH")
    <2> HIDE DEF decoded
    <2> QED BY DEF Refuse
<1>9. (screen = "ALLOW_AS_DATA" /\ decoded.status # "OVER_DEPTH")
          => ~c.text.injected /\ c.text.layers = 0 /\ c.text.marks = {}
    <2> SUFFICES ASSUME screen = "ALLOW_AS_DATA", decoded.status # "OVER_DEPTH"
                 PROVE  ~c.text.injected /\ c.text.layers = 0 /\ c.text.marks = {}
        OBVIOUS
    <2> HIDE DEF decoded
    <2>1. ReferenceInjectionScreen(c.text, decoded) # "MALICIOUS" /\ c.text.marks = {} /\ ~(decoded.layers > 0)
        BY <1>4
    <2>2. ~c.text.injected BY <1>3, <2>1 DEF ReferenceInjectionScreen
    <2> QED BY <1>2, <1>3, <2>1, <2>2
<1> HIDE DEF checks, o
<1>10. \A i \in 1..5 : checks[i][2] \in ScreenVerdicts \ {"ALLOW_AS_DATA"} BY <1>8 DEF ScreenVerdicts
<1>11. CASE answer = o /\ \A j \in 1..5 : ~checks[j][1]
    <2>1. decoded.status # "OVER_DEPTH"
        <3> HIDE DEF decoded, answer
        <3>1. 4 \in 1..5 OBVIOUS
        <3> QED BY <1>8, <1>11, <3>1
    <2>2. answer = "ALLOW_AS_DATA" => screen = "ALLOW_AS_DATA"
        <3> HIDE DEF screen, trust
        <3> QED BY <1>5, <1>6, <1>11, AllowedByBoth DEF o, ScreenVerdicts
    <2> HIDE DEF screen, decoded, answer
    <2>3. answer \in ScreenVerdicts BY <1>7, <1>11
    <2>4. answer = "ALLOW_AS_DATA" => ~c.text.injected /\ c.text.layers = 0 /\ c.text.marks = {}
        BY <1>9, <2>1, <2>2
    <2> QED BY <2>3, <2>4 DEF answer
<1>12. CASE \E i \in 1..5 : answer = checks[i][2]
    <2> HIDE DEF screen, decoded, answer
    <2>1. answer \in ScreenVerdicts /\ answer # "ALLOW_AS_DATA" BY <1>10, <1>12
    <2> QED BY <2>1 DEF answer
<1> HIDE DEF answer, screen, decoded
<1>13. \/ answer = o /\ \A j \in 1..5 : ~checks[j][1]
       \/ \E i \in 1..5 : answer = checks[i][2]
    BY <1>1, <1>8, GateDecides
<1> QED BY <1>11, <1>12, <1>13

\* Only a verified instruction goes with content, and content that is not labelled SYSTEM.
LEMMA FrameGate ==
    ASSUME NEW c, NEW instruction \in {"verified", "unverified", "empty"},
           ValidatePromptFrame(c, instruction) = "VALID"
    PROVE  instruction = "verified" /\ c.level # "SYSTEM"
<1> DEFINE checks == << <<instruction = "unverified", "UNVERIFIED_INSTRUCTION">>,
                        <<instruction = "empty", "EMPTY_INSTRUCTION_REF">>,
                        <<c.level = "SYSTEM", "DATA_MARKED_TRUSTED">> >>
<1>1. FirstRefusal(checks, "VALID") = "VALID" BY DEF ValidatePromptFrame
<1>2. Len(checks) = 3 OBVIOUS
<1>3. \A i \in 1..3 : checks[i][2] # "VALID"
    <2>1. checks[1][2] # "VALID" /\ checks[2][2] # "VALID" /\ checks[3][2] # "VALID" OBVIOUS
    <2> HIDE DEF checks
    <2> QED BY <2>1
<1>4. ~checks[1][1] /\ ~checks[2][1] /\ ~checks[3][1]
    <2> HIDE DEF checks
    <2>1. \A i \in 1..3 : ~checks[i][1] BY <1>1, <1>2, <1>3, NoRefusal
    <2> QED BY <2>1
<1> QED BY <1>4

\* evaluateClearQuarantine: who is let out of quarantine, by whom.
LEMMA ClearGate ==
    ASSUME NEW by, EvaluateClearQuarantine(by) = "CLEARED"
    PROVE  by.kind = "HUMAN" /\ ~by.subject
<1> DEFINE checks == << <<by.kind \in {"AGENT", "DIGITAL_EMPLOYEE"}, "AI_CANNOT_CLEAR_QUARANTINE">>,
                        <<by.kind # "HUMAN", "NOT_HUMAN">>,
                        <<by.subject, "REQUESTER_IS_SUBJECT">> >>
<1>1. FirstRefusal(checks, "CLEARED") = "CLEARED" BY DEF EvaluateClearQuarantine
<1>2. Len(checks) = 3 OBVIOUS
<1>3. \A i \in 1..3 : checks[i][2] # "CLEARED"
    <2>1. checks[1][2] # "CLEARED" /\ checks[2][2] # "CLEARED" /\ checks[3][2] # "CLEARED" OBVIOUS
    <2> HIDE DEF checks
    <2> QED BY <2>1
<1>4. ~checks[2][1] /\ ~checks[3][1]
    <2> HIDE DEF checks
    <2>1. \A i \in 1..3 : ~checks[i][1] BY <1>1, <1>2, <1>3, NoRefusal
    <2> QED BY <2>1
<1> QED BY <1>4

\* An answer that puts an effect before a human is given at level 2 or above.
LEMMA EffectNeedsLevel ==
    ASSUME NEW kind, NEW level \in AgentLevels, NEW action, NEW d,
           EvaluateAgentSafety(kind, level, action, d) \in {"HUMAN_APPROVAL_REQUIRED", "MULTI_APPROVAL_REQUIRED"}
    PROVE  level >= 2
<1> DEFINE profile == ProfileForLevel(level)
           passive == action \in {"ANALYZE", "RECOMMEND"}
           effect == action \in {"PREPARE_ACTION", "EXECUTE_ACTION", "EXECUTE_HIGH_AUTHORITY"}
           checks == <<
            <<action \in ABSOLUTE_DENY, "DENIED">>,
            <<~IsReady("agent_safety"), "STOP_REQUIRED">>,
            Refuse(d, {"tenant"}, "DENIED"),
            <<~passive /\ profile.requiresAudit /\ "audit" \in d, "STOP_REQUIRED">>,
            <<level = 3 /\ action \in {"EXECUTE_ACTION", "EXECUTE_HIGH_AUTHORITY"},
              "MULTI_APPROVAL_REQUIRED">>,
            <<action = "ANALYZE", "ALLOWED_AS_ANALYSIS">>,
            <<action = "RECOMMEND" /\ level = 0, "DENIED">>,
            <<action = "RECOMMEND", "RECOMMENDATION_ONLY">>,
            <<~effect \/ ~profile.mayHaveExternalEffect, "DENIED">>,
            <<profile.requiresPolicy /\ "policy" \in d, "DENIED">>,
            <<IsAgentActor(kind) /\ (action = "EXECUTE_HIGH_AUTHORITY" \/ profile.requiresMultiApproval),
              "MULTI_APPROVAL_REQUIRED">> >>
           answer == EvaluateAgentSafety(kind, level, action, d)
           forHuman == {"HUMAN_APPROVAL_REQUIRED", "MULTI_APPROVAL_REQUIRED"}
<1>1. answer = FirstRefusal(checks, "HUMAN_APPROVAL_REQUIRED") /\ answer \in forHuman BY DEF EvaluateAgentSafety
<1>2. Len(checks) = 11 OBVIOUS
<1>3. /\ checks[1][2] \notin forHuman /\ checks[2][2] \notin forHuman /\ checks[3][2] \notin forHuman
      /\ checks[4][2] \notin forHuman /\ checks[6][2] \notin forHuman /\ checks[7][2] \notin forHuman
      /\ checks[8][2] \notin forHuman /\ checks[9][2] \notin forHuman /\ checks[10][2] \notin forHuman
    BY DEF Refuse
<1>4. /\ checks[5][1] => level = 3
      /\ ~checks[9][1] => profile.mayHaveExternalEffect
    OBVIOUS
<1>5. profile.mayHaveExternalEffect => level >= 2 BY DEF ProfileForLevel
<1> HIDE DEF checks, answer, forHuman, profile
<1>6. \A i \in 1..11 : checks[i][2] \in forHuman => i = 5 \/ i = 11
    <2> TAKE i \in 1..11
    <2>1. \/ i = 1 \/ i = 2 \/ i = 3 \/ i = 4 \/ i = 5 \/ i = 6 \/ i = 7 \/ i = 8 \/ i = 9 \/ i = 10 \/ i = 11
        OBVIOUS
    <2> QED BY <1>3, <2>1
<1>7. \/ \A j \in 1..11 : ~checks[j][1]
      \/ \E i \in 1..11 : /\ checks[i][1] /\ answer = checks[i][2]
                          /\ \A j \in 1..11 : checks[j][1] => i <= j
    <2> DEFINE o == "HUMAN_APPROVAL_REQUIRED"
    <2>1. Len(checks) \in Nat BY <1>2
    <2> HIDE DEF o
    <2>2. \/ FirstRefusal(checks, o) = o /\ \A j \in 1..Len(checks) : ~checks[j][1]
          \/ \E i \in 1..Len(checks) :
                /\ checks[i][1] /\ FirstRefusal(checks, o) = checks[i][2]
                /\ \A j \in 1..Len(checks) : checks[j][1] => i <= j
        BY <2>1, GateDecides
    <2>3. answer = FirstRefusal(checks, o) BY <1>1 DEF o
    <2> QED BY <1>2, <2>2, <2>3
<1>8. ~checks[9][1] \/ checks[5][1]
    <2>1. CASE \A j \in 1..11 : ~checks[j][1]
        <3>1. 9 \in 1..11 OBVIOUS
        <3> QED BY <2>1, <3>1
    <2>2. ASSUME NEW i \in 1..11, checks[i][1], answer = checks[i][2], \A j \in 1..11 : checks[j][1] => i <= j
          PROVE ~checks[9][1] \/ checks[5][1]
        <3>1. i = 5 \/ i = 11 BY <1>1, <1>6, <2>2
        <3>2. CASE i = 5 BY <2>2, <3>2
        <3>3. CASE i = 11
            <4>1. 9 \in 1..11 /\ ~(11 <= 9) OBVIOUS
            <4> QED BY <2>2, <3>3, <4>1
        <3> QED BY <3>1, <3>2, <3>3
    <2> QED BY <1>7, <2>1, <2>2
<1> QED BY <1>4, <1>5, <1>8 DEF AgentLevels

\* Content the firewall admitted is clean, and content that left quarantine was released.
ScreenInv ==
    /\ content \in [text : Texts, level : ContentTrustLevels]
    /\ screened \in FirewallVerdicts \cup {"none"}
    /\ quarantined \in BOOLEAN /\ isolatedBefore \in BOOLEAN
    /\ released \subseteq Actors
    /\ frames \subseteq [isolatedBefore : BOOLEAN, instruction : {"verified", "unverified", "empty"}]
    /\ down \in AtMostOne(Dependencies)
    /\ screened = "ALLOW_AS_DATA" =>
          ~content.text.injected /\ content.text.layers = 0 /\ content.text.marks = {}
    /\ (isolatedBefore /\ ~quarantined) => \E by \in released : by.kind = "HUMAN" /\ ~by.subject
    /\ FramedIsClean
    /\ ReleasedByHuman

\* A nonce has promoted exactly if it is spent.
PromotionInv ==
    /\ recommended \in [Promoters -> SUBSET PromotionNonces]
    /\ spent \subseteq PromotionNonces
    /\ promotions \in [PromotionNonces -> 0..Cardinality(Promoters)]
    /\ \A n \in PromotionNonces : promotions[n] = IF n \in spent THEN 1 ELSE 0

\* The agent's level is never above the one a human granted.
AgentInv ==
    /\ agentLevel \in AgentLevels /\ grantedLevel \in AgentLevels
    /\ agentLevel <= grantedLevel
    /\ EffectsWithinGrant

\* The invariant is strong enough.
LEMMA ContentScreenInvImplies == ScreenInv /\ PromotionInv /\ AgentInv => ContentScreenSafe
<1> SUFFICES ASSUME ScreenInv, PromotionInv, AgentInv PROVE ContentScreenSafe OBVIOUS
<1>1. PromotedOnce BY DEF PromotionInv, PromotedOnce
<1>2. ContentScreenTypeOK BY DEF ContentScreenTypeOK, ScreenInv, PromotionInv, AgentInv
<1> QED BY <1>1, <1>2 DEF ContentScreenSafe, ScreenInv, AgentInv

\* It holds at the start.
LEMMA ContentScreenInitInv == ContentScreenInit => ScreenInv /\ PromotionInv /\ AgentInv
<1> SUFFICES ASSUME ContentScreenInit PROVE ScreenInv /\ PromotionInv /\ AgentInv OBVIOUS
<1>1. ScreenInv BY DEF ContentScreenInit, ScreenInv, AtMostOne, FramedIsClean, ReleasedByHuman
<1>2. PromotionInv
    <2>1. Cardinality(Promoters) \in Nat BY ContentScreenAssumption, FS_CardinalityType
    <2>2. 0 \in 0..Cardinality(Promoters) BY <2>1
    <2> QED BY <2>2 DEF ContentScreenInit, PromotionInv
<1>3. AgentInv BY DEF ContentScreenInit, AgentInv, AgentLevels, EffectsWithinGrant
<1> QED BY <1>1, <1>2, <1>3

\* What the screen's part of the invariant reads.
LEMMA ScreenUntouched == ASSUME ScreenInv, UNCHANGED screenVars, down' \in AtMostOne(Dependencies) PROVE ScreenInv'
BY DEF ScreenInv, screenVars, FramedIsClean, ReleasedByHuman

\* What the promotion's part reads.
LEMMA PromotionUntouched == ASSUME PromotionInv, UNCHANGED promotionVars PROVE PromotionInv'
BY DEF PromotionInv, promotionVars

\* What the agent's part reads.
LEMMA AgentUntouched == ASSUME AgentInv, UNCHANGED agentVars PROVE AgentInv'
BY DEF AgentInv, agentVars, EffectsWithinGrant

\* A screening.
LEMMA ScreenContentKeepsInv == ASSUME ScreenInv, ScreenContent, UNCHANGED down PROVE ScreenInv'
<1>1. PICK d, detection :
          LET verdict == EvaluatePromptFirewall(content, d, detection)
          IN  /\ screened' = verdict
              /\ quarantined' = (quarantined \/ verdict = "QUARANTINE")
              /\ isolatedBefore' = (isolatedBefore \/ verdict = "QUARANTINE")
              /\ UNCHANGED <<content, released, frames>>
    BY DEF ScreenContent
<1> DEFINE verdict == EvaluatePromptFirewall(content, d, detection)
<1>2. /\ verdict \in ScreenVerdicts
      /\ verdict = "ALLOW_AS_DATA" => ~content.text.injected /\ content.text.layers = 0 /\ content.text.marks = {}
    BY FirewallAdmits DEF ScreenInv
<1>3. /\ screened' = verdict
      /\ quarantined' = (quarantined \/ verdict = "QUARANTINE")
      /\ isolatedBefore' = (isolatedBefore \/ verdict = "QUARANTINE")
      /\ UNCHANGED <<content, released, frames>>
    BY <1>1
<1> HIDE DEF verdict
<1>4. FramedIsClean' /\ ReleasedByHuman' BY <1>3 DEF ScreenInv, FramedIsClean, ReleasedByHuman
<1>5. screened' \in FirewallVerdicts \cup {"none"} BY <1>2, <1>3, VerdictsKnown
<1>6. quarantined' \in BOOLEAN /\ isolatedBefore' \in BOOLEAN BY <1>3
<1> QED BY <1>2, <1>3, <1>4, <1>5, <1>6 DEF ScreenInv

\* Admitted content goes into a frame.
LEMMA FrameContentKeepsInv == ASSUME ScreenInv, FrameContent, UNCHANGED down PROVE ScreenInv'
<1>1. /\ screened = "ALLOW_AS_DATA" /\ ~quarantined
      /\ UNCHANGED <<content, screened, quarantined, isolatedBefore, released>>
    BY DEF FrameContent
<1>2. PICK instruction \in {"verified", "unverified", "empty"} :
          /\ ValidatePromptFrame(content, instruction) = "VALID"
          /\ frames' = frames \cup {[isolatedBefore |-> isolatedBefore, instruction |-> instruction]}
    BY DEF FrameContent
<1>3. instruction = "verified" /\ content.level # "SYSTEM" BY <1>2, FrameGate
<1> DEFINE f == [isolatedBefore |-> isolatedBefore, instruction |-> instruction]
<1>4. /\ f \in [isolatedBefore : BOOLEAN, instruction : {"verified", "unverified", "empty"}]
      /\ f.isolatedBefore = isolatedBefore /\ f.instruction = "verified" /\ frames' = frames \cup {f}
    BY <1>2, <1>3 DEF ScreenInv
<1> HIDE DEF f
<1>5. FramedIsClean'
    <2>1. ~content.text.injected /\ content.text.layers = 0 /\ content.text.marks = {} BY <1>1 DEF ScreenInv
    <2>2. \A g \in frames : g.instruction = "verified" BY DEF ScreenInv, FramedIsClean
    <2> QED BY <1>1, <1>3, <1>4, <2>1, <2>2 DEF FramedIsClean
<1>6. ReleasedByHuman'
    <2>1. CASE isolatedBefore BY <1>1, <2>1 DEF ScreenInv, ReleasedByHuman
    <2>2. CASE ~isolatedBefore BY <1>1, <1>4, <2>2 DEF ScreenInv, ReleasedByHuman
    <2> QED BY <2>1, <2>2
<1> QED BY <1>1, <1>4, <1>5, <1>6 DEF ScreenInv

\* A human clears the quarantine.
LEMMA ClearKeepsInv == ASSUME ScreenInv, ClearQuarantine, UNCHANGED down PROVE ScreenInv'
<1>1. PICK by \in Actors : EvaluateClearQuarantine(by) = "CLEARED" /\ released' = released \cup {by}
    BY DEF ClearQuarantine
<1>2. by.kind = "HUMAN" /\ ~by.subject BY <1>1, ClearGate
<1>3. quarantined' = FALSE /\ UNCHANGED <<content, screened, isolatedBefore, frames>> BY DEF ClearQuarantine
<1>4. FramedIsClean' BY <1>3 DEF ScreenInv, FramedIsClean
<1>5. \E b \in released' : b.kind = "HUMAN" /\ ~b.subject BY <1>1, <1>2
<1>6. ReleasedByHuman' BY <1>5 DEF ReleasedByHuman
<1> QED BY <1>1, <1>3, <1>4, <1>5, <1>6 DEF ScreenInv

\* A failure isolates the content.
LEMMA FailureKeepsInv == ASSUME ScreenInv, FailureIsolates, UNCHANGED down PROVE ScreenInv'
<1>1. quarantined' = TRUE /\ isolatedBefore' = TRUE /\ UNCHANGED <<content, screened, released, frames>>
    BY DEF FailureIsolates
<1>2. FramedIsClean' /\ ReleasedByHuman' BY <1>1 DEF ScreenInv, FramedIsClean, ReleasedByHuman
<1> QED BY <1>1, <1>2 DEF ScreenInv

\* At most one dependency is down.
LEMMA DependencyType == ASSUME DependencyChanges PROVE down' \in AtMostOne(Dependencies)
BY DEF DependencyChanges, AtMostOne

\* Every step of the screening.
LEMMA ScreenStepsKeepInv == ASSUME ScreenInv, ScreenSteps PROVE ScreenInv'
<1>1. CASE (ScreenContent \/ FrameContent \/ ClearQuarantine \/ FailureIsolates) /\ UNCHANGED down
    BY <1>1, ScreenContentKeepsInv, FrameContentKeepsInv, ClearKeepsInv, FailureKeepsInv
<1>2. CASE DependencyChanges /\ UNCHANGED screenVars BY <1>2, DependencyType, ScreenUntouched
<1> QED BY <1>1, <1>2 DEF ScreenSteps

\* Two hosts may hold a recommendation for one nonce; it is spent once.
LEMMA PromotionStepsKeepInv == ASSUME PromotionInv, PromotionSteps PROVE PromotionInv'
<1>1. PICK h \in Promoters : RequestPromotion(h) \/ SpendPromotion(h) BY DEF PromotionSteps
<1>2. CASE RequestPromotion(h)
    <2>1. PICK nonce \in PromotionNonces : recommended' = [recommended EXCEPT ![h] = {nonce}]
        BY <1>2 DEF RequestPromotion
    <2>2. UNCHANGED <<spent, promotions>> BY <1>2 DEF RequestPromotion
    <2> QED BY <2>1, <2>2 DEF PromotionInv
<1>3. CASE SpendPromotion(h)
    <2>1. PICK nonce \in recommended[h] :
              /\ spent' = Consume(nonce).spent
              /\ promotions' = [promotions EXCEPT ![nonce] =
                                   promotions[nonce] + (IF Consume(nonce).answer = "CONSUMED" THEN 1 ELSE 0)]
        BY <1>3 DEF SpendPromotion
    <2>2. recommended' = [recommended EXCEPT ![h] = {}] BY <1>3 DEF SpendPromotion
    <2>3. nonce \in PromotionNonces BY <2>1 DEF PromotionInv
    <2>4. spent' = spent \cup {nonce} BY <2>1 DEF Consume
    <2>5. (IF Consume(nonce).answer = "CONSUMED" THEN 1 ELSE 0) = IF nonce \in spent THEN 0 ELSE 1
        BY DEF Consume
    <2>6. promotions' = [promotions EXCEPT ![nonce] = 1]
        <3>1. promotions[nonce] = IF nonce \in spent THEN 1 ELSE 0 BY <2>3 DEF PromotionInv
        <3>2. promotions[nonce] + (IF Consume(nonce).answer = "CONSUMED" THEN 1 ELSE 0) = 1
            BY <2>5, <3>1
        <3> QED BY <2>1, <3>2
    <2>7. 1 \in 0..Cardinality(Promoters)
        <3>1. {h} \in SUBSET Promoters /\ Cardinality({h}) = 1 BY FS_Singleton
        <3>2. Cardinality({h}) <= Cardinality(Promoters) BY <3>1, ContentScreenAssumption, FS_Subset
        <3>3. Cardinality(Promoters) \in Nat BY ContentScreenAssumption, FS_CardinalityType
        <3> QED BY <3>1, <3>2, <3>3
    <2>8. promotions' \in [PromotionNonces -> 0..Cardinality(Promoters)] BY <2>3, <2>6, <2>7 DEF PromotionInv
    <2>9. \A n \in PromotionNonces : promotions'[n] = IF n \in spent' THEN 1 ELSE 0
        BY <2>3, <2>4, <2>6 DEF PromotionInv
    <2>10. recommended' \in [Promoters -> SUBSET PromotionNonces] BY <2>2 DEF PromotionInv
    <2> QED BY <2>3, <2>4, <2>8, <2>9, <2>10 DEF PromotionInv
<1> QED BY <1>1, <1>2, <1>3

\* An agent proposes, moves between levels, or is stopped.
LEMMA AgentStepsKeepInv == ASSUME AgentInv, AgentSafetySteps PROVE AgentInv'
<1> USE DEF AgentInv, AgentLevels
<1>1. CASE Propose
    <2>1. PICK action \in AgentActions, d \in AtMostOne({"tenant", "audit", "policy"}) :
              proposals' = {[granted |-> grantedLevel, answer |-> EvaluateAgentSafety("AGENT", agentLevel, action, d)]}
        BY <1>1 DEF Propose
    <2>2. UNCHANGED <<agentLevel, grantedLevel>> BY <1>1 DEF Propose
    <2> DEFINE answer == EvaluateAgentSafety("AGENT", agentLevel, action, d)
    <2>3. answer \in {"HUMAN_APPROVAL_REQUIRED", "MULTI_APPROVAL_REQUIRED"} => agentLevel >= 2
        BY EffectNeedsLevel
    <2> HIDE DEF answer
    <2>4. agentLevel >= 2 => ProfileForLevel(grantedLevel).mayHaveExternalEffect
        <3>1. agentLevel >= 2 => grantedLevel >= 2 OBVIOUS
        <3> QED BY <3>1 DEF ProfileForLevel
    <2>5. proposals' = {[granted |-> grantedLevel, answer |-> answer]} BY <2>1 DEF answer
    <2>6. \A p \in proposals' : p.granted = grantedLevel /\ p.answer = answer BY <2>5
    <2>7. EffectsWithinGrant' BY <2>3, <2>4, <2>6 DEF EffectsWithinGrant
    <2> QED BY <2>2, <2>7
<1>2. CASE AssignLevel
    <2>1. UNCHANGED proposals BY <1>2 DEF AssignLevel
    <2>2. EffectsWithinGrant' BY <2>1 DEF EffectsWithinGrant
    <2> QED BY <1>2, <2>2 DEF AssignLevel, AssertNoSelfRaise
<1>3. CASE FailureStops
    <2>1. agentLevel' = 0 /\ UNCHANGED <<grantedLevel, proposals>> BY <1>3 DEF FailureStops
    <2>2. EffectsWithinGrant' BY <2>1 DEF EffectsWithinGrant
    <2> QED BY <2>1, <2>2
<1> QED BY <1>1, <1>2, <1>3, AgentUntouched DEF AgentSafetySteps

\* Every step of the packages keeps the three invariants.
LEMMA ContentStepKeepsInv ==
    ScreenInv /\ PromotionInv /\ AgentInv /\ [ContentScreenSteps]_<<now, contentState>>
        => (ScreenInv /\ PromotionInv /\ AgentInv)'
<1> SUFFICES ASSUME ScreenInv, PromotionInv, AgentInv, [ContentScreenSteps]_<<now, contentState>>
             PROVE  (ScreenInv /\ PromotionInv /\ AgentInv)'
    OBVIOUS
<1>1. down \in AtMostOne(Dependencies) BY DEF ScreenInv
<1>2. CASE UNCHANGED <<now, contentState>>
    BY <1>1, <1>2, ScreenUntouched, PromotionUntouched, AgentUntouched DEF contentState
<1>3. CASE ScreenSteps
    BY <1>3, ScreenStepsKeepInv, PromotionUntouched, AgentUntouched DEF ScreenSteps
<1>4. CASE PromotionSteps
    BY <1>1, <1>4, PromotionStepsKeepInv, ScreenUntouched, AgentUntouched DEF PromotionSteps
<1>5. CASE AgentSafetySteps
    <2>1. down' \in AtMostOne(Dependencies) BY <1>1, <1>5, DependencyType DEF AgentSafetySteps
    <2> QED BY <1>5, <2>1, AgentStepsKeepInv, ScreenUntouched, PromotionUntouched DEF AgentSafetySteps
<1> QED BY <1>2, <1>3, <1>4, <1>5 DEF ContentScreenSteps

\* Content screening: framed content hides no instruction, quarantine is left by a human
\* other than the content's subject, a nonce promotes once, and an agent's effects stay
\* within the level a human granted, for every depth of encoding and every number of
\* hosts and nonces (prompt-firewall, content-trust, detection and agent-safety).
THEOREM ContentScreenSafety == ContentScreenSpec => []ContentScreenSafe
<1>1. ContentScreenSpec => [](ScreenInv /\ PromotionInv /\ AgentInv)
    BY ContentScreenInitInv, ContentStepKeepsInv, PTL DEF ContentScreenSpec
<1> QED BY <1>1, ContentScreenInvImplies, PTL
================================================================================
