----------------------------- MODULE IdentityGate -----------------------------
(* The edge security gate (edge-security/src/index.ts) and the identity gate  *)
(* behind it (identity/src/index.ts) for one identity and one session.  A     *)
(* request waits at the edge for the rate limiter and the abuse detector and  *)
(* then for the host to load the records the identity gate judges; while it   *)
(* waits the session, the identity and its factors change.                    *)
EXTENDS Requests

CONSTANTS EdgeRequests,     \* requests in flight
          ActionClasses,    \* the action classes a run uses
          MfaLife,          \* lifetime the host gives MFA and step-up results
          MaxElevation,     \* isShortLived: the longest recovery elevation
          Approvers,        \* people who may approve a recovery
          MinimumApprovals

ASSUME IdentityGateAssumption == {MaxClock, MfaLife, MaxElevation, MinimumApprovals} \subseteq Nat

VARIABLES edge,         \* [EdgeRequests -> where the request is]
          identity,     \* [status, risk]
          idSession,    \* [state, expiresAt, hijack, risk]
          gateRecords,  \* [EdgeRequests -> the records the host loaded for it, at most one pair]
          factor,       \* [enabled, level]
          challenges,   \* [class -> [status, expiresAt]]
          mfaResults, stepUps,  \* the latest of each that the client holds
          grants,       \* what the identity gate last allowed
          elevations    \* the recovery last allowed

identityGateState == <<edge, identity, idSession, gateRecords, factor,
                       challenges, mfaResults, stepUps, grants, elevations>>
identityGateVars == <<now, identityGateState>>

NotIssued == [status |-> "none", expiresAt |-> 0]
MFA_REQUIRED_ACTIONS == ActionClasses \ {"standard"}
STEP_UP_REQUIRED_ACTIONS == ActionClasses \cap {"permission_change", "recovery"}
AssuranceRank == [aal1 |-> 1, aal2 |-> 2, aal3 |-> 3]
AssuranceMeets(actual, required) == AssuranceRank[actual] >= AssuranceRank[required]

IdentityGateInit ==
    /\ edge = [r \in EdgeRequests |-> "raw"]
    /\ identity = [status |-> "active", risk |-> "low"]
    /\ idSession \in [state : {"active"}, expiresAt : {1, MaxClock + 1}, hijack : {FALSE}, risk : {"low"}]
    /\ gateRecords = [r \in EdgeRequests |-> {}]
    /\ factor \in [enabled : {TRUE}, level : {"aal1", "aal3"}]
    /\ challenges = [c \in MFA_REQUIRED_ACTIONS |-> NotIssued]
    /\ mfaResults = {} /\ stepUps = {} /\ grants = {} /\ elevations = {}

-----------------------------------------------------------------------------
(* The edge gate *)

\* What can be wrong with a raw request, and with the request to the gate.
EdgeFaults == {"unbranded", "method", "action class", "path", "body size", "map not entries",
               "too many entries", "malformed entry", "duplicate key", "entry too large",
               "fingerprint", "authentication", "context", "tenant"}
GateFaults == {"subject", "no session", "session subject", "binding"}
RecoveryFaults == {"not human", "same identity", "no reason", "no ticket", "no audit",
                   "other subject", "unbounded scope"}

\* normalizeStringMap, for headers and for query parameters alike.
NormalizeStringMap(d) ==
    FirstRefusal(<< Refuse(d, {"map not entries"}, "malformed_request"),
                    Refuse(d, {"too many entries"}, "payload_exceeded"),
                    Refuse(d, {"malformed entry", "duplicate key"}, "malformed_request"),
                    Refuse(d, {"entry too large"}, "payload_exceeded") >>, "ok")

\* normalizeRequest.  A path that is not absolute, is encoded or climbs is
\* refused in the same place as one that is too long.
NormalizeRequest(d) ==
    FirstRefusal(<< Refuse(d, {"method", "action class"}, "malformed_request"),
                    Refuse(d, {"path", "body size"}, "payload_exceeded"),
                    <<NormalizeStringMap(d) # "ok", NormalizeStringMap(d)>> >>, "ok")

\* evaluateEdgeSecurityGate up to the answer of the rate limiter (index.ts:187).
EdgeEnter(r, d, limiter) ==
    LET rejected == FirstRefusal(<< Refuse(d, {"unbranded"}, "malformed_request"),
                                    <<NormalizeRequest(d) # "ok", NormalizeRequest(d)>>,
                                    Refuse(d, {"fingerprint"}, "edge_gate_failure"),
                                    <<limiter = "throws", "edge_gate_failure">>,
                                    <<limiter = "DENY", "rate_limited">> >>, "ok")
    IN  /\ edge[r] = "raw"
        /\ edge' = [edge EXCEPT ![r] = IF rejected = "ok" THEN "limited" ELSE "denied"]
        /\ UNCHANGED <<now, identity, idSession, gateRecords, factor, challenges, mfaResults, stepUps, grants, elevations>>

\* The rest of it, from the answer of the abuse detector (index.ts:203).
EdgeLeave(r, d, abuse) ==
    LET rejected == FirstRefusal(<< <<abuse \in {"DENY", "UNKNOWN", "throws"}, "denied">>,
                                    <<abuse = "CHALLENGE", "challenged">>,
                                    Refuse(d, {"authentication", "context", "tenant"}, "denied") >>, "validated")
    IN  /\ edge[r] = "limited"
        /\ edge' = [edge EXCEPT ![r] = rejected]
        /\ UNCHANGED <<now, identity, idSession, gateRecords, factor, challenges, mfaResults, stepUps, grants, elevations>>

-----------------------------------------------------------------------------
(* Factors, challenges and their results *)

\* The host issues a challenge for one action class, and the factor answers.
IssueChallenge(c) ==
    /\ challenges[c].status = "none"
    /\ challenges' = [challenges EXCEPT ![c] = [status |-> "pending", expiresAt |-> now + MfaLife]]
    /\ UNCHANGED <<now, edge, identity, idSession, gateRecords, factor, mfaResults, stepUps, grants, elevations>>

AnswerChallenge(c, answer) ==
    /\ challenges[c].status = "pending"
    /\ challenges' = [challenges EXCEPT ![c].status = answer]
    /\ UNCHANGED <<now, edge, identity, idSession, gateRecords, factor, mfaResults, stepUps, grants, elevations>>

\* createMFAChallengeResult: null unless the challenge succeeded and is live.
CreateMFAChallengeResult(c, d) ==
    /\ challenges[c].status = "succeeded" /\ factor.enabled
    /\ d \cap {"other subject", "other factor"} = {}
    /\ Future(challenges[c].expiresAt)
    /\ mfaResults' = {[class |-> c, level |-> factor.level, expiresAt |-> now + MfaLife]}
    /\ UNCHANGED <<now, edge, identity, idSession, gateRecords, factor, challenges, stepUps, grants, elevations>>

\* createStepUpAuthenticationResult from an MFA result of the same class.
CreateStepUpAuthenticationResult(c, m, required) ==
    /\ m.class = c
    /\ AssuranceMeets(m.level, required)
    /\ Future(m.expiresAt)
    /\ stepUps' = {[class |-> c, level |-> m.level, expiresAt |-> now + MfaLife]}
    /\ UNCHANGED <<now, edge, identity, idSession, gateRecords, factor, challenges, mfaResults, grants, elevations>>

\* Variant that accepts a result of another action class.
IsValidForRequestAnyClass(result, c) ==
    /\ Future(result.expiresAt)
    /\ AssuranceMeets(result.level, "aal2")

IsValidForRequest(result, c) ==
    /\ result.class = c
    /\ Future(result.expiresAt)
    /\ AssuranceMeets(result.level, "aal2")

-----------------------------------------------------------------------------
(* The identity gate *)

\* The host loads the identity and the session for a request.  It does so once,
\* before it calls the gate, and nothing ties the copy to what happens later.
ReadRecords(r) ==
    /\ edge[r] = "validated" /\ gateRecords[r] = {}
    /\ gateRecords' = [gateRecords EXCEPT ![r] = {[identity |-> identity, session |-> idSession]}]
    /\ UNCHANGED <<now, edge, identity, idSession, factor, challenges, mfaResults, stepUps, grants, elevations>>

\* Variant that does not look at the hijack signal.
EvaluateIdentityGateTrusting(r, h, c, mfa, stepUp, d) ==
    FirstRefusal(
      << <<edge[r] # "validated" \/ h.identity.status # "active" \/ "subject" \in d, "authentication_failed">>,
         Refuse(d, {"no session"}, "unknown_session"),
         <<h.session.state = "revoked", "session_revoked">>,
         <<h.session.state = "expired" \/ ~Future(h.session.expiresAt), "session_expired">>,
         <<h.session.state # "active", "session_invalid">>,
         Refuse(d, {"session subject"}, "session_invalid"),
         <<c \in MFA_REQUIRED_ACTIONS /\ ~\E m \in mfa : IsValidForRequest(m, c), "mfa_required">>,
         <<c \in STEP_UP_REQUIRED_ACTIONS /\ ~\E s \in stepUp : IsValidForRequest(s, c), "step_up_required">>,
         <<{h.identity.risk, h.session.risk} \cap {"high", "critical"} # {}, "identity_risk_denied">>,
         Refuse(d, {"binding"}, "context_binding_failed") >>, "ALLOW")

\* evaluateIdentityGate for action class c: it judges the records h it is handed,
\* and the MFA and step-up results the request carries (sets of at most one).
EvaluateIdentityGate(r, h, c, mfa, stepUp, d) ==
    FirstRefusal(
      << <<edge[r] # "validated" \/ h.identity.status # "active" \/ "subject" \in d, "authentication_failed">>,
         Refuse(d, {"no session"}, "unknown_session"),
         <<h.session.state = "revoked", "session_revoked">>,
         <<h.session.state = "expired" \/ ~Future(h.session.expiresAt), "session_expired">>,
         <<h.session.state # "active", "session_invalid">>,
         <<h.session.hijack, "session_hijack_suspected">>,
         Refuse(d, {"session subject"}, "session_invalid"),
         <<c \in MFA_REQUIRED_ACTIONS /\ ~\E m \in mfa : IsValidForRequest(m, c), "mfa_required">>,
         <<c \in STEP_UP_REQUIRED_ACTIONS /\ ~\E s \in stepUp : IsValidForRequest(s, c), "step_up_required">>,
         <<{h.identity.risk, h.session.risk} \cap {"high", "critical"} # {}, "identity_risk_denied">>,
         Refuse(d, {"binding"}, "context_binding_failed") >>, "ALLOW")

PassIdentityGate(r, h, c, mfa, stepUp, d) ==
    LET verdict == EvaluateIdentityGate(r, h, c, mfa, stepUp, d)
    IN  /\ edge[r] = "validated" /\ h \in gateRecords[r]
        /\ edge' = [edge EXCEPT ![r] = IF verdict = "ALLOW" THEN "granted" ELSE "denied"]
        /\ grants' = IF verdict = "ALLOW"
                     THEN {[class |-> c, mfa |-> mfa, at |-> now]} ELSE grants
        /\ UNCHANGED <<now, identity, idSession, gateRecords, factor, challenges, mfaResults, stepUps, elevations>>

\* evaluateBreakGlassRecoveryRequest: requestedAt and expiresAt come from the
\* request, approvals is the list of approvals it carries (a tuple of people).
EvaluateBreakGlassRecoveryRequest(requestedAt, expiresAt, m, approvals, d) ==
    FirstRefusal(
      << Refuse(d, {"not human", "same identity", "no reason", "no ticket"}, "DENY"),
         <<~Future(expiresAt), "DENY">>,
         <<~(expiresAt > requestedAt /\ expiresAt - requestedAt <= MaxElevation), "DENY">>,
         Refuse(d, {"no audit"}, "DENY"),
         <<m.level # "aal3" \/ ~Future(m.expiresAt) \/ "other subject" \in d, "DENY">>,
         Refuse(d, {"unbounded scope"}, "DENY"),
         <<Len(approvals) < MinimumApprovals, "REQUIRES_APPROVAL">> >>, "ALLOW")

BreakGlassRecovery(requestedAt, expiresAt, m, approvals, d) ==
    /\ EvaluateBreakGlassRecoveryRequest(requestedAt, expiresAt, m, approvals, d) = "ALLOW"
    /\ elevations' = {[at |-> now, until |-> expiresAt, mfa |-> m,
                       by |-> {approvals[i] : i \in DOMAIN approvals}]}
    /\ UNCHANGED <<now, edge, identity, idSession, gateRecords, factor, challenges, mfaResults, stepUps, grants>>

-----------------------------------------------------------------------------
(* What changes underneath a request *)

\* What the gate asks of an identity and its session (index.ts:367 to 429).
GoodRecords(i, s) == /\ i.status = "active" /\ s.state = "active" /\ ~s.hijack
                     /\ {i.risk, s.risk} \cap {"high", "critical"} = {}

Standing == GoodRecords(identity, idSession)

\* One of them is enough to lose the standing, so a behaviour has one.
StandingChanges ==
    /\ Standing /\ factor.enabled
    /\ \/ /\ identity' \in {[identity EXCEPT !.status = "suspended"], [identity EXCEPT !.risk = "high"]}
          /\ UNCHANGED <<idSession, factor>>
       \/ /\ idSession' \in {[idSession EXCEPT !.state = "revoked"], [idSession EXCEPT !.hijack = TRUE],
                            [idSession EXCEPT !.risk = "critical"]}
          /\ UNCHANGED <<identity, factor>>
       \/ factor' = [factor EXCEPT !.enabled = FALSE] /\ UNCHANGED <<identity, idSession>>
    /\ UNCHANGED <<now, edge, gateRecords, challenges, mfaResults, stepUps, grants, elevations>>

IdentityTick == Tick /\ UNCHANGED <<edge, identity, idSession, gateRecords, factor, challenges,
                                    mfaResults, stepUps, grants, elevations>>

MfaSteps ==
    \/ \E c \in MFA_REQUIRED_ACTIONS :
          \/ IssueChallenge(c)
          \/ \E a \in {"succeeded", "failed"} : AnswerChallenge(c, a)
          \/ \E d \in AtMostOne({"other subject", "other factor"}) : CreateMFAChallengeResult(c, d)
    \/ StandingChanges
    \/ IdentityTick

GateSteps ==
    \/ MfaSteps
    \/ \E c \in ActionClasses, m \in mfaResults : CreateStepUpAuthenticationResult(c, m, "aal2")
    \/ \E r \in EdgeRequests :
          \/ \E d \in AtMostOne(EdgeFaults), l \in {"ALLOW", "DENY", "throws"} : EdgeEnter(r, d, l)
          \/ \E d \in AtMostOne(EdgeFaults), a \in {"ALLOW", "CHALLENGE", "DENY", "UNKNOWN", "throws"} :
                EdgeLeave(r, d, a)
          \/ ReadRecords(r)
          \/ \E h \in gateRecords[r], c \in ActionClasses, mfa \in AtMostOne(mfaResults), s \in AtMostOne(stepUps),
                d \in AtMostOne(GateFaults) : PassIdentityGate(r, h, c, mfa, s, d)

\* The times a recovery request names are its author's: they may lie ahead of the
\* clock, and past the clock's own bound.
RequestTimes == 0..(MaxClock + 1)

\* A recovery does not pass the identity gate: it is decided on its own.
RecoverySteps ==
    \/ MfaSteps
    \/ \E m \in mfaResults, from, to \in RequestTimes, n \in 0..MinimumApprovals,
          d \in AtMostOne(RecoveryFaults) :
          \E approvals \in [1..n -> Approvers] : BreakGlassRecovery(from, to, m, approvals, d)

IdentityGateSteps == GateSteps \/ RecoverySteps

IdentityGateSpec == now = 0 /\ IdentityGateInit /\ [][IdentityGateSteps]_identityGateVars

-----------------------------------------------------------------------------

\* A request is at one of the known stages, and only classes that need a factor
\* have results.
IdentityGateTypeOK ==
    /\ edge \in [EdgeRequests -> {"raw", "limited", "validated", "challenged", "denied", "granted"}]
    /\ \A m \in mfaResults \cup stepUps : m.class \in MFA_REQUIRED_ACTIONS

\* What backs a privileged grant: its factor answered a challenge for this very
\* class, strongly enough, and the result had not run out when it was used
\* (isValidMFAForRequest, createMFAChallengeResult).
GrantBacked ==
    \A g \in grants : g.class # "standard" =>
        \E m \in g.mfa : /\ m.class = g.class /\ challenges[g.class].status = "succeeded"
                         /\ m.level # "aal1" /\ m.expiresAt > g.at

\* A step-up never outlives the chain it rests on: every grant of a step-up
\* class happens within one lifetime of a live MFA result of an answered
\* challenge, although step-up results are renewed from MFA results
\* (createStepUpAuthenticationResult sets a fresh expiry).
ChallengeRecent ==
    \A g \in grants : g.class # "standard" => g.at < challenges[g.class].expiresAt + MfaLife

\* The requests whose loaded records would still pass.
MayPass == {r \in EdgeRequests : \E h \in gateRecords[r] :
               GoodRecords(h.identity, h.session) /\ Future(h.session.expiresAt)}

\* A suspension, a revocation or a suspected hijack reaches every request whose
\* records were loaded after it: only requests with records that would pass are
\* granted, and once the standing is lost there are no new ones.  A request whose
\* records were loaded before is still granted: the gate asks no store.
NoStaleGrant ==
    /\ \A r \in EdgeRequests : edge[r] # "granted" /\ edge'[r] = "granted" => r \in MayPass
    /\ ~Standing => MayPass' \subseteq MayPass

\* A recovery rests on the strongest factor: at the moment it was allowed its MFA
\* result was alive and answered a challenge at most one lifetime old, and the
\* elevation ends after that moment.  The result may be of any action class.
RecoveryBacked ==
    \A e \in elevations :
        /\ e.mfa.level = "aal3" /\ e.mfa.expiresAt > e.at /\ e.until > e.at
        /\ challenges[e.mfa.class].status = "succeeded"
        /\ e.at < challenges[e.mfa.class].expiresAt + MfaLife

\* index.ts:495: "Recovery elevation must be short-lived."  It does not hold of the
\* code: isShortLived compares the two times of the request with each other and
\* neither with the clock, so a request dated ahead gives an elevation that ends
\* later than MaxElevation from now (README, section 5).  It is part of no run.
ElevationShort == \A e \in elevations : e.until - e.at <= MaxElevation

\* docs/005_ROADMAP.md:88 asks for "multi-person approval support": the
\* approvals that allow a recovery are those of different people.  It does not
\* hold of the code (README, section 5) and is part of no run.
MultiPersonApproval == \A e \in elevations : Cardinality(e.by) >= MinimumApprovals

\* What the edge and identity gates allow is backed by a recent answer of a factor:
\* a privileged grant by one for its class, a recovery by one of the strongest level.
IdentityGateSafe ==
    /\ IdentityGateTypeOK
    /\ GrantBacked
    /\ ChallengeRecent
    /\ RecoveryBacked
=============================================================================
