---------------------------- MODULE ContentScreen ----------------------------
(* Content on its way into an agent's prompt: detection, content trust, the   *)
(* prompt firewall, quarantine, trust promotion, and the agent-safety gate    *)
(* that classifies what the agent then proposes                               *)
(* (packages/detection, content-trust, prompt-firewall and agent-safety).     *)
(* The packages decide; the host that calls them (external) quarantines,      *)
(* frames, promotes and spends the promotion nonce.                           *)
EXTENDS Requests

CONSTANTS
    Layers,             \* how many layers of base64 a text may be wrapped in
    PromotionNonces,    \* nonces of promotion requests
    Promoters           \* hosts that handle a promotion request concurrently

ASSUME ContentScreenAssumption == Layers \subseteq Nat /\ IsFiniteSet(Promoters)

VARIABLES
    content,        \* the content under way: text, source level, subject actor
    screened,       \* the firewall's last verdict on it
    quarantined,    \* it is wrapped in a quarantine envelope
    isolatedBefore, \* history: it has been in quarantine
    released,       \* history: who released it from quarantine
    frames,         \* prompt frames it was put in
    recommended,    \* promotion recommended to a host, not yet spent
    spent,          \* #spent of the promotion nonce store
    promotions,     \* promotions a host went through with, per nonce
    down,           \* dependencies that are not READY
    agentLevel,     \* the agent's trust level
    grantedLevel,   \* history: the last level a human assigned
    proposals       \* the last proposal the safety gate answered (none or one)

screenVars == <<content, screened, quarantined, isolatedBefore, released, frames>>
promotionVars == <<recommended, spent, promotions>>
agentVars == <<agentLevel, grantedLevel, proposals>>
contentState == <<screenVars, promotionVars, down, agentVars>>

--------------------------------------------------------------------------------
\* Readiness: the critical dependencies of the four packages.

CRITICAL_DEPENDENCIES ==
    [content_trust   |-> {"classifier", "detection_provider", "audit_ledger",
                          "policy_source", "trusted_clock"},
     detection       |-> {"detector", "audit_ledger", "policy_source", "trusted_clock"},
     prompt_firewall |-> {"normalizer", "injection_classifier", "content_trust",
                          "detection_provider", "audit_ledger", "trusted_clock"},
     agent_safety    |-> {"policy_source", "approval_channel", "audit_ledger",
                          "trusted_clock"}]

Dependencies == UNION {CRITICAL_DEPENDENCIES[p] : p \in DOMAIN CRITICAL_DEPENDENCIES}

\* The host hands each gate the readiness of its package.
IsReady(package) ==
    Readiness(CRITICAL_DEPENDENCIES[package],
              [dep \in Dependencies |-> IF dep \in down THEN "FAILED" ELSE "READY"],
              TRUE, TRUE) = "READY"

--------------------------------------------------------------------------------
\* Detection.

DetectionVerdicts == {"CLEAN", "SUSPICIOUS", "MALICIOUS", "REJECTED", "QUARANTINE_REQUIRED",
                      "HUMAN_REVIEW_REQUIRED", "LOCKDOWN_RECOMMENDED",
                      "EVIDENCE_INSUFFICIENT", "SYSTEM_NOT_READY"}

\* Scores in hundredths; what levelForScore makes of them.
ConfidenceScores == {0, 33, 34, 100}
LevelForScore(score) ==
    FirstRefusal(<< <<score = 0, "NONE">>, <<score < 34, "LOW">>, <<score < 67, "MEDIUM">>,
                    <<score < 100, "HIGH">> >>, "CONFIRMED")
IsLowConfidence(score) == LevelForScore(score) \in {"NONE", "LOW"}

\* What a provider may recommend (it is injected: any verdict); one that is not
\* ready, or is given another scope's input, answers as the fake provider does.
DetectionEvaluate(d) ==
    IF ~IsReady("detection") THEN {[verdict |-> "SYSTEM_NOT_READY", score |-> 0]}
    ELSE IF d \cap {"tenant", "workspace"} # {}
         THEN {[verdict |-> "EVIDENCE_INSUFFICIENT", score |-> 0]}
         ELSE [verdict : {"CLEAN"}, score : ConfidenceScores]
              \cup [verdict : DetectionVerdicts \ {"CLEAN"}, score : {100}]

CriticalFlowDisposition(decision) ==
    CASE decision.verdict \in {"MALICIOUS", "REJECTED", "LOCKDOWN_RECOMMENDED"} -> "MUST_DENY"
      [] decision.verdict \in {"HUMAN_REVIEW_REQUIRED", "SUSPICIOUS"} -> "MUST_ESCALATE"
      [] decision.verdict = "CLEAN" /\ ~IsLowConfidence(decision.score) -> "PENDING_GOVERNANCE"
      [] OTHER -> "MUST_QUARANTINE"

--------------------------------------------------------------------------------
\* Content trust.

\* From the least to the most restrictive.
RESTRICTIVENESS ==
    <<"TRUSTED_SYSTEM_CONTENT", "VERIFIED_USER_CONTENT", "UNTRUSTED_EXTERNAL_CONTENT",
      "HUMAN_REVIEW_REQUIRED", "CONTEXT_MISMATCH", "PROVENANCE_MISSING", "SUSPICIOUS_CONTENT",
      "QUARANTINE_REQUIRED", "TENANT_MISMATCH", "MALICIOUS_CONTENT", "SYSTEM_NOT_READY">>

RankIn(order, verdict) == CHOOSE i \in DOMAIN order : order[i] = verdict

MoreRestrictive(a, b) ==
    IF RankIn(RESTRICTIVENESS, a) >= RankIn(RESTRICTIVENESS, b) THEN a ELSE b

ContentTrustLevels == {"SYSTEM", "VERIFIED_HUMAN", "UNTRUSTED"}

SourceVerdict(level) ==
    CASE level = "SYSTEM" -> "TRUSTED_SYSTEM_CONTENT"
      [] level = "VERIFIED_HUMAN" -> "VERIFIED_USER_CONTENT"
      [] level = "UNTRUSTED" -> "UNTRUSTED_EXTERNAL_CONTENT"

DetectionToContentVerdict(decision) ==
    CASE CriticalFlowDisposition(decision) = "MUST_DENY" -> "MALICIOUS_CONTENT"
      [] CriticalFlowDisposition(decision) = "MUST_QUARANTINE" -> "QUARANTINE_REQUIRED"
      [] CriticalFlowDisposition(decision) = "MUST_ESCALATE" -> "HUMAN_REVIEW_REQUIRED"
      [] OTHER -> "UNTRUSTED_EXTERNAL_CONTENT"

\* The provenance's scope is the request's unless the fault says otherwise.
EvaluateContentTrust(c, d, detection) ==
    FirstRefusal(<<
        <<~IsReady("content_trust"), "SYSTEM_NOT_READY">>,
        Refuse(d, {"tenant"}, "TENANT_MISMATCH"),
        Refuse(d, {"workspace"}, "CONTEXT_MISMATCH"),
        Refuse(d, {"oversized"}, "QUARANTINE_REQUIRED"),
        Refuse(d, {"no_provenance"}, "PROVENANCE_MISSING") >>,
        MoreRestrictive(SourceVerdict(c.level), DetectionToContentVerdict(detection)))

--------------------------------------------------------------------------------
\* The prompt firewall.

MAX_DECODE_DEPTH == 4

\* A text: the layers of base64 tryBase64 can peel off it, whether what is under
\* them matches a pattern of the injection screen, and the marks normalizeContent
\* finds on its outside.
Texts == [layers : Layers, injected : BOOLEAN,
          marks : AtMostOne({"zero_width", "bidi", "homoglyph"})]

\* boundedDecode peels at most MAX_DECODE_DEPTH layers, then looks for one more.
BoundedDecode(text) ==
    LET peeled == IF text.layers < MAX_DECODE_DEPTH THEN text.layers ELSE MAX_DECODE_DEPTH
    IN  [layers |-> peeled, rest |-> text.layers - peeled,
         status |-> IF text.layers > peeled THEN "OVER_DEPTH"
                    ELSE IF peeled = 0 THEN "NO_ENCODING" ELSE "DECODED"]

\* A pattern shows only in text with no layer left.
ReferenceInjectionScreen(text, decoded) ==
    IF text.injected /\ decoded.rest = 0 THEN "MALICIOUS" ELSE "CLEAN"

FirewallOrder == <<"ALLOW_AS_DATA", "ALLOW_WITH_REDACTION", "REQUIRE_HUMAN_REVIEW",
                   "QUARANTINE", "REJECT", "SECURITY_LOCKDOWN">>

\* Variant that keeps the less restrictive of two verdicts.
MoreRestrictiveVerdictSwapped(a, b) ==
    IF RankIn(FirewallOrder, a) >= RankIn(FirewallOrder, b) THEN b ELSE a

MoreRestrictiveVerdict(a, b) ==
    IF RankIn(FirewallOrder, a) >= RankIn(FirewallOrder, b) THEN a ELSE b

\* What the firewall makes of a content-trust verdict.
ContentTrustAsFirewallVerdict(ct) ==
    CASE ct \in {"MALICIOUS_CONTENT", "TENANT_MISMATCH"} -> "REJECT"
      [] ct \in {"QUARANTINE_REQUIRED", "SYSTEM_NOT_READY", "PROVENANCE_MISSING"} -> "QUARANTINE"
      [] ct \in {"SUSPICIOUS_CONTENT", "HUMAN_REVIEW_REQUIRED", "CONTEXT_MISMATCH"} ->
            "REQUIRE_HUMAN_REVIEW"
      [] OTHER -> "ALLOW_AS_DATA"

EvaluatePromptFirewall(c, d, detection) ==
    LET decoded == BoundedDecode(c.text)
        screen == IF ReferenceInjectionScreen(c.text, decoded) = "MALICIOUS" THEN "REJECT"
                  ELSE IF c.text.marks # {} \/ decoded.layers > 0
                       THEN MoreRestrictiveVerdict("ALLOW_AS_DATA", "REQUIRE_HUMAN_REVIEW")
                       ELSE "ALLOW_AS_DATA"
    IN  FirstRefusal(<<
            <<~IsReady("prompt_firewall"), "QUARANTINE">>,
            Refuse(d, {"tenant", "workspace"}, "REJECT"),
            Refuse(d, {"oversized"}, "QUARANTINE"),
            <<decoded.status = "OVER_DEPTH", "QUARANTINE">>,
            <<"bidi" \in c.text.marks, "QUARANTINE">> >>,
            MoreRestrictiveVerdict(screen,
                ContentTrustAsFirewallVerdict(EvaluateContentTrust(c, d, detection))))

ScreenFaults == {"tenant", "workspace", "oversized", "no_provenance"}

\* The host screens the content, wraps what must be quarantined in an envelope
\* and remembers the verdict.
ScreenContent ==
    \E d \in AtMostOne(ScreenFaults) :
        \E detection \in DetectionEvaluate(d) :
            LET verdict == EvaluatePromptFirewall(content, d, detection)
            IN  /\ screened' = verdict
                /\ quarantined' = (quarantined \/ verdict = "QUARANTINE")
                /\ isolatedBefore' = (isolatedBefore \/ verdict = "QUARANTINE")
                /\ UNCHANGED <<content, released, frames>>

\* validatePromptFrame on a frame with one instruction and the content as data.
ValidatePromptFrame(c, instruction) ==
    FirstRefusal(<< <<instruction = "unverified", "UNVERIFIED_INSTRUCTION">>,
                    <<instruction = "empty", "EMPTY_INSTRUCTION_REF">>,
                    <<c.level = "SYSTEM", "DATA_MARKED_TRUSTED">> >>, "VALID")

\* Content that was admitted as data and is in no envelope goes into a frame.
FrameContent ==
    /\ screened = "ALLOW_AS_DATA" /\ ~quarantined
    /\ \E instruction \in {"verified", "unverified", "empty"} :
        /\ ValidatePromptFrame(content, instruction) = "VALID"
        /\ frames' = frames \cup {[isolatedBefore |-> isolatedBefore, instruction |-> instruction]}
    /\ UNCHANGED <<content, screened, quarantined, isolatedBefore, released>>

Actors == [kind : {"HUMAN", "AGENT", "DIGITAL_EMPLOYEE", "SERVICE", "SYSTEM"}, subject : BOOLEAN]

\* by.subject: the actor is the one the content is about (subjectActor).
EvaluateClearQuarantine(by) ==
    FirstRefusal(<< <<by.kind \in {"AGENT", "DIGITAL_EMPLOYEE"}, "AI_CANNOT_CLEAR_QUARANTINE">>,
                    <<by.kind # "HUMAN", "NOT_HUMAN">>,
                    <<by.subject, "REQUESTER_IS_SUBJECT">> >>, "CLEARED")

ClearQuarantine ==
    /\ quarantined
    /\ \E by \in Actors :
        /\ EvaluateClearQuarantine(by) = "CLEARED"
        /\ released' = released \cup {by}
    /\ quarantined' = FALSE
    /\ UNCHANGED <<content, screened, isolatedBefore, frames>>

\* classifyFailure: the containment of a failure of the agent that was fed the
\* content; an unknown mode is contained as UNKNOWN.
CONTAINMENT ==
    [WRONG_DECISION |-> "REQUIRE_HUMAN_REVIEW", WRONG_TOOL_USE |-> "STOP_AGENT",
     WRONG_DATA_READ |-> "REQUIRE_HUMAN_REVIEW", PROMPT_INJECTION |-> "QUARANTINE",
     MEMORY_POISONING |-> "QUARANTINE", PRIVILEGE_OVERREACH |-> "STOP_AGENT",
     TENANT_ISOLATION_BREACH |-> "LOCKDOWN_RECOMMENDED", UNKNOWN |-> "QUARANTINE"]

ClassifyFailure(mode) == CONTAINMENT[IF mode \in DOMAIN CONTAINMENT THEN mode ELSE "UNKNOWN"]

FailureModes == DOMAIN CONTAINMENT \cup {"unlisted"}

\* A failure contained by quarantine isolates the content, one contained by
\* stopping the agent or by a lockdown takes its level away.
FailureIsolates ==
    /\ \E mode \in FailureModes : ClassifyFailure(mode) = "QUARANTINE"
    /\ quarantined' = TRUE /\ isolatedBefore' = TRUE
    /\ UNCHANGED <<content, screened, released, frames>>

FailureStops ==
    /\ \E mode \in FailureModes : ClassifyFailure(mode) \in {"STOP_AGENT", "LOCKDOWN_RECOMMENDED"}
    /\ agentLevel' = 0
    /\ UNCHANGED <<grantedLevel, proposals>>

--------------------------------------------------------------------------------
\* Trust promotion: evaluated against the nonces seen, spent afterwards.

PromotionFaults == {"missing", "direction", "tenant", "context", "expired", "approval", "self"}

EvaluatePromotion(nonce, critical, d) ==
    FirstRefusal(<<
        Refuse(d, {"missing"}, "PROMOTION_MISSING"),
        Refuse(d, {"direction"}, "INVALID_DIRECTION"),
        Refuse(d, {"tenant"}, "TENANT_MISMATCH"),
        Refuse(d, {"context"}, "CONTEXT_MISMATCH"),
        Refuse(d, {"expired"}, "PROMOTION_EXPIRED"),
        <<nonce \in spent, "PROMOTION_REPLAYED">>,
        <<critical /\ "approval" \in d, "HUMAN_APPROVAL_REQUIRED">>,
        <<critical /\ "self" \in d, "SELF_APPROVAL_DENIED">> >>, "PROMOTION_RECOMMENDED")

RequestPromotion(h) ==
    /\ recommended[h] = {}
    /\ \E nonce \in PromotionNonces, critical \in BOOLEAN, d \in AtMostOne(PromotionFaults) :
        /\ EvaluatePromotion(nonce, critical, d) = "PROMOTION_RECOMMENDED"
        /\ recommended' = [recommended EXCEPT ![h] = {nonce}]
    /\ UNCHANGED <<spent, promotions>>

\* InMemoryPromotionNonceStore.consume
Consume(nonce) ==
    [answer |-> IF nonce \in spent THEN "REPLAYED" ELSE "CONSUMED",
     spent |-> spent \cup {nonce}]

\* The host spends the nonce of the recommendation it holds; told REPLAYED, it
\* drops the recommendation.
SpendPromotion(h) ==
    /\ \E nonce \in recommended[h] :
        /\ spent' = Consume(nonce).spent
        /\ promotions' = [promotions EXCEPT ![nonce] =
                            @ + (IF Consume(nonce).answer = "CONSUMED" THEN 1 ELSE 0)]
    /\ recommended' = [recommended EXCEPT ![h] = {}]

--------------------------------------------------------------------------------
\* Agent safety: levels 0 (observer) to 3 (autonomous executor).

AgentLevels == 0..3

ProfileForLevel(level) ==
    [mayHaveExternalEffect |-> level >= 2, requiresPolicy |-> level >= 2,
     requiresMultiApproval |-> level = 3, requiresAudit |-> TRUE]

AgentActions == {"ANALYZE", "RECOMMEND", "PREPARE_ACTION", "EXECUTE_ACTION",
                 "EXECUTE_HIGH_AUTHORITY", "SELF_ESCALATE_AUTHORITY", "CLEAR_OWN_QUARANTINE",
                 "DELETE_AUDIT", "BYPASS_HUMAN_APPROVAL", "unlisted"}

ABSOLUTE_DENY == {"SELF_ESCALATE_AUTHORITY", "CLEAR_OWN_QUARANTINE", "DELETE_AUDIT",
                  "BYPASS_HUMAN_APPROVAL"}

IsAgentActor(kind) == kind \in {"AGENT", "DIGITAL_EMPLOYEE"}

EvaluateAgentSafety(kind, level, action, d) ==
    LET profile == ProfileForLevel(level)
        passive == action \in {"ANALYZE", "RECOMMEND"}
        effect == action \in {"PREPARE_ACTION", "EXECUTE_ACTION", "EXECUTE_HIGH_AUTHORITY"}
    IN  FirstRefusal(<<
            <<action \in ABSOLUTE_DENY, "DENIED">>,
            <<~IsReady("agent_safety"), "STOP_REQUIRED">>,
            Refuse(d, {"tenant"}, "DENIED"),
            <<~passive /\ profile.requiresAudit /\ "audit" \in d, "STOP_REQUIRED">>,
            <<level = 3 /\ action \in {"EXECUTE_ACTION", "EXECUTE_HIGH_AUTHORITY"},
              "MULTI_APPROVAL_REQUIRED">>,
            <<action = "ANALYZE", "ALLOWED_AS_ANALYSIS">>,
            <<action = "RECOMMEND" /\ level = 0, "DENIED">>,
            <<action = "RECOMMEND", "RECOMMENDATION_ONLY">>,
            <<~effect \/ ~profile.mayHaveExternalEffect, "DENIED">>,
            <<profile.requiresPolicy /\ "policy" \in d, "DENIED">>,
            <<IsAgentActor(kind) /\ (action = "EXECUTE_HIGH_AUTHORITY" \/ profile.requiresMultiApproval),
              "MULTI_APPROVAL_REQUIRED">> >>, "HUMAN_APPROVAL_REQUIRED")

\* The agent's proposal is answered; the answer is kept with the level a human
\* last gave it.
Propose ==
    /\ \E action \in AgentActions, d \in AtMostOne({"tenant", "audit", "policy"}) :
        proposals' =
            {[granted |-> grantedLevel,
              answer |-> EvaluateAgentSafety("AGENT", agentLevel, action, d)]}
    /\ UNCHANGED <<agentLevel, grantedLevel>>

AssertNoSelfRaise(proposed, byAgent) == ~(byAgent /\ proposed > agentLevel)

AssignLevel ==
    /\ \E proposed \in AgentLevels, byAgent \in BOOLEAN :
        /\ AssertNoSelfRaise(proposed, byAgent)
        /\ agentLevel' = proposed
        /\ grantedLevel' = IF byAgent THEN grantedLevel ELSE proposed
    /\ UNCHANGED proposals

\* A dependency fails or comes back (external).
DependencyChanges ==
    \E dep \in Dependencies : down' = IF dep \in down THEN {} ELSE {dep}

--------------------------------------------------------------------------------
ContentScreenInit ==
    /\ content \in [text : Texts, level : ContentTrustLevels]
    /\ screened = "none" /\ quarantined = FALSE /\ isolatedBefore = FALSE
    /\ released = {} /\ frames = {}
    /\ recommended = [h \in Promoters |-> {}] /\ spent = {}
    /\ promotions = [n \in PromotionNonces |-> 0]
    /\ down = {}
    /\ agentLevel = 0 /\ grantedLevel = 0 /\ proposals = {}

\* Screening, promotion and agent safety share only the readiness, so each is
\* explored with the others at rest.
ScreenSteps ==
    /\ \/ /\ ScreenContent \/ FrameContent \/ ClearQuarantine \/ FailureIsolates
          /\ UNCHANGED down
       \/ DependencyChanges /\ UNCHANGED screenVars
    /\ UNCHANGED <<promotionVars, agentVars, now>>

PromotionSteps ==
    /\ \E h \in Promoters : RequestPromotion(h) \/ SpendPromotion(h)
    /\ UNCHANGED <<screenVars, down, agentVars, now>>

AgentSafetySteps ==
    /\ \/ /\ Propose \/ AssignLevel \/ FailureStops
          /\ UNCHANGED down
       \/ DependencyChanges /\ UNCHANGED agentVars
    /\ UNCHANGED <<screenVars, promotionVars, now>>

ContentScreenSteps == ScreenSteps \/ PromotionSteps \/ AgentSafetySteps

ContentScreenSpec == now = 0 /\ ContentScreenInit /\ [][ContentScreenSteps]_<<now, contentState>>

--------------------------------------------------------------------------------
FirewallVerdicts == {FirewallOrder[i] : i \in DOMAIN FirewallOrder}

\* The variables keep the shape the packages' records have.
ContentScreenTypeOK ==
    /\ content \in [text : Texts, level : ContentTrustLevels]
    /\ screened \in FirewallVerdicts \cup {"none"}
    /\ quarantined \in BOOLEAN /\ isolatedBefore \in BOOLEAN
    /\ released \subseteq Actors
    /\ frames \subseteq [isolatedBefore : BOOLEAN, instruction : {"verified", "unverified", "empty"}]
    /\ \A h \in Promoters : recommended[h] \subseteq PromotionNonces
    /\ spent \subseteq PromotionNonces /\ promotions \in [PromotionNonces -> 0..Cardinality(Promoters)]
    /\ down \in AtMostOne(Dependencies)
    /\ agentLevel \in AgentLevels /\ grantedLevel \in AgentLevels

\* Whatever detection recommended and whichever dependency failed in between,
\* content that reached a prompt frame hides no instruction: its text matches no
\* pattern under any layer of encoding, carries no evasion mark and is not
\* labelled SYSTEM.
FramedIsClean ==
    frames # {} =>
        /\ ~content.text.injected /\ content.text.layers = 0 /\ content.text.marks = {}
        /\ content.level # "SYSTEM"
        /\ \A f \in frames : f.instruction = "verified"

\* Content that was ever isolated reaches a frame only after a human other than
\* its subject has released it; neither a later clean screening nor an agent does.
ReleasedByHuman ==
    (\E f \in frames : f.isolatedBefore) =>
        \E by \in released : by.kind = "HUMAN" /\ ~by.subject

\* A promotion nonce promotes once, although two hosts may hold a recommendation
\* for it, both made before either spent it.
PromotedOnce == \A n \in PromotionNonces : promotions[n] <= 1

\* However the agent moves through its levels, what is put before a human as an
\* effect was proposed at a level no higher than a human gave it.
EffectsWithinGrant ==
    \A p \in proposals :
        p.answer \in {"HUMAN_APPROVAL_REQUIRED", "MULTI_APPROVAL_REQUIRED"} =>
            ProfileForLevel(p.granted).mayHaveExternalEffect

\* Framed content is clean, quarantine is left by a human's decision only, a
\* promotion is spent once, and effects stay within the level a human granted.
ContentScreenSafe ==
    /\ ContentScreenTypeOK
    /\ FramedIsClean
    /\ ReleasedByHuman
    /\ PromotedOnce
    /\ EffectsWithinGrant
=============================================================================
