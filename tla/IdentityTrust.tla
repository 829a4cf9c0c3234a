----------------------------- MODULE IdentityTrust ----------------------------
(* identity-trust/src: who a request comes from and what it may carry.        *)
(* Principals, credentials, tokens, evidence and trust chains are verified by *)
(* pure gates; sessions, revocations and used token ids are stores.  The host *)
(* reads a session, waits for its adapters and then decides on the copy it    *)
(* read; logins, rotations, revocations and recoveries go on meanwhile.       *)
EXTENDS Requests

CONSTANTS Persons,          \* principals
          Agents,           \* those of an AI type (AI_TYPES)
          SessionIds, Jtis, Claims,
          SessionLife, AbsoluteLife, IdleTimeout,
          MaxDepth,         \* maxDepth of a delegation
          Root, MaxLinks,   \* bound: who starts delegating, links granted
          BreakGlassMax,    \* BREAK_GLASS_MAX_MS
          NoSession

ASSUME IdentityTrustAssumption ==
    /\ Agents \subseteq Persons /\ Root \in Persons
    /\ {MaxClock, SessionLife, AbsoluteLife, IdleTimeout, MaxDepth, MaxLinks, BreakGlassMax} \subseteq Nat

VARIABLES principal,    \* [Persons -> status]
          credential,   \* [Persons -> [status, expiresAt]]
          anchor, device,
          revokedIds,   \* InMemoryRevocationStore
          sessions,     \* InMemorySessionStore
          reading,      \* sessions read by accesses that have not decided yet
          seenJti, jtiUses,
          overstayed,   \* an access was served by a session past its limits
          lateServes,   \* [SessionIds -> accesses served by a session no longer active]
          delegations,  \* granted links [chain, to, claims]
          evidenceUsed, \* the evidence of a recovery
          glass         \* break-glass grants in force

standingVars == <<principal, credential, anchor, device, revokedIds>>
accessVars == <<sessions, reading, seenJti, jtiUses, overstayed, lateServes>>
grantVars == <<delegations, evidenceUsed, glass>>
trustState == <<standingVars, accessVars, grantVars>>
trustVars == <<now, trustState>>

PrincipalStatus == {"active", "suspended", "revoked", "deleted"}
SessionState == {"CREATED", "ACTIVE", "IDLE", "STEP_UP_REQUIRED", "SUSPENDED",
                 "REVOKED", "EXPIRED", "TERMINATED"}
Session(p) == [state |-> "ACTIVE", owner |-> p, lastVerified |-> now,
               expiresAt |-> now + SessionLife, absolute |-> now + AbsoluteLife]

\* What the store can hold: nothing moves a session to another state.
SessionRecords == [state : {"ACTIVE", "REVOKED", "TERMINATED"}, owner : Persons,
                   lastVerified : Nat, expiresAt : Nat, absolute : Nat]

ASSUME NoSessionAssumption == NoSession \notin SessionRecords

IdentityTrustInit ==
    /\ principal = [p \in Persons |-> "active"]
    /\ credential = [p \in Persons |-> [status |-> "active", expiresAt |-> MaxClock]]
    /\ anchor = "trusted" /\ device = "trusted" /\ revokedIds = {}
    /\ sessions = [s \in SessionIds |-> NoSession] /\ reading = {}
    /\ seenJti = {} /\ jtiUses = [j \in Jtis |-> 0]
    /\ overstayed = FALSE /\ lateServes = [s \in SessionIds |-> 0] /\ delegations = {} /\ evidenceUsed = FALSE /\ glass = {}

-----------------------------------------------------------------------------
(* The gates *)

ResolvePrincipal(p, d) ==
    FirstRefusal(<< Refuse(d, {"unknown principal"}, "UNKNOWN_PRINCIPAL"),
                    Refuse(d, {"unknown type"}, "UNKNOWN_TYPE"),
                    <<principal[p] = "deleted", "DELETED">>,
                    <<principal[p] = "revoked", "REVOKED">>,
                    <<principal[p] # "active", "STATUS_INVALID">>,
                    Refuse(d, {"principal expired"}, "EXPIRED"),
                    Refuse(d, {"tenant"}, "TENANT_MISMATCH"),
                    <<p \in Agents /\ "claims human" \in d, "HUMAN_MASQUERADE">> >>, "RESOLVED")

VerifyCredential(p, d) ==
    FirstRefusal(<< Refuse(d, {"malformed"}, "MALFORMED"),
                    Refuse(d, {"no expiry"}, "NO_EXPIRY"),
                    <<credential[p].status = "revoked" \/ <<"credential", p>> \in revokedIds, "REVOKED">>,
                    <<~Future(credential[p].expiresAt) \/ credential[p].status = "expired", "EXPIRED">>,
                    Refuse(d, {"tenant"}, "TENANT_MISMATCH"),
                    Refuse(d, {"other principal"}, "PRINCIPAL_MISMATCH"),
                    Refuse(d, {"wildcard"}, "WILDCARD_DENIED"),
                    <<p \in Agents /\ "claims human" \in d, "TYPE_MISUSE">> >>, "VERIFIED")

VerifyEvidence(d) ==
    FirstRefusal(<< Refuse(d, {"malformed"}, "MALFORMED"),
                    Refuse(d, {"issuer"}, "ISSUER_UNTRUSTED"),
                    Refuse(d, {"evidence revoked"}, "REVOKED"),
                    Refuse(d, {"evidence expired"}, "EXPIRED"),
                    Refuse(d, {"tenant"}, "TENANT_MISMATCH") >>, "VERIFIED")

EvaluateTrust(d) ==
    FirstRefusal(<< <<VerifyEvidence(d) # "VERIFIED", "EVIDENCE_MISSING">>,
                    Refuse(d, {"issuer"}, "ISSUER_UNTRUSTED"),
                    <<anchor = "revoked", "REVOKED">>,
                    Refuse(d, {"chain cycle"}, "REJECTED"),
                    Refuse(d, {"tenant"}, "TENANT_MISMATCH"),
                    Refuse(d, {"region"}, "CONTEXT_MISMATCH"),
                    Refuse(d, {"evidence stale", "assurance"}, "STEP_UP_REQUIRED") >>, "TRUSTED")

EvaluateAgentIdentity(d) ==
    FirstRefusal(<< Refuse(d, {"agent revoked"}, "REVOKED"), Refuse(d, {"ownerless"}, "OWNERLESS"),
                    Refuse(d, {"no purpose"}, "NO_PURPOSE"), Refuse(d, {"privileged"}, "PRIVILEGED_DENIED"),
                    Refuse(d, {"tenant"}, "CROSS_TENANT") >>, "VALID")

EvaluateWorkloadIdentity(d) ==
    FirstRefusal(<< Refuse(d, {"no instance"}, "NOT_INSTANCE_BOUND"),
                    Refuse(d, {"workload terminated"}, "TERMINATED"),
                    Refuse(d, {"unattested"}, "ATTESTATION_MISSING"),
                    Refuse(d, {"tenant"}, "CROSS_TENANT") >>, "VALID")

EvaluateDeviceIdentity(d) ==
    FirstRefusal(<< Refuse(d, {"tenant"}, "CROSS_TENANT"),
                    <<device = "revoked", "REVOKED">>,
                    <<device \in {"compromised", "rooted"}, "COMPROMISED">>,
                    <<device = "unknown" \/ "unattested" \in d, "STEP_UP_REQUIRED">> >>, "TRUSTED")

EvaluateFederation(d) ==
    FirstRefusal(<< Refuse(d, {"issuer"}, "UNKNOWN_ISSUER"),
                    Refuse(d, {"provider revoked"}, "PROVIDER_REVOKED"),
                    Refuse(d, {"metadata expired"}, "METADATA_EXPIRED"),
                    Refuse(d, {"audience"}, "AUDIENCE_MISMATCH"),
                    Refuse(d, {"no tenant mapping"}, "TENANT_MAPPING_MISSING"),
                    Refuse(d, {"role claim"}, "ROLE_INJECTION_DENIED"),
                    Refuse(d, {"assertion expired"}, "EXPIRED") >>, "ACCEPTED")

\* Variant that does not look for revoked and terminated sessions.
VerifySessionAnyState(s, d) ==
    FirstRefusal(<< <<s = NoSession, "NOT_ACTIVE">>,
                    <<s # NoSession /\ s.state \in {"SUSPENDED", "CREATED"}, "NOT_ACTIVE">>,
                    Refuse(d, {"binding"}, "COPY_DETECTED"),
                    Refuse(d, {"tenant"}, "TENANT_MISMATCH"),
                    <<s # NoSession /\ ~(Future(s.absolute) /\ Future(s.expiresAt)), "EXPIRED">>,
                    <<s # NoSession /\ now - s.lastVerified > IdleTimeout, "IDLE_TIMEOUT">>,
                    Refuse(d, {"privilege changed"}, "STEP_UP_REQUIRED") >>, "VALID")

\* verifySession decides on the record it is handed, s.
VerifySession(s, d) ==
    FirstRefusal(<< <<s = NoSession, "NOT_ACTIVE">>,
                    <<s # NoSession /\ s.state = "REVOKED", "REVOKED">>,
                    <<s # NoSession /\ s.state \in {"EXPIRED", "TERMINATED"}, "EXPIRED">>,
                    <<s # NoSession /\ s.state \in {"SUSPENDED", "CREATED"}, "NOT_ACTIVE">>,
                    Refuse(d, {"binding"}, "COPY_DETECTED"),
                    Refuse(d, {"tenant"}, "TENANT_MISMATCH"),
                    <<s # NoSession /\ ~(Future(s.absolute) /\ Future(s.expiresAt)), "EXPIRED">>,
                    <<s # NoSession /\ now - s.lastVerified > IdleTimeout, "IDLE_TIMEOUT">>,
                    Refuse(d, {"privilege changed"}, "STEP_UP_REQUIRED") >>, "VALID")

VerifyToken(j, d) ==
    FirstRefusal(<< Refuse(d, {"malformed"}, "MALFORMED"), Refuse(d, {"token type"}, "TYPE_MISUSE"),
                    Refuse(d, {"issuer"}, "ISSUER_UNTRUSTED"), Refuse(d, {"audience"}, "AUDIENCE_MISMATCH"),
                    Refuse(d, {"algorithm"}, "ALGORITHM_NOT_ALLOWED"), Refuse(d, {"tenant"}, "TENANT_MISMATCH"),
                    <<<<"token", j>> \in revokedIds, "REVOKED">>,
                    Refuse(d, {"token expired"}, "EXPIRED"),
                    <<j \in seenJti, "REPLAYED">> >>, "VERIFIED")

-----------------------------------------------------------------------------
(* Sessions *)

\* What can be wrong with a login: what every login carries, and what this kind does.
LoginFaults(p, federated) ==
    {"unknown principal", "unknown type", "principal expired", "tenant", "claims human", "malformed",
     "issuer", "evidence revoked", "evidence expired", "chain cycle", "region", "evidence stale",
     "assurance", "unattested"}
    \cup (IF p \in Agents THEN {"agent revoked", "ownerless", "no purpose", "privileged",
                                "no instance", "workload terminated"} ELSE {})
    \cup (IF federated THEN {"provider revoked", "metadata expired", "audience", "no tenant mapping",
                             "role claim", "assertion expired"}
         ELSE {"no expiry", "other principal", "wildcard"})
AccessFaults == {"binding", "tenant", "privilege changed", "malformed", "token type", "issuer",
                 "audience", "algorithm", "token expired"}

\* Variant that takes an id that is already in the store.
CreateSessionOver(store, s, record) ==
    [store EXCEPT ![s] = record]

\* InMemorySessionStore.create refuses an id it already holds.
CreateSession(store, s, record) ==
    IF store[s] # NoSession THEN store ELSE [store EXCEPT ![s] = record]

\* A login, local or federated, ends in create.
Login(p, s, d, federated) ==
    /\ ResolvePrincipal(p, d) = "RESOLVED"
    /\ IF federated THEN EvaluateFederation(d) = "ACCEPTED" ELSE VerifyCredential(p, d) = "VERIFIED"
    /\ EvaluateTrust(d) = "TRUSTED"
    /\ IF p \in Agents THEN EvaluateAgentIdentity(d) = "VALID" /\ EvaluateWorkloadIdentity(d) = "VALID"
       ELSE EvaluateDeviceIdentity(d) = "TRUSTED"
    /\ sessions' = CreateSession(sessions, s, Session(p))
    /\ UNCHANGED <<now, standingVars, reading, seenJti, jtiUses, overstayed, lateServes, grantVars>>

\* rotate: the old record is terminated before the new id is tried.
RotateSession(old, new) ==
    /\ sessions[old] # NoSession /\ old # new
    /\ sessions' = CreateSession([sessions EXCEPT ![old].state = "TERMINATED"], new,
                                 Session(sessions[old].owner))
    /\ UNCHANGED <<now, standingVars, reading, seenJti, jtiUses, overstayed, lateServes, grantVars>>

RevokeSession(s) ==
    /\ sessions[s] # NoSession
    /\ sessions' = [sessions EXCEPT ![s].state = "REVOKED"]
    /\ UNCHANGED <<now, standingVars, reading, seenJti, jtiUses, overstayed, lateServes, grantVars>>

\* SessionStoreAdapter.get: the record the access will decide on.
ReadSession(s) ==
    /\ reading = {} /\ reading' = {[sid |-> s, copy |-> sessions[s]]}
    /\ UNCHANGED <<now, standingVars, sessions, seenJti, jtiUses, overstayed, lateServes, grantVars>>

\* The access decides: its session copy and then its token.
DecideAccess(j, d) ==
    \E r \in reading :
        /\ reading' = {}
        /\ LET session == VerifySession(r.copy, d) = "VALID"
               token == VerifyToken(j, d) = "VERIFIED"
           IN  /\ seenJti' = IF session /\ token THEN seenJti \cup {j} ELSE seenJti
               /\ jtiUses' = IF session /\ token THEN [jtiUses EXCEPT ![j] = @ + 1] ELSE jtiUses
               /\ overstayed' = (overstayed \/ (session /\ token /\
                                 LET age == now - r.copy.lastVerified
                                 IN  age > IdleTimeout \/ age >= AbsoluteLife))
               /\ lateServes' = IF session /\ token /\ sessions[r.sid].state # "ACTIVE"
                                THEN [lateServes EXCEPT ![r.sid] = @ + 1] ELSE lateServes
        /\ UNCHANGED <<now, standingVars, sessions, grantVars>>

-----------------------------------------------------------------------------
(* Grants that widen what a principal may do *)

\* A maxDepth below one counts as one.
DepthLimit == IF MaxDepth > 1 THEN MaxDepth ELSE 1

\* evaluateDelegation of claims from the end of chain to p.
EvaluateDelegation(chain, held, p, claims, d) ==
    FirstRefusal(<< Refuse(d, {"delegation revoked"}, "REVOKED"),
                    Refuse(d, {"tenant"}, "CROSS_TENANT"),
                    <<Len(chain) > DepthLimit, "DEPTH_EXCEEDED">>,
                    <<p \in {chain[i] : i \in DOMAIN chain}, "CYCLE">>,
                    <<~(claims \subseteq held), "SCOPE_ESCALATION">>,
                    <<chain[Len(chain)] \in Agents /\ claims = {}, "AGENT_UNLIMITED_DENIED">>,
                    Refuse(d, {"delegation expired"}, "EXPIRED"),
                    Refuse(d, {"not approved"}, "APPROVAL_REQUIRED") >>, "GRANTED")

\* A principal delegates what it holds: its own claims, or those of a link.
Delegate(chain, held, p, claims, d) ==
    /\ Cardinality(delegations) < MaxLinks
    /\ EvaluateDelegation(chain, held, p, claims, d) = "GRANTED"
    /\ delegations' = delegations \cup {[chain |-> Append(chain, p), claims |-> claims]}
    /\ UNCHANGED <<now, standingVars, accessVars, evidenceUsed, glass>>

\* evaluateRecovery, and the revocation of all sessions its result asks for.
EvaluateRecovery(humanApprovals, critical, d) ==
    FirstRefusal(<< Refuse(d, {"AI approver"}, "AI_DENIED"),
                    Refuse(d, {"low channel"}, "LOW_CHANNEL_DENIED"),
                    <<evidenceUsed, "EVIDENCE_REUSED">>,
                    Refuse(d, {"challenge expired"}, "EXPIRED"),
                    <<humanApprovals < (IF critical THEN 2 ELSE 1), "MULTI_APPROVAL_REQUIRED">> >>, "APPROVED")

Recover(p, n, critical, d) ==
    /\ EvaluateRecovery(n, critical, d) = "APPROVED"
    /\ evidenceUsed' = TRUE
    /\ sessions' = [s \in SessionIds |-> IF sessions[s] # NoSession /\ sessions[s].owner = p
                                         THEN [sessions[s] EXCEPT !.state = "REVOKED"] ELSE sessions[s]]
    /\ UNCHANGED <<now, standingVars, reading, seenJti, jtiUses, overstayed, lateServes, delegations, glass>>

\* evaluateBreakGlass for a request whose approvals name the given authorities.
EvaluateBreakGlass(scope, approvals, until, d) ==
    FirstRefusal(<< Refuse(d, {"AI initiator"}, "AI_DENIED"),
                    Refuse(d, {"no reason"}, "NO_REASON"),
                    <<Cardinality({i \in DOMAIN approvals : approvals[i] \notin Agents})
                         < (IF scope = "global" THEN 3 ELSE 2), "MULTI_APPROVAL_REQUIRED">>,
                    <<until <= now, "MUST_EXPIRE">>,
                    <<until - now > BreakGlassMax, "TOO_LONG">> >>, "GRANTED")

BreakGlass(scope, approvals, until, d) ==
    /\ EvaluateBreakGlass(scope, approvals, until, d) = "GRANTED"
    /\ glass' = {[scope |-> scope, since |-> now, until |-> until]}
    /\ UNCHANGED <<now, standingVars, accessVars, delegations, evidenceUsed>>

-----------------------------------------------------------------------------
(* What changes underneath *)

\* Each loss alone refuses a login, so a behaviour has one.
LoseStanding(users) ==
    /\ principal = [p \in Persons |-> "active"] /\ revokedIds = {}
    /\ anchor = "trusted" /\ device = "trusted"
    /\ \/ /\ \E p \in users : principal' = [principal EXCEPT ![p] = "revoked"]
          /\ UNCHANGED <<credential, anchor, device, revokedIds>>
       \/ /\ \E x \in {<<"credential", p>> : p \in users} \cup {<<"token", j>> : j \in Jtis} :
                 revokedIds' = {x}
          /\ UNCHANGED <<principal, credential, anchor, device>>
       \/ /\ anchor' = "revoked" /\ device' = "compromised"
          /\ UNCHANGED <<principal, credential, revokedIds>>
    /\ UNCHANGED <<now, accessVars, grantVars>>

TrustTick == /\ Tick
             /\ glass' = {g \in glass : g.until > now'}
             /\ UNCHANGED <<standingVars, accessVars, delegations, evidenceUsed>>

\* Sessions and accesses of the given principals.
SessionSteps(users) ==
    \/ \E p \in users, s \in SessionIds, f \in BOOLEAN :
          \E d \in AtMostOne(LoginFaults(p, f)) : Login(p, s, d, f)
    \/ \E old, new \in SessionIds : RotateSession(old, new)
    \/ \E s \in SessionIds : RevokeSession(s) \/ ReadSession(s)
    \/ \E j \in Jtis, d \in AtMostOne(AccessFaults) : DecideAccess(j, d)
    \/ \E p \in users, n \in 0..2, critical \in BOOLEAN,
          d \in AtMostOne({"AI approver", "low channel", "challenge expired"}) : Recover(p, n, critical, d)
    \/ LoseStanding(users)
    \/ TrustTick

\* Delegations share nothing with break-glass.
DelegationSteps ==
    \/ \E p \in Persons, claims \in SUBSET Claims,
          d \in AtMostOne({"delegation revoked", "tenant", "delegation expired", "not approved"}) :
          \/ Delegate(<<Root>>, Claims, p, claims, d)
          \/ \E l \in delegations : Delegate(l.chain, l.claims, p, claims, d)
    \/ TrustTick

BreakGlassSteps ==
    \/ \E scope \in {"tenant", "global"}, n \in 0..3, until \in 0..MaxClock,
          d \in AtMostOne({"AI initiator", "no reason"}) :
          \E approvals \in [1..n -> Persons] : BreakGlass(scope, approvals, until, d)
    \/ TrustTick

IdentityTrustSteps == SessionSteps(Persons) \/ DelegationSteps \/ BreakGlassSteps

IdentityTrustSpec == now = 0 /\ IdentityTrustInit /\ [][IdentityTrustSteps]_trustVars

-----------------------------------------------------------------------------

\* Principals and sessions are in states their types name; at most one access waits.
IdentityTrustTypeOK ==
    /\ principal \in [Persons -> PrincipalStatus]
    /\ \A s \in SessionIds : sessions[s] = NoSession \/ sessions[s].state \in SessionState
    /\ seenJti \subseteq Jtis /\ Cardinality(reading) <= 1

\* A token is accepted once, however its accesses interleave with revocations
\* and however often it is presented (verifyToken's seenJti).
TokenOnce == \A j \in Jtis : jtiUses[j] <= 1

\* A session id that was terminated, revoked or cut never comes back to life,
\* neither by a login that is handed the id nor by a rotation onto it
\* (create's session_fixation_denied).
IdNeverRevives ==
    \A s \in SessionIds : (sessions[s] # NoSession /\ sessions[s].state # "ACTIVE")
                            => sessions'[s].state # "ACTIVE"

\* An access is decided on the copy it read, so what it can miss is what
\* happened since it read: once a session is revoked, rotated away or cut by a
\* recovery, only the access already in flight is still served by it.
RevocationCutsOff == \A s \in SessionIds : lateServes[s] <= 1

\* An access is served within the idle and the absolute limit of its session,
\* although it is decided later than its session was read and although nothing
\* ever moves a stored session to EXPIRED (verifySession, session.ts:90-95).
ServedWithinLimits == ~overstayed

\* Along a chain of delegations claims only narrow, no principal appears twice
\* and the chain stays within its depth, although each link is decided from
\* the link before it only (evaluateDelegation).
ChainsNarrow ==
    \A l \in delegations :
        /\ l.claims \subseteq Claims /\ Len(l.chain) <= DepthLimit + 1
        /\ \A i, k \in DOMAIN l.chain : i # k => l.chain[i] # l.chain[k]
        /\ Len(l.chain) > 2 => \E m \in delegations :
               m.chain = SubSeq(l.chain, 1, Len(l.chain) - 1) /\ l.claims \subseteq m.claims

\* A break-glass grant in force is never older than its longest life.
GlassBounded == \A g \in glass : now - g.since < BreakGlassMax

\* Tokens are used once, a revoked or overaged session serves nothing more than
\* the accesses that had read it, delegations narrow, break-glass ends.
IdentityTrustSafe ==
    /\ IdentityTrustTypeOK
    /\ TokenOnce
    /\ RevocationCutsOff
    /\ ServedWithinLimits
    /\ ChainsNarrow
    /\ GlassBounded
=============================================================================
