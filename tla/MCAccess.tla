------------------------------- MODULE MCAccess -------------------------------
(* The request gates, the isolated runtime, memory, hardening and content     *)
(* screening, on small instances.  The packages share the clock and nothing   *)
(* else, so the initial state chooses which one a behaviour explores (and,    *)
(* where a package has parts that share nothing, which part).                 *)
EXTENDS IdentityGate, IdentityTrust, ToolAccess, Isolation, Memory, Hardening, ContentScreen

CONSTANTS Foci,             \* the parts this run explores
          s1, s2, j1, j2, ann, bot
VARIABLE focus

MCToolNonce == [c \in Calls |-> IF c = "c3" THEN "u" ELSE "t"]
MCSecretNonce == [c \in Calls |-> IF c = "c2" THEN "w" ELSE "s"]
MCHostOf == [b \in BasePermits |-> IF b = "b3" THEN "h2" ELSE "h1"]

\* Two scopes whose names run together to the same string.
scope1 == [tenant |-> <<"a">>, workspace |-> <<"b", "c">>]
scope2 == [tenant |-> <<"a", "b">>, workspace |-> <<"c">>]
MCScopes == {scope1, scope2}

Version(a, b, c) == [major |-> a, minor |-> b, patch |-> c]
MCMinSupported == Version(1, 1, 9)
MCMaxSupported == Version(2, 0, 1)
MCVersions == {Version(1, 0, 0), Version(1, 1, 9), Version(1, 2, 0),
               Version(2, 0, 0), Version(2, 0, 1), Version(2, 1, 0)}
MCRules == {[effect |-> "ALLOW", on |-> "x"], [effect |-> "DENY", on |-> "x"],
            [effect |-> "ALLOW", on |-> "y"]}

\* Bounds: only identities with a strong factor and sessions live through more
\* than one tick; the two audit chains of the immutable store hold MaxTotalRecords
\* together; what is interchangeable (session ids, token ids, permit ids, callers of
\* the memory) is used in order; a second session meets a revoked principal and no other
\* loss of standing; one class of challenge serves the recoveries, which accept any; and
\* one tool's output holds what a scan looks for and is released.
LongLived == {"gate", "recovery", "session", "delegation", "break glass"}
MaxTotalRecords == 2
Bounds ==
    /\ (focus \notin LongLived \/ factor.level = "aal1") => now' <= 1
    /\ focus = "immutable" =>
          \A s, t \in Scopes :
              s # t => Len(memAudit'[ChainKey(s)]) + Len(memAudit'[ChainKey(t)]) <= MaxTotalRecords
    /\ focus = "recovery" => \A c \in MFA_REQUIRED_ACTIONS \ {"admin"} : challenges'[c] = NotIssued
    /\ \A c \in Calls \ {"c1"} : output'[c] \in {"none", "clean"} /\ toolPhase'[c] \notin {"released", "blocked"}
    /\ sessions'[s2] # NoSession =>
          sessions'[s1] # NoSession /\ anchor' = "trusted" /\ revokedIds' = {}
    /\ j2 \in seenJti' => j1 \in seenJti'
    /\ permits' # <<>> => permits'[1].id = "p1"
    /\ \A k \in MemKeys : partitions'[PartitionKey(scope2)][k].versions # <<>>
                            => partitions'[PartitionKey(scope1)][k].versions # <<>>

MCInit ==
    /\ now = 0 /\ focus \in Foci
    /\ IdentityGateInit /\ IdentityTrustInit /\ ToolAccessInit /\ IsolationInit
    /\ MemoryInit /\ HardeningInit /\ ContentScreenInit
    /\ (focus \notin {"gate", "recovery"}) => factor.level = "aal3"
    /\ (focus # "gate" \/ factor.level = "aal1") => idSession.expiresAt > MaxClock
    /\ (focus # "screen") =>
          content = [text |-> [layers |-> 0, injected |-> FALSE, marks |-> {}], level |-> "UNTRUSTED"]

IdentityGateNext ==
    /\ \/ focus = "gate" /\ GateSteps
       \/ focus = "recovery" /\ RecoverySteps
    /\ UNCHANGED <<trustState, toolState, isolationState, memoryState, hardeningState, contentState>>

IdentityTrustNext ==
    /\ \/ focus = "session" /\ SessionSteps({ann})
       \/ focus = "agent session" /\ SessionSteps({bot}) /\ sessions'[s2] = NoSession
       \/ focus = "delegation" /\ DelegationSteps
       \/ focus = "break glass" /\ BreakGlassSteps
    /\ UNCHANGED <<identityGateState, toolState, isolationState, memoryState, hardeningState, contentState>>

ToolAccessNext ==
    /\ focus = "tool" /\ ToolSteps
    /\ UNCHANGED <<identityGateState, trustState, isolationState, memoryState, hardeningState, contentState>>

IsolationNext ==
    /\ \/ focus = "permit" /\ PermitSteps
       \/ focus = "sandbox" /\ SandboxSteps
    /\ UNCHANGED <<identityGateState, trustState, toolState, memoryState, hardeningState, contentState>>

MemoryNext ==
    /\ \/ focus = "immutable" /\ ImmutableSteps
       \/ focus = "snapshot" /\ SnapshotSteps
       \/ focus = "working" /\ WorkingSteps
    /\ UNCHANGED <<identityGateState, trustState, toolState, isolationState, hardeningState, contentState>>

HardeningNext ==
    /\ \/ focus = "load" /\ LoadSteps
       \/ focus = "policy" /\ PolicySteps
       \/ focus = "operate" /\ OperateSteps /\ UNCHANGED <<flag, shown>>
       \/ focus = "flags" /\ OperateSteps /\ UNCHANGED <<node, settings, baseline, drift>>
       \/ focus = "recover" /\ RecoverSteps
    /\ UNCHANGED <<identityGateState, trustState, toolState, isolationState, memoryState, contentState>>

ContentScreenNext ==
    /\ \/ focus = "screen" /\ ScreenSteps
       \/ focus = "promotion" /\ PromotionSteps
       \/ focus = "agent" /\ AgentSafetySteps
    /\ UNCHANGED <<identityGateState, trustState, toolState, isolationState, memoryState, hardeningState>>

MCNext ==
    /\ UNCHANGED focus
    /\ \/ IdentityGateNext \/ IdentityTrustNext \/ ToolAccessNext \/ IsolationNext
       \/ MemoryNext \/ HardeningNext \/ ContentScreenNext
    /\ Bounds

mcVars == <<now, focus, identityGateState, trustState, toolState, isolationState,
            memoryState, hardeningState, contentState>>

MCSpec == MCInit /\ [][MCNext]_mcVars

\* What has ended stays ended: a session id that was cut never serves again, a dead
\* lease yields no ticket, a killed tool is allowed no further call (the calls allowed
\* before the kill may still run), a burnt permit never runs.
EndedStaysEnded ==
    [][IdNeverRevives /\ NoTicketFromDeadLease /\ KillStops /\ BurntNeverRuns]_mcVars

\* A revocation or a suspension reaches whatever reads it afterwards: a request whose
\* records are loaded after the standing was lost is not granted, and once the host has
\* verified a revoked key or artifact no evaluation answers READY.
RevocationsReach == [][NoStaleGrant /\ RevocationReachesReadiness]_mcVars
=============================================================================
