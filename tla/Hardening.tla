------------------------------ MODULE Hardening ------------------------------
(* The hardening package (hardening/src): what may be loaded (artifacts and   *)
(* plugins with their evidence, signatures and revocations), which policy may *)
(* become active, rolling upgrades, configuration and feature flags, backup   *)
(* and restore, emergency lockdown, and the security readiness of a host.     *)
(* The package decides; the host that keeps the state between two decisions   *)
(* is modelled from how the decisions are meant to be used.                   *)
EXTENDS Requests

CONSTANTS Nodes,            \* of a rolling upgrade
          Versions,         \* [major, minor, patch] records
          MinSupported, MaxSupported,       \* the CompatibilityMatrix
          Capacities,       \* plugin capabilities
          Rules,            \* [effect, on]: a rule of a policy
          HardPermits,      \* execution permits a backup may hold
          MaxAttempts,      \* RecoveryLoopGuard.maxAttempts
          SettingKeys, SecretSettings

ASSUME HardeningAssumption ==
    /\ MinSupported \in Versions /\ MaxSupported \in Versions
    /\ \A v \in Versions : {v.major, v.minor, v.patch} \subseteq Nat
    /\ SecretSettings \subseteq SettingKeys /\ MaxAttempts \in Nat

VARIABLES revoked,       \* InMemoryRevocationRegistry: kinds revoked
          granted,       \* capabilities the runtime grants to plugins
          plugin,        \* the plugin loaded: [loaded, requested, used]
          artifact,      \* loaded | none
          signatures,    \* what verifyArtifact last answered the host
          policy,        \* [stage, rules, hash, signed]
          active,        \* the rules of the active policy
          node,          \* [Nodes -> version]
          flag,          \* value of a flag that controls security
          shown,         \* what flags were evaluated to: [known, enabled]
          settings,      \* [SettingKeys -> value]
          baseline,      \* the ConfigurationSnapshot kept, and the settings it was taken of
          drift,         \* what the last comparison answered, and what really differed
          livePermits, usedPermits, backup,
          attempts,      \* of the recovery in progress
          emergency,     \* NORMAL | LOCKDOWN | RECOVERING
          readiness,     \* of the host: STOPPED | READY | STARTUP_REJECTED | READINESS_REVOKED
          informed       \* history: the last evaluation of it came after RevocationSeen

releaseVars == <<revoked, granted, plugin, artifact, signatures, policy, active, node, readiness, informed>>
operateVars == <<flag, shown, settings, baseline, drift, livePermits, usedPermits, backup, attempts, emergency>>
hardeningState == <<releaseVars, operateVars>>
hardeningVars == <<now, hardeningState>>

NoPlugin == [loaded |-> FALSE, requested |-> {}, used |-> {}]
NoPolicy == [stage |-> "none", rules |-> {}, hash |-> {}, signed |-> {}]

HardeningInit ==
    /\ revoked = {} /\ granted = Capacities /\ plugin = NoPlugin /\ artifact = "none" /\ signatures = FALSE
    /\ policy = NoPolicy /\ active = {} /\ node = [n \in Nodes |-> MinSupported]
    /\ flag = TRUE /\ shown = {} /\ settings = [k \in SettingKeys |-> 0]
    /\ baseline = [values |-> <<>>, of |-> settings] /\ drift = [found |-> {}, real |-> {}]
    /\ livePermits = HardPermits /\ usedPermits = {} /\ backup = [taken |-> FALSE, permits |-> {}]
    /\ attempts = 0 /\ emergency = "NORMAL" /\ readiness = "STOPPED" /\ informed = FALSE

-----------------------------------------------------------------------------
(* What may be loaded *)

\* verifyReleaseEvidence: every part of the bundle is there, tests and scan passed.
EvidenceParts == {"bundle", "artifactDigest", "dependencyDigest", "sourceRevision", "build",
                  "builderIdentity", "testEvidence", "securityScan", "signature", "provenanceRef"}
VerifyReleaseEvidence(d) == IF d \cap EvidenceParts = {} THEN "COMPLETE" ELSE "INCOMPLETE"

\* HmacSignatureVerifier.verify and InMemoryTrustStore
Trusted(d) == d \cap {"unknown key", "bad signature"} = {}

VerifyArtifact(d) ==
    FirstRefusal(<< Refuse(d, {"digest"}, "DIGEST_MISMATCH"),
                    <<VerifyReleaseEvidence(d) # "COMPLETE", "EVIDENCE_MISSING">>,
                    Refuse(d, {"unknown key"}, "UNTRUSTED_ISSUER"),
                    <<revoked \cap {"signing_key", "artifact"} # {}, "REVOKED">>,
                    Refuse(d, {"bad signature"}, "REJECTED"), Refuse(d, {"expired"}, "EXPIRED"),
                    Refuse(d, {"environment", "tenant", "region"}, "INCOMPATIBLE") >>, "VERIFIED")

VerifyPlugin(requested, d) ==
    FirstRefusal(<< Refuse(d, {"unsigned"}, "REJECTED_UNSIGNED"), Refuse(d, {"digest"}, "REJECTED_DIGEST"),
                    <<revoked \cap {"publisher", "plugin"} # {}, "REJECTED_REVOKED_PUBLISHER">>,
                    <<~Trusted(d), "REJECTED_UNTRUSTED">>,
                    <<~(requested \subseteq granted), "REJECTED_CAPABILITY_ESCALATION">>,
                    Refuse(d, {"no sandbox"}, "REJECTED_NO_SANDBOX"),
                    Refuse(d, {"api"}, "REJECTED_INCOMPATIBLE") >>, "APPROVED")

ArtifactFaults == EvidenceParts \cup {"digest", "unknown key", "bad signature", "expired", "environment", "tenant", "region"}
PluginFaults == {"unsigned", "digest", "unknown key", "bad signature", "no sandbox", "api"}

\* The host verifies an artifact, at the start or again, and keeps the answer.
LoadArtifact(d) ==
    LET verified == VerifyArtifact(d) = "VERIFIED"
    IN  /\ artifact' = IF verified THEN "loaded" ELSE artifact
        /\ signatures' = verified
        /\ UNCHANGED <<now, revoked, granted, plugin, policy, active, node, readiness, informed, operateVars>>

LoadPlugin(requested, d) ==
    /\ ~plugin.loaded /\ VerifyPlugin(requested, d) = "APPROVED"
    /\ plugin' = [loaded |-> TRUE, requested |-> requested, used |-> {}]
    /\ UNCHANGED <<now, revoked, granted, artifact, signatures, policy, active, node, readiness, informed, operateVars>>

\* assertNoRuntimeCapabilityEscalation: a use beyond the manifest throws.
PluginUses(c) ==
    /\ plugin.loaded /\ c \in plugin.requested
    /\ plugin' = [plugin EXCEPT !.used = @ \cup {c}]
    /\ UNCHANGED <<now, revoked, granted, artifact, signatures, policy, active, node, readiness, informed, operateVars>>

Revoke(kind) ==
    /\ revoked' = revoked \cup {kind}
    /\ UNCHANGED <<now, granted, plugin, artifact, signatures, policy, active, node, readiness, informed, operateVars>>

GrantShrinks(c) ==
    /\ granted' = granted \ {c}
    /\ UNCHANGED <<now, revoked, plugin, artifact, signatures, policy, active, node, readiness, informed, operateVars>>

\* The signing key or the artifact is revoked and the host has verified since.
RevocationSeen == revoked \cap {"signing_key", "artifact"} # {} /\ ~signatures

\* evaluateSecurityReadiness: artifactSignaturesValid is the answer the host kept,
\* however long ago it got it.
EvaluateSecurityReadiness(d) ==
    /\ readiness' = IF signatures /\ d = {} THEN "READY"
                    ELSE IF readiness \in {"READY", "READINESS_REVOKED"} THEN "READINESS_REVOKED" ELSE "STARTUP_REJECTED"
    /\ informed' = RevocationSeen
    /\ UNCHANGED <<now, revoked, granted, plugin, artifact, signatures, policy, active, node, operateVars>>

ReadinessFaults == {"base readiness", "provenance", "configuration", "drift", "plugin signatures",
                    "revocation source", "upgrade evidence", "recovery policy", "rollback plan", "emergency authority"}

-----------------------------------------------------------------------------
(* Policy: proposal, compilation, validation, signature, activation *)

\* ReferencePolicyCompiler.compile; the hash is over the rules.
CompilePolicy(rules) ==
    /\ rules # {} /\ policy.stage \in {"none", "compiled"}
    /\ policy' = [stage |-> "compiled", rules |-> rules, hash |-> rules, signed |-> {}]
    /\ UNCHANGED <<now, revoked, granted, plugin, artifact, signatures, active, node, readiness, informed, operateVars>>

\* validatePolicyAst: ALLOW and DENY on the same resource and action.
ConflictsOf(rules) ==
    {r.on : r \in {x \in rules : x.effect = "ALLOW" /\ \E y \in rules : y.on = x.on /\ y.effect = "DENY"}}

ValidatePolicyAst ==
    /\ policy.stage = "compiled"
    /\ policy' = [policy EXCEPT !.stage = IF ConflictsOf(policy.rules) = {} THEN "valid" ELSE "none"]
    /\ UNCHANGED <<now, revoked, granted, plugin, artifact, signatures, active, node, readiness, informed, operateVars>>

SignPolicy ==
    /\ policy.stage = "valid"
    /\ policy' = [policy EXCEPT !.stage = "signed", !.signed = policy.hash]
    /\ UNCHANGED <<now, revoked, granted, plugin, artifact, signatures, active, node, readiness, informed, operateVars>>

\* The artifact carries only the hash of its rules: after the signature it is
\* altered to stand for other rules, so its hash is theirs (external).
PolicyAltered(rules) ==
    /\ policy.stage = "signed"
    /\ policy' = [policy EXCEPT !.rules = rules, !.hash = rules]
    /\ UNCHANGED <<now, revoked, granted, plugin, artifact, signatures, active, node, readiness, informed, operateVars>>

\* evaluatePolicyActivation: the signature is over the hash of the artifact.
PolicyActivationVerdict(d) ==
    FirstRefusal(<< Refuse(d, {"by AI"}, "ai_cannot_activate_policy"), Refuse(d, {"unsigned"}, "unsigned_policy"),
                    <<~Trusted(d) \/ policy.signed # policy.hash, "untrusted_or_invalid_signature">>,
                    Refuse(d, {"no human"}, "activation_requires_human_approval") >>, "policy_activated")

ActivatePolicy(d) ==
    /\ policy.stage = "signed" /\ PolicyActivationVerdict(d) = "policy_activated"
    /\ active' = policy.rules /\ policy' = NoPolicy
    /\ UNCHANGED <<now, revoked, granted, plugin, artifact, signatures, node, readiness, informed, operateVars>>

-----------------------------------------------------------------------------
(* Upgrade *)

\* compareVersions: major, then minor, then patch.
CompareVersions(a, b) ==
    IF a.major # b.major THEN a.major - b.major
    ELSE IF a.minor # b.minor THEN a.minor - b.minor ELSE a.patch - b.patch

IsVersionCompatible(v) == CompareVersions(v, MinSupported) >= 0 /\ CompareVersions(v, MaxSupported) <= 0

\* The matrix supports some version.
ASSUME MatrixAssumption == IsVersionCompatible(MinSupported)

EvaluateVersionSkew(old, new) == IsVersionCompatible(old) /\ IsVersionCompatible(new)

\* evaluateUpgradePlan; evaluateSchemaCompatibility is one of the preconditions.
EvaluateUpgradePlan(d) ==
    FirstRefusal(<< Refuse(d, {"precondition", "breaking schema"}, "preconditions_unmet"),
                    Refuse(d, {"critical without rollback"}, "rollback_plan_required"),
                    Refuse(d, {"no backup"}, "migration_evidence_required"),
                    Refuse(d, {"irreversible without human"}, "irreversible_requires_approval") >>, "APPROVED")
UpgradeFaults == {"precondition", "breaking schema", "critical without rollback", "no backup", "irreversible without human"}

UpgradeNode(n, v, d) ==
    /\ EvaluateUpgradePlan(d) = "APPROVED" /\ EvaluateVersionSkew(node[n], v)
    /\ node' = [node EXCEPT ![n] = v]
    /\ UNCHANGED <<now, revoked, granted, plugin, artifact, signatures, policy, active, readiness, informed, operateVars>>

-----------------------------------------------------------------------------
(* Configuration and feature flags *)

\* evaluateConfigurationChange for a critical setting, validateConfiguration.
ConfigurationFaults == {"untrusted source", "unknown setting", "missing", "type", "no reason", "no human"}
ChangeConfiguration(k, v, d) ==
    /\ FirstRefusal(<< Refuse(d, {"untrusted source"}, "untrusted_source"), Refuse(d, {"unknown setting"}, "unknown_setting"),
                       Refuse(d, {"missing"}, "missing_required"), Refuse(d, {"type"}, "type_mismatch"),
                       Refuse(d, {"no reason"}, "reason_and_actor_required"),
                       Refuse(d, {"no human"}, "critical_change_requires_human_approval") >>, "ACCEPTED") = "ACCEPTED"
    /\ settings' = [settings EXCEPT ![k] = v]
    /\ UNCHANGED <<now, releaseVars, flag, shown, baseline, drift, livePermits, usedPermits, backup, attempts, emergency>>

\* buildConfigurationSnapshot leaves secrets out.
SafeValues(s) == [k \in SettingKeys \ SecretSettings |-> s[k]]
BuildConfigurationSnapshot ==
    /\ baseline' = [values |-> SafeValues(settings), of |-> settings]
    /\ drift' = [found |-> {}, real |-> {}]
    /\ UNCHANGED <<now, releaseVars, flag, shown, settings, livePermits, usedPermits, backup, attempts, emergency>>

\* detectConfigurationDrift over the keys of both snapshots.
ChangedKeys(expected, observed) ==
    {k \in DOMAIN expected \cup DOMAIN observed :
        ~(k \in DOMAIN expected /\ k \in DOMAIN observed /\ expected[k] = observed[k])}
DetectConfigurationDrift ==
    /\ baseline.values # <<>>
    /\ drift' = [found |-> ChangedKeys(baseline.values, SafeValues(settings)),
                 real |-> {k \in SettingKeys : settings[k] # baseline.of[k]}]
    /\ UNCHANGED <<now, releaseVars, flag, shown, settings, baseline, livePermits, usedPermits, backup, attempts, emergency>>

\* evaluateFeatureFlagChange of a flag with controlsSecurity.
ChangeFlag(v, d) ==
    /\ FirstRefusal(<< Refuse(d, {"no reason"}, "reason_and_actor_required"),
                       <<~v, "security_control_cannot_be_disabled">>,
                       Refuse(d, {"no human"}, "change_requires_human_approval") >>, "ok") = "ok"
    /\ flag' = v
    /\ UNCHANGED <<now, releaseVars, shown, settings, baseline, drift, livePermits, usedPermits, backup, attempts, emergency>>

\* evaluateFeatureFlag: requested is the stored value or what a caller overrides it with.
EvaluateFeatureFlag(requested, d) ==
    FirstRefusal(<< Refuse(d, {"unknown"}, "DENIED"), <<~requested, "SAFE_DEFAULT">>,
                    Refuse(d, {"expired", "scope"}, "SAFE_DEFAULT") >>, "REQUESTED")
Enabled(requested, d) ==
    LET verdict == EvaluateFeatureFlag(requested, d)
    IN  verdict = "SAFE_DEFAULT" \/ (verdict = "REQUESTED" /\ requested)
ReadFlag(requested, d) ==
    /\ shown' = shown \cup {[known |-> "unknown" \notin d, enabled |-> Enabled(requested, d)]}
    /\ UNCHANGED <<now, releaseVars, flag, settings, baseline, drift, livePermits, usedPermits, backup, attempts, emergency>>

-----------------------------------------------------------------------------
(* Backup, restore, recovery, lockdown *)

UsePermit(p) ==
    /\ p \in livePermits /\ livePermits' = livePermits \ {p} /\ usedPermits' = usedPermits \cup {p}
    /\ UNCHANGED <<now, releaseVars, flag, shown, settings, baseline, drift, backup, attempts, emergency>>

TakeBackup(withPermits) ==
    /\ backup' = [taken |-> TRUE, permits |-> IF withPermits THEN livePermits ELSE {}]
    /\ UNCHANGED <<now, releaseVars, flag, shown, settings, baseline, drift, livePermits, usedPermits, attempts, emergency>>

EvaluateRestore(d) ==
    FirstRefusal(<< Refuse(d, {"no reason"}, "reason_and_actor_required"), Refuse(d, {"no human"}, "restore_requires_human_approval"),
                    Refuse(d, {"approval expired"}, "restore_approval_expired"), Refuse(d, {"tenant"}, "cross_tenant_restore"),
                    Refuse(d, {"unverified"}, "backup_unverified") >>, "AUTHORIZED")

\* Variant that lets the permits of a backup back in.
VerifyRestoreAny(d) ==
    FirstRefusal(<< Refuse(d, {"digest"}, "restore_digest_mismatch") >>, "restore_verified")

\* verifyRestore: permits carried in restored state do not revive.
VerifyRestore(d) ==
    FirstRefusal(<< Refuse(d, {"digest"}, "restore_digest_mismatch"),
                    <<backup.permits # {}, "stale_permit_revival_blocked">> >>, "restore_verified")

EvaluateDisasterRecovery(d) ==
    FirstRefusal(<< Refuse(d, {"by AI"}, "declaration_requires_human"), <<attempts >= MaxAttempts, "recovery_loop_guard">>,
                    Refuse(d, {"audit down"}, "audit_unavailable_execution_halted") >>, "PROCEED")

RestoreFaults == {"no reason", "no human", "approval expired", "tenant", "unverified", "digest", "by AI", "audit down"}

\* One recovery attempt: its restore goes live only when it verifies.
Restore(d) ==
    /\ backup.taken /\ EvaluateDisasterRecovery(d) = "PROCEED"
    /\ attempts' = attempts + 1
    /\ livePermits' = IF EvaluateRestore(d) = "AUTHORIZED" /\ VerifyRestore(d) = "restore_verified"
                      THEN backup.permits ELSE livePermits
    /\ UNCHANGED <<now, releaseVars, flag, shown, settings, baseline, drift, usedPermits, backup, emergency>>

DeclareEmergency(d) ==
    FirstRefusal(<< Refuse(d, {"by AI"}, "REJECTED"), Refuse(d, {"no reason"}, "REJECTED"), Refuse(d, {"no expiry"}, "REJECTED"),
                    Refuse(d, {"one approval"}, "REQUIRES_MORE_APPROVAL") >>, "DECLARED")
EvaluateHardKillSwitch(d) == IF d \cap {"by AI", "no reason"} = {} THEN "KILLED" ELSE "REJECTED"
Lockdown(d) ==
    /\ emergency = "NORMAL" /\ (DeclareEmergency(d) = "DECLARED" \/ EvaluateHardKillSwitch(d) = "KILLED")
    /\ emergency' = "LOCKDOWN"
    /\ UNCHANGED <<now, releaseVars, flag, shown, settings, baseline, drift, livePermits, usedPermits, backup, attempts>>

EvaluateRecoveryFromLockdown(d) ==
    FirstRefusal(<< Refuse(d, {"by AI"}, "ai_cannot_lift_lockdown"), Refuse(d, {"no human"}, "recovery_requires_separate_approval"),
                    Refuse(d, {"unverified"}, "recovery_requires_verification") >>, "recovery_authorized")
LeaveLockdown(d) ==
    /\ emergency = "LOCKDOWN" /\ EvaluateRecoveryFromLockdown(d) = "recovery_authorized"
    /\ emergency' = "NORMAL"
    /\ UNCHANGED <<now, releaseVars, flag, shown, settings, baseline, drift, livePermits, usedPermits, backup, attempts>>

-----------------------------------------------------------------------------
LoadSteps ==
    \/ \E d \in AtMostOne(ArtifactFaults) : LoadArtifact(d)
    \/ \E requested \in SUBSET Capacities, d \in AtMostOne(PluginFaults) : LoadPlugin(requested, d)
    \/ \E c \in Capacities : PluginUses(c) \/ GrantShrinks(c)
    \/ \E kind \in {"signing_key", "artifact", "publisher", "plugin"} : Revoke(kind)
    \/ \E d \in AtMostOne(ReadinessFaults) : EvaluateSecurityReadiness(d)

PolicySteps ==
    \/ \E rules \in SUBSET Rules : CompilePolicy(rules) \/ PolicyAltered(rules)
    \/ ValidatePolicyAst \/ SignPolicy
    \/ \E d \in AtMostOne({"by AI", "unsigned", "unknown key", "bad signature", "no human"}) : ActivatePolicy(d)

OperateSteps ==
    \/ \E n \in Nodes, v \in Versions, d \in AtMostOne(UpgradeFaults) : UpgradeNode(n, v, d)
    \/ \E k \in SettingKeys, v \in {0, 1}, d \in AtMostOne(ConfigurationFaults) : ChangeConfiguration(k, v, d)
    \/ BuildConfigurationSnapshot \/ DetectConfigurationDrift
    \/ \E v \in BOOLEAN, d \in AtMostOne({"no reason", "no human"}) : ChangeFlag(v, d)
    \/ \E requested \in {flag, FALSE}, d \in AtMostOne({"unknown", "expired", "scope"}) : ReadFlag(requested, d)

RecoverSteps ==
    \/ \E p \in HardPermits : UsePermit(p)
    \/ \E withPermits \in BOOLEAN : TakeBackup(withPermits)
    \/ \E d \in AtMostOne(RestoreFaults) : Restore(d)
    \/ \E d \in AtMostOne({"by AI", "no reason", "no expiry", "one approval"}) : Lockdown(d)
    \/ \E d \in AtMostOne({"by AI", "no human", "unverified"}) : LeaveLockdown(d)

HardeningSteps == LoadSteps \/ PolicySteps \/ OperateSteps \/ RecoverSteps

HardeningSpec == now = 0 /\ HardeningInit /\ [][HardeningSteps]_hardeningVars

-----------------------------------------------------------------------------
(* Properties *)

\* The host's state stays within its types; it is in a lockdown or not.
HardeningTypeOK ==
    /\ granted \subseteq Capacities /\ plugin.used \subseteq Capacities /\ active \subseteq Rules
    /\ node \in [Nodes -> Versions] /\ flag \in BOOLEAN /\ settings \in [SettingKeys -> {0, 1}]
    /\ livePermits \subseteq HardPermits /\ emergency \in {"NORMAL", "LOCKDOWN"}
    /\ readiness \in {"STOPPED", "READY", "STARTUP_REJECTED", "READINESS_REVOKED"}

\* The active policy never allows and denies the same action of a resource,
\* although activation looks at the signature only and the artifact can be
\* altered after it was signed (policy-compilation.ts:72, :135).
ActivePolicySound == ConflictsOf(active) = {}

\* In a rolling upgrade every node stays within the compatibility matrix, in
\* the lexicographic order of versions (upgrade.ts:23-33, :130).
ClusterCompatible ==
    LET AtLeast(v, w) == \/ v.major > w.major
                         \/ v.major = w.major /\ v.minor > w.minor
                         \/ v.major = w.major /\ v.minor = w.minor /\ v.patch >= w.patch
    IN  \A n \in Nodes : AtLeast(node[n], MinSupported) /\ AtLeast(MaxSupported, node[n])

\* A flag that controls security never reads as disabled when its safe default is
\* on, whatever changes and evaluations precede, and a flag nobody defined never
\* reads as enabled (feature-flags.ts:49, :53, :93).
SecurityFlagOn == \A e \in shown : e.enabled = e.known

\* The drift report names every setting that differs from the baseline and is
\* not a secret, and no other.
DriftExact == drift.found = drift.real \ SecretSettings

\* A permit used after the backup was taken never comes back with a restore.
NoPermitRevival == livePermits \cap usedPermits = {}

\* Once the host has verified its artifact after the revocation of the signing key or
\* the artifact, no later verification brings the answer back, and no evaluation of
\* the readiness answers READY, not even one of a host that was ready
\* (artifact-verifier.ts:76, security-readiness.ts:42).  Between the revocation and
\* that verification the host may still be told READY.
RevocationReachesReadiness ==
    /\ RevocationSeen => RevocationSeen'
    /\ informed' => readiness' # "READY"

\* The active policy is sound, the cluster compatible, security flags on, drift
\* exact, and no spent permit lives again after a restore.
HardeningSafe ==
    /\ HardeningTypeOK
    /\ ActivePolicySound
    /\ ClusterCompatible
    /\ SecurityFlagOn
    /\ DriftExact
    /\ NoPermitRevival
=============================================================================
