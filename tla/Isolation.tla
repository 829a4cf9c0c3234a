------------------------------ MODULE Isolation ------------------------------
(* Runtime isolation (runtime-isolation/src/index.ts): from a validated       *)
(* context to an execution identity, a boundary decision, a runtime permit    *)
(* that wraps one execution permit, and the asynchronous execution gate that  *)
(* consumes it against a replay store; the sandbox providers with their       *)
(* attestations; the state store partitioned by identity.  The WeakSets of    *)
(* issued and consumed objects live in one process, so two hosts share only   *)
(* the distributed replay store, which may lose the answer of a claim it made.*)
EXTENDS Requests

CONSTANTS Hosts,            \* processes
          Identities,       \* the isolation keys: tenant ... execution id
          BasePermits,      \* execution permits of the kernel
          HostOf,           \* [BasePermits -> Hosts]: objects stay in their process
          PermitIds,        \* permit ids callers choose; nothing makes them unique
          PermitLife,       \* when every runtime permit expires
          Distributed,      \* the store all hosts share
          MaxPermits,       \* bound: runtime permits made
          MaxSandboxes,     \* bound: attestations, and providers, made
          NoIdentity

ASSUME IsolationAssumption ==
    /\ HostOf \in [BasePermits -> Hosts] /\ Distributed \notin Hosts
    /\ NoIdentity \notin Identities /\ {PermitLife, MaxPermits, MaxSandboxes} \subseteq Nat

VARIABLES decisions,     \* identities with an ALLOWED boundary decision
          permits,       \* runtime permits made, in order: [base, id, identity]
          wrapped,       \* basePermitsWithRuntimePermit
          consumed,      \* consumedRuntimeExecutionPermitObjects
          claims,        \* [stores -> [PermitIds -> identity that claimed, or NoIdentity]]
          gateCalls,     \* claims that are awaited: [permit, mode, phase]
          runs,          \* gate calls answered ALLOWED: [permit, mode, store]
          burnt,         \* permits whose claim ended DENIED
          buckets,       \* InMemoryRuntimeIsolationStateStore: [Identities -> last writer]
          reads,         \* reads served: <<requester, whose value>>
          attested,      \* provider attestations made
          providers,     \* sandbox providers made
          sandboxed      \* capabilities granted: [provider, capability, env]

gateVars == <<decisions, permits, wrapped, consumed, claims, gateCalls, runs, burnt>>
storeVars == <<buckets, reads>>
sandboxVars == <<attested, providers, sandboxed>>
isolationState == <<gateVars, storeVars, sandboxVars>>
isolationVars == <<now, isolationState>>

Stores == Hosts \cup {Distributed}

IsolationInit ==
    /\ decisions = {} /\ permits = <<>> /\ wrapped = {} /\ consumed = {}
    /\ claims = [s \in Stores |-> [id \in PermitIds |-> NoIdentity]]
    /\ gateCalls = {} /\ runs = {} /\ burnt = {}
    /\ buckets = [i \in Identities |-> NoIdentity] /\ reads = {}
    /\ attested = {} /\ providers = {} /\ sandboxed = {}

-----------------------------------------------------------------------------
(* Boundary and permit *)

\* validateRuntimeIsolationContextInput, validateRuntimeFields
ValidateRuntimeFields(d) ==
    FirstRefusal(<< Refuse(d, {"no context"}, "missing_identity"),
                    Refuse(d, {"context invalid", "field empty", "actor type"}, "malformed_identity") >>, "valid")

ValidateExpectedBinding(d) ==
    FirstRefusal(<< Refuse(d, {"tenant"}, "cross_tenant_mismatch"),
                    Refuse(d, {"organization"}, "cross_organization_mismatch"),
                    Refuse(d, {"workspace"}, "cross_workspace_mismatch"),
                    Refuse(d, {"actor"}, "actor_mismatch"),
                    Refuse(d, {"actor type expected"}, "actor_type_mismatch"),
                    Refuse(d, {"execution"}, "execution_mismatch") >>, "valid")

BoundaryFaults == {"no context", "context invalid", "field empty", "actor type", "tenant",
                   "organization", "workspace", "actor", "actor type expected", "execution"}

EvaluateIsolationBoundary(i, d) ==
    /\ decisions' = IF ValidateRuntimeFields(d) = "valid" /\ ValidateExpectedBinding(d) = "valid"
                    THEN decisions \cup {i} ELSE decisions
    /\ UNCHANGED <<now, permits, wrapped, consumed, claims, gateCalls, runs, burnt, storeVars, sandboxVars>>

\* createRuntimeExecutionPermit: the decision handed in is about identity j.
CreateRuntimeExecutionPermit(b, id, i, j) ==
    /\ Len(permits) < MaxPermits
    /\ b \notin wrapped /\ j \in decisions /\ i = j /\ Future(PermitLife)
    /\ permits' = Append(permits, [base |-> b, id |-> id, identity |-> i])
    /\ wrapped' = wrapped \cup {b}
    /\ UNCHANGED <<now, decisions, consumed, claims, gateCalls, runs, burnt, storeVars, sandboxVars>>

-----------------------------------------------------------------------------
(* Replay protection and the execution gate *)

\* Variant that lets a production provider use the store of its process.
ProviderStoresLocal(mode, h) == {h, Distributed}

\* createReplayProtectionProvider, isDistributedReplayProtectionStore: the
\* store a provider of this mode may be made with.
ProviderStores(mode, h) == IF mode = "production" THEN {Distributed} ELSE {h, Distributed}

\* InMemoryReplayProtectionStore.claim, and the contract of a distributed one.
ClaimAllowed(s, p) == claims[s][permits[p].id] = NoIdentity
Claimed(s, p) == IF ClaimAllowed(s, p) THEN [claims EXCEPT ![s][permits[p].id] = permits[p].identity]
                 ELSE claims

\* The synchronous part of evaluateRuntimeExecutionGate.
GatePasses(p, presented) ==
    /\ Future(PermitLife)
    /\ presented = permits[p].identity
    /\ p \notin consumed

Settle(call, allowed) ==
    /\ gateCalls' = gateCalls \ {call}
    /\ runs' = IF allowed THEN runs \cup {[permit |-> call.permit, mode |-> call.mode, store |-> call.store]} ELSE runs
    /\ burnt' = IF allowed THEN burnt ELSE burnt \cup {call.permit}

\* evaluateRuntimeExecutionGate up to the await; the in-memory store answers
\* before anything else can run.
GateBegins(p, presented, mode, s) ==
    /\ s \in ProviderStores(mode, HostOf[permits[p].base])
    /\ GatePasses(p, presented)
    /\ consumed' = consumed \cup {p}
    /\ LET call == [permit |-> p, mode |-> mode, store |-> s, phase |-> "sent"]
       IN  IF s = Distributed
           THEN gateCalls' = gateCalls \cup {call} /\ UNCHANGED <<claims, runs, burnt>>
           ELSE claims' = Claimed(s, p) /\ Settle(call, ClaimAllowed(s, p))
    /\ UNCHANGED <<now, decisions, permits, wrapped, storeVars, sandboxVars>>

\* The shared store claims atomically ...
ClaimLands(call) ==
    /\ call \in gateCalls /\ call.phase = "sent"
    /\ claims' = Claimed(Distributed, call.permit)
    /\ gateCalls' = (gateCalls \ {call})
                    \cup {[call EXCEPT !.phase = IF ClaimAllowed(Distributed, call.permit) THEN "won" ELSE "lost"]}
    /\ UNCHANGED <<now, decisions, permits, wrapped, consumed, runs, burnt, storeVars, sandboxVars>>

\* ... and its answer arrives, or the call throws or answers nonsense: DENIED,
\* whether or not the store has recorded the claim.
GateAnswers(call, delivered) ==
    /\ call \in gateCalls /\ (delivered => call.phase # "sent")
    /\ Settle(call, delivered /\ call.phase = "won")
    /\ UNCHANGED <<now, decisions, permits, wrapped, consumed, claims, storeVars, sandboxVars>>

-----------------------------------------------------------------------------
(* The state store *)

WriteState(i) ==
    /\ buckets' = [buckets EXCEPT ![i] = i]
    /\ UNCHANGED <<now, gateVars, reads, sandboxVars>>

ReadState(owner, requester) ==
    /\ owner = requester
    /\ reads' = reads \cup {<<requester, buckets[owner]>>}
    /\ UNCHANGED <<now, gateVars, buckets, sandboxVars>>

-----------------------------------------------------------------------------
(* Sandbox providers *)

Environments == {"test", "development", "staging", "production"}
ProviderTypes == {"testOnly", "localDevelopment", "productionDistributed"}
ProviderTypeMatchesEnvironment(type, env) ==
    env \in CASE type = "testOnly" -> {"test"}
              [] type = "localDevelopment" -> {"development"}
              [] type = "productionDistributed" -> {"staging", "production"}

Capabilities == {"networkEgress", "shell"}
SandboxIds == {"sb1", "sb2"}
Attestations == [result : {"TRUSTED", "UNTRUSTED"}, provider : SandboxIds, type : ProviderTypes,
                 env : {"test", "production"}, capabilities : SUBSET Capabilities]

CreateSandboxProviderAttestation(a) ==
    /\ Cardinality(attested) < MaxSandboxes
    /\ ProviderTypeMatchesEnvironment(a.type, a.env)
    /\ attested' = attested \cup {a}
    /\ UNCHANGED <<now, gateVars, storeVars, providers, sandboxed>>

\* sandboxProviderAttestationMatches: identity, type, environment and
\* capabilities of the provider are those of the attestation.
SandboxProviderAttestationMatches(a, id, type, env, caps) ==
    a.provider = id /\ a.type = type /\ a.env = env /\ a.capabilities = caps

CreateSandboxProvider(a, id, type, env, caps) ==
    /\ Cardinality(providers) < MaxSandboxes
    /\ a \in attested /\ ProviderTypeMatchesEnvironment(type, env)
    /\ SandboxProviderAttestationMatches(a, id, type, env, caps)
    /\ providers' = providers \cup {[id |-> id, type |-> type, env |-> env, capabilities |-> caps, attestation |-> a]}
    /\ UNCHANGED <<now, gateVars, storeVars, attested, sandboxed>>

\* createSandboxPolicy: denied unless the policy says ALLOW.
EvaluateSandboxCapability(policy, c, d) ==
    FirstRefusal(<< Refuse(d, {"no policy", "identity", "quota"}, "DENIED"),
                    <<c \notin policy, "DENIED">> >>, "ALLOWED")

EvaluateSandboxProvider(v, env, policy, c, d) ==
    /\ FirstRefusal(<< <<v.env # env, "environment mismatch">>,
                       <<env = "production" /\ v.type # "productionDistributed", "distributed required">>,
                       <<v.attestation.result # "TRUSTED", "not trusted">>,
                       <<c \notin v.capabilities \cap v.attestation.capabilities, "no capability">>,
                       <<EvaluateSandboxCapability(policy, c, d) # "ALLOWED", "policy">> >>, "ALLOWED") = "ALLOWED"
    /\ sandboxed' = sandboxed \cup {[provider |-> v.id, capability |-> c, env |-> env]}
    /\ UNCHANGED <<now, gateVars, storeVars, attested, providers>>

-----------------------------------------------------------------------------
IsolationTick == Tick /\ UNCHANGED <<gateVars, storeVars, sandboxVars>>

\* Permit, replay store and state.
PermitSteps ==
    \/ \E i \in Identities, d \in AtMostOne(BoundaryFaults) : EvaluateIsolationBoundary(i, d)
    \/ \E b \in BasePermits, id \in PermitIds, i, j \in Identities : CreateRuntimeExecutionPermit(b, id, i, j)
    \/ \E p \in DOMAIN permits, i \in Identities, mode \in {"test", "production"}, s \in Stores : GateBegins(p, i, mode, s)
    \/ \E call \in gateCalls : ClaimLands(call) \/ \E delivered \in BOOLEAN : GateAnswers(call, delivered)
    \/ IsolationTick

SandboxSteps ==
    \/ \E i \in Identities : WriteState(i) \/ \E j \in Identities : ReadState(i, j)
    \/ \E a \in Attestations : CreateSandboxProviderAttestation(a)
    \/ \E a \in attested : \E id \in SandboxIds, type \in ProviderTypes, env \in {"test", "production"},
          caps \in SUBSET Capabilities : CreateSandboxProvider(a, id, type, env, caps)
    \/ \E v \in providers, env \in {"test", "production"}, policy \in SUBSET Capabilities, c \in Capabilities,
          d \in AtMostOne({"no policy", "identity", "quota"}) : EvaluateSandboxProvider(v, env, policy, c, d)

\* The package by itself.
IsolationSteps == PermitSteps \/ SandboxSteps

IsolationSpec == now = 0 /\ IsolationInit /\ [][IsolationSteps]_isolationVars

-----------------------------------------------------------------------------
(* Properties *)

\* Permits, claims and buckets hold what their types say; what is burnt was consumed.
IsolationTypeOK ==
    /\ decisions \subseteq Identities /\ wrapped \subseteq BasePermits
    /\ permits \in Seq([base : BasePermits, id : PermitIds, identity : Identities])
    /\ consumed \subseteq DOMAIN permits /\ burnt \subseteq consumed
    /\ claims \in [Stores -> [PermitIds -> Identities \cup {NoIdentity}]]
    /\ buckets \in [Identities -> Identities \cup {NoIdentity}] /\ attested \subseteq Attestations

\* An execution permit runs at most once, whatever hosts, modes and stores its
\* runtime permit is offered to while claims are outstanding, and no two runs
\* in production carry one permit id (evaluateRuntimeExecutionGate, :873-:885).
BasePermitRunsOnce ==
    \A r1, r2 \in runs :
        /\ permits[r1.permit].base = permits[r2.permit].base => r1 = r2
        /\ (r1.store = r2.store /\ permits[r1.permit].id = permits[r2.permit].id) => r1 = r2

\* A run in production went through the shared store, where its permit id is
\* held by its own identity, an identity with an allowed boundary decision: a
\* second permit with the same id never runs on the first one's claim.
RunHoldsItsClaim ==
    \A r \in runs :
        /\ r.mode = "production" => r.store = Distributed
        /\ claims[r.store][permits[r.permit].id] = permits[r.permit].identity
        /\ permits[r.permit].identity \in decisions

\* A permit whose claim was refused, lost or garbled is spent for good: no
\* retry of the gate ever runs it (the object is consumed before the await).
BurntNeverRuns ==
    \A p \in burnt : p \in burnt' /\ \A r \in runs' : r.permit # p

\* A value read from the state store was written by the reader's identity.
StateIsolated == \A r \in reads : r[2] \in {r[1], NoIdentity}

\* A sandbox capability is only granted by a provider some TRUSTED attestation
\* names, for that environment and with that capability.
SandboxAttested ==
    \A g \in sandboxed : \E a \in attested :
        /\ a.result = "TRUSTED" /\ a.provider = g.provider /\ a.env = g.env /\ g.capability \in a.capabilities
        /\ g.env = "production" => a.type = "productionDistributed"

\* A base permit runs once, by the host whose claim is stored; state is read by
\* its own identity only; sandboxes are attested.
IsolationSafe ==
    /\ IsolationTypeOK
    /\ BasePermitRunsOnce
    /\ RunHoldsItsClaim
    /\ StateIsolated
    /\ SandboxAttested
=============================================================================
