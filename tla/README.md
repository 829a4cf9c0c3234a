# OSForge core: a verification project

This directory holds TLA+ models of the parts of OSForge core that keep state or
decide on it, TLC configurations that check them on small instances, and TLAPS
proofs of the safety properties of most components for every instance.
`PROJECT.json` maps each definition to the lines it models and lists the runs,
the mutants, the findings, the hazards and the theorems.

OSForge core is TypeScript on one event loop. Code between two `await`s is atomic
and everything else interleaves. **One action of a model is what the code runs
between two awaits**, and an awaited call is a control state in which any other
activity may step. Where the order of microtasks matters (a promise settles
before the `finally` callback attached to it runs) the model has both steps. Many
packages are synchronous gates: pure functions whose answer a host applies later.
There the model has the gate, the host that applies the answer, and what changes
between the two.

## 1. The system

| part | state | operations | hard because | correct when |
| --- | --- | --- | --- | --- |
| runtime: worker pool, scheduler, backpressure | queue, active and per-tenant counters | schedule, run, pump, finally, shutdown | callbacks of many tasks share counters; a pump is only triggered by others | limits hold, no slot is lost, nobody starves or is overtaken |
| runtime: circuit breaker | entry per key | canExecute, onSuccess, onFailure | reports arrive late, or never | trips on its own failures only, cools down |
| runtime: quota, resources | usage per slot, reserved amounts | acquire, reserve, release | several must be taken and undone together | released exactly once |
| runtime: engine | seen permits, one record per submission | submit, runAttempt, timeout, cancel, retry, shutdown | timers, cancellation, sink failures and retries race | a permit runs once, results are recorded, calls are answered |
| pipeline | claimed permits, consumed approvals, audit chain | run, evaluateFinalGate, claim, consume, append | awaits between the checks and the spending of permit and approval | each is spent once, and the trail is true |
| orchestrator | results of the nodes | handle, execute | partial failure above the pipeline | dependencies first, true status, ends |
| kernel | state, boot order, status, failure counts | register, boot, shutdown, pause, resume, reportCrash, health | every method awaits hooks of others | boots and stops in order, fails closed, bounded restarts |
| governance, agent execution | decisions, permits, tickets, policies, leases, thresholds | decide, evaluate, execute, activate, revoke | a decision is a snapshot that is used later | an effect is unique, authorised and recorded; unknown attributes never allow |
| agent runtime | conversation, loop, schedule, lineage, tasks | append, advance, relay, message, admit | repeated turns, late answers, lost workers | a turn acts once, critical acts have an accepted answer each, causes end |
| event buses | registrations, keys in flight, dead letters | publish, subscribe, unsubscribe | publishes overlap, hooks throw | each handler once, in order; every publish answered |
| durable and production adapters | hash chain, claims, checkpoints, registry | append, claim, restore, readiness | await between head and append, between check and call | a fork is detected, a permit claimed once |
| event foundation | outbox, stream, inbox, deliveries, dead letters | publish, deliver, acknowledge, retry, replay | duplicates, lost answers, poison events | stored once, effective once, settled |
| edge and identity gates | sessions, factors, challenges, elevations | evaluate, challenge, step up, recover | a grant rests on a chain of short-lived results | a grant is backed at the moment it is made |
| identity and trust | sessions, tokens, credentials, delegations, break-glass | create, rotate, verify, delegate, recover | accesses hold copies of sessions | nothing that ended serves again |
| tool firewall, tenant boundary, secret access | permits, leases, tickets, kill switch, ledger | decide, consume, deliver, release | an awaited provider between ticket and delivery | one run per permit, one recorded delivery per secret permit |
| runtime isolation | boundary decisions, permits, claims, sandboxes, state | permit, gate, attest, read, write | claims are lost or garbled; two hosts | a base permit runs once, state stays apart |
| memory | versions, tombstones, slots, chains, snapshots | write, delete, prune, restore | the record changes before the sink is asked | scoped, audited, history kept |
| hardening | policy, plugin, flags, snapshots, lockdown, backup | verify, activate, compare, restore | long legal sequences | sound policy, no revival |
| content screening | verdict, quarantine, promotion nonces, trust level | screen, frame, release, promote | verdicts are combined and undone later | framed content is clean |
| ServiceLumi | orders, ledger, sessions, prepared commands, offline keys | transitions, forms, voice, scan, sync | sessions end while a body is read; envelopes are repeated | legal transitions, consent, one effect per key |
| policy, protocol, runtime support, control plane, type-only packages | none or one assignment | checks, types, scripts | - | see section 7 |

Interaction: an intent is planned by the orchestrator into a graph; each node
is a request to the pipeline, whose final gate claims the permit, spends the
approval and invokes the executor. The runtime engine executes submissions that
carry a permit through breaker, quota, resources and the pool. The kernel boots,
watches and stops the modules around them. Agents reach the system through the
governed action: the governance engines supply the stages of a decision, the
decision mints a permit, and the execution spends it. In front of all of them
stand the edge, identity, tenant and tool gates. All write to audit sinks.

## 2. Modules

| module | models | used by |
| --- | --- | --- |
| `WorkerPool` | pool, scheduler, backpressure policy | `RuntimeEngine`, `MCPoolBreaker`, `WorkerPool_proofs`, `RuntimeEngine_proofs` |
| `CircuitBreaker` | the breaker's entry and its four operations, as operators | `BreakerProtocol`, `RuntimeEngine` |
| `BreakerProtocol` | one breaker and the engine's concurrent calls of it | `MCPoolBreaker`, `Breaker_proofs` |
| `Admission` | quota and resource accounting, as operators | `RuntimeEngine` |
| `RuntimeEngine` | `submit()` composed with all of the above | `MCRuntimeEngine`, `RuntimeEngine_proofs` |
| `Pipeline` | `run()`, the final gate, its stores and sink | `Orchestrator`, `Ordering_proofs` |
| `DependencyGraph` | the two topological sorts | `Orchestrator`, `Kernel`, `Ordering_proofs` |
| `Orchestrator` | workflows above the pipeline | `MCOrchestrator`, `Ordering_proofs` |
| `Kernel` | the kernel's lifecycle | `MCKernel`, `MCOrchestrator`, `Ordering_proofs` |
| `GovernedAction` | governance decision, permit store, ticket, execution | `Governance`, `GovernedAction_proofs` |
| `Governance` | the engines that supply the decision's stages: policies, risk, capability leases, authorization | `MCGovernedAction`, `GovernedAction_proofs` |
| `AgentRuntime` | registration, loop, schedule, approval relay, messages, background tasks | `MCGovernedAction`, `GovernedAction_proofs` |
| `Buses` | the adapters' persistent bus and the kernel's bus | `MCDurable`, `Durable_proofs` |
| `DurableStores` | audit sink, replay store, checkpoints, registry, readiness, guarded approvals | `MCDurable`, `Durable_proofs` |
| `EventFlow` | outbox, publish gate, stream, delivery, inbox, retry, dead letters, replay | `MCDurable`, `Durable_proofs` |
| `Gates` | the ordered list of checks every `evaluate...` function is | all gates, `Gates_proofs` |
| `Requests` | clock and request faults of the access packages | the seven below |
| `IdentityGate` | edge gate, identity gate, MFA, step-up, recovery | `MCAccess`, `Access_proofs` |
| `IdentityTrust` | sessions, tokens, credentials, delegation, break-glass | `MCAccess`, `Access_proofs` |
| `ToolAccess` | tenant boundary, tool firewall, secret leases and delivery | `MCAccess`, `Access_proofs` |
| `Isolation` | boundary decisions, runtime permits, replay claims, sandboxes, state | `MCAccess`, `Access_proofs` |
| `Memory` | immutable store, working memory, episodes, audit chain, snapshots | `MCAccess`, `Access_proofs` |
| `Hardening` | artifacts, plugins, policies, versions, flags, drift, lockdown, recovery | `MCAccess`, `Access_proofs` |
| `ContentScreen` | detection, trust, firewall, framing, quarantine, promotion, agent safety | `MCAccess`, `Access_proofs` |
| `ServiceLumiCore`, `ServiceLumi` | the repair-shop core; sessions, forms, voice, labels, offline sync above it | `MCServiceLumi`, `Durable_proofs` |
| `MC*` | constants of the instances and their bounds | the runs |
| `*_proofs` | theorems and their proofs, section 6; `Gates_proofs` has the lemmas the others share | - |

The safety invariants of a component are stated one by one and conjoined in one
`...Safe` invariant, which is what the run checks; the parts carry the comments.

Every one of these invariants, and every action property, is also proved for all
values of the constants (section 6). Liveness is what remains with the model checker.

## 3. How the models correspond to the code

**WorkerPool.** `status` of a task stands for its place: queued, running,
settled (its promise settled, the slot still counted), done. `active` and
`tenantActive` are the code's counters, kept beside the statuses so that they can
disagree. `Schedule` evaluates the policy on the counters and enqueues; `Pump`
is the code's loop, called by `Enqueue` and `Release`; `Best` is `#pickIndex`.
After `shutdown()` the pool drops what it is given.

**CircuitBreaker / BreakerProtocol.** An entry is `[state, failures, openedAt,
halfOpenProbes]`. `Refresh` is the lazy transition to half open that `state()`
makes. In the protocol a call asks, is admitted or not, and later succeeds,
fails, fails and is retried without asking again, or ends without a report, as
`submit()` does. `streak` and `lastFailure` are history variables.

**RuntimeEngine.** `pc` of a submission follows `submit()`: the gates that look
at the submission alone are a choice (`DenyEarly`, `DenyLate`), then permit,
breaker, quota, resources, the awaited ADMITTED record, attempts, back-off, the
awaited terminal record. Amounts of quota and resources are small numbers.
`AuditMayFail` lets the sink reject a record; a denial's record is started and
not awaited, as in `#reject`.

**Pipeline.** `pc` of a run follows `run()`. The clock is captured once, as in the
code. Gates before approval are a choice. `Claim` is the store's put-if-absent
and its answer travels back separately, so that two runs may hold answers at
once. A member of `Direct` is a later presentation of an issued permit to the
exported gate. `ClaimMayFail` is a remote store that refuses or throws.
Signatures, bindings and hashes are not modelled: a permit is its identity and
its expiry. The stores and the sink live as long as the process.

**Orchestrator.** A node is a run of the pipeline. `Advance` is one turn of the
loop in `execute()` up to the next await: blocked nodes are skipped, the next
node is handed over or the workflow ends. `DependencyGraph!Order` is Kahn's
algorithm with the sorted ready list, turn by turn (`PushReady`), as many turns as there
are nodes; the loop that finds the blocked nodes goes through the plan in that order.

**Kernel.** `registry` grows by `register()`; whatever is not registered is a
missing dependency. `boot` holds the position in `boot()`, `call` one record for
each call of another method: an operator's, a health prober's, a crashing
module's. `up` (started and not shut down since) and `restarts` are history
variables. A module's hook may throw wherever the code expects it, and `attach()`
where it does not: `boot.step` is "threw" from then on, and nothing follows. `healthy()`
answers READY, DEGRADED or FAILED, the answers the lifecycle diagram knows. A
crash is reported for a module that is up. A kernel without modules is left out.
The aggregate health report changes no state and is not modelled.

**GovernedAction.** `Decide` is `evaluateGovernancePipeline` on stage verdicts that
its callers supply, with `evaluateApproval` evaluated for the submitted approvers;
a permit keeps the verdicts it was minted on, for the properties.
`EvaluateAgentAction` adapts the result (the permit is registered before the screen
is looked at) and mints the ticket. `execute()` is split at its two awaits: up to
`sandbox.admit` (`Refused`, `Consumed`), behind it (`RunExecutor`, `NotAdmitted`,
`AdmitThrows`), behind `executor.run` (`ExecutorReturns`). The caller's
`seenTicketNonces` is any set. Context hashes are values, each of one tenant. The
`auditWritable` inputs of the decision and of the evaluation are what the one audit
sink answers when they are made.

**Governance.** `DecideByEngines` composes the engines with `Decide`: the stage
verdicts are computed from rules, attributes, signals, thresholds and a lease
instead of chosen. Conditions are a set that holds the parts of each of its members,
which nest to a finite `Height`. `EvaluateCondition` is evaluated in three values, level
by level (`within[k]`, with k levels left before `MaxConditionDepth` is exceeded); the
reference `Holds` is the truth in two values, without a limit. An absent attribute is
`Unknown` and may become known later. The score is the code's arithmetic on integers.

**AgentRuntime.** `loop` is the iteration's phase record, `convo` the last turn, and
`EvaluateAction`'s gate result is any result GovernedAction may give. `parent` is the
lineage as the messages leave it; a background task's lease may be lost, so that the
task is admitted again. An answer to an approval request is an envelope that may leave
out the kind and the id of who gave it; the relay refuses the three kinds and the id it
knows and accepts the rest. `acts`, `criticalActs`, `answers` (those the relay has no
reason to refuse) and `runs` are history variables.

**Buses.** A publish of the persistent bus is split at the audit hook and at each
consumer's answer; `inflight` and `seen` are the code's counter and key set. A
kernel publish copies the matching registrations first and calls them one by one. A
registration is a record with a number of its own, and the ones a publish has left are
a set from which the first in the sort's order is called; a handler may be registered
and unregistered while a publish runs. `callLog` is a history variable.

**DurableStores.** Each adapter call is split between its read and its write.
`chains` are the records a backend holds; `VerifyChain` recomputes the links.
Backends are external: their put-if-absent is atomic, their answers may be lost.

**EventFlow.** Identifiers are original events and replays of dead letters; a key
may be shared by two events. The relay reads, publishes through the gate and marks
the outbox in separate steps, and may stop between them. Deliveries time out,
acknowledgements travel in a set and may arrive late or be another consumer's. A failed
delivery is answered as `evaluateRetry` does: retried while its budget lasts, left for
another try or buried by the host when the budget is gone, suppressed in a storm, buried
when the attempts are used up. The host refills the budget and a storm ends or not.

**IdentityGate, IdentityTrust, ToolAccess, Isolation, Memory, Hardening,
ContentScreen.** A gate is `FirstRefusal` over its checks in the code's order; a
request carries at most one fault (`AtMostOne`), which reaches every check since the
first one that fails answers. What a host keeps from one call to the next (a session
it read, a verdict, a ticket, a snapshot) is a variable. Where a gate judges what it is
handed, the host reads it in a step of its own and may hand over what is stale by then:
the identity and session records of a request (`gateRecords`), the verification behind
`artifactSignaturesValid` (`signatures`), the flag `leaseAlreadyUsed`. Times that a
request names are its author's. Signatures and hashes are
relations between values: equal exactly when what they cover is equal. Text is
abstracted to what the detectors tell apart: layers of encoding, injected or not,
marks found. Partition keys of the memory are sequences, joined as the code joins
them, since that is what a property is about.

**ServiceLumi.** `shop` holds the orders and the state that replaying the ledger
yields. A POST is split where the body is awaited; the session captured before is
used after. `issuing` are the ids that `Date.now()` makes in one millisecond.
`pending` are voice commands and label drafts; `appliedKeys` is the sync gate's set
and `replayed` counts what the core really applied. `Accepted` are the places of an
envelope whose operations go on to the core, one after the other (`at`). `ShopSpec` has
all surfaces at once and envelopes of any length; the run uses one surface beside the
forms and short envelopes.

## 4. Runs

Passing runs:

| run | instance | shows |
| --- | --- | --- |
| `pool_breaker` | 5 tasks, 3 tenants, 2 workers, 1 per tenant, queue of 2; 4 calls, 2 keys, threshold 2, time to 5 | `PoolSafe`: counters equal occupied slots, limits hold, no idle worker while an eligible task waits, within a tenant nobody is overtaken by a task of no higher priority; a queued task is run. `BreakerSafe`: a circuit is tripped exactly when its key failed `failureThreshold` times since its last success; `CoolDown` |
| `engine` | 4 submissions, 2 with one permit, 1 worker, failing sink | permit once, exact accounting, bounded handler runs, true trail, cancellation wins |
| `engine_progress` | 3 submissions, immediate retries, shutdown, half-open circuits | accounting again, and every admitted submission is answered unless the pool dropped its attempt |
| `orchestration` | 2 workflows of 3 and 1 nodes over 4 graphs, one approval shared, one permit presented again; 3 modules, 4 graphs, any registration, 3 calls | `SpentOnce`, `TrailTruth`; `WorkflowSound`: correct order, dependencies first, true status; workflows end. `KernelSafe`: nothing is up above a stopped dependency, audit last, a stopped kernel is down, bounded restarts; boot fails closed; boot and shutdown end unless an `attach()` threw |
| `governed` | 1 decision, 2 contexts of 2 tenants, 2 actions, 2 executions, 15 stage inputs, 5 submissions; 8 conditions over 2 attributes; 6 signals, 12 pairs of thresholds; 2 turns, 1 schedule; 3 agents; 1 task | one effect per permit, each authorised by an all-positive unexpired decision and, where required, a human quorum; begun only with a writable sink; true records. `EnginesSafe`: an ALLOW stands whatever the missing attributes turn out to be, and no tenant rates a risk below the constitutional level. `AgentSafe`: turns act once, a critical act has an answer of its own that is not declared an AI's or the requester's, causes form no circle, attempts are bounded |
| `servicelumi` | 2 shops, 1 order id, 2 devices, 2 sessions, 2 offline keys, envelopes of 1 or 2 | ledger replays to the orders, consent before repair, warranty only with the checklist; prepared commands and keys take effect once; hazardous work only by the certified; no id changes hands |
| `events` | 3 originals (2 with one key), 1 replay, 2 attempts, threshold 2, retry budget 1, 1 fault; 3 publishes, 2 consumer groups, 2 registrations; 3 calls, 2 partitions, 2 adapter kinds | one stored event per key, one effect per event, only processed events are acknowledged, poison stays buried, the checkpoint goes back only by approval, stored events settle once the consumer stays active and the storm is over. Both buses account exactly and call in order; a fork is detected, claims and restores are sound, readiness is true; a begun publish is answered |
| `access` | 2 sessions, 2 tokens, 4 persons, 3 tool calls with 2 permits, 2 hosts, 3 base permits, 2 scopes, 2 nodes, 6 versions | one `...Safe` invariant per package; what ended stays ended; revocations reach every request whose records were loaded after them, and the readiness answer once the artifact was verified after them; history is kept |

Runs that find a violation, each of a sentence in the repository:

| run | what happens |
| --- | --- |
| `kernel_stopped` | a late health answer or restart turns a STOPPED module READY |
| `boot_attach` | `attach()` of a module throws outside the `try` block: `boot()` rejects, the kernel stays "booting", `shutdown()` refuses, and the modules before it stay up |
| `approval_relay` | an answer that names neither a kind nor an id passes the relay: an agent, or the requester, lets a critical act run |
| `working_memory` | the partition key joins tenant and workspace with nothing between them: the scopes (a, bc) and (ab, c) share their slots |

Parts chosen in the initial state. `pool_breaker`, `orchestration`, `governed`, `events`
and `access` each hold several components that share no state (`part`, `focus`), and
`servicelumi` uses one surface beside the forms (`surface`). The first state chooses
one, so that state spaces add instead of multiply: an invariant of one component
cannot depend on another's variables, and a part that was not chosen has no continuation
that is due, so fairness asks nothing of it. The event flow starts in three states of one
system: an empty stream without a reader, two stored events, and one stored event
with its replay.

Bounds, and why they are enough. Every limit is at most 2, so that each can be
exceeded by one; every conflict (same permit, same approval, same key, same
tenant, same module, same id) has two contenders and, mostly, a bystander. Time is
bounded by the sum of the delays in play (`MaxTime`, `MaxClock`, `MaxAgentClock`),
retries by `MaxAttempts = 2`, restarts by `MaxRestarts = 1`, kernel calls by 3: one
may start (pause, health, crash), another overtake it (shutdown), and a third meet
the result. `Bounds` of `MCAccess` limits the tick to one where nothing has a second
deadline, the audit records of both scopes together to 2, the challenges behind
recoveries to one class and released outputs to one call, lets a second session meet
a revoked principal and no other loss of standing, and uses interchangeable ids in order; `DecidedRests` of `MCGovernedAction` lets only attributes change after
the one decision. Symmetry is used once, for the sessions of `servicelumi`, which
checks safety only. Deadlock checking is off throughout: every system may come to
rest when its finitely many tasks, requests or calls are done.

Fairness. The event loop runs every callback that is due: weak fairness of the
continuations, never of the environment's new calls, the clock or a fault. It
includes that executors, handlers, stores, sinks and module hooks return; the
code assumes as much (the executor contract demands that the abort signal be
honoured, and the process manager cannot preempt a handler). For the persistent bus
it is that hooks and consumers settle, with any answer; for the event foundation,
whose gates are called by a host, that the host's delivery loop and its timers run, that
the host refills the retry budget, and that it asks again for what was suppressed.
Progress is stated as "again and again all is settled" (`[]<>`), which for a system that
starts finitely many things says that each of them ends. `StoredSettles` presumes that the
consumer stays active and the storm ends for good: `evaluateRetry` suppresses every retry
in a storm (`retry.ts:67`). `LifecycleEnds` leaves out the boot that an `attach()` ended,
which `boot_attach` is about.

Mutants. Each property of each passing run is violated when one definition is
replaced by a variant with a plausible bug; the variants stand before the
definitions they replace.

## 5. Observed and not kept as runs

Runtime and pipeline:

- A half-open probe that is denied by quota, cancelled or shed is never reported
  (`circuit-breaker.ts:77`): the circuit stays half open and refuses for good, so
  `ProbesAwaited` does not hold.
- A success reported by a call admitted before the trip closes an open circuit
  without a probe; a late failure re-opens a half-open one, so that two probes
  may run with `halfOpenMaxProbes = 1`.
- After `shutdown()` an admitted submission waits for a task the pool dropped
  (`engine.ts:392`), and the dropped task's `completion` promise is rejected
  unhandled. `Answered` does not hold.
- If the sink rejects the ADMITTED record, quota and resources stay taken
  (`engine.ts:271`); quota budgets are never reclaimed at all. `NoLeak` does not hold.
- A denial is answered before its record is written, and its failure is lost.
- With the default limits (`maxConcurrency` 4, per-tenant limit the same,
  `maxTenantInflight` 8) one tenant may hold all four workers, although
  `backpressure.ts:5` says "one tenant cannot consume all inflight capacity".
- With a retry delay of 0 the retry is scheduled before the failed attempt's slot
  is free and may be shed by it.
- A replay store that throws makes `run()` reject with nothing recorded
  (`final-gate.ts:73`). `AttemptsAudited` does not hold.
- An approval's expiry is judged by the time captured when the request started,
  also when it is consumed long after.
- If the sink rejects the record of an executed node, the workflow reports the
  node failed and skips its dependents although its effect happened.

Kernel:

- `pause()` and `resume()` set the kernel's state after their awaits: a stopped
  kernel may become "paused", be resumed to "running" with every module STOPPED,
  and a second `shutdown()` may run beside the first. The kernel's properties
  hold all the same.
- A "stop_kernel" decision taken during boot is dropped, since `shutdown()`
  refuses; the kernel goes on to "running" with the module FAILED.
- An audit module is shut down after the modules it depends on (the override of
  the reverse order), and unwinding a failed boot does not put audit last.

Governance and agents:

- A sink that becomes unavailable while the executor runs leaves an effect that is
  answered EXECUTED ("audit written") with no record; a sandbox that rejects
  leaves a spent permit, no answer and no record.
- Nothing in the pipeline consumes an approval: until its keeper marks it, one
  approval may complete several decisions. A permit outlives the revocation of
  the approval it rests on, up to its time to live.
- The permit store passes the permit's own workspace as the workspace to check, and
  `execute()` takes the workspace of the record from the request: only the
  context hash binds the workspace.
- A policy with status "expired" and no `expiresAt` is usable (`policy.ts:158`);
  `evaluatePolicySet` never answers POLICY_CONFLICT, only `detectPolicyConflict`
  does; a grant that was delegated stays usable by its delegator.
- A one-shot schedule that has FIRED can fire again; a RUNNING task may be admitted
  again; re-registration looks only at the status of the presented specification;
  the loop does not look at the agent's life cycle, and an ACTIVE agent cannot be revoked directly.

Events and adapters:

- A key is claimed before the publish gate has decided, and the claim stays when the
  event is refused or the relay stops (`idempotency.ts:59`): the retry is answered
  DUPLICATE, "already published" (`publish.ts:137`), although nothing is stored.
  `PublishedIsStored` does not hold.
- The replay of a dead letter gets a new id, so the inbox does not know it.
- Two concurrent appends of one partition read the same head and fork the chain
  (`audit-sink.ts:129`); `verifyChain` then fails for good.
- A hook that throws leaves the idempotency key remembered (`event-bus.ts:138`):
  the publish cannot be repeated.
- A once-handler is called by each of two overlapping publishes.
- Saving a checkpoint overwrites one with the same id of another tenant
  (`checkpoint-store.ts:161`).
- The approval adapter's check and its consumption are separate calls: two callers
  may use one approval. `ApprovalSingleUse` does not hold.

Identity, tools, memory, hardening:

- Approvals of a recovery are counted, not compared: one person may give both
  (`identity/src/index.ts:521`, `recovery.ts:111`). `MultiPersonApproval`
  (`docs/005_ROADMAP.md:88`) does not hold. The same goes for the "separate"
  approval of a lockdown (`emergency-lockdown.ts:58`, `:99`).
- A recovery request names its own `requestedAt`, which nothing compares with the clock
  (`identity/src/index.ts:494`, `isShortLived` at `:722`): one that lies ahead gives an
  elevation longer than the limit, although `:495` says "Recovery elevation must be
  short-lived". `ElevationShort` does not hold.
- The identity gate judges the records it is handed: a request whose records were loaded
  before a suspension or a revocation is still granted.
- Nothing but the host's own `leaseAlreadyUsed` ties a single-use lease to its use
  (`access.ts:68`, `lease.ts:49`): two permits on one lease that are both decided before
  the host notes the first deliver the secret twice. `LeaseUsedOnce` does not hold.
- The leak scan knows the delivered values only if the host passes them
  (`exfil.ts:19`), and the output gate looks for patterns only if it gets a preview
  (`output.ts:27`): a tool's output may be released with a value in it.
- A call that was allowed before the kill switch turned still consumes its permit and
  runs: the switch is read when a call is decided.
- `artifactSignaturesValid` is the host's word (`security-readiness.ts:16`): READY is
  answered after a revocation until the host verifies its artifact again.
- The immutable store joins its ids with a unit separator and checks none of them for it
  (`immutable-store.ts:162`): tenants whose ids contain one may share a partition.
- Rotating a revoked session yields a live one, and the old one is terminated before
  `create` may refuse (`session.ts:125`). `verifySession` ignores the principal's
  status; revoking a delegation does not reach the links made from it.
- A lease revoked after its ticket was issued is still delivered; a provider that
  fails leaves a consumed ticket.
- `history()` and deleting what is not found are not audited, although
  `immutable-store.ts:10` says "Every operation is audited"; a sink that throws
  leaves a change without a record; a plain write undoes a tombstone.
- A security flag whose `safeDefault` is false reads as disabled; activation of a
  policy verifies a signature over the artifact's `astHash` and does not recompute
  that hash from the rules.

ServiceLumi:

- A plain transition to DELIVERED looks at no checklist, although `module.ts:40` says
  "Quality-control items every order of this module must pass before delivery":
  only the delivery with a warranty asks. `DeliveredChecked` does not hold.
- Ids made of `Date.now()` collide within a millisecond; a session that is logged
  out while its POST is read still acts; offline keys are one set for all tenants
  and count as applied before the core has decided (`mobile.ts:105`); quality checks
  survive a rework; a quote may change after its approval.

## 6. Proofs

All for arbitrary constants under the named assumptions of the modules.

Each safety theorem has the form `Spec => []Safe` for the component's own
specification, from an inductive invariant that is stronger than the properties. What
the invariants add:

- `WorkerPool_proofs`. `PoolInv` is the type invariant, the four properties and
  `SeqNumbers` (queue numbers are unique and below the counter), without which
  `NoOvertaking` is not inductive. A slot becomes free one at a time, so `#pump`
  starts at most one task per call; lemmas state what a pump preserves
  (`PumpTypes`, `PumpAccounting`, `PumpBounded`, `PumpConserving`, `PumpOrder`) and the
  steps cite them. Cardinality facts come from `FiniteSetTheorems`. Proved:
  `PoolSafety` and, part by part, `PoolTypeCorrect`, `PoolSlotAccounting`,
  `PoolBounded`, `PoolWorkConserving`, `PoolNoOvertaking`.
- `Breaker_proofs`. `BreakerInv` says that each entry agrees with the history of
  reports and that a half-open circuit has rested for `resetTimeout`; the four
  lemmas show that each operation keeps the agreement. Proved: `BreakerSafety`,
  `BreakerTripJustified`, and the action property `BreakerCoolDown`.
- `RuntimeEngine_proofs`. The engine is shown to implement the pool: every step of
  the engine is a step of the worker pool on its attempts, or leaves it alone
  (`EngineStepOfPool`, `EngineImplementsPool`). The pool's invariant is therefore
  taken over through an instance of `WorkerPool_proofs` and not proved again, and the
  pool's properties hold inside the engine (`EnginePoolSafe`). `EngineInv` adds, for
  each submission, where its call is and what is written of it (`CallInv`), that the
  attempts before the current one are over and the later ones unknown to the pool
  (`AttemptInv`: without it a late `finally` could free the slot of a retry), and that
  a cancelled caller's attempt has a cancelled source (`CancelInv`); then that the
  permit of everything admitted is consumed (`PermitInv`), and the accounting itself.
  `HoldsAccounted` sums costs with a fold over a set: `SumCostAdds` shows that the sum
  grows by the cost of the one that is added, by the smallest set for which it would
  not. Proved: `EngineSafety`, `EngineHolds`, and the action property
  `EngineCancelWins`.
- `Ordering_proofs`: the pipeline, the sorts, and the two components that go by a
  sorted order.
  - Pipeline. `PipelineInv` adds to the properties where a run may be (`Progressed`),
    that a run whose claim was granted holds its permit alone, also before its executor
    is invoked (`PermitHeld`), that an executed run's approval is consumed
    (`ApprovalHeld`), and that records are those of returned runs (`Recorded`). Proved:
    `PipelineSpentOnce` with its parts `PipelineApprovalOnce`, `PipelinePermitOnce`,
    `PipelineDenialKeepsApproval`, and `PipelineTrailTruth`.
  - Sorts. `SortCorrect`: every listed node stands behind all it depends on, none is
    listed twice, and the sort succeeds, listing every node, exactly for the acyclic
    graphs over their own nodes. The invariant of the loop is carried from turn to turn.
  - Kernel. `KernelInv` says what boot has started and what a failed boot has still to
    unwind (`BootedSoFar`), that modules go down in the order of shutdown, also when two
    shutdowns overlap (`DownInOrder`), and that every restart spent a failure count of its
    own (`CrashesCounted`): a late restart is the only way in which a module is up in a
    kernel that failed or stopped. Proved: `KernelSafety` and the action property
    `KernelBootFailClosed`, which speaks of the steps that end a boot: into running, into
    boot_failed, and out of a throwing `attach()`, which leaves exactly the modules
    before it up. It says nothing of shutdown.
  - Orchestrator. `NodesFollow` relates each node to its dependencies and to its run in
    the pipeline. Every step is a step of the pipeline or leaves it alone
    (`OrchestratorImplementsPipeline`), so the pipeline's theorems hold under the
    orchestrator (`OrchestratorSpentOnce`, `OrchestratorTrailTruth`). Proved besides:
    `OrchestratorWorkflowSound`, with the plan's order and its blocked nodes.
- `GovernedAction_proofs`. `Inv` follows the authority of an effect backwards: a
  call behind `sandbox.admit` holds a spent permit that no other call holds
  (`HoldersSound`, `HoldersDistinct`), a ticket names a decision that allowed
  (`TicketsSound`), and what such a decision mints is sound (`DecisionsSound`, from
  the lemmas `AllowedIsPositive` and `ApprovedIsQuorum`). Proved: `GovernedSafety`
  with its parts `GovernedTypeOK`, `GovernedEffectOnce`, `GovernedEffectAuthorised`,
  `GovernedHumanQuorum`, and the action property `GovernedAuditBeforeEffect`.
  `LogInv` adds that a record of an effect is that of a call answered after its
  effect, and that a permit has one: `GovernedLogTruth`.
  The same module proves `AgentSafety` of the agent runtime. An answer the relay has no
  reason to refuse is a token (that a human gave it is what the code does not ensure): it is with the request it was given for, then with the iteration governance
  let through on it, then with the act, so critical acts never outnumber answers
  (`ActsPaid`). Causes end because a set closed under causes would hold the
  sender's whole chain, which the cycle check refuses (`CauseStays`). A task's runs are
  its attempts (`TaskInv`).
  It also proves the engines. `EvaluationSound`: when a condition is answered TRUE or
  FALSE on the attributes that are there, it is true or false whatever the missing ones
  turn out to be, level by level. `EnginesSafety` rests on it: the rules a permit was
  minted on still allow (`Stands`), because learning an attribute leaves fewer
  completions; and a tenant's thresholds that are looser than the constitution's give
  UNKNOWN, which ranks above every level.
- `Gates_proofs`. What an ordered list of checks answers: the first check that fails
  decides (`GateDecides`), an answer no check gives means that all passed
  (`NoRefusal`), and the answers that are possible (`RefusalRange`). `LeastNatural`, a
  set of naturals has a least member, is the induction used here and below:
  `UptoInduction` carries a fact from 0 to n, and `LoopRuns` shows that a bounded loop,
  written as a recursive function, takes its turns one after the other.
- `Access_proofs`, one section per package: what its gates let through, its invariant,
  a lemma per operation.
  - `IdentityGateSafety` and `GrantsAreFresh`: a result rests on an answered challenge
    and runs out within a lifetime of it, for grants and for recoveries. A request is
    granted on loaded records that would pass, and once the standing is lost no such
    records are loaded any more. Nothing is said of how long an elevation lasts.
  - `IdentityTrustSafety` and `CutSessionsStayCut`: the one access that may be late had
    read its session before the cut (`LateOnce`); delegation chains only narrow.
  - `ToolAccessSafety`, `KilledToolsStop`, `DeadLeaseNoTicket`: who ran has spent its
    nonce alone, and so has who holds a ticket, which pays for one delivery. The killed
    tool gets no further call allowed; what was allowed before may run.
  - `IsolationSafety`, `BurntForGood`: a permit is in one place (unused, in a gate call,
    in a run, burnt) and whoever won holds the claim of its id alone, also when two
    hosts ask at once.
  - `MemoryAuditedAndRestored`, `MemorySafety`, `MemoryHistoryKept`: the first and the
    last for any ids. `MemorySafety`, which adds the scoping, has `SeparatorFree` as its
    hypothesis: if no tenant id contains the unit separator, partition keys of different scopes differ
    (`PartitionKeysApart`, by the separators of the joined key), both chains verify at
    every length, the audit chain counts the answered changes.
  - `HardeningSafety`, `RevocationReaches`: a host that verified its artifact after a
    revocation keeps the refusal, and an evaluation made then is not READY (`informed`, a
    history variable, marks those evaluations, also when the answer stays the same). What was signed was free of conflicts,
    whatever the rules were altered to since; every node runs a version that the matrix supports.
  - `ContentScreenSafety`: an admission is clean at every rank of the verdicts that
    are combined; a nonce has promoted exactly if it is spent.

  Every part of the action properties `EndedStaysEnded` and `RevocationsReach`, which the
  `access` run checks over the variables of all seven packages, is one of these theorems.
- `Durable_proofs`. For `DurableSafety` the hard part is the audit chain: a partition
  whose appends never overlapped has one reader at most, whose head is the head still
  (`Quiet`), and two records that hang on one record make `verifyChain` fail
  (`ForksShow`, on the first record that does not follow its predecessor). For
  `EventSafety` the inbox is the record of the effects (`Processed`); with it
  `CheckpointsGoForward`. `BusesSafety` covers both buses: a kernel publish has called
  exactly what it copied and has not left, and a once-handler that was called is held
  only by publishes that began before; the persistent bus counts its publishes, and what a
  publish served is acknowledged or a dead letter, never both.
  `ShopSafety`, `SurfacesSafety` and `ShopStepsKept` of ServiceLumi follow from
  `Shopkeeping`: each order is what its ledger replays to, and a quote that waits for
  approval is there (`OrderSound`: without it an approval could be of nothing); prepared
  and confirmed commands have numbers of their own below the counter (`CommandsSound`); a
  key was replayed at most once, and only if it is among the applied ones, for an envelope
  accepts a key at one place (`AcceptedOnce`), however long it is.

Assumptions. The constants' assumptions say of what kind they are, with the limits the
code's defaults respect: sets are finite, limits are naturals (concurrency at least 1), markers such as
`NoPermit` are no records, the lowest supported version is compatible with the matrix,
conditions nest finitely,
weights and thresholds are integers, and two workflows share no node. TLC evaluates them on the
runs that extend the module. What the code neither gives nor checks is no assumption but
the hypothesis of the theorem that needs it (`SeparatorFree`).

Only model-checked is liveness (`QueuedIsRun`, `AnsweredUnlessDropped`, `WorkflowEnds`,
`LifecycleEnds`, `StoredSettles`, `PublishAnswers`): the prover has no support for
fairness. `EndedStaysEnded` and `RevocationsReach` of the `access` run are proved part by
part, as said above, each part for the specification of its own package.

## 7. Not modelled

- The control-plane scripts, CI, backup tooling and the repository's own validators:
  checkers of files, outside the product. Type-only packages: no behaviour.
- Runtime support (recorders, redaction, process manager, in-memory checkpoints): one
  assignment each, or formatting.
- Observability, metrics and health reports: derived figures nobody decides on, apart
  from the readiness gates that are modelled.
- The hash links of the ledgers of several packages (decision, secret, tool, tenant,
  agent audit): the chain with its concurrent appends is modelled once, in
  `DurableStores`.
- Cryptography, canonical encodings and the pattern lists of the detectors: functions
  of unbounded text whose verdict is an input here.
- Account linking and impersonation views, tenant access views, schema evolution
  rules, policy validation, freezing of inputs: stateless checks.
- HTML, translations, GET routes, speech and image intake of ServiceLumi.
- Simplifications inside modelled code. The inbox check, the handler's effect and the
  record of it are one step of `Deliver` (the code leaves them to the host around
  `outbox.ts:77`). `PutOrder` writes an order and its ledger entry together, as the
  synchronous core does, so that the two agree is checked of their contents and not of
  their timing. Thresholds are integers: a threshold that is NaN passes the
  comparisons at `risk.ts:50` and is not modelled. A claim of the replay store does not
  expire (`ttlMs`, `replay-store.ts:102`), so that a permit claimed again after
  its claim ran out is not explored.
- Process crashes: none of the in-memory stores survives one. The recovery that the
  code does provide (backup and restore, relay and worker restarts, checkpoints) is
  modelled in `Hardening`, `EventFlow`, `AgentRuntime` and `DurableStores`.
