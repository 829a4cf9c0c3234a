---------------------------- MODULE DurableStores ----------------------------
(* The durable adapters (adapters/src) and the production adapter layer       *)
(* (production-adapters/src): the hash-chained audit sink, the replay store,  *)
(* the checkpoint store, the adapter registry with its readiness gate, and    *)
(* guarded calls of an approval store.  Every await ends a step; backends     *)
(* may reject a write and hooks may throw.                                    *)
EXTENDS Gates, FiniteSets

CONSTANTS Calls,            \* concurrent callers of the adapters
          Restorers,        \* those that restore a checkpoint
          Partitions,       \* tenant and workspace pairs
          PartitionOf,      \* [Calls -> Partitions], the caller's scope
          Kinds,            \* the critical adapter kinds
          NoRecord,
          PermitExpiry, MaxTime

\* A scope is never mistaken for the absence of a record.
ASSUME DurableAssumption ==
    /\ PartitionOf \in [Calls -> Partitions] /\ Restorers \subseteq Calls
    /\ NoRecord \notin Partitions
    /\ {PermitExpiry, MaxTime} \subseteq Nat

VARIABLES clock,
          chains, appending,    \* audit sink: [Partitions -> records], [Calls -> progress]
          overlapped,           \* partitions with appends that overlapped
          replayStore, claim,   \* replay store: the stored binding, [Calls -> progress]
          checkpointAt, restoring,
          trusted, registry, health, gate,    \* adapter registry and readiness gate
          adapterUp, approval, guarded        \* production approval adapter

auditVars == <<chains, appending, overlapped>>
replayVars == <<replayStore, claim>>
checkpointVars == <<checkpointAt, restoring>>
readinessVars == <<trusted, registry, health, gate>>
approvalVars == <<adapterUp, approval, guarded>>
durableVars == <<clock, auditVars, replayVars, checkpointVars, readinessVars, approvalVars>>

DurableInit ==
    /\ clock = 0
    /\ chains = [p \in Partitions |-> <<>>]
    /\ appending = [c \in Calls |-> [pc |-> "idle", seq |-> 0, prev |-> <<>>]] /\ overlapped = {}
    /\ replayStore = NoRecord /\ claim = [c \in Calls |-> "idle"]
    /\ checkpointAt = NoRecord /\ restoring = [c \in Restorers |-> [pc |-> "idle", got |-> NoRecord]]
    /\ trusted \in BOOLEAN
    /\ registry = [k \in Kinds |-> NoRecord] /\ health = [k \in Kinds |-> "READY"]
    /\ gate = [pc |-> "idle", sampled |-> {}, problems |-> {}]
    /\ adapterUp = FALSE /\ approval = [consumed |-> FALSE, revoked |-> FALSE]
    /\ guarded = [c \in Calls |-> [pc |-> "idle", up |-> FALSE, value |-> NoRecord]]

----------------------------------------------------------------------------
(* Audit sink.  The hash of a record determines the record and all before     *)
(* it, so it is modelled by that sequence of sequence numbers and callers.    *)

HashOf(r) == Append(r.prev, <<r.seq, r.by>>)

HeadRecord(p) == IF chains[p] = <<>> THEN [seq |-> 0, hash |-> <<>>]
                 ELSE [seq |-> chains[p][Len(chains[p])].seq, hash |-> HashOf(chains[p][Len(chains[p])])]

\* append up to its await of the backend's head.
AuditHead(c) ==
    LET p == PartitionOf[c]
        busy == \E d \in Calls \ {c} : appending[d].pc = "read" /\ PartitionOf[d] = p
    IN  /\ appending[c].pc = "idle"
        /\ appending' = [appending EXCEPT ![c] = [pc |-> "read", seq |-> HeadRecord(p).seq + 1,
                                                  prev |-> HeadRecord(p).hash]]
        /\ overlapped' = IF busy THEN overlapped \cup {p} ELSE overlapped
        /\ UNCHANGED <<clock, chains, replayVars, checkpointVars, readinessVars, approvalVars>>

\* The backend's append of the record r to the partition p.
BackendAppend(p, r) == [chains EXCEPT ![p] = Append(@, r)]

\* The write, which the backend may reject.
AuditWrite(c, rejected) ==
    /\ appending[c].pc = "read"
    /\ appending' = [appending EXCEPT ![c].pc = IF rejected THEN "failed" ELSE "done"]
    /\ chains' = IF rejected THEN chains
                 ELSE BackendAppend(PartitionOf[c], [seq |-> appending[c].seq, prev |-> appending[c].prev, by |-> c])
    /\ UNCHANGED <<clock, overlapped, replayVars, checkpointVars, readinessVars, approvalVars>>

VerifyChain(p) == \A i \in DOMAIN chains[p] :
    /\ chains[p][i].seq = i
    /\ chains[p][i].prev = IF i = 1 THEN <<>> ELSE HashOf(chains[p][i - 1])

----------------------------------------------------------------------------
(* Replay store: one permit, claimed under each caller's binding. *)

ClaimRefused(now, malformed) == malformed \/ PermitExpiry <= now

BeginClaim(c, malformed) ==
    /\ claim[c] = "idle"
    /\ claim' = [claim EXCEPT ![c] = IF ClaimRefused(clock, malformed) THEN "REJECTED" ELSE "claiming"]
    /\ UNCHANGED <<clock, auditVars, replayStore, checkpointVars, readinessVars, approvalVars>>

\* Variant that looks and stores in two steps, so it always finds nothing.
PutIfAbsentRaced(c) == [stored |-> TRUE, value |-> PartitionOf[c]]

PutIfAbsent(c) == IF replayStore = NoRecord THEN [stored |-> TRUE, value |-> PartitionOf[c]]
                  ELSE [stored |-> FALSE, value |-> replayStore]

\* The backend answers; the audit hook runs after the claim is stored and may
\* throw, which loses the answer and not the claim.
EndClaim(c, throws) ==
    /\ claim[c] = "claiming" /\ replayStore' = PutIfAbsent(c).value
    /\ claim' = [claim EXCEPT ![c] = IF throws THEN (IF PutIfAbsent(c).stored THEN "threw" ELSE "threw late")
                                     ELSE IF PutIfAbsent(c).stored THEN "CLAIMED" ELSE "REPLAYED"]
    /\ UNCHANGED <<clock, auditVars, checkpointVars, readinessVars, approvalVars>>

----------------------------------------------------------------------------
(* Checkpoint store: one checkpoint id. *)

SaveCheckpoint(p, expires) ==
    /\ checkpointAt' = [owner |-> p, expires |-> expires, intact |-> TRUE]
    /\ UNCHANGED <<clock, auditVars, replayVars, restoring, readinessVars, approvalVars>>

CorruptCheckpoint ==
    /\ checkpointAt # NoRecord /\ checkpointAt' = [checkpointAt EXCEPT !.intact = FALSE]
    /\ UNCHANGED <<clock, auditVars, replayVars, restoring, readinessVars, approvalVars>>

DeleteCheckpoint(human) ==
    /\ human /\ checkpointAt' = NoRecord
    /\ UNCHANGED <<clock, auditVars, replayVars, restoring, readinessVars, approvalVars>>

\* restore up to its await of the record.
BeginRestore(c) ==
    /\ restoring[c].pc = "idle"
    /\ restoring' = [restoring EXCEPT ![c] = [pc |-> "read", got |-> checkpointAt]]
    /\ UNCHANGED <<clock, auditVars, replayVars, checkpointAt, readinessVars, approvalVars>>

RestoreVerdict(c, d) ==
    LET got == restoring[c].got
    IN  FirstRefusal(<< <<got = NoRecord, "checkpoint_not_found">>,
                        <<"authorization" \in d, "checkpoint_authorization_invalid">>,
                        <<"mismatch" \in d, "checkpoint_authorization_mismatch">>,
                        <<PermitExpiry <= clock, "checkpoint_permit_expired">>,
                        <<got # NoRecord /\ got.owner # PartitionOf[c], "checkpoint_tenant_mismatch">>,
                        <<got # NoRecord /\ ~got.intact, "checkpoint_integrity_failed">>,
                        <<got # NoRecord /\ got.expires <= clock, "checkpoint_expired">> >>, "restored")

EndRestore(c, d) ==
    /\ restoring[c].pc = "read"
    /\ restoring' = [restoring EXCEPT ![c].pc = RestoreVerdict(c, d)]
    /\ UNCHANGED <<clock, auditVars, replayVars, checkpointAt, readinessVars, approvalVars>>

----------------------------------------------------------------------------
(* Adapter registry and readiness gate *)

Metadata == [testOnly : BOOLEAN, productionReady : BOOLEAN, attested : BOOLEAN]

Registration(k, meta) ==
    FirstRefusal(<< <<meta.productionReady /\ (meta.testOnly \/ ~meta.attested), "metadata_spoofing">>,
                    <<registry[k] # NoRecord, "duplicate_adapter">> >>, "registered")

Register(k, meta) ==
    /\ Registration(k, meta) = "registered"
    /\ registry' = [registry EXCEPT ![k] = meta]
    /\ UNCHANGED <<clock, auditVars, replayVars, checkpointVars, trusted, health, gate, approvalVars>>

HealthChanges(k) ==
    /\ health' = [health EXCEPT ![k] = IF @ = "READY" THEN "FAILED" ELSE "READY"]
    /\ UNCHANGED <<clock, auditVars, replayVars, checkpointVars, trusted, registry, gate, approvalVars>>

ProductionUsable(k) == registry[k] # NoRecord /\ registry[k].productionReady /\ ~registry[k].testOnly /\ registry[k].attested

\* One round of the loop over the kinds; each health check is awaited.
SampleKind(k) ==
    /\ gate.pc \in {"idle", "sampling"} /\ k \notin gate.sampled
    /\ gate' = [pc |-> "sampling", sampled |-> gate.sampled \cup {k},
                problems |-> IF trusted /\ ~(ProductionUsable(k) /\ health[k] = "READY")
                             THEN gate.problems \cup {k} ELSE gate.problems]
    /\ UNCHANGED <<clock, auditVars, replayVars, checkpointVars, trusted, registry, health, approvalVars>>

ReadinessVerdict == IF gate.problems # {} THEN "STARTUP_REJECTED" ELSE "READY"

DecideReadiness ==
    /\ gate.pc = "sampling" /\ gate.sampled = Kinds
    /\ gate' = [gate EXCEPT !.pc = ReadinessVerdict]
    /\ UNCHANGED <<clock, auditVars, replayVars, checkpointVars, trusted, registry, health, approvalVars>>

----------------------------------------------------------------------------
(* A guarded call of the approval adapter: availability, get, act, consume. *)

AdapterStarts == /\ ~adapterUp /\ adapterUp' = TRUE
                 /\ UNCHANGED <<clock, auditVars, replayVars, checkpointVars, readinessVars, approval, guarded>>
AdapterCloses == /\ adapterUp /\ adapterUp' = FALSE
                 /\ UNCHANGED <<clock, auditVars, replayVars, checkpointVars, readinessVars, approval, guarded>>
ApprovalRevoked == /\ ~approval.revoked /\ approval' = [approval EXCEPT !.revoked = TRUE]
                   /\ UNCHANGED <<clock, auditVars, replayVars, checkpointVars, readinessVars, adapterUp, guarded>>

EvaluateAvailability(c) ==
    /\ guarded[c].pc = "idle"
    /\ guarded' = [guarded EXCEPT ![c] = [pc |-> "evaluated", up |-> adapterUp, value |-> NoRecord]]
    /\ UNCHANGED <<clock, auditVars, replayVars, checkpointVars, readinessVars, adapterUp, approval>>

\* get answers nothing once the adapter is closed.
ApprovalGet == IF adapterUp THEN approval ELSE NoRecord

GuardAdapterCall(c, throws) ==
    /\ guarded[c].pc = "evaluated"
    /\ guarded' = [guarded EXCEPT ![c] = [pc |-> "called", up |-> adapterUp,
                      value |-> IF ~guarded[c].up \/ throws THEN NoRecord ELSE ApprovalGet]]
    /\ UNCHANGED <<clock, auditVars, replayVars, checkpointVars, readinessVars, adapterUp, approval>>

\* The caller acts on an approval that is neither consumed nor revoked in the
\* copy it was given, and marks it consumed.
ActOnApproval(c) ==
    /\ guarded[c].pc = "called"
    /\ LET v == guarded[c].value
           granted == v # NoRecord /\ v \in [consumed : {FALSE}, revoked : {FALSE}]
       IN  /\ guarded' = [guarded EXCEPT ![c].pc = IF granted THEN "acted" ELSE "denied"]
           /\ approval' = IF granted THEN [approval EXCEPT !.consumed = TRUE] ELSE approval
    /\ UNCHANGED <<clock, auditVars, replayVars, checkpointVars, readinessVars, adapterUp>>

Tick == /\ clock < MaxTime /\ clock' = clock + 1
        /\ UNCHANGED <<auditVars, replayVars, checkpointVars, readinessVars, approvalVars>>

AuditNext == \E c \in Calls : AuditHead(c) \/ \E b \in BOOLEAN : AuditWrite(c, b)
ReplayNext == Tick \/ \E c \in Calls, b \in BOOLEAN : BeginClaim(c, b) \/ EndClaim(c, b)
CheckpointNext ==
    \/ Tick \/ CorruptCheckpoint \/ \E b \in BOOLEAN : DeleteCheckpoint(b)
    \/ \E p \in Partitions, t \in 1..MaxTime : SaveCheckpoint(p, t)
    \/ \E c \in Restorers : BeginRestore(c) \/ \E d \in {{}, {"authorization"}, {"mismatch"}} : EndRestore(c, d)
ReadinessNext ==
    \/ DecideReadiness
    \/ \E k \in Kinds : HealthChanges(k) \/ SampleKind(k) \/ \E meta \in Metadata : Register(k, meta)
ApprovalNext ==
    \/ AdapterStarts \/ AdapterCloses \/ ApprovalRevoked
    \/ \E c \in Calls : EvaluateAvailability(c) \/ ActOnApproval(c) \/ \E b \in BOOLEAN : GuardAdapterCall(c, b)

\* The adapters side by side.
DurableSteps == AuditNext \/ ReplayNext \/ CheckpointNext \/ ReadinessNext \/ ApprovalNext
DurableSpec == DurableInit /\ [][DurableSteps]_durableVars

----------------------------------------------------------------------------
(* Properties *)

\* A fork of the chain by overlapping appends is always visible to
\* verifyChain, which never condemns a chain without one; without overlapping
\* appends there is none.
ForkDetected == \A p \in Partitions :
    /\ p \notin overlapped => VerifyChain(p)
    /\ VerifyChain(p) <=> \A i, j \in DOMAIN chains[p] : chains[p][i].prev = chains[p][j].prev => i = j

\* Whatever overlaps or is rejected, an append that is answered is in its own
\* partition exactly once, and one that failed is not.
AppendsKept == \A c \in Calls : \A p \in Partitions :
    Cardinality({i \in DOMAIN chains[p] : chains[p][i].by = c})
        = IF appending[c].pc = "done" /\ PartitionOf[c] = p THEN 1 ELSE 0

\* However claims interleave, and also when the answer of the one that was
\* stored is lost to a throwing hook, a permit is granted at most once.
PermitSingleUse == Cardinality({c \in Calls : claim[c] \in {"CLAIMED", "threw"}}) <= 1

\* What a restore hands out was intact and of the caller's own scope when it
\* was read, also when it is replaced, corrupted or deleted meanwhile.
RestoreSound == \A c \in Restorers : restoring[c].pc = "restored" =>
    restoring[c].got # NoRecord /\ restoring[c].got.intact /\ restoring[c].got.owner = PartitionOf[c]

\* A trusted production start is ready only with every critical adapter
\* registered, attested and not test-only, however registrations and health
\* changes interleave with the sampling.
ReadyIsUsable == (trusted /\ gate.pc = "READY") => \A k \in Kinds : ProductionUsable(k)

\* A guarded call that grants was served by an adapter that was up both when
\* its availability was decided and when it was called.
GrantedWhileUp == \A c \in Calls : guarded[c].value # NoRecord => guarded[c].up

\* "consumption is single-use" (approval-adapter.ts:5): one approval is acted
\* on once.  It does not hold of the code (README, section 5) and is part of no run.
ApprovalSingleUse == Cardinality({c \in Calls : guarded[c].pc = "acted"}) <= 1

\* The safety of the durable adapters: a forked chain is detected and no append is
\* lost, a permit is claimed once, a restore is sound, readiness and a grant are
\* answered only by adapters that are up.
StoresSafe ==
    /\ ForkDetected
    /\ AppendsKept
    /\ PermitSingleUse
    /\ RestoreSound
    /\ ReadyIsUsable
    /\ GrantedWhileUp
=============================================================================
