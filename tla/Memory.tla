-------------------------------- MODULE Memory --------------------------------
(* The memory package (memory/src): the immutable versioned store with its    *)
(* tombstones, the mutable working memory, the episodic chain, the audit      *)
(* chain and snapshots.  Callers of several tenants and workspaces share one  *)
(* instance; ids are sequences of characters because every partition is found *)
(* by a key that is concatenated from them.  The audit sink may throw.        *)
EXTENDS Requests

CONSTANTS Scopes,           \* the callers' [tenant, workspace], each a sequence of characters
          MemKeys,          \* record keys
          MemTtl,           \* the time to live a caller may ask for
          MaxVersions,      \* bound: versions of a key
          MaxRecords,       \* bound: audit records, and episodes, of a partition
          MaxCopies         \* bound: copies of snapshots that callers hold

\* Ids are strings.
ASSUME MemoryAssumption ==
    /\ Scopes \subseteq [tenant : Seq(STRING), workspace : Seq(STRING)]
    /\ {MaxClock, MemTtl, MaxVersions} \subseteq Nat

VARIABLES partitions,    \* [partition keys -> [MemKeys -> KeyEntry]]
          working,       \* slots of the working memory, by partition key and key
          episodes,      \* [partition keys -> chain of events]
          memAudit,      \* [partition keys -> chain of audit records]
          sinkUp,        \* the audit sink accepts records
          answered,      \* [partition keys -> changes answered ok]
          workingReads,  \* <<reader's scope, scope of the value>> the last get of the working memory served
          legalHold,     \* the policy the callers hand in
          snapshots,     \* snapshots taken: [scope, digest, integrity]
          held,          \* the copies the callers hold, tampered with or not
          restores       \* restores authorized

recordVars == <<partitions, working, episodes, memAudit, sinkUp, answered, 
                workingReads, legalHold>>
snapshotVars == <<snapshots, held, restores>>
memoryState == <<recordVars, snapshotVars>>
memoryVars == <<now, memoryState>>

\* immutable-store.ts #partition (a unit separator), audit.ts and episodic.ts
\* partitionKey ("::"), working-memory.ts #partition (nothing between the ids).
PartitionKey(s) == s.tenant \o <<"us">> \o s.workspace
ChainKey(s) == s.tenant \o <<"::">> \o s.workspace
WorkingKey(s) == s.tenant \o s.workspace

Keys(K(_)) == {K(s) : s \in Scopes}
Genesis == <<"genesis">>

MemoryInit ==
    /\ partitions = [p \in Keys(PartitionKey) |-> [k \in MemKeys |-> [versions |-> <<>>, tombstone |-> FALSE]]]
    /\ working = <<>> /\ episodes = [p \in Keys(ChainKey) |-> <<>>]
    /\ memAudit = [p \in Keys(ChainKey) |-> <<>>] /\ sinkUp = TRUE
    /\ answered = [p \in Keys(ChainKey) |-> 0] /\ workingReads = {}
    /\ legalHold = FALSE /\ snapshots = {} /\ held = {} /\ restores = {}

-----------------------------------------------------------------------------
AuthorizeMemoryAccess(d) ==
    FirstRefusal(<< Refuse(d, {"no tenant"}, "unknown_tenant"), Refuse(d, {"session"}, "session_expired"),
                    Refuse(d, {"permission"}, "permission_denied") >>, "authorized")
MemoryFaults == {"no tenant", "session", "permission"}

\* computeLinkHash, and the chain both logs build: a record names the hash and
\* the sequence number it follows.
LinkHash(previous, seq, body) == <<previous, seq, body>>
LastHash(chain) == IF chain = <<>> THEN Genesis ELSE chain[Len(chain)].hash
ChainAppend(chain, body) ==
    Append(chain, [seq |-> Len(chain) + 1, previous |-> LastHash(chain), body |-> body,
                   hash |-> LinkHash(LastHash(chain), Len(chain) + 1, body)])

\* InMemoryMemoryAuditSink.append under the caller's scope.
Audited(s, outcome) ==
    /\ Len(memAudit[ChainKey(s)]) < MaxRecords
    /\ memAudit' = IF sinkUp THEN [memAudit EXCEPT ![ChainKey(s)] = ChainAppend(@, outcome)] ELSE memAudit

\* The change is made before the append: when that throws the caller gets no answer.
Answered(s) == answered' = IF sinkUp THEN [answered EXCEPT ![ChainKey(s)] = @ + 1] ELSE answered

\* #guard refuses: a record of the denial, nothing else.
MemDenied(s, d) ==
    /\ AuthorizeMemoryAccess(d) # "authorized" /\ Audited(s, "DENIED")
    /\ UNCHANGED <<now, partitions, working, episodes, sinkUp, answered, workingReads, legalHold, snapshotVars>>

Entry(s, k) == partitions[PartitionKey(s)][k]
Latest(e) == e.versions[Len(e.versions)]
ExpiryOf(ttl) == IF ttl > 0 THEN now + ttl ELSE MaxClock + 1

\* isRecordExpired
Expired(r) == r.expires <= now

\* ImmutableMemoryStore.write: a new version supersedes a tombstone.
MemWrite(s, k, ttl) ==
    /\ Len(Entry(s, k).versions) < MaxVersions
    /\ partitions' = [partitions EXCEPT ![PartitionKey(s)][k] =
           [versions |-> Append(@.versions, [scope |-> s, version |-> Len(@.versions) + 1, expires |-> ExpiryOf(ttl)]),
            tombstone |-> FALSE]]
    /\ Audited(s, "changed") /\ Answered(s)
    /\ UNCHANGED <<now, working, episodes, sinkUp, workingReads, legalHold, snapshotVars>>

Readable(e) == ~e.tombstone /\ e.versions # <<>> /\ ~Expired(Latest(e))

\* read, and search over every readable key of the partition.
MemRead(s, ks) ==
    LET found == {k \in ks : Readable(Entry(s, k))}
    IN  /\ Audited(s, IF found = {} THEN "not_found" ELSE "read")
        /\ UNCHANGED <<now, partitions, working, episodes, sinkUp, answered, workingReads, legalHold, snapshotVars>>

\* Variant that does not look for a legal hold.
EvaluateDeleteHeld(human) ==
    FirstRefusal(<< <<~human, "delete_requires_human_approval">> >>, "delete_authorized")

EvaluateDelete(human) ==
    FirstRefusal(<< <<legalHold, "legal_hold_active">>, <<~human, "delete_requires_human_approval">> >>, "delete_authorized")

MemDelete(s, k, human) ==
    /\ Entry(s, k).versions # <<>>
    /\ IF EvaluateDelete(human) = "delete_authorized"
       THEN /\ partitions' = [partitions EXCEPT ![PartitionKey(s)][k].tombstone = TRUE]
            /\ Audited(s, "changed") /\ Answered(s)
       ELSE Audited(s, "DENIED") /\ UNCHANGED <<partitions, answered>>
    /\ UNCHANGED <<now, working, episodes, sinkUp, workingReads, legalHold, snapshotVars>>

-----------------------------------------------------------------------------
(* Working memory: mutable, expiring, not audited *)

SlotKey(s, k) == <<WorkingKey(s), k>>
Without(f, K) == [x \in DOMAIN f \ K |-> f[x]]

WorkingSet(s, k, ttl) ==
    /\ working' = [x \in DOMAIN working \cup {SlotKey(s, k)} |->
                      IF x = SlotKey(s, k) THEN [scope |-> s, expires |-> ExpiryOf(ttl)] ELSE working[x]]
    /\ UNCHANGED <<now, partitions, episodes, memAudit, sinkUp, answered, workingReads, legalHold, snapshotVars>>

\* get: an expired slot is dropped by the read that finds it.
WorkingGet(s, k) ==
    /\ SlotKey(s, k) \in DOMAIN working
    /\ LET slot == working[SlotKey(s, k)]
       IN  IF Expired(slot) THEN working' = Without(working, {SlotKey(s, k)}) /\ workingReads' = workingReads
           ELSE workingReads' = {<<s, slot.scope>>} /\ working' = working
    /\ UNCHANGED <<now, partitions, episodes, memAudit, sinkUp, answered, legalHold, snapshotVars>>

\* delete of a key, prune of a partition (prune asks for no authorization).
WorkingDrop(s, K) ==
    /\ working' = Without(working, K)
    /\ UNCHANGED <<now, partitions, episodes, memAudit, sinkUp, answered, workingReads, legalHold, snapshotVars>>
WorkingPrune(s) == WorkingDrop(s, {x \in DOMAIN working : x[1] = WorkingKey(s) /\ Expired(working[x])})

-----------------------------------------------------------------------------
(* Episodes, snapshots *)

EpisodeAppend(s, type) ==
    /\ Len(episodes[ChainKey(s)]) < MaxRecords
    /\ episodes' = [episodes EXCEPT ![ChainKey(s)] = ChainAppend(@, type)]
    /\ UNCHANGED <<now, partitions, working, memAudit, sinkUp, answered, workingReads, legalHold, snapshotVars>>

\* verifyChain, of the replay and of the audit sink.
VerifyMemChain(chain) ==
    \A i \in DOMAIN chain :
        LET previous == IF i = 1 THEN Genesis ELSE chain[i - 1].hash
        IN  /\ chain[i].previous = previous /\ chain[i].seq = i
            /\ chain[i].hash = LinkHash(previous, chain[i].seq, chain[i].body)

\* createMemorySnapshot of the records a caller can read: the digest is over
\* their content hashes, the integrity hash over the digest and the scope.
ContentDigest(s) == {<<k, Latest(Entry(s, k)).version>> : k \in {j \in MemKeys : Readable(Entry(s, j))}}
\* Variant that leaves the scope out of the integrity hash.
IntegrityUnscoped(scope, digest) == <<digest>>

Integrity(scope, digest) == <<scope, digest>>

CreateMemorySnapshot(s) ==
    LET snap == [scope |-> s, digest |-> ContentDigest(s), integrity |-> Integrity(s, ContentDigest(s))]
    IN  /\ snapshots' = snapshots \cup {snap} /\ held' = held \cup {snap}
        /\ UNCHANGED <<now, recordVars, restores>>

VerifySnapshotIntegrity(snap) == Integrity(snap.scope, snap.digest) = snap.integrity

EvaluateSnapshotRestore(snap, target, human) ==
    /\ FirstRefusal(<< <<~VerifySnapshotIntegrity(snap), "snapshot_integrity_failed">>,
                       <<~human, "restore_requires_human_approval">>,
                       <<snap.scope # target, "cross_tenant_restore">> >>, "restore_authorized") = "restore_authorized"
    /\ restores' = restores \cup {[into |-> target, scope |-> snap.scope, digest |-> snap.digest]}
    /\ UNCHANGED <<now, recordVars, snapshots, held>>

\* A stored snapshot is corrupted or relabelled.
SnapshotDamaged(snap, scope, digest) ==
    /\ Cardinality(held) < MaxCopies
    /\ held' = held \cup {[snap EXCEPT !.scope = scope, !.digest = digest]}
    /\ UNCHANGED <<now, recordVars, snapshots, restores>>

MemoryWorld ==
    /\ \/ sinkUp' = ~sinkUp /\ legalHold' = legalHold
       \/ legalHold' = ~legalHold /\ sinkUp' = sinkUp
    /\ UNCHANGED <<now, partitions, working, episodes, memAudit, answered, workingReads, snapshotVars>>

MemoryTick == Tick /\ UNCHANGED <<recordVars, snapshotVars>>

ImmutableSteps ==
    \/ \E s \in Scopes, d \in AtMostOne(MemoryFaults) : MemDenied(s, d)
    \/ \E s \in Scopes, k \in MemKeys, ttl \in {0, MemTtl} : MemWrite(s, k, ttl)
    \/ \E s \in Scopes : MemRead(s, MemKeys) \/ \E k \in MemKeys : MemRead(s, {k})
    \/ \E s \in Scopes, k \in MemKeys, human \in BOOLEAN : MemDelete(s, k, human)
    \/ MemoryWorld \/ MemoryTick

SnapshotSteps ==
    \/ \E s \in Scopes, k \in MemKeys : MemWrite(s, k, MemTtl)
    \/ \E s \in Scopes : CreateMemorySnapshot(s)
    \/ \E snap \in held, s \in Scopes, human \in BOOLEAN : EvaluateSnapshotRestore(snap, s, human)
    \/ \E snap \in held, s \in Scopes, digest \in {{}} \cup {x.digest : x \in snapshots} : SnapshotDamaged(snap, s, digest)
    \/ MemoryTick

WorkingSteps ==
    \/ \E s \in Scopes, k \in MemKeys :
          \/ \E ttl \in {0, MemTtl} : WorkingSet(s, k, ttl)
          \/ WorkingGet(s, k) \/ WorkingDrop(s, {SlotKey(s, k)}) \/ WorkingPrune(s)
    \/ \E s \in Scopes, type \in {"e1", "e2"} : EpisodeAppend(s, type)
    \/ MemoryTick

MemorySteps == ImmutableSteps \/ SnapshotSteps \/ WorkingSteps

MemorySpec == now = 0 /\ MemoryInit /\ [][MemorySteps]_memoryVars

-----------------------------------------------------------------------------
(* Properties *)

\* Partitions and slots are filed under the keys of their kind, by known callers.
MemoryTypeOK ==
    /\ DOMAIN partitions = Keys(PartitionKey) /\ DOMAIN memAudit = Keys(ChainKey)
    /\ \A p \in DOMAIN partitions, k \in MemKeys : Len(partitions[p][k].versions) <= MaxVersions
    /\ \A x \in DOMAIN working : x[1] \in Keys(WorkingKey) /\ working[x].scope \in Scopes
    /\ sinkUp \in BOOLEAN /\ legalHold \in BOOLEAN /\ snapshots \subseteq held

\* No tenant id holds the unit separator that joins the two ids of a partition key.
\* The store relies on it and checks it nowhere (immutable-store.ts), so it is a
\* condition of the scoping below and no assumption about the constants.
SeparatorFree == \A s \in Scopes : \A i \in 1..Len(s.tenant) : s.tenant[i] # "us"

\* Every version a caller's reads, searches and deletes can reach was written
\* under that caller's own tenant and workspace, whoever else wrote in between
\* (the partition key keeps the two ids apart).
MemoryScoped ==
    \A s \in Scopes, k \in MemKeys : \A i \in DOMAIN Entry(s, k).versions : Entry(s, k).versions[i].scope = s

\* Every change a caller was told of is in the audit chain, and every change in
\* the chain was answered, although the change precedes the append; both chains
\* replay as verified at any time.
AnsweredIsAudited ==
    \A p \in DOMAIN memAudit :
        /\ answered[p] = Cardinality({i \in DOMAIN memAudit[p] : memAudit[p][i].body = "changed"})
        /\ VerifyMemChain(memAudit[p]) /\ VerifyMemChain(episodes[p])

\* A restore is authorized only into the scope and with the contents some
\* snapshot was taken of, however the stored copies were damaged.
RestoredAsTaken ==
    \A r \in restores : r.into = r.scope /\ \E snap \in snapshots : snap.scope = r.scope /\ snap.digest = r.digest

\* What a step may do to the history of a key.
HistoryStep ==
    \A p \in DOMAIN partitions, k \in MemKeys :
        LET e == partitions[p][k] IN
        /\ SubSeq(partitions'[p][k].versions, 1, Len(e.versions)) = e.versions
        /\ (legalHold /\ partitions'[p][k].tombstone) => e.tombstone

\* Versions are only ever appended, and a key under a legal hold does not
\* disappear from readers by a delete (write and delete of the immutable store).
HistoryKept == [][HistoryStep]_memoryVars

\* What the working memory serves was written under the reader's own tenant and
\* workspace ("Ephemeral, tenant-scoped", working-memory.ts:7).
WorkingScoped == \A r \in workingReads : r[1] = r[2]

\* Records stay in their scope, what is answered is audited, and a restore brings
\* back what the snapshot was taken of.
MemorySafe ==
    /\ MemoryTypeOK
    /\ MemoryScoped
    /\ AnsweredIsAudited
    /\ RestoredAsTaken
=============================================================================
