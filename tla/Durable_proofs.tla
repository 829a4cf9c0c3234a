---------------------------- MODULE Durable_proofs ----------------------------
(* Proofs about what is stored and delivered.  The durable adapters: the      *)
(* audit chain and its forks, the replay store, the checkpoint store, the     *)
(* readiness gate and the approval adapter.  The event foundation: the        *)
(* outbox, the stream, delivery, dead letters and replays.  ServiceLumi: the  *)
(* orders and their ledger, prepared commands and offline envelopes.          *)
EXTENDS DurableStores, Buses, EventFlow, ServiceLumi, Gates_proofs, SequenceTheorems, FiniteSetTheorems

-----------------------------------------------------------------------------
(* The audit chain *)

Links == Seq(Nat \X Calls)
AuditRecord == [seq : Nat, prev : Links, by : Calls]
AppendState == [pc : {"idle", "read", "failed", "done"}, seq : Nat, prev : Links]

\* A record hangs on one that is stored before it, or on none, and is numbered
\* after the records its hash stands for.
Hung(ch) == \A i \in 1..Len(ch) :
    /\ ch[i].seq = Len(ch[i].prev) + 1
    /\ ch[i].prev = <<>> \/ \E k \in 1..(i - 1) : ch[i].prev = HashOf(ch[k])

\* The chain has no fork at its i-th record.
Linked(ch, i) == ch[i].seq = i /\ ch[i].prev = IF i = 1 THEN <<>> ELSE HashOf(ch[i - 1])

\* The hash of a record is one link longer than that of the one it hangs on.
LEMMA HashGrows ==
    ASSUME NEW r \in AuditRecord
    PROVE  HashOf(r) \in Links /\ Len(HashOf(r)) = Len(r.prev) + 1 /\ Len(r.prev) \in Nat
<1>1. r.prev \in Seq(Nat \X Calls) /\ <<r.seq, r.by>> \in Nat \X Calls BY DEF AuditRecord, Links
<1> QED BY <1>1, AppendProperties, LenProperties DEF HashOf, Links

\* verifyChain condemns a chain exactly when two of its records hang on the same
\* place, for chains of any length.
LEMMA ForksShow ==
    ASSUME NEW ch \in Seq(AuditRecord), Hung(ch)
    PROVE  (\A i \in 1..Len(ch) : Linked(ch, i))
              <=> \A i, j \in 1..Len(ch) : ch[i].prev = ch[j].prev => i = j
<1>0. Len(ch) \in Nat /\ \A i \in 1..Len(ch) : ch[i] \in AuditRecord BY ElementOfSeq, LenProperties
<1>1. ASSUME \A i \in 1..Len(ch) : Linked(ch, i)
      PROVE  \A i, j \in 1..Len(ch) : ch[i].prev = ch[j].prev => i = j
    <2>1. \A i \in 1..Len(ch) : Len(ch[i].prev) + 1 = i BY <1>1 DEF Hung, Linked
    <2>2. \A i \in 1..Len(ch) : Len(ch[i].prev) \in Nat BY <1>0, HashGrows
    <2> QED BY <1>0, <2>1, <2>2
<1>2. ASSUME \A i, j \in 1..Len(ch) : ch[i].prev = ch[j].prev => i = j,
             ~\A i \in 1..Len(ch) : Linked(ch, i)
      PROVE  FALSE
    <2> DEFINE forks == {i \in 1..Len(ch) : ~Linked(ch, i)}
    <2>1. PICK i \in forks : \A j \in forks : i <= j
        <3>1. forks \subseteq Nat /\ forks # {} BY <1>0, <1>2
        <3> HIDE DEF forks
        <3> QED BY <3>1, LeastNatural
    <2>2. i \in 1..Len(ch) /\ i \in Nat /\ i >= 1 /\ ~Linked(ch, i) BY <1>0
    <2>3. \A j \in 1..(i - 1) : Linked(ch, j)
        <3> TAKE j \in 1..(i - 1)
        <3>1. j \in 1..Len(ch) /\ ~(i <= j) BY <1>0, <2>2
        <3> QED BY <2>1, <3>1
    <2> HIDE DEF forks
    <2>4. /\ ch[i].seq = Len(ch[i].prev) + 1
          /\ ch[i].prev = <<>> \/ \E k \in 1..(i - 1) : ch[i].prev = HashOf(ch[k])
        BY <2>2 DEF Hung
    <2>5. i # 1
        <3> SUFFICES ASSUME i = 1 PROVE FALSE OBVIOUS
        <3>1. ch[1].prev = <<>> BY <2>4
        <3>2. ch[1].seq = 1 BY <2>4, <3>1
        <3> QED BY <2>2, <3>1, <3>2 DEF Linked
    <2>6. 1 \in 1..(i - 1) /\ 1 \in 1..Len(ch) BY <1>0, <2>2, <2>5
    <2>7. ch[1].prev = <<>> BY <2>3, <2>6 DEF Linked
    <2>8. ch[i].prev # <<>> BY <1>2, <2>2, <2>5, <2>6, <2>7
    <2>9. PICK k \in 1..(i - 1) : ch[i].prev = HashOf(ch[k]) BY <2>4, <2>8
    <2>10. k \in Nat /\ k \in 1..Len(ch) /\ k + 1 \in 1..Len(ch) /\ k + 1 # 1 /\ (k + 1) - 1 = k BY <1>0, <2>2
    <2>11. CASE k = i - 1
        <3>1. ch[k].seq = k BY <2>3, <2>9 DEF Linked
        <3>2. ch[k].seq = Len(ch[k].prev) + 1 BY <2>10 DEF Hung
        <3>3. Len(ch[i].prev) = Len(ch[k].prev) + 1 /\ Len(ch[k].prev) \in Nat BY <1>0, <2>9, <2>10, HashGrows
        <3>4. ch[i].seq = i BY <2>2, <2>4, <2>10, <2>11, <3>1, <3>2, <3>3
        <3> QED BY <2>2, <2>5, <2>9, <2>11, <3>4 DEF Linked
    <2>12. CASE k # i - 1
        <3>1. k + 1 \in 1..(i - 1) BY <2>2, <2>10, <2>12
        <3>2. ch[k + 1].prev = HashOf(ch[k]) BY <2>3, <2>10, <3>1 DEF Linked
        <3>3. k + 1 = i BY <1>2, <2>2, <2>9, <2>10, <3>2
        <3> QED BY <2>2, <2>10, <2>12, <3>3
    <2> QED BY <2>11, <2>12
<1> QED BY <1>1, <1>2

AuditTypes ==
    /\ chains \in [Partitions -> Seq(AuditRecord)]
    /\ appending \in [Calls -> AppendState]
    /\ overlapped \subseteq Partitions

Reads(c, p) == appending[c].pc = "read" /\ PartitionOf[c] = p

\* A partition whose appends never overlapped has one append under way at most,
\* and what that one read is the head still.
Quiet(p) ==
    /\ VerifyChain(p)
    /\ \A c, d \in Calls : Reads(c, p) /\ Reads(d, p) => c = d
    /\ \A c \in Calls : Reads(c, p) => /\ appending[c].seq = HeadRecord(p).seq + 1
                                       /\ appending[c].prev = HeadRecord(p).hash

\* What an append under way read hangs on a stored record, or on none.
ReaderHung(c) ==
    LET ch == chains[PartitionOf[c]]
    IN  /\ appending[c].seq = Len(appending[c].prev) + 1
        /\ appending[c].prev = <<>> \/ \E k \in 1..Len(ch) : appending[c].prev = HashOf(ch[k])

\* Who has a record in which partition.
Authored(p) == \A i \in 1..Len(chains[p]) :
    /\ PartitionOf[chains[p][i].by] = p /\ appending[chains[p][i].by].pc = "done"
    /\ \A j \in 1..Len(chains[p]) : chains[p][i].by = chains[p][j].by => i = j

AuditInv ==
    /\ AuditTypes
    /\ \A p \in Partitions : Hung(chains[p]) /\ Authored(p)
    /\ \A p \in Partitions \ overlapped : Quiet(p)
    /\ \A c \in Calls : appending[c].pc = "read" => ReaderHung(c)
    /\ \A c \in Calls : appending[c].pc = "done"
          => \E i \in 1..Len(chains[PartitionOf[c]]) : chains[PartitionOf[c]][i].by = c

\* The head of a partition is well formed.
LEMMA HeadHangs ==
    ASSUME AuditTypes, NEW p \in Partitions, Hung(chains[p])
    PROVE  /\ HeadRecord(p).seq \in Nat /\ HeadRecord(p).hash \in Links
           /\ HeadRecord(p).seq = Len(HeadRecord(p).hash)
           /\ HeadRecord(p).hash = <<>> \/ \E k \in 1..Len(chains[p]) : HeadRecord(p).hash = HashOf(chains[p][k])
<1> DEFINE ch == chains[p]
<1>1. ch \in Seq(AuditRecord) /\ Len(ch) \in Nat BY LenProperties DEF AuditTypes
<1>2. CASE ch = <<>>
    <2>1. HeadRecord(p) = [seq |-> 0, hash |-> <<>>] BY <1>2 DEF HeadRecord
    <2>2. <<>> \in Seq(Nat \X Calls) /\ Len(<<>>) = 0 OBVIOUS
    <2> QED BY <2>1, <2>2 DEF Links
<1>3. CASE ch # <<>>
    <2>1. Len(ch) \in 1..Len(ch)
        <3>1. Len(ch) # 0 BY <1>1, <1>3, EmptySeq
        <3> QED BY <1>1, <3>1
    <2>2. ch[Len(ch)] \in AuditRecord BY <1>1, <2>1, ElementOfSeq
    <2>3. HeadRecord(p).seq = ch[Len(ch)].seq /\ HeadRecord(p).hash = HashOf(ch[Len(ch)]) BY <1>3 DEF HeadRecord
    <2>4. ch[Len(ch)].seq = Len(ch[Len(ch)].prev) + 1 BY <2>1 DEF Hung
    <2> HIDE DEF ch
    <2>5. /\ HashOf(ch[Len(ch)]) \in Links /\ Len(HashOf(ch[Len(ch)])) = ch[Len(ch)].seq /\ ch[Len(ch)].seq \in Nat
        BY <2>2, <2>4, HashGrows DEF AuditRecord
    <2> QED BY <2>1, <2>3, <2>5 DEF ch
<1> QED BY <1>2, <1>3

\* The start of an append: it reads the head, and is noticed when another append
\* of the partition is under way.
LEMMA HeadKeeps ==
    ASSUME AuditInv, NEW c \in Calls, AuditHead(c)
    PROVE  AuditInv'
<1> USE DurableAssumption
<1> DEFINE p == PartitionOf[c]
           read == [pc |-> "read", seq |-> HeadRecord(p).seq + 1, prev |-> HeadRecord(p).hash]
           busy == \E d \in Calls \ {c} : appending[d].pc = "read" /\ PartitionOf[d] = p
<1>1. /\ appending[c].pc = "idle" /\ appending' = [appending EXCEPT ![c] = read]
      /\ overlapped' = IF busy THEN overlapped \cup {p} ELSE overlapped
      /\ chains' = chains
    BY DEF AuditHead
<1>2. p \in Partitions /\ AuditTypes /\ Hung(chains[p]) BY DEF AuditInv
<1>3. /\ HeadRecord(p).seq \in Nat /\ HeadRecord(p).hash \in Links
      /\ HeadRecord(p).seq = Len(HeadRecord(p).hash)
      /\ HeadRecord(p).hash = <<>> \/ \E k \in 1..Len(chains[p]) : HeadRecord(p).hash = HashOf(chains[p][k])
    <2> HIDE DEF p
    <2> QED BY <1>2, HeadHangs
<1>4. HeadRecord(p).seq + 1 \in Nat BY <1>3
<1>5. read \in AppendState BY <1>3, <1>4 DEF AppendState
<1>6. /\ appending'[c] = read /\ \A d \in Calls : d # c => appending'[d] = appending[d]
      /\ appending' \in [Calls -> AppendState]
    <2> HIDE DEF read
    <2> QED BY <1>1, <1>2, <1>5 DEF AuditTypes
<1>7. read.pc = "read" /\ read.seq = HeadRecord(p).seq + 1 /\ read.prev = HeadRecord(p).hash OBVIOUS
<1>8. \A d \in Calls : d # c /\ appending[d].pc = "read" /\ PartitionOf[d] = p => p \in overlapped'
    BY <1>1
<1>9. overlapped \subseteq overlapped' /\ overlapped' \subseteq Partitions BY <1>1, <1>2 DEF AuditTypes
<1> HIDE DEF read, busy
<1>10. AuditTypes' BY <1>1, <1>2, <1>6, <1>9 DEF AuditTypes
<1>11. \A q \in Partitions : Hung(chains[q])' BY <1>1 DEF AuditInv
<1>12. \A q \in Partitions : Authored(q)'
    <2>1. SUFFICES ASSUME NEW q \in Partitions, NEW i \in 1..Len(chains[q])
                   PROVE  /\ PartitionOf[chains[q][i].by] = q /\ appending'[chains[q][i].by].pc = "done"
                          /\ \A j \in 1..Len(chains[q]) : chains[q][i].by = chains[q][j].by => i = j
        BY <1>1 DEF Authored
    <2>2. /\ PartitionOf[chains[q][i].by] = q /\ appending[chains[q][i].by].pc = "done"
          /\ \A j \in 1..Len(chains[q]) : chains[q][i].by = chains[q][j].by => i = j
        BY DEF AuditInv, Authored
    <2>3. chains[q][i].by \in Calls
        <3>1. chains[q] \in Seq(AuditRecord) BY <1>2 DEF AuditTypes
        <3>2. chains[q][i] \in AuditRecord BY <3>1, ElementOfSeq
        <3> QED BY <3>2 DEF AuditRecord
    <2> QED BY <1>1, <1>6, <2>2, <2>3
<1>13. \A q \in Partitions \ overlapped' : Quiet(q)'
    <2> SUFFICES ASSUME NEW q \in Partitions \ overlapped' PROVE Quiet(q)' OBVIOUS
    <2>1. q \in Partitions \ overlapped /\ Quiet(q) BY <1>9 DEF AuditInv
    <2>2. VerifyChain(q)' /\ HeadRecord(q)' = HeadRecord(q) BY <1>1, <2>1 DEF Quiet, VerifyChain, HeadRecord, HashOf
    <2>3. CASE q = p
        <3>1. \A d \in Calls : d # c => ~Reads(d, q) BY <1>8, <2>3 DEF Reads
        <3>2. \A d \in Calls : d # c => ~Reads(d, q)' BY <1>6, <3>1 DEF Reads
        <3>3. \A d \in Calls : Reads(d, q)' => d = c BY <3>2
        <3> QED BY <1>6, <1>7, <2>2, <2>3, <3>3 DEF Quiet
    <2>4. CASE q # p
        <3>1. ~Reads(c, q)' BY <2>4 DEF Reads
        <3>2. \A d \in Calls : Reads(d, q)' => Reads(d, q) /\ appending'[d] = appending[d]
            BY <1>6, <3>1 DEF Reads
        <3> QED BY <2>1, <2>2, <3>2 DEF Quiet
    <2> QED BY <2>3, <2>4
<1>14. \A d \in Calls : appending'[d].pc = "read" => ReaderHung(d)'
    <2> SUFFICES ASSUME NEW d \in Calls, appending'[d].pc = "read" PROVE ReaderHung(d)' OBVIOUS
    <2>1. CASE d = c
        <3>1. appending'[c].seq = Len(appending'[c].prev) + 1 BY <1>3, <1>6, <1>7
        <3>2. appending'[c].prev = <<>> \/ \E k \in 1..Len(chains[p]) : appending'[c].prev = HashOf(chains[p][k])
            BY <1>3, <1>6, <1>7
        <3> QED BY <1>1, <2>1, <3>1, <3>2 DEF ReaderHung, HashOf
    <2>2. CASE d # c
        <3>1. ReaderHung(d) BY <1>6, <2>2 DEF AuditInv
        <3> QED BY <1>1, <1>6, <2>2, <3>1 DEF ReaderHung, HashOf
    <2> QED BY <2>1, <2>2
<1>15. \A d \in Calls : appending'[d].pc = "done"
          => \E i \in 1..Len(chains'[PartitionOf[d]]) : chains'[PartitionOf[d]][i].by = d
    <2> SUFFICES ASSUME NEW d \in Calls, appending'[d].pc = "done"
                 PROVE  \E i \in 1..Len(chains[PartitionOf[d]]) : chains[PartitionOf[d]][i].by = d
        BY <1>1
    <2>1. d # c BY <1>6, <1>7
    <2> QED BY <1>6, <2>1 DEF AuditInv
<1> QED BY <1>10, <1>11, <1>12, <1>13, <1>14, <1>15 DEF AuditInv

\* A rejected write ends the append and stores nothing.
LEMMA RejectedWriteKeeps ==
    ASSUME AuditInv, NEW c \in Calls, AuditWrite(c, TRUE)
    PROVE  AuditInv'
<1> USE DurableAssumption
<1>1. /\ appending[c].pc = "read" /\ appending' = [appending EXCEPT ![c].pc = "failed"]
      /\ chains' = chains /\ overlapped' = overlapped
    BY DEF AuditWrite
<1>2. AuditTypes BY DEF AuditInv
<1>3. /\ appending' \in [Calls -> AppendState] /\ appending'[c].pc = "failed"
      /\ \A d \in Calls : d # c => appending'[d] = appending[d]
    BY <1>1, <1>2 DEF AuditTypes, AppendState
<1>4. AuditTypes' BY <1>1, <1>2, <1>3 DEF AuditTypes
<1>5. \A q \in Partitions : Hung(chains[q])' BY <1>1 DEF AuditInv
<1>6. \A q \in Partitions : Authored(q)'
    <2>1. SUFFICES ASSUME NEW q \in Partitions, NEW i \in 1..Len(chains[q])
                   PROVE  /\ PartitionOf[chains[q][i].by] = q /\ appending'[chains[q][i].by].pc = "done"
                          /\ \A j \in 1..Len(chains[q]) : chains[q][i].by = chains[q][j].by => i = j
        BY <1>1 DEF Authored
    <2>2. /\ PartitionOf[chains[q][i].by] = q /\ appending[chains[q][i].by].pc = "done"
          /\ \A j \in 1..Len(chains[q]) : chains[q][i].by = chains[q][j].by => i = j
        BY DEF AuditInv, Authored
    <2>3. chains[q][i].by \in Calls
        <3>1. chains[q] \in Seq(AuditRecord) BY <1>2 DEF AuditTypes
        <3>2. chains[q][i] \in AuditRecord BY <3>1, ElementOfSeq
        <3> QED BY <3>2 DEF AuditRecord
    <2> QED BY <1>1, <1>3, <2>2, <2>3
<1>7. \A q \in Partitions \ overlapped' : Quiet(q)'
    <2> SUFFICES ASSUME NEW q \in Partitions \ overlapped PROVE Quiet(q)' BY <1>1
    <2>1. Quiet(q) BY DEF AuditInv
    <2>2. VerifyChain(q)' /\ HeadRecord(q)' = HeadRecord(q) BY <1>1, <2>1 DEF Quiet, VerifyChain, HeadRecord, HashOf
    <2>3. \A d \in Calls : Reads(d, q)' => Reads(d, q) /\ appending'[d] = appending[d]
        BY <1>3 DEF Reads
    <2> QED BY <2>1, <2>2, <2>3 DEF Quiet
<1>8. \A d \in Calls : appending'[d].pc = "read" => ReaderHung(d)'
    <2> SUFFICES ASSUME NEW d \in Calls, appending'[d].pc = "read" PROVE ReaderHung(d)' OBVIOUS
    <2>1. appending'[d] = appending[d] /\ ReaderHung(d) BY <1>3 DEF AuditInv
    <2> QED BY <1>1, <2>1 DEF ReaderHung, HashOf
<1>9. \A d \in Calls : appending'[d].pc = "done"
          => \E i \in 1..Len(chains'[PartitionOf[d]]) : chains'[PartitionOf[d]][i].by = d
    <2> SUFFICES ASSUME NEW d \in Calls, appending'[d].pc = "done"
                 PROVE  \E i \in 1..Len(chains[PartitionOf[d]]) : chains[PartitionOf[d]][i].by = d
        BY <1>1
    <2> QED BY <1>3 DEF AuditInv
<1> QED BY <1>4, <1>5, <1>6, <1>7, <1>8, <1>9 DEF AuditInv

\* A record stored where its append read it keeps the chain hung.
LEMMA StoredHangs ==
    ASSUME NEW ch \in Seq(AuditRecord), NEW r \in AuditRecord, Hung(ch), r.seq = Len(r.prev) + 1,
           r.prev = <<>> \/ \E k \in 1..Len(ch) : r.prev = HashOf(ch[k])
    PROVE  Hung(Append(ch, r))
<1> DEFINE new == Append(ch, r)
<1>1. /\ Len(ch) \in Nat /\ Len(new) = Len(ch) + 1 /\ new[Len(ch) + 1] = r
      /\ \A i \in 1..Len(ch) : new[i] = ch[i]
    BY AppendProperties, LenProperties
<1> HIDE DEF new
<1> SUFFICES ASSUME NEW i \in 1..Len(new)
             PROVE  /\ new[i].seq = Len(new[i].prev) + 1
                    /\ new[i].prev = <<>> \/ \E k \in 1..(i - 1) : new[i].prev = HashOf(new[k])
    BY DEF Hung, new
<1>2. CASE i \in 1..Len(ch)
    <2>1. /\ ch[i].seq = Len(ch[i].prev) + 1
          /\ ch[i].prev = <<>> \/ \E k \in 1..(i - 1) : ch[i].prev = HashOf(ch[k])
        BY <1>2 DEF Hung
    <2>2. \A k \in 1..(i - 1) : new[k] = ch[k] BY <1>1, <1>2
    <2> QED BY <1>1, <1>2, <2>1, <2>2
<1>3. CASE i = Len(ch) + 1
    <2>1. new[i] = r /\ i - 1 = Len(ch) BY <1>1, <1>3
    <2> QED BY <1>1, <2>1
<1> QED BY <1>1, <1>2, <1>3

\* A write that is stored: the record hangs where its append read, and it is the
\* author's only one.
LEMMA StoredWriteKeeps ==
    ASSUME AuditInv, NEW c \in Calls, AuditWrite(c, FALSE)
    PROVE  AuditInv'
<1> USE DurableAssumption
<1> DEFINE p == PartitionOf[c]
           ch == chains[p]
           n == Len(ch)
           r == [seq |-> appending[c].seq, prev |-> appending[c].prev, by |-> c]
           new == Append(ch, r)
<1>1. /\ appending[c].pc = "read" /\ appending' = [appending EXCEPT ![c].pc = "done"]
      /\ chains' = [chains EXCEPT ![p] = new] /\ overlapped' = overlapped
    BY DEF AuditWrite, BackendAppend
<1>2. AuditTypes /\ p \in Partitions /\ Hung(ch) /\ Authored(p) /\ ReaderHung(c) BY <1>1 DEF AuditInv
<1>3. /\ appending' \in [Calls -> AppendState] /\ appending'[c].pc = "done"
      /\ \A d \in Calls : d # c => appending'[d] = appending[d]
    BY <1>1, <1>2 DEF AuditTypes, AppendState
<1>4. r \in AuditRecord BY <1>2 DEF AuditTypes, AppendState, AuditRecord
<1>5. ch \in Seq(AuditRecord) /\ n \in Nat BY <1>2, LenProperties DEF AuditTypes
<1>6. r.by = c /\ r.seq = appending[c].seq /\ r.prev = appending[c].prev OBVIOUS
<1>7. /\ new \in Seq(AuditRecord) /\ Len(new) = n + 1 /\ new[n + 1] = r
      /\ \A i \in 1..n : new[i] = ch[i]
    <2> HIDE DEF r, ch
    <2> QED BY <1>4, <1>5, AppendProperties
<1>8. Hung(new)
    <2>1. /\ r.seq = Len(r.prev) + 1
          /\ r.prev = <<>> \/ \E k \in 1..Len(ch) : r.prev = HashOf(ch[k])
        BY <1>2, <1>6 DEF ReaderHung
    <2> HIDE DEF r, ch
    <2> QED BY <1>2, <1>4, <1>5, <2>1, StoredHangs
<1>9. \A i \in 1..n : ch[i] \in AuditRecord /\ ch[i].by \in Calls /\ ch[i].by # c
    <2> TAKE i \in 1..n
    <2>1. ch[i] \in AuditRecord
        <3> HIDE DEF ch
        <3> QED BY <1>5, ElementOfSeq
    <2>2. appending[ch[i].by].pc = "done" BY <1>2 DEF Authored
    <2> QED BY <1>1, <2>1, <2>2 DEF AuditRecord
<1>10. chains'[p] = new /\ \A q \in Partitions : q # p => chains'[q] = chains[q]
    <2> HIDE DEF new
    <2> QED BY <1>1, <1>2 DEF AuditTypes
<1> HIDE DEF r, new
<1>11. AuditTypes' BY <1>1, <1>2, <1>3, <1>7 DEF AuditTypes
<1>12. \A q \in Partitions : Hung(chains'[q])
    <2> SUFFICES ASSUME NEW q \in Partitions PROVE Hung(chains'[q]) OBVIOUS
    <2>1. CASE q = p BY <1>8, <1>10, <2>1
    <2>2. CASE q # p BY <1>10, <2>2 DEF AuditInv
    <2> QED BY <2>1, <2>2
<1>13. \A q \in Partitions : Authored(q)'
    <2> SUFFICES ASSUME NEW q \in Partitions PROVE Authored(q)' OBVIOUS
    <2>1. CASE q = p
        <3>1. SUFFICES ASSUME NEW i \in 1..(n + 1)
                       PROVE  /\ PartitionOf[new[i].by] = p /\ appending'[new[i].by].pc = "done"
                              /\ \A j \in 1..(n + 1) : new[i].by = new[j].by => i = j
            BY <1>7, <1>10, <2>1 DEF Authored
        <3>2. \A k \in 1..n : /\ PartitionOf[ch[k].by] = p /\ appending[ch[k].by].pc = "done"
                              /\ \A j \in 1..n : ch[k].by = ch[j].by => k = j
            BY <1>2 DEF Authored
        <3> HIDE DEF ch, n
        <3>3. CASE i \in 1..n
            <4>1. new[i] = ch[i] /\ ch[i].by \in Calls /\ ch[i].by # c BY <1>7, <1>9, <3>3
            <4>2. PartitionOf[new[i].by] = p /\ appending'[new[i].by].pc = "done" BY <1>3, <3>2, <3>3, <4>1
            <4>3. ASSUME NEW j \in 1..(n + 1), new[i].by = new[j].by PROVE i = j
                <5>1. j # n + 1 BY <1>6, <1>7, <4>1, <4>3
                <5>2. j \in 1..n BY <1>5, <5>1
                <5>3. new[j] = ch[j] BY <1>7, <5>2
                <5> QED BY <3>2, <3>3, <4>1, <4>3, <5>2, <5>3
            <4> QED BY <4>2, <4>3
        <3>4. CASE i = n + 1
            <4>1. new[i].by = c BY <1>6, <1>7, <3>4
            <4>2. \A j \in 1..n : new[j].by # c BY <1>7, <1>9
            <4> QED BY <1>3, <1>5, <3>4, <4>1, <4>2
        <3> QED BY <1>5, <3>3, <3>4
    <2>2. CASE q # p
        <3>1. chains'[q] = chains[q] BY <1>10, <2>2
        <3>2. SUFFICES ASSUME NEW i \in 1..Len(chains[q])
                       PROVE  /\ PartitionOf[chains[q][i].by] = q /\ appending'[chains[q][i].by].pc = "done"
                              /\ \A j \in 1..Len(chains[q]) : chains[q][i].by = chains[q][j].by => i = j
            BY <3>1 DEF Authored
        <3>3. /\ PartitionOf[chains[q][i].by] = q /\ appending[chains[q][i].by].pc = "done"
              /\ \A j \in 1..Len(chains[q]) : chains[q][i].by = chains[q][j].by => i = j
            BY DEF AuditInv, Authored
        <3>4. chains[q][i].by \in Calls
            <4>1. chains[q] \in Seq(AuditRecord) BY <1>2 DEF AuditTypes
            <4>2. chains[q][i] \in AuditRecord BY <4>1, ElementOfSeq
            <4> QED BY <4>2 DEF AuditRecord
        <3> QED BY <1>1, <1>3, <3>3, <3>4
    <2> QED BY <2>1, <2>2
<1>14. \A q \in Partitions \ overlapped' : Quiet(q)'
    <2> SUFFICES ASSUME NEW q \in Partitions \ overlapped PROVE Quiet(q)' BY <1>1
    <2>1. Quiet(q) BY DEF AuditInv
    <2>2. \A d \in Calls : Reads(d, q)' => Reads(d, q) /\ d # c /\ appending'[d] = appending[d]
        BY <1>3 DEF Reads
    <2>3. CASE q # p
        <3>1. chains'[q] = chains[q] BY <1>10, <2>3
        <3>2. VerifyChain(q)' /\ HeadRecord(q)' = HeadRecord(q)
            BY <2>1, <3>1 DEF Quiet, VerifyChain, HeadRecord, HashOf
        <3> QED BY <2>1, <2>2, <3>2 DEF Quiet
    <2>4. CASE q = p
        <3>1. Reads(c, q) BY <1>1, <2>4 DEF Reads
        <3>2. \A d \in Calls : ~Reads(d, q)' BY <2>1, <2>2, <3>1 DEF Quiet
        <3>3. appending[c].seq = HeadRecord(p).seq + 1 /\ appending[c].prev = HeadRecord(p).hash
            BY <2>1, <2>4, <3>1 DEF Quiet
        <3>4. \A i \in 1..n : Linked(ch, i)
            <4>1. DOMAIN ch = 1..n
                <5> HIDE DEF ch
                <5> QED BY <1>5, LenProperties
            <4> QED BY <2>1, <2>4, <4>1 DEF Quiet, VerifyChain, Linked
        <3>5. Linked(new, n + 1)
            <4>1. CASE ch = <<>>
                <5>1. HeadRecord(p) = [seq |-> 0, hash |-> <<>>] /\ n = 0 BY <4>1 DEF HeadRecord
                <5>2. r.seq = 1 /\ r.prev = <<>> BY <1>6, <3>3, <5>1
                <5> QED BY <1>7, <5>1, <5>2 DEF Linked
            <4>2. CASE ch # <<>>
                <5>1. n \in 1..n /\ n + 1 # 1 /\ (n + 1) - 1 = n
                    <6>1. n # 0
                        <7> HIDE DEF ch
                        <7> QED BY <1>5, <4>2, EmptySeq
                    <6> HIDE DEF n
                    <6> QED BY <1>5, <6>1
                <5>2. HeadRecord(p).seq = ch[n].seq /\ HeadRecord(p).hash = HashOf(ch[n]) BY <4>2 DEF HeadRecord
                <5>3. ch[n].seq = n BY <3>4, <5>1 DEF Linked
                <5> HIDE DEF ch, n
                <5>4. new[n] = ch[n] BY <1>7, <5>1
                <5>5. r.seq = n + 1 /\ r.prev = HashOf(new[n]) BY <1>6, <3>3, <5>2, <5>3, <5>4
                <5> QED BY <1>7, <5>1, <5>5 DEF Linked
            <4> QED BY <4>1, <4>2
        <3>6. \A i \in 1..n : Linked(new, i)
            <4> HIDE DEF ch, n
            <4> SUFFICES ASSUME NEW i \in 1..n PROVE Linked(new, i) OBVIOUS
            <4>1. new[i] = ch[i] /\ Linked(ch, i) BY <1>7, <3>4
            <4>2. i # 1 => new[i - 1] = ch[i - 1] BY <1>5, <1>7
            <4> QED BY <4>1, <4>2 DEF Linked
        <3>7. VerifyChain(q)'
            <4>1. DOMAIN new = 1..(n + 1)
                <5> HIDE DEF n
                <5> QED BY <1>7, LenProperties
            <4>2. \A i \in DOMAIN new : Linked(new, i)
                <5> HIDE DEF n
                <5> QED BY <1>5, <3>5, <3>6, <4>1
            <4> HIDE DEF n
            <4> QED BY <1>10, <2>4, <4>2 DEF VerifyChain, Linked
        <3> QED BY <3>2, <3>7 DEF Quiet
    <2> QED BY <2>3, <2>4
<1>15. \A d \in Calls : appending'[d].pc = "read" => ReaderHung(d)'
    <2> SUFFICES ASSUME NEW d \in Calls, appending'[d].pc = "read" PROVE ReaderHung(d)' OBVIOUS
    <2>1. appending'[d] = appending[d] /\ ReaderHung(d) BY <1>3 DEF AuditInv
    <2>2. CASE PartitionOf[d] = p
        <3> HIDE DEF n
        <3>1. /\ appending[d].seq = Len(appending[d].prev) + 1
              /\ appending[d].prev = <<>> \/ \E k \in 1..n : appending[d].prev = HashOf(ch[k])
            BY <2>1, <2>2 DEF ReaderHung, n
        <3> HIDE DEF ch
        <3>2. appending[d].prev = <<>> \/ \E k \in 1..(n + 1) : appending[d].prev = HashOf(new[k])
            BY <1>5, <1>7, <3>1
        <3> QED BY <1>7, <1>10, <2>1, <2>2, <3>1, <3>2 DEF ReaderHung
    <2>3. CASE PartitionOf[d] # p
        <3>1. chains'[PartitionOf[d]] = chains[PartitionOf[d]] BY <1>10, <2>3
        <3> QED BY <2>1, <3>1 DEF ReaderHung
    <2> QED BY <2>2, <2>3
<1>16. \A d \in Calls : appending'[d].pc = "done"
          => \E i \in 1..Len(chains'[PartitionOf[d]]) : chains'[PartitionOf[d]][i].by = d
    <2> SUFFICES ASSUME NEW d \in Calls, appending'[d].pc = "done"
                 PROVE  \E i \in 1..Len(chains'[PartitionOf[d]]) : chains'[PartitionOf[d]][i].by = d
        OBVIOUS
    <2>1. CASE d = c
        <3>1. n + 1 \in 1..Len(new) BY <1>5, <1>7
        <3> QED BY <1>6, <1>7, <1>10, <2>1, <3>1
    <2>2. CASE d # c
        <3>1. PICK i \in 1..Len(chains[PartitionOf[d]]) : chains[PartitionOf[d]][i].by = d
            BY <1>3, <2>2 DEF AuditInv
        <3>2. CASE PartitionOf[d] = p
            <4>1. i \in 1..n /\ ch[i].by = d BY <3>1, <3>2
            <4> HIDE DEF ch, n
            <4>2. i \in 1..Len(new) /\ new[i].by = d BY <1>5, <1>7, <4>1
            <4> QED BY <1>10, <3>2, <4>2
        <3>3. CASE PartitionOf[d] # p BY <1>10, <3>1, <3>3
        <3> QED BY <3>2, <3>3
    <2> QED BY <2>1, <2>2
<1> QED BY <1>11, <1>12, <1>13, <1>14, <1>15, <1>16 DEF AuditInv

\* The audit sink's answers: a fork is always found, a chain without one never
\* condemned, and an append that is answered is stored once.
LEMMA AuditInvSafe ==
    ASSUME AuditInv
    PROVE  ForkDetected /\ AppendsKept
<1> USE DurableAssumption
<1>1. \A p \in Partitions : chains[p] \in Seq(AuditRecord) /\ DOMAIN chains[p] = 1..Len(chains[p])
    BY LenProperties DEF AuditInv, AuditTypes
<1>2. ForkDetected
    <2> SUFFICES ASSUME NEW p \in Partitions
                 PROVE  /\ p \notin overlapped => VerifyChain(p)
                        /\ VerifyChain(p) <=> \A i, j \in DOMAIN chains[p] : chains[p][i].prev = chains[p][j].prev => i = j
        BY DEF ForkDetected
    <2>1. p \notin overlapped => VerifyChain(p) BY DEF AuditInv, Quiet
    <2>2. Hung(chains[p]) BY DEF AuditInv
    <2>3. (\A i \in 1..Len(chains[p]) : Linked(chains[p], i))
              <=> \A i, j \in 1..Len(chains[p]) : chains[p][i].prev = chains[p][j].prev => i = j
        BY <1>1, <2>2, ForksShow
    <2>4. VerifyChain(p) <=> \A i \in 1..Len(chains[p]) : Linked(chains[p], i)
        BY <1>1 DEF VerifyChain, Linked
    <2> QED BY <1>1, <2>1, <2>3, <2>4
<1>3. AppendsKept
    <2> SUFFICES ASSUME NEW c \in Calls, NEW p \in Partitions
                 PROVE  Cardinality({i \in DOMAIN chains[p] : chains[p][i].by = c})
                          = IF appending[c].pc = "done" /\ PartitionOf[c] = p THEN 1 ELSE 0
        BY DEF AppendsKept
    <2> DEFINE mine == {i \in DOMAIN chains[p] : chains[p][i].by = c}
    <2>1. Authored(p) BY DEF AuditInv
    <2>2. CASE appending[c].pc = "done" /\ PartitionOf[c] = p
        <3>1. PICK i \in 1..Len(chains[p]) : chains[p][i].by = c BY <2>2 DEF AuditInv
        <3>2. mine = {i} BY <1>1, <2>1, <3>1 DEF Authored
        <3> QED BY <2>2, <3>2, FS_Singleton
    <2>3. CASE ~(appending[c].pc = "done" /\ PartitionOf[c] = p)
        <3>1. mine = {} BY <1>1, <2>1, <2>3 DEF Authored
        <3> QED BY <2>3, <3>1, FS_EmptySet
    <2> QED BY <2>2, <2>3
<1> QED BY <1>2, <1>3

-----------------------------------------------------------------------------
(* The other adapters *)

ClaimState == {"idle", "REJECTED", "claiming", "threw", "threw late", "CLAIMED", "REPLAYED"}

\* The winner of a permit is the one caller that found no record of it.
ReplayInv ==
    /\ claim \in [Calls -> ClaimState] /\ replayStore \in Partitions \cup {NoRecord}
    /\ \A c, d \in Calls : {claim[c], claim[d]} \subseteq {"CLAIMED", "threw"} => c = d
    /\ replayStore = NoRecord => \A c \in Calls : claim[c] \notin {"CLAIMED", "threw"}

Checkpoint == [owner : Partitions, expires : Nat, intact : BOOLEAN] \cup {NoRecord}
RestoreState == {"idle", "read", "restored", "checkpoint_not_found", "checkpoint_authorization_invalid",
                 "checkpoint_authorization_mismatch", "checkpoint_permit_expired", "checkpoint_tenant_mismatch",
                 "checkpoint_integrity_failed", "checkpoint_expired"}

RestoreInv ==
    /\ checkpointAt \in Checkpoint
    /\ restoring \in [Restorers -> [pc : RestoreState, got : Checkpoint]]
    /\ RestoreSound

\* Whatever was sampled without a problem stays usable: a registration is never
\* replaced.
ReadinessInv ==
    /\ trusted \in BOOLEAN
    /\ registry \in [Kinds -> Metadata \cup {NoRecord}] /\ DOMAIN health = Kinds
    /\ gate \in [pc : {"idle", "sampling", "STARTUP_REJECTED", "READY"}, sampled : SUBSET Kinds, problems : SUBSET Kinds]
    /\ trusted => \A k \in gate.sampled \ gate.problems : ProductionUsable(k)
    /\ gate.pc = "READY" => gate.sampled = Kinds /\ gate.problems = {}

Approvals == [consumed : BOOLEAN, revoked : BOOLEAN]
GuardState == [pc : {"idle", "evaluated", "called", "acted", "denied"}, up : BOOLEAN, value : Approvals \cup {NoRecord}]

ApprovalInv ==
    /\ adapterUp \in BOOLEAN /\ approval \in Approvals
    /\ guarded \in [Calls -> GuardState]
    /\ GrantedWhileUp

\* The inductive invariant of the durable adapters.
DurableInv == AuditInv /\ ReplayInv /\ RestoreInv /\ ReadinessInv /\ ApprovalInv

\* A claim, whose winner found nothing stored.
LEMMA EndClaimKeeps ==
    ASSUME ReplayInv, NEW c \in Calls, NEW b \in BOOLEAN, EndClaim(c, b)
    PROVE  ReplayInv'
<1> USE DurableAssumption
<1> DEFINE next == IF b THEN (IF PutIfAbsent(c).stored THEN "threw" ELSE "threw late")
                   ELSE IF PutIfAbsent(c).stored THEN "CLAIMED" ELSE "REPLAYED"
<1>1. claim[c] = "claiming" /\ replayStore' = PutIfAbsent(c).value /\ claim' = [claim EXCEPT ![c] = next]
    BY DEF EndClaim
<1>2. next \in ClaimState BY DEF ClaimState
<1>3. claim' \in [Calls -> ClaimState] /\ claim'[c] = next /\ \A d \in Calls : d # c => claim'[d] = claim[d]
    <2> HIDE DEF next
    <2> QED BY <1>1, <1>2 DEF ReplayInv
<1>4. CASE replayStore = NoRecord
    <2>1. PutIfAbsent(c) = [stored |-> TRUE, value |-> PartitionOf[c]] BY <1>4 DEF PutIfAbsent
    <2>2. replayStore' \in Partitions /\ replayStore' # NoRecord BY <1>1, <2>1
    <2>3. \A d \in Calls : d # c => claim'[d] \notin {"CLAIMED", "threw"} BY <1>3, <1>4 DEF ReplayInv
    <2> HIDE DEF next
    <2> QED BY <1>3, <2>2, <2>3 DEF ReplayInv
<1>5. CASE replayStore # NoRecord
    <2>1. ~PutIfAbsent(c).stored /\ PutIfAbsent(c).value = replayStore BY <1>5 DEF PutIfAbsent
    <2>2. replayStore' = replayStore BY <1>1, <2>1
    <2>3. claim'[c] \notin {"CLAIMED", "threw"} BY <1>3, <2>1
    <2> HIDE DEF next
    <2> QED BY <1>3, <1>5, <2>2, <2>3 DEF ReplayInv
<1> QED BY <1>4, <1>5

\* A refused or begun claim wins nothing yet.
LEMMA BeginClaimKeeps ==
    ASSUME ReplayInv, NEW c \in Calls, NEW b \in BOOLEAN, BeginClaim(c, b)
    PROVE  ReplayInv'
<1> DEFINE next == IF ClaimRefused(clock, b) THEN "REJECTED" ELSE "claiming"
<1>1. claim' = [claim EXCEPT ![c] = next] /\ replayStore' = replayStore BY DEF BeginClaim
<1>2. next \in ClaimState \ {"CLAIMED", "threw"} BY DEF ClaimState
<1> HIDE DEF next
<1>3. claim' \in [Calls -> ClaimState] /\ claim'[c] = next /\ \A d \in Calls : d # c => claim'[d] = claim[d]
    BY <1>1, <1>2 DEF ReplayInv
<1> QED BY <1>1, <1>2, <1>3 DEF ReplayInv

\* restore: what a restored checkpoint was checked for, and the verdicts there are.
LEMMA RestoreChecks ==
    ASSUME NEW c \in Restorers, NEW d
    PROVE  /\ RestoreVerdict(c, d) \in RestoreState
           /\ RestoreVerdict(c, d) = "restored" =>
                /\ restoring[c].got # NoRecord
                /\ restoring[c].got.intact /\ restoring[c].got.owner = PartitionOf[c]
<1> DEFINE got == restoring[c].got
           checks == << <<got = NoRecord, "checkpoint_not_found">>,
                        <<"authorization" \in d, "checkpoint_authorization_invalid">>,
                        <<"mismatch" \in d, "checkpoint_authorization_mismatch">>,
                        <<PermitExpiry <= clock, "checkpoint_permit_expired">>,
                        <<got # NoRecord /\ got.owner # PartitionOf[c], "checkpoint_tenant_mismatch">>,
                        <<got # NoRecord /\ ~got.intact, "checkpoint_integrity_failed">>,
                        <<got # NoRecord /\ got.expires <= clock, "checkpoint_expired">> >>
<1>1. RestoreVerdict(c, d) = FirstRefusal(checks, "restored") BY DEF RestoreVerdict
<1>2. Len(checks) = 7 OBVIOUS
<1>3. \A i \in 1..7 : checks[i][2] \in RestoreState /\ checks[i][2] # "restored"
    <2>1. /\ checks[1][2] \in RestoreState \ {"restored"} /\ checks[2][2] \in RestoreState \ {"restored"}
          /\ checks[3][2] \in RestoreState \ {"restored"} /\ checks[4][2] \in RestoreState \ {"restored"}
          /\ checks[5][2] \in RestoreState \ {"restored"} /\ checks[6][2] \in RestoreState \ {"restored"}
          /\ checks[7][2] \in RestoreState \ {"restored"}
        BY DEF RestoreState
    <2> HIDE DEF checks
    <2> QED BY <2>1
<1>4. \/ FirstRefusal(checks, "restored") = "restored" /\ \A j \in 1..7 : ~checks[j][1]
      \/ \E i \in 1..7 : checks[i][1] /\ FirstRefusal(checks, "restored") = checks[i][2]
    <2> HIDE DEF checks
    <2> QED BY <1>2, GateDecides
<1>5. CASE FirstRefusal(checks, "restored") = "restored" /\ \A j \in 1..7 : ~checks[j][1]
    <2>1. ~checks[1][1] /\ ~checks[5][1] /\ ~checks[6][1]
        <3> HIDE DEF checks
        <3> QED BY <1>5
    <2>2. got # NoRecord /\ got.intact /\ got.owner = PartitionOf[c] BY <2>1
    <2> HIDE DEF checks
    <2> QED BY <1>1, <1>5, <2>2 DEF RestoreState
<1>6. CASE \E i \in 1..7 : checks[i][1] /\ FirstRefusal(checks, "restored") = checks[i][2]
    <2> HIDE DEF checks
    <2> QED BY <1>1, <1>3, <1>6
<1> HIDE DEF checks
<1> QED BY <1>4, <1>5, <1>6

\* Registration of an adapter happens once per kind.
LEMMA RegistersOnce ==
    ASSUME NEW k, NEW meta, Registration(k, meta) = "registered"
    PROVE  registry[k] = NoRecord
<1> DEFINE checks == << <<meta.productionReady /\ (meta.testOnly \/ ~meta.attested), "metadata_spoofing">>,
                        <<registry[k] # NoRecord, "duplicate_adapter">> >>
<1>1. FirstRefusal(checks, "registered") = "registered" /\ Len(checks) = 2 BY DEF Registration
<1>2. checks[1][2] # "registered" /\ checks[2][2] # "registered" OBVIOUS
<1>3. ~checks[2][1]
    <2> HIDE DEF checks
    <2>1. \A i \in 1..2 : checks[i][2] # "registered" BY <1>2
    <2>2. \/ FirstRefusal(checks, "registered") = "registered" /\ \A j \in 1..2 : ~checks[j][1]
          \/ \E i \in 1..2 : checks[i][1] /\ FirstRefusal(checks, "registered") = checks[i][2]
        BY <1>1, GateDecides
    <2>3. \A j \in 1..2 : ~checks[j][1] BY <1>1, <2>1, <2>2
    <2> QED BY <2>3
<1> QED BY <1>3

\* The checkpoint store: a restore ends with what its gate let through.
LEMMA EndRestoreKeeps ==
    ASSUME RestoreInv, NEW c \in Restorers, NEW d, EndRestore(c, d)
    PROVE  RestoreInv'
<1> DEFINE v == RestoreVerdict(c, d)
<1>1. restoring' = [restoring EXCEPT ![c].pc = v] /\ checkpointAt' = checkpointAt BY DEF EndRestore
<1>2. /\ v \in RestoreState
      /\ v = "restored" => /\ restoring[c].got # NoRecord
                           /\ restoring[c].got.intact /\ restoring[c].got.owner = PartitionOf[c]
    BY RestoreChecks
<1> HIDE DEF v
<1>3. /\ restoring' \in [Restorers -> [pc : RestoreState, got : Checkpoint]]
      /\ restoring'[c].pc = v /\ restoring'[c].got = restoring[c].got
      /\ \A e \in Restorers : e # c => restoring'[e] = restoring[e]
    BY <1>1, <1>2 DEF RestoreInv
<1> QED BY <1>1, <1>2, <1>3 DEF RestoreInv, RestoreSound

\* The checkpoint store's other operations hand nothing out.
LEMMA CheckpointKeeps ==
    ASSUME RestoreInv, CheckpointNext
    PROVE  RestoreInv'
<1> USE DurableAssumption
<1>1. CASE Tick BY <1>1 DEF Tick, checkpointVars, RestoreInv, RestoreSound
<1>2. CASE CorruptCheckpoint BY <1>2 DEF CorruptCheckpoint, RestoreInv, RestoreSound, Checkpoint
<1>3. ASSUME NEW b \in BOOLEAN, DeleteCheckpoint(b) PROVE RestoreInv'
    BY <1>3 DEF DeleteCheckpoint, RestoreInv, RestoreSound, Checkpoint
<1>4. ASSUME NEW p \in Partitions, NEW t \in 1..MaxTime, SaveCheckpoint(p, t) PROVE RestoreInv'
    <2>1. t \in Nat OBVIOUS
    <2> QED BY <1>4, <2>1 DEF SaveCheckpoint, RestoreInv, RestoreSound, Checkpoint
<1>5. ASSUME NEW c \in Restorers, BeginRestore(c) PROVE RestoreInv'
    <2>1. restoring' = [restoring EXCEPT ![c] = [pc |-> "read", got |-> checkpointAt]] /\ checkpointAt' = checkpointAt
        BY <1>5 DEF BeginRestore
    <2>2. [pc |-> "read", got |-> checkpointAt] \in [pc : RestoreState, got : Checkpoint]
        BY DEF RestoreInv, RestoreState
    <2> QED BY <2>1, <2>2 DEF RestoreInv, RestoreSound
<1>6. ASSUME NEW c \in Restorers, NEW d \in {{}, {"authorization"}, {"mismatch"}}, EndRestore(c, d) PROVE RestoreInv'
    BY <1>6, EndRestoreKeeps
<1> QED BY <1>1, <1>2, <1>3, <1>4, <1>5, <1>6 DEF CheckpointNext

\* The registry and the readiness gate.
LEMMA ReadinessKeeps ==
    ASSUME ReadinessInv, ReadinessNext
    PROVE  ReadinessInv'
<1>1. CASE DecideReadiness
    <2>1. /\ gate.pc = "sampling" /\ gate.sampled = Kinds /\ gate' = [gate EXCEPT !.pc = ReadinessVerdict]
          /\ UNCHANGED <<trusted, registry, health>>
        BY <1>1 DEF DecideReadiness
    <2>2. ReadinessVerdict \in {"STARTUP_REJECTED", "READY"} /\ (ReadinessVerdict = "READY" => gate.problems = {})
        BY DEF ReadinessVerdict
    <2> QED BY <2>1, <2>2 DEF ReadinessInv, ProductionUsable
<1>2. ASSUME NEW k \in Kinds, HealthChanges(k) PROVE ReadinessInv'
    <2>1. DOMAIN health' = Kinds /\ UNCHANGED <<trusted, registry, gate>> BY <1>2 DEF HealthChanges, ReadinessInv
    <2> QED BY <2>1 DEF ReadinessInv, ProductionUsable
<1>3. ASSUME NEW k \in Kinds, SampleKind(k) PROVE ReadinessInv'
    <2> DEFINE bad == trusted /\ ~(ProductionUsable(k) /\ health[k] = "READY")
               found == IF bad THEN gate.problems \cup {k} ELSE gate.problems
    <2>1. /\ gate' = [pc |-> "sampling", sampled |-> gate.sampled \cup {k}, problems |-> found]
          /\ UNCHANGED <<trusted, registry, health>>
        BY <1>3 DEF SampleKind
    <2>2. gate.sampled \subseteq Kinds /\ found \subseteq Kinds BY DEF ReadinessInv
    <2>3. gate.problems \subseteq found /\ (k \in found \/ ~trusted \/ ProductionUsable(k)) OBVIOUS
    <2> HIDE DEF found
    <2>4. /\ gate'.pc = "sampling" /\ gate'.sampled = gate.sampled \cup {k} /\ gate'.problems = found
          /\ gate' \in [pc : {"idle", "sampling", "STARTUP_REJECTED", "READY"}, sampled : SUBSET Kinds,
                        problems : SUBSET Kinds]
        BY <2>1, <2>2
    <2>5. trusted => \A m \in gate'.sampled \ gate'.problems : ProductionUsable(m)
        BY <2>3, <2>4 DEF ReadinessInv
    <2>6. trusted' => \A m \in gate'.sampled \ gate'.problems : ProductionUsable(m)'
        BY <2>1, <2>5 DEF ProductionUsable
    <2> QED BY <2>1, <2>4, <2>6 DEF ReadinessInv
<1>4. ASSUME NEW k \in Kinds, NEW meta \in Metadata, Register(k, meta) PROVE ReadinessInv'
    <2>1. registry' = [registry EXCEPT ![k] = meta] /\ UNCHANGED <<trusted, health, gate>> BY <1>4 DEF Register
    <2>2. registry[k] = NoRecord BY <1>4, RegistersOnce DEF Register
    <2>3. registry' \in [Kinds -> Metadata \cup {NoRecord}] BY <2>1 DEF ReadinessInv
    <2>4. \A m \in Kinds : ProductionUsable(m) => ProductionUsable(m)'
        <3> TAKE m \in Kinds
        <3> HAVE ProductionUsable(m)
        <3>1. m # k BY <2>2 DEF ProductionUsable
        <3>2. registry'[m] = registry[m] BY <2>1, <3>1 DEF ReadinessInv
        <3> QED BY <3>2 DEF ProductionUsable
    <2>5. gate.sampled \subseteq Kinds BY DEF ReadinessInv
    <2>6. trusted' => \A m \in gate'.sampled \ gate'.problems : ProductionUsable(m)'
        BY <2>1, <2>4, <2>5 DEF ReadinessInv
    <2> QED BY <2>1, <2>3, <2>6 DEF ReadinessInv
<1> QED BY <1>1, <1>2, <1>3, <1>4 DEF ReadinessNext

\* Guarded calls of the approval adapter.
LEMMA ApprovalKeeps ==
    ASSUME ApprovalInv, ApprovalNext
    PROVE  ApprovalInv'
<1>1. CASE AdapterStarts BY <1>1 DEF AdapterStarts, ApprovalInv, GrantedWhileUp
<1>2. CASE AdapterCloses BY <1>2 DEF AdapterCloses, ApprovalInv, GrantedWhileUp
<1>3. CASE ApprovalRevoked BY <1>3 DEF ApprovalRevoked, ApprovalInv, GrantedWhileUp, Approvals
<1>4. ASSUME NEW c \in Calls, EvaluateAvailability(c) PROVE ApprovalInv'
    <2> DEFINE g == [pc |-> "evaluated", up |-> adapterUp, value |-> NoRecord]
    <2>1. guarded' = [guarded EXCEPT ![c] = g] /\ UNCHANGED <<adapterUp, approval>> BY <1>4 DEF EvaluateAvailability
    <2>2. g \in GuardState /\ g.value = NoRecord BY DEF GuardState, ApprovalInv
    <2> HIDE DEF g
    <2> QED BY <2>1, <2>2 DEF ApprovalInv, GrantedWhileUp
<1>5. ASSUME NEW c \in Calls, ActOnApproval(c) PROVE ApprovalInv'
    <2> DEFINE v == guarded[c].value
               granted == v # NoRecord /\ v \in [consumed : {FALSE}, revoked : {FALSE}]
               pc == IF granted THEN "acted" ELSE "denied"
    <2>1. /\ guarded' = [guarded EXCEPT ![c].pc = pc] /\ adapterUp' = adapterUp
          /\ approval' = IF granted THEN [approval EXCEPT !.consumed = TRUE] ELSE approval
        BY <1>5 DEF ActOnApproval
    <2>2. approval' \in Approvals
        <3> HIDE DEF granted
        <3> QED BY <2>1 DEF ApprovalInv, Approvals
    <2>3. pc \in {"acted", "denied"} OBVIOUS
    <2> HIDE DEF pc
    <2>4. /\ guarded' \in [Calls -> GuardState]
          /\ \A d \in Calls : guarded'[d].value = guarded[d].value /\ guarded'[d].up = guarded[d].up
        BY <2>1, <2>3 DEF ApprovalInv, GuardState
    <2> QED BY <2>1, <2>2, <2>4 DEF ApprovalInv, GrantedWhileUp
<1>6. ASSUME NEW c \in Calls, NEW b \in BOOLEAN, GuardAdapterCall(c, b) PROVE ApprovalInv'
    <2> DEFINE v == IF ~guarded[c].up \/ b THEN NoRecord ELSE ApprovalGet
               g == [pc |-> "called", up |-> adapterUp, value |-> v]
    <2>1. guarded' = [guarded EXCEPT ![c] = g] /\ UNCHANGED <<adapterUp, approval>> BY <1>6 DEF GuardAdapterCall
    <2>2. v \in Approvals \cup {NoRecord} /\ (v # NoRecord => adapterUp) BY DEF ApprovalGet, ApprovalInv
    <2> HIDE DEF v
    <2>3. g \in GuardState /\ (g.value # NoRecord => g.up) BY <2>2 DEF GuardState, ApprovalInv
    <2> HIDE DEF g
    <2> QED BY <2>1, <2>3 DEF ApprovalInv, GrantedWhileUp
<1> QED BY <1>1, <1>2, <1>3, <1>4, <1>5, <1>6 DEF ApprovalNext

\* Each adapter keeps to its own state.
LEMMA OthersUntouched ==
    /\ AuditNext => UNCHANGED <<replayVars, checkpointVars, readinessVars, approvalVars>>
    /\ ReplayNext => UNCHANGED <<auditVars, checkpointVars, readinessVars, approvalVars>>
    /\ CheckpointNext => UNCHANGED <<auditVars, replayVars, readinessVars, approvalVars>>
    /\ ReadinessNext => UNCHANGED <<auditVars, replayVars, checkpointVars, approvalVars>>
    /\ ApprovalNext => UNCHANGED <<auditVars, replayVars, checkpointVars, readinessVars>>
<1>1. AuditNext => UNCHANGED <<replayVars, checkpointVars, readinessVars, approvalVars>>
    BY DEF AuditNext, AuditHead, AuditWrite
<1>2. ReplayNext => UNCHANGED <<auditVars, checkpointVars, readinessVars, approvalVars>>
    BY DEF ReplayNext, Tick, BeginClaim, EndClaim
<1>3. CheckpointNext => UNCHANGED <<auditVars, replayVars, readinessVars, approvalVars>>
    BY DEF CheckpointNext, Tick, CorruptCheckpoint, DeleteCheckpoint, SaveCheckpoint, BeginRestore, EndRestore
<1>4. ReadinessNext => UNCHANGED <<auditVars, replayVars, checkpointVars, approvalVars>>
    BY DEF ReadinessNext, DecideReadiness, HealthChanges, SampleKind, Register
<1>5. ApprovalNext => UNCHANGED <<auditVars, replayVars, checkpointVars, readinessVars>>
    BY DEF ApprovalNext, AdapterStarts, AdapterCloses, ApprovalRevoked, EvaluateAvailability, ActOnApproval, GuardAdapterCall
<1> QED BY <1>1, <1>2, <1>3, <1>4, <1>5

\* What an adapter's invariant is about stays while others move.
LEMMA InvariantsFrame ==
    /\ AuditInv /\ UNCHANGED auditVars => AuditInv'
    /\ ReplayInv /\ UNCHANGED replayVars => ReplayInv'
    /\ RestoreInv /\ UNCHANGED checkpointVars => RestoreInv'
    /\ ReadinessInv /\ UNCHANGED readinessVars => ReadinessInv'
    /\ ApprovalInv /\ UNCHANGED approvalVars => ApprovalInv'
<1>1. AuditInv /\ UNCHANGED auditVars => AuditInv'
    BY DEF auditVars, AuditInv, AuditTypes, Authored, Quiet, Reads, VerifyChain, HeadRecord, ReaderHung
<1>2. ReplayInv /\ UNCHANGED replayVars => ReplayInv' BY DEF replayVars, ReplayInv
<1>3. RestoreInv /\ UNCHANGED checkpointVars => RestoreInv' BY DEF checkpointVars, RestoreInv, RestoreSound
<1>4. ReadinessInv /\ UNCHANGED readinessVars => ReadinessInv' BY DEF readinessVars, ReadinessInv, ProductionUsable
<1>5. ApprovalInv /\ UNCHANGED approvalVars => ApprovalInv' BY DEF approvalVars, ApprovalInv, GrantedWhileUp
<1> QED BY <1>1, <1>2, <1>3, <1>4, <1>5

\* Initially nothing is stored, claimed, restored or sampled.
LEMMA DurableInitInv == DurableInit => DurableInv
<1> SUFFICES ASSUME DurableInit PROVE DurableInv OBVIOUS
<1> USE DurableAssumption DEF DurableInit
<1>1. AuditInv
    <2> DEFINE none == <<>>
    <2>1. none \in Seq(AuditRecord) /\ none \in Links /\ Len(none) = 0 BY DEF Links
    <2>2. \A p \in Partitions : chains[p] = none OBVIOUS
    <2>3. \A c \in Calls : appending[c].pc = "idle" OBVIOUS
    <2>4. chains \in [Partitions -> Seq(AuditRecord)] BY <2>1
    <2>5. appending \in [Calls -> AppendState]
        <3>1. [pc |-> "idle", seq |-> 0, prev |-> none] \in AppendState BY <2>1 DEF AppendState
        <3> QED BY <3>1
    <2>6. AuditTypes BY <2>4, <2>5 DEF AuditTypes
    <2>7. \A p \in Partitions : Hung(chains[p]) /\ Authored(p) BY <2>1, <2>2 DEF Hung, Authored
    <2>8. \A p \in Partitions : VerifyChain(p)
        <3>1. DOMAIN none = {} BY <2>1
        <3> QED BY <2>2, <3>1 DEF VerifyChain
    <2>9. \A p \in Partitions : Quiet(p) BY <2>3, <2>8 DEF Quiet, Reads
    <2> QED BY <2>3, <2>6, <2>7, <2>9 DEF AuditInv
<1>2. ReplayInv BY DEF ReplayInv, ClaimState
<1>3. RestoreInv
    <2>1. [pc |-> "idle", got |-> NoRecord] \in [pc : RestoreState, got : Checkpoint] BY DEF RestoreState, Checkpoint
    <2> QED BY <2>1 DEF RestoreInv, RestoreSound, Checkpoint
<1>4. ReadinessInv BY DEF ReadinessInv
<1>5. ApprovalInv
    <2>1. [pc |-> "idle", up |-> FALSE, value |-> NoRecord] \in GuardState BY DEF GuardState
    <2>2. guarded \in [Calls -> GuardState] /\ \A c \in Calls : guarded[c].value = NoRecord BY <2>1
    <2>3. approval \in Approvals BY DEF Approvals
    <2> QED BY <2>2, <2>3 DEF ApprovalInv, GrantedWhileUp
<1> QED BY <1>1, <1>2, <1>3, <1>4, <1>5 DEF DurableInv

\* The steps of every adapter keep the invariant.
LEMMA DurableStepInv == DurableInv /\ [DurableSteps]_durableVars => DurableInv'
<1> SUFFICES ASSUME DurableInv, [DurableSteps]_durableVars PROVE DurableInv' OBVIOUS
<1>1. CASE AuditNext
    <2>1. AuditInv'
        <3>1. PICK c \in Calls : AuditHead(c) \/ \E b \in BOOLEAN : AuditWrite(c, b) BY <1>1 DEF AuditNext
        <3>2. AuditHead(c) \/ AuditWrite(c, TRUE) \/ AuditWrite(c, FALSE) BY <3>1
        <3> QED BY <3>2, HeadKeeps, RejectedWriteKeeps, StoredWriteKeeps DEF DurableInv
    <2> QED BY <1>1, <2>1, OthersUntouched, InvariantsFrame DEF DurableInv
<1>2. CASE ReplayNext
    <2>1. ReplayInv'
        <3>1. CASE Tick BY <3>1, InvariantsFrame DEF Tick, DurableInv
        <3>2. CASE \E c \in Calls, b \in BOOLEAN : BeginClaim(c, b) \/ EndClaim(c, b)
            BY <3>2, BeginClaimKeeps, EndClaimKeeps DEF DurableInv
        <3> QED BY <1>2, <3>1, <3>2 DEF ReplayNext
    <2> QED BY <1>2, <2>1, OthersUntouched, InvariantsFrame DEF DurableInv
<1>3. CASE CheckpointNext BY <1>3, CheckpointKeeps, OthersUntouched, InvariantsFrame DEF DurableInv
<1>4. CASE ReadinessNext BY <1>4, ReadinessKeeps, OthersUntouched, InvariantsFrame DEF DurableInv
<1>5. CASE ApprovalNext BY <1>5, ApprovalKeeps, OthersUntouched, InvariantsFrame DEF DurableInv
<1>6. CASE UNCHANGED durableVars BY <1>6, InvariantsFrame DEF durableVars, DurableInv
<1> QED BY <1>1, <1>2, <1>3, <1>4, <1>5, <1>6 DEF DurableSteps

\* The invariant is what the adapters promise.
LEMMA DurableInvSafe == DurableInv => StoresSafe
<1> SUFFICES ASSUME DurableInv PROVE StoresSafe OBVIOUS
<1>1. ForkDetected /\ AppendsKept BY AuditInvSafe DEF DurableInv
<1>2. PermitSingleUse
    <2> DEFINE won == {c \in Calls : claim[c] \in {"CLAIMED", "threw"}}
    <2>1. \A c, d \in won : c = d BY DEF DurableInv, ReplayInv
    <2>2. CASE won = {} BY <2>2, FS_EmptySet DEF PermitSingleUse
    <2>3. CASE won # {}
        <3>1. PICK c \in won : TRUE BY <2>3
        <3>2. won = {c} BY <2>1, <3>1
        <3> QED BY <3>2, FS_Singleton DEF PermitSingleUse
    <2> QED BY <2>2, <2>3
<1>3. RestoreSound /\ GrantedWhileUp BY DEF DurableInv, RestoreInv, ApprovalInv
<1>4. ReadyIsUsable BY DEF DurableInv, ReadinessInv, ReadyIsUsable
<1> QED BY <1>1, <1>2, <1>3, <1>4 DEF StoresSafe

\* The durable adapters are safe for any number of callers, partitions and appends:
\* a forked audit chain is found and only a forked one, no append is lost or
\* doubled, a permit is claimed once, a restore and a grant are sound.
THEOREM DurableSafety == DurableSpec => []StoresSafe
<1>1. DurableSpec => []DurableInv BY DurableInitInv, DurableStepInv, PTL DEF DurableSpec
<1> QED BY <1>1, DurableInvSafe, PTL

-----------------------------------------------------------------------------
(* The event foundation: its gates *)

\* claim: a key is given to the first event that asks for it.
LEMMA ClaimIs ==
    ASSUME NEW e
    PROVE  ClaimStatus(e) = IF claims[KeyOf[e]] = NoClaim THEN "CLAIMED"
                            ELSE IF claims[KeyOf[e]] = e THEN "DUPLICATE" ELSE "CONFLICT"
<1> DEFINE a == claims[KeyOf[e]] = NoClaim
           b == claims[KeyOf[e]] = e
<1>1. ClaimStatus(e) = FirstRefusal(<< <<a, "CLAIMED">>, <<b, "DUPLICATE">> >>, "CONFLICT") BY DEF ClaimStatus
<1> HIDE DEF a, b
<1>2. ClaimStatus(e) = IF a THEN "CLAIMED" ELSE IF b THEN "DUPLICATE" ELSE "CONFLICT" BY <1>1, TwoChecks
<1> QED BY <1>2 DEF a, b

\* evaluateOutboxPublish: an entry is tried as long as attempts are left.
LEMMA OutboxIs ==
    ASSUME NEW e, EvaluateOutboxPublish(e) = "PUBLISH"
    PROVE  ~(outbox[e].attempts >= OutboxMaxAttempts)
<1> DEFINE a == outbox[e].state = "PUBLISHED"
           b == outbox[e].attempts >= OutboxMaxAttempts
<1>1. EvaluateOutboxPublish(e) = FirstRefusal(<< <<a, "ALREADY_PUBLISHED">>, <<b, "DEAD_LETTER">> >>, "PUBLISH")
    BY DEF EvaluateOutboxPublish
<1> HIDE DEF a, b
<1>2. EvaluateOutboxPublish(e) = IF a THEN "ALREADY_PUBLISHED" ELSE IF b THEN "DEAD_LETTER" ELSE "PUBLISH"
    BY <1>1, TwoChecks
<1>3. ~b BY <1>2
<1> QED BY <1>3 DEF b

\* evaluateDeliveryAttempt: an attempt that is made is within the bound.
LEMMA AttemptIs ==
    ASSUME NEW n, NEW threw
    PROVE  EvaluateDeliveryAttempt(n, threw)
              = IF n > MaxDeliveryAttempts THEN "ATTEMPTS_EXHAUSTED" ELSE IF threw THEN "HANDLER_FAILED" ELSE "NACK"
<1> DEFINE a == n > MaxDeliveryAttempts
<1>1. EvaluateDeliveryAttempt(n, threw)
         = FirstRefusal(<< <<a, "ATTEMPTS_EXHAUSTED">>, <<threw, "HANDLER_FAILED">> >>, "NACK")
    BY DEF EvaluateDeliveryAttempt
<1> HIDE DEF a
<1>2. EvaluateDeliveryAttempt(n, threw) = IF a THEN "ATTEMPTS_EXHAUSTED" ELSE IF threw THEN "HANDLER_FAILED" ELSE "NACK"
    BY <1>1, TwoChecks
<1> QED BY <1>2 DEF a

\* evaluateRetry: a retry is paid from the budget.
LEMMA RetryPays ==
    ASSUME NEW n, NEW class, EvaluateRetry(n, class) = "RETRY", class # "RETRY"
    PROVE  ~(budget <= 0)
<1> DEFINE a == class # "RETRYABLE"
           b == n >= MaxRetryAttempts
           c == budget <= 0
           checks == << <<a, class>>, <<b, "EXHAUSTED">>, <<c, "BUDGET_EXCEEDED">>, <<storm, "STORM_SUPPRESSED">> >>
<1>1. EvaluateRetry(n, class) = FirstRefusal(checks, "RETRY")
    BY DEF EvaluateRetry
<1>2. /\ Len(checks) = 4 /\ checks[1][2] # "RETRY" /\ checks[2][2] # "RETRY"
      /\ checks[3][2] # "RETRY" /\ checks[4][2] # "RETRY" /\ (checks[3][1] <=> c)
    OBVIOUS
<1> HIDE DEF a, b, c, checks
<1>3. ~c
    <2>1. \A i \in 1..4 : checks[i][2] # "RETRY" BY <1>2
    <2>2. \A i \in 1..4 : ~checks[i][1] BY <1>1, <1>2, <2>1, NoRefusal
    <2> QED BY <1>2, <2>2
<1> QED BY <1>3 DEF c

\* evaluateAcknowledgement: only the subscribed consumer's own counts.
LEMMA AckIsOwn ==
    ASSUME NEW a, NEW expected, EvaluateAcknowledgement(a, expected) = "ACKNOWLEDGED"
    PROVE  a.consumer = "own"
<1> DEFINE x == subscription # "ACTIVE"
           y == a.consumer # "own"
           z == a.token # expected
<1>1. EvaluateAcknowledgement(a, expected)
         = FirstRefusal(<< <<x, "SUBSCRIPTION_INACTIVE">>, <<y, "ACK_WRONG_CONSUMER">>, <<z, "ACK_FORGED">> >>, "ACKNOWLEDGED")
    BY DEF EvaluateAcknowledgement
<1> HIDE DEF x, y, z
<1>2. EvaluateAcknowledgement(a, expected) = IF x THEN "SUBSCRIPTION_INACTIVE" ELSE IF y THEN "ACK_WRONG_CONSUMER"
                                             ELSE IF z THEN "ACK_FORGED" ELSE "ACKNOWLEDGED"
    BY <1>1, ThreeChecks
<1>3. ~y BY <1>2
<1> QED BY <1>3 DEF y

\* evaluateDeadLetterReplay: a letter that is replayed exists and is no poison.
LEMMA LetterReplayable ==
    ASSUME NEW e, NEW kind, NEW approved, NEW original,
           EvaluateDeadLetterReplay(e, kind, approved, original) = "REPLAY_ALLOWED"
    PROVE  letters[e] # 0 /\ ~(letters[e] >= PoisonThreshold)
<1> DEFINE checks == << <<letters[e] = 0, "NOT_FOUND">>,
                        <<letters[e] >= PoisonThreshold, "POISON_QUARANTINED">>,
                        <<kind = "AGENT" /\ original /\ ~approved, "AI_SELF_REPLAY_DENIED">>,
                        <<kind = "AGENT" /\ ~approved, "APPROVAL_REQUIRED">> >>
<1>1. FirstRefusal(checks, "REPLAY_ALLOWED") = "REPLAY_ALLOWED" /\ Len(checks) = 4 BY DEF EvaluateDeadLetterReplay
<1>2. /\ checks[1][2] # "REPLAY_ALLOWED" /\ checks[2][2] # "REPLAY_ALLOWED"
      /\ checks[3][2] # "REPLAY_ALLOWED" /\ checks[4][2] # "REPLAY_ALLOWED"
    OBVIOUS
<1>3. ~checks[1][1] /\ ~checks[2][1]
    <2> HIDE DEF checks
    <2>1. \A i \in 1..4 : checks[i][2] # "REPLAY_ALLOWED" BY <1>2
    <2>2. \/ FirstRefusal(checks, "REPLAY_ALLOWED") = "REPLAY_ALLOWED" /\ \A j \in 1..4 : ~checks[j][1]
          \/ \E i \in 1..4 : /\ checks[i][1] /\ FirstRefusal(checks, "REPLAY_ALLOWED") = checks[i][2]
                             /\ \A j \in 1..4 : checks[j][1] => i <= j
        BY <1>1, GateDecides
    <2>3. \A j \in 1..4 : ~checks[j][1] BY <1>1, <2>1, <2>2
    <2> QED BY <2>3
<1> QED BY <1>3

\* evaluatePublish: an accepted event had no claim on its key before.
LEMMA AcceptedUnclaimed ==
    ASSUME NEW e, NEW d, EvaluatePublish(e, d) = "ACCEPTED"
    PROVE  claims[KeyOf[e]] = NoClaim
<1> DEFINE checks == << <<EvaluateProducer(d) # "ALLOWED", "PRODUCER_UNTRUSTED">>,
                        <<ValidateEnvelopeShape(d) # "VALID", "PAYLOAD_INVALID">>,
                        <<"expired" \in d, "EXPIRED">>,
                        <<ValidateEventSchema(d) # "VALID", "SCHEMA_INVALID">>,
                        <<"tampered" \in d, "INTEGRITY_FAILED">>,
                        <<ValidatePrivacy(d) # "VALID", "SENSITIVITY_INVALID">>,
                        <<ClaimStatus(e) = "DUPLICATE", "DUPLICATE">>,
                        <<ClaimStatus(e) = "CONFLICT", "REJECTED">>,
                        <<"no policy" \in d, "POLICY_REFERENCE_MISSING">>,
                        <<EvaluateOrdering(readVersion[e] + 1, Len(stream)) # "IN_ORDER", "SEQUENCE_INVALID">>,
                        <<EvaluateAdmission(e) \in {"QUOTA_EXCEEDED", "RATE_LIMITED"}, "RATE_LIMITED">>,
                        <<~storageUp, "STORAGE_UNAVAILABLE">>,
                        <<~auditUp, "AUDIT_UNAVAILABLE">> >>
<1>1. FirstRefusal(checks, "ACCEPTED") = "ACCEPTED" BY DEF EvaluatePublish
<1>2. Len(checks) = 13 OBVIOUS
<1>3. /\ checks[1][2] # "ACCEPTED" /\ checks[2][2] # "ACCEPTED" /\ checks[3][2] # "ACCEPTED"
      /\ checks[4][2] # "ACCEPTED" /\ checks[5][2] # "ACCEPTED" /\ checks[6][2] # "ACCEPTED"
      /\ checks[7][2] # "ACCEPTED" /\ checks[8][2] # "ACCEPTED" /\ checks[9][2] # "ACCEPTED"
      /\ checks[10][2] # "ACCEPTED" /\ checks[11][2] # "ACCEPTED" /\ checks[12][2] # "ACCEPTED"
      /\ checks[13][2] # "ACCEPTED"
    OBVIOUS
<1>4. ~checks[7][1] /\ ~checks[8][1]
    <2> HIDE DEF checks
    <2>1. \A i \in 1..13 : checks[i][2] # "ACCEPTED" BY <1>3
    <2>2. \/ FirstRefusal(checks, "ACCEPTED") = "ACCEPTED" /\ \A j \in 1..13 : ~checks[j][1]
          \/ \E i \in 1..13 : /\ checks[i][1] /\ FirstRefusal(checks, "ACCEPTED") = checks[i][2]
                              /\ \A j \in 1..13 : checks[j][1] => i <= j
        BY <1>2, GateDecides
    <2>3. \A j \in 1..13 : ~checks[j][1] BY <1>1, <2>1, <2>2
    <2> QED BY <2>3
<1>5. ClaimStatus(e) # "DUPLICATE" /\ ClaimStatus(e) # "CONFLICT" BY <1>4
<1> QED BY <1>5, ClaimIs

-----------------------------------------------------------------------------
(* The event foundation: its invariant *)

OutboxState == {"none", "PENDING", "PUBLISHED", "DEAD_LETTERED"}
DeliveryStatus == {"none", "sent", "retry", "acked", "dead", "discarded"}

PublishTypes ==
    /\ claims \in [Keys -> Ids \cup {NoClaim}] /\ stream \in Seq(Ids)
    /\ readVersion \in [Ids -> Int]
    /\ outbox \in [Ids -> [state : OutboxState, attempts : 0..OutboxMaxAttempts]]

\* What the relay has read and not yet published is pending, with an attempt left.
Relaying == \A e \in Ids : readVersion[e] # -1 => /\ outbox[e].state = "PENDING"
                                                  /\ outbox[e].attempts < OutboxMaxAttempts

PublishInv == PublishTypes /\ StoredOnce /\ Relaying

DeliveryTypes ==
    /\ delivery \in [Ids -> [attempt : 0..MaxDeliveryAttempts, status : DeliveryStatus]]
    /\ acks \subseteq [event : Ids, token : Nat, consumer : {"own", "other"}]
    /\ inbox \subseteq Ids /\ effects \in [Ids -> Nat]
    /\ budget \in 0..RetryBudget /\ checkpoint \in 0..Len(stream)
    /\ letters \in [Originals -> Nat]

\* The inbox is the record of the effects: an acknowledgement of the consumer's own,
\* on its way or counted, is of an event in it.
Processed ==
    /\ \A e \in Ids : effects[e] = IF e \in inbox THEN 1 ELSE 0
    /\ \A e \in inbox : Stored(e)
    /\ \A a \in acks : a.consumer = "own" => a.event \in inbox
    /\ \A e \in Ids : delivery[e].status = "acked" => e \in inbox

\* A letter is of a delivery that is over.
Buried == \A e \in Originals : letters[e] # 0 => delivery[e].status = "dead"

DeliveryInv == DeliveryTypes /\ Processed /\ Buried

\* The inductive invariant of the event foundation.
EventInv == PublishInv /\ DeliveryInv /\ PoisonStaysBuried

\* An entry of the outbox is read by the relay.
LEMMA RelayReadKeeps ==
    ASSUME EventInv, NEW e \in Ids, RelayRead(e)
    PROVE  EventInv'
<1> USE EventAssumption
<1>1. /\ outbox[e].state = "PENDING" /\ readVersion' = [readVersion EXCEPT ![e] = Len(stream)]
      /\ UNCHANGED <<claims, stream, outbox, deliveryVars>>
    BY DEF RelayRead
<1>2. outbox[e].attempts < OutboxMaxAttempts
    <2>1. ~(outbox[e].attempts >= OutboxMaxAttempts) BY OutboxIs DEF RelayRead
    <2>2. outbox[e].attempts \in Int /\ OutboxMaxAttempts \in Int BY DEF EventInv, PublishInv, PublishTypes
    <2> QED BY <2>1, <2>2
<1>3. Len(stream) \in Int BY LenProperties DEF EventInv, PublishInv, PublishTypes
<1>4. /\ readVersion' \in [Ids -> Int] /\ \A f \in Ids : f # e => readVersion'[f] = readVersion[f]
    BY <1>1, <1>3 DEF EventInv, PublishInv, PublishTypes
<1>5. PublishInv' BY <1>1, <1>2, <1>4 DEF EventInv, PublishInv, PublishTypes, StoredOnce, Relaying
<1>6. DeliveryInv' BY <1>1 DEF EventInv, DeliveryInv, DeliveryTypes, Processed, Buried, Stored, deliveryVars
<1>7. PoisonStaysBuried' BY <1>1 DEF EventInv, PoisonStaysBuried, deliveryVars
<1> QED BY <1>5, <1>6, <1>7 DEF EventInv

\* A longer stream stores what the shorter one did.
LEMMA StreamGrows ==
    ASSUME stream \in Seq(Ids), NEW e \in Ids, stream' = Append(stream, e)
    PROVE  /\ stream' \in Seq(Ids) /\ Len(stream) \in Nat /\ Len(stream') = Len(stream) + 1
           /\ stream'[Len(stream) + 1] = e /\ \A i \in 1..Len(stream) : stream'[i] = stream[i]
           /\ \A f : Stored(f) => Stored(f)'
<1>1. /\ stream' \in Seq(Ids) /\ Len(stream) \in Nat /\ Len(stream') = Len(stream) + 1
      /\ stream'[Len(stream) + 1] = e /\ \A i \in 1..Len(stream) : stream'[i] = stream[i]
    BY AppendProperties, LenProperties
<1>2. ASSUME NEW f, Stored(f) PROVE Stored(f)'
    <2>1. PICK i \in 1..Len(stream) : stream[i] = f BY <1>2 DEF Stored
    <2>2. i \in 1..Len(stream') /\ stream'[i] = f BY <1>1, <2>1
    <2> QED BY <2>2 DEF Stored
<1> QED BY <1>1, <1>2

\* The relay publishes: it claims, the gate decides, the version is checked, and
\* the entry is marked or not.
LEMMA RelayPublishKeeps ==
    ASSUME EventInv, NEW e \in Ids, NEW b \in BOOLEAN, NEW d, RelayPublish(e, b, d)
    PROVE  EventInv'
<1> USE EventAssumption
<1> DEFINE verdict == EvaluatePublish(e, d)
           stored == verdict = "ACCEPTED" /\ AppendStatus(e) = "APPENDED"
           marked == (stored /\ b) \/ verdict = "DUPLICATE"
           entry == [state |-> IF marked THEN "PUBLISHED" ELSE outbox[e].state, attempts |-> outbox[e].attempts + 1]
           k == KeyOf[e]
<1>1. PublishTypes /\ StoredOnce /\ Relaying /\ DeliveryInv /\ PoisonStaysBuried BY DEF EventInv, PublishInv
<1>2. readVersion[e] # -1 /\ readVersion' = [readVersion EXCEPT ![e] = -1] BY DEF RelayPublish
<1>3. claims' = IF ClaimStatus(e) = "CLAIMED" THEN [claims EXCEPT ![k] = e] ELSE claims BY DEF RelayPublish
<1>4. stream' = IF stored THEN Append(stream, e) ELSE stream BY DEF RelayPublish
<1>5. outbox' = [outbox EXCEPT ![e] = entry] BY <1>1 DEF RelayPublish, PublishTypes
<1>6. UNCHANGED deliveryVars BY DEF RelayPublish
<1>7. stored => claims[k] = NoClaim BY AcceptedUnclaimed
<1>8. k \in Keys BY DEF Keys
<1>9. outbox[e].state = "PENDING" /\ outbox[e].attempts < OutboxMaxAttempts BY <1>1, <1>2 DEF Relaying
<1>10. entry \in [state : OutboxState, attempts : 0..OutboxMaxAttempts] /\ entry.state # "none"
    <2>1. outbox[e].attempts + 1 \in 0..OutboxMaxAttempts BY <1>1, <1>9 DEF PublishTypes
    <2> HIDE DEF marked
    <2> QED BY <1>9, <2>1 DEF OutboxState
<1> HIDE DEF entry, stored, verdict
<1>11. outbox' \in [Ids -> [state : OutboxState, attempts : 0..OutboxMaxAttempts]]
    BY <1>1, <1>5, <1>10 DEF PublishTypes
<1>12. /\ readVersion' \in [Ids -> Int] /\ readVersion'[e] = -1
       /\ \A f \in Ids : f # e => readVersion'[f] = readVersion[f] /\ outbox'[f] = outbox[f]
    BY <1>1, <1>2, <1>5 DEF PublishTypes
<1>13. Relaying' BY <1>1, <1>12 DEF Relaying
<1>14. claims' \in [Keys -> Ids \cup {NoClaim}] BY <1>1, <1>3, <1>8 DEF PublishTypes
<1>15. /\ claims[k] = NoClaim => claims'[k] = e
       /\ \A x \in Keys : claims[x] # NoClaim => claims'[x] = claims[x]
    <2>1. ClaimStatus(e) = "CLAIMED" <=> claims[k] = NoClaim BY ClaimIs
    <2> HIDE DEF k
    <2> QED BY <1>1, <1>3, <1>8, <2>1 DEF PublishTypes
<1>16. ASSUME stored PROVE PublishInv' /\ DeliveryInv'
    <2>1. stream' = Append(stream, e) BY <1>4, <1>16
    <2>2. stream \in Seq(Ids) BY <1>1 DEF PublishTypes
    <2>3. /\ stream' \in Seq(Ids) /\ Len(stream) \in Nat /\ Len(stream') = Len(stream) + 1
          /\ stream'[Len(stream) + 1] = e /\ \A i \in 1..Len(stream) : stream'[i] = stream[i]
          /\ \A f : Stored(f) => Stored(f)'
        BY <2>1, <2>2, StreamGrows
    <2>4. claims[k] = NoClaim /\ claims'[k] = e BY <1>7, <1>15, <1>16
    <2>5. \A i \in 1..Len(stream) : /\ stream[i] \in Ids /\ KeyOf[stream[i]] \in Keys
                                    /\ claims[KeyOf[stream[i]]] = stream[i] /\ KeyOf[stream[i]] # k
        <3> TAKE i \in 1..Len(stream)
        <3>1. stream[i] \in Ids BY <2>2, ElementOfSeq
        <3>2. KeyOf[stream[i]] \in Keys BY <3>1 DEF Keys
        <3>3. claims[KeyOf[stream[i]]] = stream[i] BY <1>1 DEF StoredOnce
        <3> QED BY <2>4, <3>1, <3>2, <3>3
    <2> HIDE DEF k
    <2>6. \A i \in 1..Len(stream) : claims'[KeyOf[stream[i]]] = stream[i] BY <1>15, <2>5
    <2>7. StoredOnce'
        <3> SUFFICES ASSUME NEW i \in 1..(Len(stream) + 1)
                     PROVE  /\ claims'[KeyOf[stream'[i]]] = stream'[i]
                            /\ \A j \in 1..(Len(stream) + 1) : KeyOf[stream'[i]] = KeyOf[stream'[j]] => i = j
            BY <2>3 DEF StoredOnce
        <3>1. \A j \in 1..(Len(stream) + 1) : j = Len(stream) + 1 \/ j \in 1..Len(stream) BY <2>3
        <3>2. claims'[KeyOf[stream'[i]]] = stream'[i] BY <2>3, <2>4, <2>6, <3>1 DEF k
        <3>3. ASSUME NEW j \in 1..(Len(stream) + 1), KeyOf[stream'[i]] = KeyOf[stream'[j]] PROVE i = j
            <4>1. CASE i \in 1..Len(stream) /\ j \in 1..Len(stream)
                <5>1. KeyOf[stream[i]] = KeyOf[stream[j]] BY <2>3, <3>3, <4>1
                <5> QED BY <1>1, <4>1, <5>1 DEF StoredOnce
            <4>2. CASE i = Len(stream) + 1 /\ j \in 1..Len(stream)
                <5>1. KeyOf[stream[j]] = k BY <2>3, <3>3, <4>2 DEF k
                <5> QED BY <2>5, <4>2, <5>1
            <4>3. CASE i \in 1..Len(stream) /\ j = Len(stream) + 1
                <5>1. KeyOf[stream[i]] = k BY <2>3, <3>3, <4>3 DEF k
                <5> QED BY <2>5, <4>3, <5>1
            <4> QED BY <3>1, <4>1, <4>2, <4>3
        <3> QED BY <3>2, <3>3
    <2>8. PublishInv' BY <1>11, <1>12, <1>13, <1>14, <2>3, <2>7 DEF PublishInv, PublishTypes
    <2>9. checkpoint' \in 0..Len(stream')
        <3>1. checkpoint \in 0..Len(stream) BY <1>1 DEF DeliveryInv, DeliveryTypes
        <3> QED BY <1>6, <2>3, <3>1 DEF deliveryVars
    <2>10. DeliveryTypes' BY <1>1, <1>6, <2>9 DEF DeliveryInv, DeliveryTypes, deliveryVars
    <2>11. Processed' /\ Buried' BY <1>1, <1>6, <2>3 DEF DeliveryInv, Processed, Buried, deliveryVars
    <2> QED BY <2>8, <2>10, <2>11 DEF PublishInv, DeliveryInv
<1>17. ASSUME ~stored PROVE PublishInv' /\ DeliveryInv'
    <2>1. stream' = stream BY <1>4, <1>17
    <2>2. \A i \in 1..Len(stream) : claims'[KeyOf[stream[i]]] = stream[i]
        <3> TAKE i \in 1..Len(stream)
        <3>1. stream[i] \in Ids BY <1>1, ElementOfSeq DEF PublishTypes
        <3>2. KeyOf[stream[i]] \in Keys BY <3>1 DEF Keys
        <3>3. claims[KeyOf[stream[i]]] = stream[i] BY <1>1 DEF StoredOnce
        <3> QED BY <1>15, <3>1, <3>2, <3>3
    <2>3. StoredOnce' BY <1>1, <2>1, <2>2 DEF StoredOnce
    <2>4. PublishInv' BY <1>1, <1>11, <1>12, <1>13, <1>14, <2>1, <2>3 DEF PublishInv, PublishTypes
    <2>5. DeliveryInv' BY <1>1, <1>6, <2>1 DEF DeliveryInv, DeliveryTypes, Processed, Buried, Stored, deliveryVars
    <2> QED BY <2>4, <2>5
<1>18. PoisonStaysBuried'
    <2> SUFFICES ASSUME NEW r \in Replays, outbox'[r].state # "none"
                 PROVE  letters[ReplayOf[r]] \in 1..(PoisonThreshold - 1)
        BY <1>6 DEF PoisonStaysBuried, deliveryVars
    <2>1. r \in Ids BY DEF Ids
    <2>2. outbox[r].state # "none" BY <1>9, <1>12, <2>1
    <2> QED BY <1>1, <2>2 DEF PoisonStaysBuried
<1> QED BY <1>16, <1>17, <1>18 DEF EventInv

\* Deliveries leave the outbox, the claims and the stream alone.
LEMMA PublishFrame ==
    ASSUME PublishInv, UNCHANGED publishVars
    PROVE  PublishInv' /\ \A e : Stored(e)' = Stored(e)
<1>1. UNCHANGED <<claims, stream, readVersion, outbox>> BY DEF publishVars
<1>2. PublishInv' BY <1>1 DEF PublishInv, PublishTypes, StoredOnce, Relaying
<1>3. \A e : Stored(e)' = Stored(e) BY <1>1 DEF Stored
<1> QED BY <1>2, <1>3

\* Where nothing of the invariant's state changes, it holds on.
LEMMA EventFrame ==
    ASSUME EventInv, UNCHANGED <<claims, stream, readVersion, outbox, deliveryVars>>
    PROVE  EventInv'
<1>1. UNCHANGED <<claims, stream, readVersion, outbox, delivery, acks, inbox, effects, checkpoint, budget, letters>>
    BY DEF deliveryVars
<1>2. PublishInv' BY <1>1 DEF EventInv, PublishInv, PublishTypes, StoredOnce, Relaying
<1>3. DeliveryInv' BY <1>1 DEF EventInv, DeliveryInv, DeliveryTypes, Processed, Buried, Stored
<1>4. PoisonStaysBuried' BY <1>1 DEF EventInv, PoisonStaysBuried
<1> QED BY <1>2, <1>3, <1>4 DEF EventInv

\* An entry whose attempts are used up is given up.
LEMMA OutboxGivesUpKeeps ==
    ASSUME EventInv, NEW e \in Ids, OutboxGivesUp(e)
    PROVE  EventInv'
<1> USE EventAssumption
<1>1. /\ outbox[e].state = "PENDING" /\ outbox' = [outbox EXCEPT ![e].state = "DEAD_LETTERED"]
      /\ UNCHANGED <<claims, stream, readVersion, deliveryVars>>
    BY DEF OutboxGivesUp
<1>2. EvaluateOutboxPublish(e) = "DEAD_LETTER" BY DEF OutboxGivesUp
<1>3. /\ outbox' \in [Ids -> [state : OutboxState, attempts : 0..OutboxMaxAttempts]]
      /\ \A f \in Ids : f # e => outbox'[f] = outbox[f]
    BY <1>1 DEF EventInv, PublishInv, PublishTypes, OutboxState
<1>4. readVersion[e] = -1
    <2> SUFFICES ASSUME readVersion[e] # -1 PROVE FALSE OBVIOUS
    <2>1. outbox[e].attempts < OutboxMaxAttempts BY DEF EventInv, PublishInv, Relaying
    <2>2. outbox[e].attempts \in Int /\ OutboxMaxAttempts \in Int BY DEF EventInv, PublishInv, PublishTypes
    <2> DEFINE a == outbox[e].state = "PUBLISHED"
               b == outbox[e].attempts >= OutboxMaxAttempts
    <2>3. ~a /\ ~b BY <1>1, <2>1, <2>2
    <2>4. EvaluateOutboxPublish(e) = FirstRefusal(<< <<a, "ALREADY_PUBLISHED">>, <<b, "DEAD_LETTER">> >>, "PUBLISH")
        BY DEF EvaluateOutboxPublish
    <2> HIDE DEF a, b
    <2>5. EvaluateOutboxPublish(e) = IF a THEN "ALREADY_PUBLISHED" ELSE IF b THEN "DEAD_LETTER" ELSE "PUBLISH"
        BY <2>4, TwoChecks
    <2> QED BY <1>2, <2>3, <2>5
<1>5. PublishInv' BY <1>1, <1>3, <1>4 DEF EventInv, PublishInv, PublishTypes, StoredOnce, Relaying
<1>6. DeliveryInv' BY <1>1 DEF EventInv, DeliveryInv, DeliveryTypes, Processed, Buried, Stored, deliveryVars
<1>7. PoisonStaysBuried'
    <2> SUFFICES ASSUME NEW r \in Replays, outbox'[r].state # "none"
                 PROVE  letters[ReplayOf[r]] \in 1..(PoisonThreshold - 1)
        BY <1>1 DEF PoisonStaysBuried, deliveryVars
    <2>1. r \in Ids BY DEF Ids
    <2>2. outbox[r].state # "none" BY <1>1, <1>3, <2>1
    <2> QED BY <2>2 DEF EventInv, PoisonStaysBuried
<1> QED BY <1>5, <1>6, <1>7 DEF EventInv

\* A delivery that is given up: an original leaves a letter, once.
LEMMA BuryKeeps ==
    ASSUME EventInv, NEW e \in Ids, delivery[e].status \in {"none", "retry", "sent"}, Bury(e),
           UNCHANGED <<publishVars, acks, inbox, effects, checkpoint>>, budget' \in 0..RetryBudget
    PROVE  EventInv'
<1> USE EventAssumption
<1>1. /\ delivery' = [delivery EXCEPT ![e].status = "dead"]
      /\ letters' = IF e \in Originals THEN [letters EXCEPT ![e] = delivery[e].attempt] ELSE letters
    BY DEF Bury
<1>2. PublishInv' /\ \A f : Stored(f)' = Stored(f) BY PublishFrame DEF EventInv
<1>3. DeliveryTypes /\ Processed /\ Buried /\ PoisonStaysBuried BY DEF EventInv, DeliveryInv
<1>4. /\ delivery' \in [Ids -> [attempt : 0..MaxDeliveryAttempts, status : DeliveryStatus]]
      /\ delivery'[e].status = "dead" /\ \A f \in Ids : f # e => delivery'[f] = delivery[f]
    BY <1>1, <1>3 DEF DeliveryTypes, DeliveryStatus
<1>5. delivery[e].attempt \in Nat BY <1>3 DEF DeliveryTypes
<1>6. letters' \in [Originals -> Nat] /\ \A f \in Originals : f # e => letters'[f] = letters[f]
    BY <1>1, <1>3, <1>5 DEF DeliveryTypes
<1>7. DeliveryTypes' BY <1>3, <1>4, <1>6 DEF DeliveryTypes, publishVars
<1>8. Processed' BY <1>2, <1>3, <1>4 DEF Processed
<1>9. Buried'
    <2> SUFFICES ASSUME NEW f \in Originals, letters'[f] # 0 PROVE delivery'[f].status = "dead" BY DEF Buried
    <2>1. f \in Ids BY DEF Ids
    <2> QED BY <1>3, <1>4, <1>6, <2>1 DEF Buried
<1>10. PoisonStaysBuried'
    <2> SUFFICES ASSUME NEW r \in Replays, outbox[r].state # "none"
                 PROVE  letters'[ReplayOf[r]] \in 1..(PoisonThreshold - 1)
        BY DEF PoisonStaysBuried, publishVars
    <2>1. letters[ReplayOf[r]] \in 1..(PoisonThreshold - 1) /\ ReplayOf[r] \in Originals
        BY <1>3 DEF PoisonStaysBuried
    <2>2. letters[ReplayOf[r]] # 0 BY <2>1
    <2>3. delivery[ReplayOf[r]].status = "dead" BY <1>3, <2>1, <2>2 DEF Buried
    <2>4. ReplayOf[r] # e BY <2>3
    <2> QED BY <1>6, <2>1, <2>4
<1> QED BY <1>2, <1>7, <1>8, <1>9, <1>10 DEF EventInv, DeliveryInv

\* One attempt at a delivery.
LEMMA DeliverKeeps ==
    ASSUME EventInv, NEW e \in Ids, NEW threw \in BOOLEAN, Deliver(e, threw)
    PROVE  EventInv'
<1> USE EventAssumption
<1> DEFINE attempt == delivery[e].attempt + 1
           verdict == EvaluateDeliveryAttempt(attempt, threw)
           sent == [attempt |-> attempt, status |-> "sent"]
<1>1. Stored(e) /\ delivery[e].status \in {"none", "retry"} BY DEF Deliver
<1>2. DeliveryTypes /\ Processed /\ Buried /\ PoisonStaysBuried BY DEF EventInv, DeliveryInv
<1>3. UNCHANGED <<publishVars, checkpoint, budget>> BY DEF Deliver
<1>4. PublishInv' /\ \A f : Stored(f)' = Stored(f) BY <1>3, PublishFrame DEF EventInv
<1>5. CASE verdict = "ATTEMPTS_EXHAUSTED"
    <2>1. Bury(e) /\ UNCHANGED <<acks, inbox, effects>> BY <1>5 DEF Deliver
    <2>2. budget' \in 0..RetryBudget BY <1>2, <1>3 DEF DeliveryTypes
    <2> QED BY <1>1, <1>3, <2>1, <2>2, BuryKeeps
<1>6. CASE verdict # "ATTEMPTS_EXHAUSTED"
    <2>1. attempt \in 0..MaxDeliveryAttempts /\ attempt \in Nat
        <3>1. delivery[e].attempt \in Nat BY <1>2 DEF DeliveryTypes
        <3>2. ~(attempt > MaxDeliveryAttempts) BY <1>6, AttemptIs
        <3> QED BY <3>1, <3>2
    <2> HIDE DEF attempt
    <2>2. delivery' = [delivery EXCEPT ![e] = sent] /\ letters' = letters BY <1>6 DEF Deliver, attempt
    <2>3. sent \in [attempt : 0..MaxDeliveryAttempts, status : DeliveryStatus] /\ sent.status = "sent"
        BY <2>1 DEF DeliveryStatus
    <2> HIDE DEF sent
    <2>4. /\ delivery' \in [Ids -> [attempt : 0..MaxDeliveryAttempts, status : DeliveryStatus]]
          /\ delivery'[e].status = "sent" /\ \A f \in Ids : f # e => delivery'[f] = delivery[f]
        BY <1>2, <2>2, <2>3 DEF DeliveryTypes
    <2>5. Buried'
        <3> SUFFICES ASSUME NEW f \in Originals, letters[f] # 0 PROVE delivery'[f].status = "dead"
            BY <2>2 DEF Buried
        <3>1. f \in Ids /\ delivery[f].status = "dead" BY <1>2 DEF Ids, Buried
        <3> QED BY <1>1, <2>4, <3>1
    <2>6. PoisonStaysBuried' BY <1>2, <1>3, <2>2 DEF PoisonStaysBuried, publishVars
    <2>7. /\ acks' \subseteq [event : Ids, token : Nat, consumer : {"own", "other"}]
          /\ inbox' \subseteq Ids /\ effects' \in [Ids -> Nat] /\ Processed'
        <3>1. CASE verdict = "HANDLER_FAILED"
            <4>1. UNCHANGED <<acks, inbox, effects>> BY <3>1 DEF Deliver, attempt
            <4> QED BY <1>2, <1>4, <2>4, <4>1 DEF DeliveryTypes, Processed
        <3>2. CASE verdict = "NACK"
            <4> DEFINE ack == [event |-> e, token |-> attempt, consumer |-> "own"]
            <4>1. /\ effects' = IF EvaluateInbox(e) = "PROCESS" THEN [effects EXCEPT ![e] = @ + 1] ELSE effects
                  /\ inbox' = inbox \cup {e} /\ acks' = acks \cup {ack}
                BY <3>2 DEF Deliver, attempt
            <4>2. EvaluateInbox(e) = "PROCESS" <=> e \notin inbox BY DEF EvaluateInbox
            <4>3. effects' \in [Ids -> Nat] /\ \A f \in Ids : effects'[f] = IF f \in inbox' THEN 1 ELSE 0
                <5>1. CASE e \in inbox
                    <6>1. effects' = effects /\ inbox' = inbox BY <4>1, <4>2, <5>1
                    <6> QED BY <1>2, <6>1 DEF DeliveryTypes, Processed
                <5>2. CASE e \notin inbox
                    <6>1. effects[e] = 0 BY <1>2, <5>2 DEF Processed
                    <6>2. effects' = [effects EXCEPT ![e] = effects[e] + 1] BY <4>1, <4>2, <5>2
                    <6>3. effects' = [effects EXCEPT ![e] = 1] BY <6>1, <6>2
                    <6> QED BY <1>2, <4>1, <6>3 DEF DeliveryTypes, Processed
                <5> QED BY <5>1, <5>2
            <4>4. ack \in [event : Ids, token : Nat, consumer : {"own", "other"}] /\ ack.event = e BY <2>1
            <4> HIDE DEF ack
            <4>5. \A f \in inbox' : Stored(f)' BY <1>1, <1>2, <1>4, <4>1 DEF Processed
            <4>6. \A a \in acks' : a.consumer = "own" => a.event \in inbox' BY <1>2, <4>1, <4>4 DEF Processed
            <4>7. \A f \in Ids : delivery'[f].status = "acked" => f \in inbox' BY <1>2, <2>4, <4>1 DEF Processed
            <4> QED BY <1>2, <4>1, <4>3, <4>4, <4>5, <4>6, <4>7 DEF DeliveryTypes, Processed
        <3>3. verdict \in {"HANDLER_FAILED", "NACK"} BY <1>6, AttemptIs
        <3> QED BY <3>1, <3>2, <3>3
    <2>8. DeliveryTypes' BY <1>2, <1>3, <2>2, <2>4, <2>7 DEF DeliveryTypes, publishVars
    <2> QED BY <1>4, <2>5, <2>6, <2>7, <2>8 DEF EventInv, DeliveryInv
<1> QED BY <1>5, <1>6

\* Another consumer's acknowledgement is on its way.
LEMMA ForeignAckKeeps ==
    ASSUME EventInv, NEW e \in Ids, ForeignAck(e)
    PROVE  EventInv'
<1> DEFINE ack == [event |-> e, token |-> delivery[e].attempt, consumer |-> "other"]
<1>1. /\ acks' = acks \cup {ack}
      /\ UNCHANGED <<publishVars, delivery, inbox, effects, checkpoint, budget, letters>>
    BY DEF ForeignAck
<1>2. DeliveryTypes /\ Processed /\ Buried /\ PoisonStaysBuried BY DEF EventInv, DeliveryInv
<1>3. ack \in [event : Ids, token : Nat, consumer : {"own", "other"}] /\ ack.consumer # "own"
    <2>1. delivery[e].attempt \in Nat BY <1>2, EventAssumption DEF DeliveryTypes
    <2> QED BY <2>1
<1> HIDE DEF ack
<1>4. PublishInv' /\ \A f : Stored(f)' = Stored(f) BY <1>1, PublishFrame DEF EventInv
<1>5. DeliveryTypes' BY <1>1, <1>2, <1>3 DEF DeliveryTypes, publishVars
<1>6. Processed' /\ Buried' BY <1>1, <1>2, <1>3, <1>4 DEF Processed, Buried
<1>7. PoisonStaysBuried' BY <1>1, <1>2 DEF PoisonStaysBuried, publishVars
<1> QED BY <1>4, <1>5, <1>6, <1>7 DEF EventInv, DeliveryInv

\* What an acknowledgement moves the checkpoint to.
LEMMA AdvanceForward ==
    ASSUME EventInv, NEW e \in inbox
    PROVE  AdvanceTo(Offset(e)) \in 0..Len(stream) /\ AdvanceTo(Offset(e)) >= checkpoint
<1>1. Stored(e) BY DEF EventInv, DeliveryInv, Processed
<1>2. Offset(e) \in 1..Len(stream) BY <1>1 DEF Stored, Offset
<1>3. Len(stream) \in Nat BY LenProperties DEF EventInv, PublishInv, PublishTypes
<1>4. checkpoint \in 0..Len(stream) BY DEF EventInv, DeliveryInv, DeliveryTypes
<1> QED BY <1>2, <1>3, <1>4 DEF AdvanceTo

\* An acknowledgement arrives.
LEMMA ReceiveAckKeeps ==
    ASSUME EventInv, NEW a \in acks, ReceiveAck(a)
    PROVE  EventInv' /\ checkpoint' >= checkpoint
<1> DEFINE counts == /\ delivery[a.event].status = "sent"
                     /\ EvaluateAcknowledgement(a, delivery[a.event].attempt) = "ACKNOWLEDGED"
           e == a.event
<1>1. acks' = acks \ {a} /\ UNCHANGED <<publishVars, inbox, effects, budget, letters>> BY DEF ReceiveAck
<1>2. DeliveryTypes /\ Processed /\ Buried /\ PoisonStaysBuried BY DEF EventInv, DeliveryInv
<1>3. PublishInv' /\ \A f : Stored(f)' = Stored(f) BY <1>1, PublishFrame DEF EventInv
<1>4. e \in Ids BY <1>2 DEF DeliveryTypes
<1>5. checkpoint \in 0..Len(stream) /\ checkpoint >= checkpoint BY <1>2 DEF DeliveryTypes
<1>6. PoisonStaysBuried' BY <1>1, <1>2 DEF PoisonStaysBuried, publishVars
<1>7. CASE counts
    <2>1. /\ delivery' = [delivery EXCEPT ![e].status = "acked"] /\ checkpoint' = AdvanceTo(Offset(e))
        BY <1>7 DEF ReceiveAck
    <2>2. e \in inbox
        <3>1. a.consumer = "own" BY <1>7, AckIsOwn
        <3> QED BY <1>2, <3>1 DEF Processed
    <2>3. checkpoint' \in 0..Len(stream) /\ checkpoint' >= checkpoint BY <2>1, <2>2, AdvanceForward
    <2>4. /\ delivery' \in [Ids -> [attempt : 0..MaxDeliveryAttempts, status : DeliveryStatus]]
          /\ \A f \in Ids : f # e => delivery'[f] = delivery[f]
        BY <1>2, <1>4, <2>1 DEF DeliveryTypes, DeliveryStatus
    <2>5. DeliveryTypes' BY <1>1, <1>2, <2>3, <2>4 DEF DeliveryTypes, publishVars
    <2>6. Processed' BY <1>1, <1>2, <1>3, <2>2, <2>4 DEF Processed
    <2>7. Buried'
        <3> SUFFICES ASSUME NEW f \in Originals, letters[f] # 0 PROVE delivery'[f].status = "dead"
            BY <1>1 DEF Buried
        <3>1. f \in Ids /\ delivery[f].status = "dead" BY <1>2 DEF Ids, Buried
        <3> QED BY <1>7, <2>4, <3>1
    <2> QED BY <1>3, <1>6, <2>3, <2>5, <2>6, <2>7 DEF EventInv, DeliveryInv
<1>8. CASE ~counts
    <2>1. UNCHANGED <<delivery, checkpoint>> BY <1>8 DEF ReceiveAck
    <2>2. DeliveryTypes' BY <1>1, <1>2, <2>1 DEF DeliveryTypes, publishVars
    <2>3. Processed' /\ Buried' BY <1>1, <1>2, <1>3, <2>1 DEF Processed, Buried
    <2> QED BY <1>3, <1>5, <1>6, <2>1, <2>2, <2>3 DEF EventInv, DeliveryInv
<1> QED BY <1>7, <1>8

\* No acknowledgement came: a retry, or the dead-letter store.
LEMMA DeliveryTimeoutKeeps ==
    ASSUME EventInv, NEW e \in Ids, NEW class \in {"RETRYABLE", "NON_RETRYABLE", "EXPIRED", "REVOKED"},
           DeliveryTimeout(e, class)
    PROVE  EventInv'
<1> USE EventAssumption
<1>1. delivery[e].status = "sent" /\ UNCHANGED <<publishVars, acks, inbox, effects, checkpoint>> BY DEF DeliveryTimeout
<1>2. DeliveryTypes /\ Processed /\ Buried /\ PoisonStaysBuried BY DEF EventInv, DeliveryInv
<1> DEFINE verdict == EvaluateRetry(delivery[e].attempt, class)
<1>3. \/ /\ verdict = "RETRY" /\ delivery' = [delivery EXCEPT ![e].status = "retry"]
         /\ budget' = budget - 1 /\ letters' = letters
      \/ Bury(e) /\ budget' = budget
      \/ delivery' = [delivery EXCEPT ![e].status = "discarded"] /\ UNCHANGED <<budget, letters>>
    BY DEF DeliveryTimeout
<1>4. ASSUME NEW s \in {"retry", "discarded"}, delivery' = [delivery EXCEPT ![e].status = s],
             budget' \in 0..RetryBudget, letters' = letters
      PROVE  EventInv'
    <2>4. PublishInv' /\ \A f : Stored(f)' = Stored(f) BY <1>1, PublishFrame DEF EventInv
    <2>5. /\ delivery' \in [Ids -> [attempt : 0..MaxDeliveryAttempts, status : DeliveryStatus]]
          /\ delivery'[e].status = s /\ \A f \in Ids : f # e => delivery'[f] = delivery[f]
        BY <1>2, <1>4 DEF DeliveryTypes, DeliveryStatus
    <2>6. DeliveryTypes' BY <1>1, <1>2, <1>4, <2>5 DEF DeliveryTypes, publishVars
    <2>7. Processed' BY <1>1, <1>2, <2>4, <2>5 DEF Processed
    <2>8. Buried'
        <3> SUFFICES ASSUME NEW f \in Originals, letters[f] # 0 PROVE delivery'[f].status = "dead"
            BY <1>4 DEF Buried
        <3>1. f \in Ids /\ delivery[f].status = "dead" BY <1>2 DEF Ids, Buried
        <3> QED BY <1>1, <2>5, <3>1
    <2>9. PoisonStaysBuried' BY <1>1, <1>2, <1>4 DEF PoisonStaysBuried, publishVars
    <2> QED BY <2>4, <2>6, <2>7, <2>8, <2>9 DEF EventInv, DeliveryInv
<1>5. CASE verdict = "RETRY" /\ delivery' = [delivery EXCEPT ![e].status = "retry"]
           /\ budget' = budget - 1 /\ letters' = letters
    <2>1. ~(budget <= 0) BY <1>5, RetryPays
    <2>2. budget' \in 0..RetryBudget BY <1>2, <1>5, <2>1 DEF DeliveryTypes
    <2> QED BY <1>4, <1>5, <2>2
<1>6. CASE Bury(e) /\ budget' = budget
    <2>1. budget' \in 0..RetryBudget BY <1>2, <1>6 DEF DeliveryTypes
    <2> QED BY <1>1, <1>6, <2>1, BuryKeeps
<1>7. CASE delivery' = [delivery EXCEPT ![e].status = "discarded"] /\ UNCHANGED <<budget, letters>>
    <2>1. budget' \in 0..RetryBudget BY <1>2, <1>7 DEF DeliveryTypes
    <2> QED BY <1>4, <1>7, <2>1
<1> HIDE DEF verdict
<1> QED BY <1>3, <1>5, <1>6, <1>7

LEMMA RefillBudgetKeeps ==
    ASSUME EventInv, RefillBudget
    PROVE  EventInv'
<1> USE EventAssumption
<1>1. budget' = RetryBudget /\ UNCHANGED <<publishVars, delivery, acks, inbox, effects, checkpoint, letters>>
    BY DEF RefillBudget
<1>2. budget' \in 0..RetryBudget BY <1>1
<1>3. PublishInv' /\ \A f : Stored(f)' = Stored(f) BY <1>1, PublishFrame DEF EventInv
<1>4. DeliveryTypes' BY <1>1, <1>2 DEF EventInv, DeliveryInv, DeliveryTypes, publishVars
<1>5. Processed' /\ Buried' BY <1>1, <1>3 DEF EventInv, DeliveryInv, Processed, Buried
<1>6. PoisonStaysBuried' BY <1>1 DEF EventInv, PoisonStaysBuried, publishVars
<1> QED BY <1>3, <1>4, <1>5, <1>6 DEF EventInv, DeliveryInv

\* A dead letter is published again under an identity of its own.
LEMMA DeadLetterReplayKeeps ==
    ASSUME EventInv, NEW r \in Replays, NEW kind, NEW approved, NEW original,
           DeadLetterReplay(r, kind, approved, original)
    PROVE  EventInv'
<1> USE EventAssumption
<1>1. /\ outbox[r].state = "none" /\ outbox' = [outbox EXCEPT ![r].state = "PENDING"]
      /\ UNCHANGED <<claims, stream, readVersion, deliveryVars>>
    BY DEF DeadLetterReplay
<1>2. letters[ReplayOf[r]] # 0 /\ ~(letters[ReplayOf[r]] >= PoisonThreshold)
    BY LetterReplayable DEF DeadLetterReplay
<1>3. letters[ReplayOf[r]] \in Nat BY DEF EventInv, DeliveryInv, DeliveryTypes
<1>4. letters[ReplayOf[r]] \in 1..(PoisonThreshold - 1) BY <1>2, <1>3
<1>5. r \in Ids BY DEF Ids
<1>6. /\ outbox' \in [Ids -> [state : OutboxState, attempts : 0..OutboxMaxAttempts]]
      /\ outbox'[r].state = "PENDING" /\ \A f \in Ids : f # r => outbox'[f] = outbox[f]
    BY <1>1, <1>5 DEF EventInv, PublishInv, PublishTypes, OutboxState
<1>7. readVersion[r] = -1
    <2>1. readVersion[r] # -1 => outbox[r].state = "PENDING" BY <1>5 DEF EventInv, PublishInv, Relaying
    <2> QED BY <1>1, <2>1
<1>8. PublishInv' BY <1>1, <1>6, <1>7 DEF EventInv, PublishInv, PublishTypes, StoredOnce, Relaying
<1>9. DeliveryInv' BY <1>1 DEF EventInv, DeliveryInv, DeliveryTypes, Processed, Buried, Stored, deliveryVars
<1>10. PoisonStaysBuried'
    <2> SUFFICES ASSUME NEW s \in Replays, outbox'[s].state # "none"
                 PROVE  letters[ReplayOf[s]] \in 1..(PoisonThreshold - 1)
        BY <1>1 DEF PoisonStaysBuried, deliveryVars
    <2>1. s \in Ids BY DEF Ids
    <2>2. CASE s = r BY <1>4, <2>2
    <2>3. CASE s # r BY <1>6, <2>1, <2>3 DEF EventInv, PoisonStaysBuried
    <2> QED BY <2>2, <2>3
<1> QED BY <1>8, <1>9, <1>10 DEF EventInv

\* A replay of the stream, approved or with its side effects suppressed.
LEMMA StreamReplayKeeps ==
    ASSUME EventInv, NEW mode, NEW d, NEW approved \in BOOLEAN, StreamReplay(mode, d, approved)
    PROVE  EventInv' /\ ForwardStep
<1> USE EventAssumption
<1>1. /\ rewinds = 0 /\ rewinds' = (IF approved THEN 2 ELSE 1) /\ checkpoint' = 0
      /\ UNCHANGED <<publishVars, acks, inbox, effects, budget, letters>>
    BY DEF StreamReplay
<1>2. delivery' = [e \in Ids |-> IF delivery[e].status = "acked" THEN [delivery[e] EXCEPT !.status = "retry"]
                                 ELSE delivery[e]]
    BY DEF StreamReplay
<1>3. DeliveryTypes /\ Processed /\ Buried /\ PoisonStaysBuried BY DEF EventInv, DeliveryInv
<1>4. PublishInv' /\ \A f : Stored(f)' = Stored(f) BY <1>1, PublishFrame DEF EventInv
<1>5. /\ delivery' \in [Ids -> [attempt : 0..MaxDeliveryAttempts, status : DeliveryStatus]]
      /\ \A f \in Ids : delivery'[f].status # "acked"
      /\ \A f \in Ids : delivery[f].status # "acked" => delivery'[f] = delivery[f]
    <2>1. \A f \in Ids : delivery[f] \in [attempt : 0..MaxDeliveryAttempts, status : DeliveryStatus]
        BY <1>3 DEF DeliveryTypes
    <2>2. \A f \in Ids : /\ [delivery[f] EXCEPT !.status = "retry"] \in [attempt : 0..MaxDeliveryAttempts, status : DeliveryStatus]
                         /\ [delivery[f] EXCEPT !.status = "retry"].status = "retry"
        BY <2>1 DEF DeliveryStatus
    <2> QED BY <1>2, <2>1, <2>2
<1>6. 0 \in 0..Len(stream)
    <2>1. Len(stream) \in Nat BY LenProperties DEF EventInv, PublishInv, PublishTypes
    <2> QED BY <2>1
<1>7. DeliveryTypes' BY <1>1, <1>3, <1>5, <1>6 DEF DeliveryTypes, publishVars
<1>8. Processed' BY <1>1, <1>3, <1>4, <1>5 DEF Processed
<1>9. Buried'
    <2> SUFFICES ASSUME NEW f \in Originals, letters[f] # 0 PROVE delivery'[f].status = "dead"
        BY <1>1 DEF Buried
    <2>1. f \in Ids /\ delivery[f].status = "dead" BY <1>3 DEF Ids, Buried
    <2> QED BY <1>5, <2>1
<1>10. PoisonStaysBuried' BY <1>1, <1>3 DEF PoisonStaysBuried, publishVars
<1>11. ForwardStep
    <2>1. EvaluateCheckpointChange(0, approved) = "ADVANCED" BY DEF StreamReplay
    <2>2. ~(0 < checkpoint /\ ~approved) BY <2>1 DEF EvaluateCheckpointChange
    <2> QED BY <1>1, <2>2 DEF ForwardStep
<1> QED BY <1>4, <1>7, <1>8, <1>9, <1>10, <1>11 DEF EventInv, DeliveryInv

\* Initially the outbox holds the originals and nothing else happened.
LEMMA EventInitInv == EventInit => EventInv
<1> SUFFICES ASSUME EventStart(Originals, <<>>, "active", 0) PROVE EventInv BY DEF EventInit
<1> USE EventAssumption
<1> DEFINE none == <<>>
<1>1. none \in Seq(Ids) /\ Len(none) = 0 /\ DOMAIN none = {} OBVIOUS
<1>2. /\ stream = none /\ readVersion = [e \in Ids |-> -1]
      /\ delivery = [e \in Ids |-> [attempt |-> 0, status |-> "none"]]
      /\ acks = {} /\ inbox = {} /\ effects = [e \in Ids |-> 0] /\ checkpoint = 0 /\ budget = RetryBudget
      /\ letters = [e \in Originals |-> 0]
    BY DEF EventStart
<1>3. claims = [k \in Keys |-> NoClaim]
    <2>1. claims = [k \in Keys |-> LET own == {i \in DOMAIN none : KeyOf[none[i]] = k}
                                   IN  IF own = {} THEN NoClaim ELSE none[CHOOSE i \in own : TRUE]]
        BY DEF EventStart
    <2>2. \A k \in Keys : {i \in DOMAIN none : KeyOf[none[i]] = k} = {} BY <1>1
    <2> HIDE DEF none
    <2> QED BY <2>1, <2>2
<1>4. outbox = [e \in Ids |-> [state |-> IF e \in Originals THEN "PENDING" ELSE "none", attempts |-> 0]]
    <2>1. outbox = [e \in Ids |-> IF \E i \in DOMAIN none : none[i] = e THEN [state |-> "PUBLISHED", attempts |-> 1]
                                  ELSE [state |-> IF e \in Originals THEN "PENDING" ELSE "none", attempts |-> 0]]
        BY DEF EventStart
    <2>2. \A e \in Ids : ~\E i \in DOMAIN none : none[i] = e BY <1>1
    <2> HIDE DEF none
    <2> QED BY <2>1, <2>2
<1> HIDE DEF none
<1>5. outbox \in [Ids -> [state : OutboxState, attempts : 0..OutboxMaxAttempts]] BY <1>4 DEF OutboxState
<1>6. PublishInv BY <1>1, <1>2, <1>3, <1>5 DEF PublishInv, PublishTypes, StoredOnce, Relaying
<1>7. DeliveryInv BY <1>1, <1>2 DEF DeliveryInv, DeliveryTypes, DeliveryStatus, Processed, Buried
<1>8. PoisonStaysBuried
    <2> SUFFICES ASSUME NEW r \in Replays PROVE outbox[r].state = "none" BY DEF PoisonStaysBuried
    <2>1. r \in Ids /\ r \notin Originals BY DEF Ids
    <2> QED BY <1>4, <2>1
<1> QED BY <1>6, <1>7, <1>8 DEF EventInv

\* Every step keeps the invariant, and none but an approved replay moves the
\* checkpoint back.
LEMMA EventStepInv == EventInv /\ [EventNext]_eventVars => EventInv' /\ [ForwardStep]_eventVars
<1> SUFFICES ASSUME EventInv, [EventNext]_eventVars PROVE EventInv' /\ [ForwardStep]_eventVars OBVIOUS
<1>1. checkpoint \in Int BY DEF EventInv, DeliveryInv, DeliveryTypes
<1>2. checkpoint' = checkpoint => ForwardStep BY <1>1 DEF ForwardStep
<1>3. ASSUME NEW e \in Ids, RelayRead(e) PROVE EventInv' /\ ForwardStep
    BY <1>2, <1>3, RelayReadKeeps DEF RelayRead, deliveryVars
<1>4. ASSUME NEW e \in Ids, OutboxGivesUp(e) PROVE EventInv' /\ ForwardStep
    BY <1>2, <1>4, OutboxGivesUpKeeps DEF OutboxGivesUp, deliveryVars
<1>5. ASSUME NEW e \in Ids, ForeignAck(e) PROVE EventInv' /\ ForwardStep
    BY <1>2, <1>5, ForeignAckKeeps DEF ForeignAck
<1>6. ASSUME NEW e \in Ids, NEW c \in {"RETRYABLE", "NON_RETRYABLE", "EXPIRED", "REVOKED"}, DeliveryTimeout(e, c)
      PROVE  EventInv' /\ ForwardStep
    <2>1. EventInv' BY <1>6, DeliveryTimeoutKeeps
    <2>2. checkpoint' = checkpoint BY <1>6 DEF DeliveryTimeout
    <2> QED BY <1>2, <2>1, <2>2
<1>7. ASSUME NEW e \in Ids, NEW b \in BOOLEAN, Deliver(e, b) PROVE EventInv' /\ ForwardStep
    <2>1. EventInv' BY <1>7, DeliverKeeps
    <2>2. checkpoint' = checkpoint BY <1>7 DEF Deliver
    <2> QED BY <1>2, <2>1, <2>2
<1>8. ASSUME NEW e \in Ids, NEW b \in BOOLEAN, NEW d, RelayPublish(e, b, d) PROVE EventInv' /\ ForwardStep
    <2>1. EventInv' BY <1>8, RelayPublishKeeps
    <2>2. checkpoint' = checkpoint BY <1>8 DEF RelayPublish, deliveryVars
    <2> QED BY <1>2, <2>1, <2>2
<1>9. ASSUME NEW a \in acks, ReceiveAck(a) PROVE EventInv' /\ ForwardStep
    <2>1. EventInv' /\ checkpoint' >= checkpoint BY <1>9, ReceiveAckKeeps
    <2>2. checkpoint' \in Int BY <2>1 DEF EventInv, DeliveryInv, DeliveryTypes
    <2> QED BY <1>1, <2>1, <2>2 DEF ForwardStep
<1>10. ASSUME NEW r \in Replays, NEW k, NEW b, NEW o, DeadLetterReplay(r, k, b, o) PROVE EventInv' /\ ForwardStep
    <2>1. EventInv' BY <1>10, DeadLetterReplayKeeps
    <2>2. checkpoint' = checkpoint BY <1>10 DEF DeadLetterReplay, deliveryVars
    <2> QED BY <1>2, <2>1, <2>2
<1>11. ASSUME NEW m, NEW d, NEW b \in BOOLEAN, StreamReplay(m, d, b) PROVE EventInv' /\ ForwardStep
    BY <1>11, StreamReplayKeeps
<1>12. CASE WindowResets BY <1>2, <1>12, EventFrame DEF WindowResets, deliveryVars
<1>13. CASE Fault
    <2>1. UNCHANGED <<publishVars, deliveryVars>> BY <1>13 DEF Fault
    <2> QED BY <1>2, <2>1, EventFrame DEF publishVars, deliveryVars
<1>14. CASE UNCHANGED eventVars BY <1>14, EventFrame DEF eventVars, publishVars
<1>15. CASE RefillBudget BY <1>2, <1>15, RefillBudgetKeeps DEF RefillBudget
<1>16. CASE EventNext
    BY <1>3, <1>4, <1>5, <1>6, <1>7, <1>8, <1>9, <1>10, <1>11, <1>12, <1>13, <1>15, <1>16 DEF EventNext
<1> QED BY <1>14, <1>16

\* The invariant is what the event foundation promises.
LEMMA EventInvSafe == EventInv => EventsSafe
<1> SUFFICES ASSUME EventInv PROVE EventsSafe OBVIOUS
<1>1. EventTypeOK BY DEF EventInv, PublishInv, PublishTypes, DeliveryInv, DeliveryTypes, EventTypeOK
<1>2. StoredOnce /\ PoisonStaysBuried BY DEF EventInv, PublishInv
<1>3. Processed BY DEF EventInv, DeliveryInv
<1>4. EffectOncePerEvent /\ AckedIsProcessed BY <1>3 DEF Processed, EffectOncePerEvent, AckedIsProcessed
<1> QED BY <1>1, <1>2, <1>4 DEF EventsSafe

\* The event foundation is safe for any events, keys, replays and bounds: a key is
\* stored once, a consumer acts once on an event, only its own acknowledgement of
\* what it processed counts, and poison stays buried.
THEOREM EventSafety == EventSpec => []EventsSafe
<1>1. EventSpec => []EventInv BY EventInitInv, EventStepInv, PTL DEF EventSpec
<1> QED BY <1>1, EventInvSafe, PTL

\* Acknowledgements in any order never move the checkpoint back; only an approved
\* replay of the stream does, and once.
THEOREM CheckpointsGoForward == EventSpec => CheckpointForward
<1>1. EventSpec => []EventInv BY EventInitInv, EventStepInv, PTL DEF EventSpec
<1> QED BY <1>1, EventStepInv, PTL DEF EventSpec, CheckpointForward

-----------------------------------------------------------------------------
(* The kernel's event bus *)

BusRegistration == [id : Nat, handler : Handlers, priority : {0, 1}, once : BOOLEAN]

KernelBusTypes ==
    /\ registered \subseteq BusRegistration /\ nextReg \in Nat
    /\ kpub \in [KernelPublishes -> [pc : {"idle", "calling", "done"}, copy : SUBSET BusRegistration,
                                     left : SUBSET BusRegistration, failed : SUBSET BusRegistration, begun : Nat]]
    /\ callLog \in Seq([publish : KernelPublishes, reg : BusRegistration])

\* Registrations are told apart by their ids, which are not used again.
DistinctRegs(regs) == /\ \A r, q \in regs : r.id = q.id => r = q
                      /\ \A r \in regs : r.id < nextReg

Called(p, r) == \E i \in 1..Len(callLog) : callLog[i] = [publish |-> p, reg |-> r]

\* A publish calls what it copied, each once and in order.
CopyServed(p) ==
    /\ DistinctRegs(kpub[p].copy) /\ kpub[p].left \subseteq kpub[p].copy /\ kpub[p].begun <= Len(callLog)
    /\ \A r \in kpub[p].copy \ kpub[p].left : Called(p, r)
    /\ kpub[p].pc = "idle" => kpub[p].copy = {}
    /\ kpub[p].pc = "done" => kpub[p].left = {}

\* A logged call was copied by its publish and comes before what that has left; a
\* once-handler that was called is detached, and only publishes begun before hold it.
LogEntry(i) ==
    LET e == callLog[i]
    IN  /\ e.reg \in kpub[e.publish].copy \ kpub[e.publish].left
        /\ \A r \in kpub[e.publish].left : Before(e.reg, r)
        /\ e.reg.id < nextReg
        /\ e.reg.once => /\ e.reg \notin registered
                         /\ \A p \in KernelPublishes : e.reg \in kpub[p].copy => kpub[p].begun < i
LogOrdered == \A i, j \in 1..Len(callLog) :
    (i < j /\ callLog[i].publish = callLog[j].publish) => Before(callLog[i].reg, callLog[j].reg)

KernelBusInv ==
    /\ KernelBusTypes /\ DistinctRegs(registered)
    /\ \A p \in KernelPublishes : CopyServed(p)
    /\ \A i \in 1..Len(callLog) : LogEntry(i)
    /\ LogOrdered

\* There is always a next registration to call: the sort is total.
LEMMA SomeoneIsNext ==
    ASSUME NEW left, left \subseteq BusRegistration, \A r, q \in left : r.id = q.id => r = q, left # {}
    PROVE  /\ NextByPriority(left) \in left
           /\ \A q \in left \ {NextByPriority(left)} : Before(NextByPriority(left), q)
<1>1. ASSUME NEW top \in SUBSET left, top # {}, NEW v \in {0, 1}, \A r \in top : r.priority = v,
             \A r \in left \ top : r.priority < v
      PROVE  \E r \in left : \A q \in left \ {r} : Before(r, q)
    <2> DEFINE ids == {r.id : r \in top}
    <2>1. ids \subseteq Nat /\ ids # {} BY <1>1 DEF BusRegistration
    <2>2. \E x \in ids : \A y \in ids : x <= y
        <3> HIDE DEF ids
        <3> QED BY <2>1, LeastNatural
    <2>3. PICK r \in top : \A q \in top : r.id <= q.id BY <2>2
    <2>4. ASSUME NEW q \in left \ {r} PROVE Before(r, q)
        <3>1. CASE q \in top
            <4>1. r.id # q.id BY <1>1, <2>4, <3>1
            <4>2. r.id \in Nat /\ q.id \in Nat /\ r.id <= q.id BY <1>1, <2>3, <3>1 DEF BusRegistration
            <4> QED BY <1>1, <3>1, <4>1, <4>2 DEF Before
        <3>2. CASE q \notin top
            <4>1. q.priority < v /\ r.priority = v /\ q.priority \in {0, 1} BY <1>1, <3>2 DEF BusRegistration
            <4> QED BY <4>1 DEF Before
        <3> QED BY <3>1, <3>2
    <2> QED BY <2>4
<1>2. \E r \in left : \A q \in left \ {r} : Before(r, q)
    <2> DEFINE high == {r \in left : r.priority = 1}
    <2>1. CASE high # {}
        <3>1. \A r \in left \ high : r.priority < 1 BY DEF BusRegistration
        <3>2. high \in SUBSET left /\ \A r \in high : r.priority = 1 OBVIOUS
        <3> HIDE DEF high
        <3> QED BY <1>1, <2>1, <3>1, <3>2
    <2>2. CASE high = {}
        <3>1. \A r \in left : r.priority = 0 BY <2>2 DEF BusRegistration
        <3>2. \A r \in left \ left : r.priority < 0 OBVIOUS
        <3>3. left \in SUBSET left /\ 0 \in {0, 1} OBVIOUS
        <3> QED BY <1>1, <3>1, <3>2, <3>3
    <2> QED BY <2>1, <2>2
<1> QED BY <1>2 DEF NextByPriority

\* Initially nobody is registered.
LEMMA KernelBusInitInv == BusInit => KernelBusInv
<1> SUFFICES ASSUME BusInit PROVE KernelBusInv OBVIOUS
<1>1. /\ registered = {} /\ callLog = <<>> /\ nextReg = 1
      /\ kpub = [p \in KernelPublishes |-> [pc |-> "idle", copy |-> {}, left |-> {}, failed |-> {}, begun |-> 0]]
    BY DEF BusInit, KernelIdle
<1>2. callLog \in Seq([publish : KernelPublishes, reg : BusRegistration]) /\ Len(callLog) = 0 BY <1>1
<1>3. KernelBusTypes BY <1>1, <1>2 DEF KernelBusTypes
<1>4. DistinctRegs(registered) BY <1>1 DEF DistinctRegs
<1>5. \A p \in KernelPublishes : CopyServed(p) BY <1>1, <1>2 DEF CopyServed, DistinctRegs
<1>6. (\A i \in 1..Len(callLog) : LogEntry(i)) /\ LogOrdered BY <1>2 DEF LogOrdered
<1> QED BY <1>3, <1>4, <1>5, <1>6 DEF KernelBusInv

\* A publish copies the registrations: none of a once-handler that was called.
LEMMA KernelPublishKeeps ==
    ASSUME KernelBusInv, NEW p \in KernelPublishes, KernelPublish(p)
    PROVE  KernelBusInv'
<1> DEFINE k == [pc |-> "calling", copy |-> registered, left |-> registered, failed |-> {}, begun |-> Len(callLog)]
<1>1. kpub[p].pc = "idle" /\ kpub' = [kpub EXCEPT ![p] = k] /\ UNCHANGED <<registered, callLog, nextReg>>
    BY DEF KernelPublish
<1>2. KernelBusTypes /\ DistinctRegs(registered) BY DEF KernelBusInv
<1>3. Len(callLog) \in Nat BY <1>2, LenProperties DEF KernelBusTypes
<1>4. k \in [pc : {"idle", "calling", "done"}, copy : SUBSET BusRegistration,
             left : SUBSET BusRegistration, failed : SUBSET BusRegistration, begun : Nat]
    BY <1>2, <1>3 DEF KernelBusTypes
<1>5. k.pc = "calling" /\ k.copy = registered /\ k.left = registered /\ k.begun = Len(callLog) OBVIOUS
<1> HIDE DEF k
<1>6. kpub'[p] = k /\ \A q \in KernelPublishes : q # p => kpub'[q] = kpub[q] BY <1>1, <1>2 DEF KernelBusTypes
<1>7. KernelBusTypes' BY <1>1, <1>2, <1>4 DEF KernelBusTypes
<1>8. DistinctRegs(registered)' BY <1>1, <1>2 DEF DistinctRegs
<1>9. \A q \in KernelPublishes : CopyServed(q)'
    <2> SUFFICES ASSUME NEW q \in KernelPublishes PROVE CopyServed(q)' OBVIOUS
    <2>1. CASE q = p BY <1>1, <1>2, <1>3, <1>5, <1>6, <2>1 DEF CopyServed, DistinctRegs
    <2>2. CASE q # p
        <3>1. CopyServed(q) /\ kpub'[q] = kpub[q] BY <1>6, <2>2 DEF KernelBusInv
        <3> QED BY <1>1, <3>1 DEF CopyServed, DistinctRegs, Called
    <2> QED BY <2>1, <2>2
<1>10. \A i \in 1..Len(callLog) : LogEntry(i)'
    <2> SUFFICES ASSUME NEW i \in 1..Len(callLog) PROVE LogEntry(i)' OBVIOUS
    <2> DEFINE e == callLog[i]
    <2>1. LogEntry(i) BY DEF KernelBusInv
    <2>2. e.publish \in KernelPublishes
        <3>1. callLog[i] \in [publish : KernelPublishes, reg : BusRegistration] BY <1>2, ElementOfSeq DEF KernelBusTypes
        <3> QED BY <3>1
    <2>3. e.publish # p
        <3>1. e.reg \in kpub[e.publish].copy BY <2>1 DEF LogEntry
        <3>2. kpub[p].copy = {} BY <1>1 DEF KernelBusInv, CopyServed
        <3> QED BY <3>1, <3>2
    <2>4. kpub'[e.publish] = kpub[e.publish] BY <1>6, <2>2, <2>3
    <2>5. e.reg.once => \A q \in KernelPublishes : e.reg \in kpub'[q].copy => kpub'[q].begun < i
        <3> SUFFICES ASSUME e.reg.once, NEW q \in KernelPublishes, e.reg \in kpub'[q].copy PROVE kpub'[q].begun < i
            OBVIOUS
        <3>1. q # p BY <1>5, <1>6, <2>1 DEF LogEntry
        <3> QED BY <1>6, <2>1, <3>1 DEF LogEntry
    <2> QED BY <1>1, <2>1, <2>4, <2>5 DEF LogEntry
<1>11. LogOrdered' BY <1>1 DEF KernelBusInv, LogOrdered
<1> QED BY <1>1, <1>7, <1>8, <1>9, <1>10, <1>11 DEF KernelBusInv

\* What is registered changes and the publishes under way do not: they hold copies.
LEMMA RegistrationsKeep ==
    ASSUME KernelBusInv, UNCHANGED <<kpub, callLog>>, nextReg' \in Nat, nextReg <= nextReg',
           registered' \subseteq BusRegistration, DistinctRegs(registered)',
           \A r \in registered' \ registered : r.id >= nextReg
    PROVE  KernelBusInv'
<1>1. KernelBusTypes BY DEF KernelBusInv
<1>2. KernelBusTypes' BY <1>1 DEF KernelBusTypes
<1>3. \A q \in KernelPublishes : CopyServed(q)'
    <2> SUFFICES ASSUME NEW q \in KernelPublishes PROVE CopyServed(q)' OBVIOUS
    <2>1. CopyServed(q) BY DEF KernelBusInv
    <2>2. \A r \in kpub[q].copy : r.id \in Nat /\ r.id < nextReg BY <1>1, <2>1 DEF KernelBusTypes, CopyServed, DistinctRegs, BusRegistration
    <2>3. \A r \in kpub[q].copy : r.id < nextReg' BY <1>1, <2>2 DEF KernelBusTypes
    <2> QED BY <2>1, <2>3 DEF CopyServed, DistinctRegs, Called
<1>4. \A i \in 1..Len(callLog) : LogEntry(i)'
    <2> SUFFICES ASSUME NEW i \in 1..Len(callLog) PROVE LogEntry(i)' OBVIOUS
    <2>1. LogEntry(i) BY DEF KernelBusInv
    <2> DEFINE e == callLog[i]
    <2>2. e.reg.id \in Nat /\ e.reg.id < nextReg
        <3>1. callLog[i] \in [publish : KernelPublishes, reg : BusRegistration] BY <1>1, ElementOfSeq DEF KernelBusTypes
        <3> QED BY <2>1, <3>1 DEF LogEntry, BusRegistration
    <2>3. e.reg.id < nextReg' /\ ~(e.reg.id >= nextReg) BY <1>1, <2>2 DEF KernelBusTypes
    <2>4. e.reg \in registered' => e.reg \in registered BY <2>3
    <2> QED BY <2>1, <2>3, <2>4 DEF LogEntry
<1>5. LogOrdered' BY DEF KernelBusInv, LogOrdered
<1> QED BY <1>2, <1>3, <1>4, <1>5 DEF KernelBusInv

\* The next handler is called, a once-handler after it is detached.
LEMMA CallHandlerKeeps ==
    ASSUME KernelBusInv, NEW p \in KernelPublishes, NEW t \in BOOLEAN, CallHandler(p, t)
    PROVE  KernelBusInv'
<1>0. PICK r : r = NextByPriority(kpub[p].left) OBVIOUS
<1> DEFINE k == [kpub[p] EXCEPT !.left = @ \ {r}, !.failed = IF t THEN @ \cup {r} ELSE @]
           n == Len(callLog)
           entry == [publish |-> p, reg |-> r]
           Progress == [pc : {"idle", "calling", "done"}, copy : SUBSET BusRegistration,
                        left : SUBSET BusRegistration, failed : SUBSET BusRegistration, begun : Nat]
<1>1. /\ kpub[p].pc = "calling" /\ kpub[p].left # {} /\ nextReg' = nextReg
      /\ registered' = (IF r.once THEN Detach(registered, r.handler) ELSE registered)
      /\ callLog' = Append(callLog, entry)
    BY <1>0 DEF CallHandler
<1>2. kpub' = [kpub EXCEPT ![p] = k] BY <1>0 DEF CallHandler
<1>3. KernelBusTypes /\ DistinctRegs(registered) /\ CopyServed(p) BY DEF KernelBusInv
<1>4. kpub[p] \in Progress BY <1>3 DEF KernelBusTypes
<1>5. r \in kpub[p].left /\ \A q \in kpub[p].left \ {r} : Before(r, q)
    <2> DEFINE left == kpub[p].left
    <2>1. left \subseteq BusRegistration /\ \A x, y \in left : x.id = y.id => x = y
        BY <1>3, <1>4 DEF CopyServed, DistinctRegs
    <2>2. NextByPriority(left) \in left /\ \A q \in left \ {NextByPriority(left)} : Before(NextByPriority(left), q)
        <3> HIDE DEF left
        <3> QED BY <1>1, <2>1, SomeoneIsNext DEF left
    <2> QED BY <1>0, <2>2
<1>6. r \in BusRegistration /\ r \in kpub[p].copy BY <1>3, <1>4, <1>5 DEF CopyServed
<1>7. /\ k \in Progress /\ k.left = kpub[p].left \ {r} /\ k.copy = kpub[p].copy /\ k.pc = "calling"
      /\ k.begun = kpub[p].begun
    BY <1>1, <1>4, <1>6
<1> HIDE DEF k
<1>8. kpub'[p] = k /\ \A q \in KernelPublishes : q # p => kpub'[q] = kpub[q] BY <1>2, <1>3 DEF KernelBusTypes
<1>9. \A q \in KernelPublishes : kpub'[q].copy = kpub[q].copy /\ kpub'[q].begun = kpub[q].begun
                                 /\ kpub'[q].left \subseteq kpub[q].left
    BY <1>7, <1>8
<1>10. entry \in [publish : KernelPublishes, reg : BusRegistration] /\ entry.publish = p /\ entry.reg = r BY <1>6
<1> HIDE DEF entry
<1>11. /\ callLog' \in Seq([publish : KernelPublishes, reg : BusRegistration])
       /\ n \in Nat /\ Len(callLog') = n + 1 /\ callLog'[n + 1] = entry
       /\ \A i \in 1..n : callLog'[i] = callLog[i]
    <2>1. callLog \in Seq([publish : KernelPublishes, reg : BusRegistration]) BY <1>3 DEF KernelBusTypes
    <2> QED BY <1>1, <1>10, <2>1, AppendProperties, LenProperties
<1>12. registered' \subseteq registered /\ (r.once => r \notin registered') BY <1>1 DEF Detach
<1>13. KernelBusTypes' BY <1>1, <1>2, <1>3, <1>7, <1>11, <1>12 DEF KernelBusTypes
<1>14. DistinctRegs(registered)' BY <1>1, <1>3, <1>12 DEF DistinctRegs
<1>15. \A q, x : Called(q, x) => Called(q, x)'
    <2> SUFFICES ASSUME NEW q, NEW x, Called(q, x) PROVE Called(q, x)' OBVIOUS
    <2>1. PICK i \in 1..n : callLog[i] = [publish |-> q, reg |-> x] BY DEF Called
    <2>2. i \in 1..Len(callLog') /\ callLog'[i] = [publish |-> q, reg |-> x] BY <1>11, <2>1
    <2> QED BY <2>2 DEF Called
<1>16. Called(p, r)'
    <2>1. n + 1 \in 1..Len(callLog') /\ callLog'[n + 1] = [publish |-> p, reg |-> r] BY <1>11 DEF entry
    <2> QED BY <2>1 DEF Called
<1> HIDE DEF n
<1>17. \A q \in KernelPublishes : CopyServed(q)'
    <2> SUFFICES ASSUME NEW q \in KernelPublishes PROVE CopyServed(q)' OBVIOUS
    <2>1. CopyServed(q) BY DEF KernelBusInv
    <2>2. kpub[q].begun \in Nat /\ kpub[q].begun <= n BY <1>3, <2>1 DEF KernelBusTypes, CopyServed, n
    <2>3. kpub'[q].begun <= Len(callLog') BY <1>9, <1>11, <2>2
    <2>4. DistinctRegs(kpub[q].copy)' BY <1>1, <1>9, <2>1 DEF CopyServed, DistinctRegs
    <2>5. CASE q = p
        <3>1. \A x \in kpub'[q].copy \ kpub'[q].left : Called(q, x)'
            BY <1>3, <1>7, <1>8, <1>15, <1>16, <2>5 DEF CopyServed
        <3> QED BY <1>3, <1>7, <1>8, <2>3, <2>4, <2>5, <3>1 DEF CopyServed
    <2>6. CASE q # p
        <3>1. kpub'[q] = kpub[q] BY <1>8, <2>6
        <3> QED BY <1>15, <2>1, <2>3, <2>4, <3>1 DEF CopyServed
    <2> QED BY <2>5, <2>6
<1>18. \A i \in 1..n : callLog[i].publish \in KernelPublishes /\ LogEntry(i)
    <2> TAKE i \in 1..n
    <2>1. callLog[i] \in [publish : KernelPublishes, reg : BusRegistration]
        BY <1>3, ElementOfSeq DEF KernelBusTypes, n
    <2> QED BY <2>1 DEF KernelBusInv, n
<1>19. \A i \in 1..(n + 1) : LogEntry(i)'
    <2> SUFFICES ASSUME NEW i \in 1..(n + 1) PROVE LogEntry(i)' OBVIOUS
    <2>1. CASE i \in 1..n
        <3> DEFINE e == callLog[i]
        <3>1. callLog'[i] = e /\ e.publish \in KernelPublishes /\ LogEntry(i) BY <1>11, <1>18, <2>1
        <3>2. /\ e.reg \in kpub[e.publish].copy \ kpub[e.publish].left
              /\ \A x \in kpub[e.publish].left : Before(e.reg, x) /\ e.reg.id < nextReg
              /\ e.reg.id < nextReg
              /\ e.reg.once => /\ e.reg \notin registered
                               /\ \A q \in KernelPublishes : e.reg \in kpub[q].copy => kpub[q].begun < i
            BY <3>1 DEF LogEntry
        <3> HIDE DEF e
        <3>3. /\ e.reg \in kpub'[e.publish].copy \ kpub'[e.publish].left
              /\ \A x \in kpub'[e.publish].left : Before(e.reg, x)
            BY <1>9, <3>1, <3>2
        <3>4. e.reg.once => /\ e.reg \notin registered'
                            /\ \A q \in KernelPublishes : e.reg \in kpub'[q].copy => kpub'[q].begun < i
            BY <1>9, <1>12, <3>2
        <3> QED BY <1>1, <3>1, <3>2, <3>3, <3>4 DEF LogEntry
    <2>2. CASE i = n + 1
        <3>1. callLog'[i] = entry BY <1>11, <2>2
        <3>2. r \in kpub'[p].copy \ kpub'[p].left /\ \A x \in kpub'[p].left : Before(r, x) BY <1>5, <1>6, <1>7, <1>8
        <3>3. r.id < nextReg' BY <1>1, <1>3, <1>6 DEF CopyServed, DistinctRegs
        <3>4. \A q \in KernelPublishes : kpub'[q].begun < i
            <4> TAKE q \in KernelPublishes
            <4>1. kpub[q].begun \in Nat /\ kpub[q].begun <= n
                BY <1>3 DEF KernelBusInv, KernelBusTypes, CopyServed, n
            <4> QED BY <1>9, <1>11, <2>2, <4>1
        <3> QED BY <1>10, <1>12, <3>1, <3>2, <3>3, <3>4 DEF LogEntry
    <2> QED BY <1>11, <2>1, <2>2
<1>20. LogOrdered'
    <2> SUFFICES ASSUME NEW i \in 1..(n + 1), NEW j \in 1..(n + 1), i < j, callLog'[i].publish = callLog'[j].publish
                 PROVE  Before(callLog'[i].reg, callLog'[j].reg)
        BY <1>11 DEF LogOrdered
    <2>1. i \in 1..n /\ callLog'[i] = callLog[i] BY <1>11
    <2>2. CASE j \in 1..n
        <3>1. callLog'[j] = callLog[j] BY <1>11, <2>2
        <3> QED BY <2>1, <2>2, <3>1 DEF KernelBusInv, LogOrdered, n
    <2>3. CASE j = n + 1
        <3>1. callLog'[j].publish = p /\ callLog'[j].reg = r BY <1>10, <1>11, <2>3
        <3> QED BY <1>5, <1>18, <2>1, <3>1 DEF LogEntry
    <2> QED BY <1>11, <2>2, <2>3
<1> QED BY <1>11, <1>13, <1>14, <1>17, <1>19, <1>20 DEF KernelBusInv

\* A publish that called all it copied is done.
LEMMA KernelPublishEndsKeeps ==
    ASSUME KernelBusInv, NEW p \in KernelPublishes, KernelPublishEnds(p)
    PROVE  KernelBusInv'
<1>1. /\ kpub[p].pc = "calling" /\ kpub[p].left = {} /\ kpub' = [kpub EXCEPT ![p].pc = "done"]
      /\ UNCHANGED <<registered, callLog, nextReg>>
    BY DEF KernelPublishEnds
<1>2. KernelBusTypes BY DEF KernelBusInv
<1>3. KernelBusTypes' BY <1>1, <1>2 DEF KernelBusTypes
<1>4. \A q \in KernelPublishes : /\ kpub'[q].copy = kpub[q].copy /\ kpub'[q].left = kpub[q].left
                                 /\ kpub'[q].begun = kpub[q].begun
                                 /\ kpub'[q].pc = IF q = p THEN "done" ELSE kpub[q].pc
    BY <1>1, <1>2 DEF KernelBusTypes
<1>5. \A q \in KernelPublishes : CopyServed(q)'
    <2> SUFFICES ASSUME NEW q \in KernelPublishes PROVE CopyServed(q)' OBVIOUS
    <2>1. CopyServed(q) BY DEF KernelBusInv
    <2> QED BY <1>1, <1>4, <2>1 DEF CopyServed, DistinctRegs, Called
<1>6. \A i \in 1..Len(callLog) : LogEntry(i)'
    <2> SUFFICES ASSUME NEW i \in 1..Len(callLog) PROVE LogEntry(i)' OBVIOUS
    <2>1. callLog[i] \in [publish : KernelPublishes, reg : BusRegistration] BY <1>2, ElementOfSeq DEF KernelBusTypes
    <2>2. LogEntry(i) /\ callLog[i].publish \in KernelPublishes BY <2>1 DEF KernelBusInv
    <2> QED BY <1>1, <1>4, <2>2 DEF LogEntry
<1>7. LogOrdered' /\ DistinctRegs(registered)' BY <1>1 DEF KernelBusInv, LogOrdered, DistinctRegs
<1> QED BY <1>1, <1>3, <1>5, <1>6, <1>7 DEF KernelBusInv

\* Every operation of the kernel's bus.
LEMMA KernelBusStep ==
    ASSUME KernelBusInv, KernelBusNext
    PROVE  KernelBusInv'
<1>0. KernelBusTypes /\ DistinctRegs(registered) BY DEF KernelBusInv
<1>1. ASSUME NEW p \in KernelPublishes, KernelPublish(p) \/ KernelPublishEnds(p) PROVE KernelBusInv'
    BY <1>1, KernelPublishKeeps, KernelPublishEndsKeeps
<1>2. ASSUME NEW p \in KernelPublishes, NEW t \in BOOLEAN, CallHandler(p, t) PROVE KernelBusInv'
    BY <1>2, CallHandlerKeeps
<1>3. ASSUME NEW h \in Handlers, KernelUnsubscribe(h) PROVE KernelBusInv'
    <2>1. registered' = Detach(registered, h) /\ UNCHANGED <<kpub, callLog, nextReg>> BY <1>3 DEF KernelUnsubscribe
    <2>2. registered' \subseteq registered BY <2>1 DEF Detach
    <2>3. DistinctRegs(registered)' BY <1>0, <2>1, <2>2 DEF DistinctRegs
    <2>4. nextReg' \in Nat /\ nextReg <= nextReg' BY <1>0, <2>1 DEF KernelBusTypes
    <2>5. registered' \subseteq BusRegistration BY <1>0, <2>2 DEF KernelBusTypes
    <2> QED BY <2>1, <2>2, <2>3, <2>4, <2>5, RegistrationsKeep
<1>4. ASSUME NEW h \in Handlers, NEW i \in {0, 1}, NEW o \in BOOLEAN, KernelSubscribe(h, i, o) PROVE KernelBusInv'
    <2> DEFINE r == [id |-> nextReg, handler |-> h, priority |-> i, once |-> o]
    <2>1. registered' = registered \cup {r} /\ nextReg' = nextReg + 1 /\ UNCHANGED <<kpub, callLog>>
        BY <1>4 DEF KernelSubscribe
    <2>2. r \in BusRegistration /\ r.id = nextReg BY <1>0 DEF KernelBusTypes, BusRegistration
    <2> HIDE DEF r
    <2>3. nextReg \in Nat /\ nextReg' \in Nat /\ nextReg <= nextReg' BY <1>0, <2>1 DEF KernelBusTypes
    <2>4. registered' \subseteq BusRegistration BY <1>0, <2>1, <2>2 DEF KernelBusTypes
    <2>5. \A x \in registered : x.id \in Nat /\ x.id < nextReg BY <1>0 DEF KernelBusTypes, BusRegistration, DistinctRegs
    <2>6. \A x \in registered : x.id < nextReg' /\ x.id # r.id BY <2>1, <2>2, <2>3, <2>5
    <2>7. r.id < nextReg' BY <2>1, <2>2, <2>3
    <2>8. DistinctRegs(registered)' BY <1>0, <2>1, <2>6, <2>7 DEF DistinctRegs
    <2>9. \A x \in registered' \ registered : x.id >= nextReg BY <2>1, <2>2, <2>3
    <2> QED BY <2>1, <2>3, <2>4, <2>8, <2>9, RegistrationsKeep
<1> QED BY <1>1, <1>2, <1>3, <1>4 DEF KernelBusNext

\* The kernel bus's promises.
LEMMA KernelBusInvSafe ==
    ASSUME KernelBusInv
    PROVE  OnceUnlessOverlap /\ CalledByPriority
<1>1. KernelBusTypes /\ LogOrdered BY DEF KernelBusInv
<1>2. DOMAIN callLog = 1..Len(callLog) /\ Len(callLog) \in Nat BY <1>1, LenProperties DEF KernelBusTypes
<1>3. \A i \in 1..Len(callLog) : /\ callLog[i].publish \in KernelPublishes /\ callLog[i].reg \in BusRegistration
                                 /\ LogEntry(i)
    <2> TAKE i \in 1..Len(callLog)
    <2>1. callLog[i] \in [publish : KernelPublishes, reg : BusRegistration] BY <1>1, ElementOfSeq DEF KernelBusTypes
    <2> QED BY <2>1 DEF KernelBusInv
<1>4. OnceUnlessOverlap
    <2> SUFFICES ASSUME NEW i \in 1..Len(callLog), NEW j \in 1..Len(callLog),
                        i < j, callLog[i].reg.once, callLog[i].reg = callLog[j].reg
                 PROVE  /\ callLog[i].publish # callLog[j].publish
                        /\ kpub[callLog[j].publish].begun < i
        BY <1>2 DEF OnceUnlessOverlap
    <2>1. callLog[i].publish # callLog[j].publish
        <3> SUFFICES ASSUME callLog[i].publish = callLog[j].publish PROVE FALSE OBVIOUS
        <3>1. Before(callLog[i].reg, callLog[j].reg) BY <1>1 DEF LogOrdered
        <3>2. callLog[i].reg.id \in Nat /\ callLog[i].reg.priority \in {0, 1} BY <1>3 DEF BusRegistration
        <3> QED BY <3>1, <3>2 DEF Before
    <2>2. callLog[i].reg \in kpub[callLog[j].publish].copy /\ callLog[j].publish \in KernelPublishes
        BY <1>3 DEF LogEntry
    <2> QED BY <1>3, <2>1, <2>2 DEF LogEntry
<1>5. \A p \in KernelPublishes : kpub[p].pc = "done" =>
          \A r \in kpub[p].copy : \E i \in 1..Len(callLog) : callLog[i] = [publish |-> p, reg |-> r]
    BY DEF KernelBusInv, CopyServed, Called
<1>6. CalledByPriority BY <1>1, <1>2, <1>5 DEF CalledByPriority, LogOrdered
<1> QED BY <1>4, <1>6

-----------------------------------------------------------------------------
(* The persistent event bus *)

PubState == {"idle", "deduplicated", "backpressure_rejected", "auditing", "threw", "delivering", "published"}
PubProgress == [pc : PubState, copy : Seq(Groups), next : Nat, attempt : Nat]

PersistentTypes ==
    /\ pub \in [Publishes -> PubProgress] /\ inflight \in Nat
    /\ subscribed \in Seq(Groups) /\ acked \in [Publishes -> SUBSET Groups]

NoRepeat(s) == \A i, j \in 1..Len(s) : s[i] = s[j] => i = j

\* A publish serves the groups it copied in order: what it served is acknowledged or
\* a dead letter, what it has left is neither.
Serving(p) ==
    /\ NoRepeat(pub[p].copy) /\ pub[p].next \in 1..(Len(pub[p].copy) + 1) /\ pub[p].attempt <= RetryLimit
    /\ pub[p].pc \in {"idle", "deduplicated", "backpressure_rejected", "auditing"}
          => acked[p] = {} /\ pub[p].next = 1 /\ pub[p].attempt = 0 /\ \A g : <<p, g>> \notin deadLetters
    /\ pub[p].pc \in {"delivering", "published"}
          => \A i \in 1..(pub[p].next - 1) : pub[p].copy[i] \in acked[p] <=> <<p, pub[p].copy[i]>> \notin deadLetters
    /\ pub[p].pc = "delivering"
          => \A i \in pub[p].next..Len(pub[p].copy) :
                pub[p].copy[i] \notin acked[p] /\ <<p, pub[p].copy[i]>> \notin deadLetters
    /\ pub[p].pc = "published" => ~More(pub[p])

Taken(p) == pub[p].pc \in {"auditing", "delivering", "published", "threw"}

\* A key is seen when a publish of it was taken, and then there is one.
KeysTaken ==
    /\ \A k \in seen : \E q \in Publishes : BusKeyOf[q] = k /\ Taken(q)
    /\ \A p \in Publishes : Taken(p) => BusKeyOf[p] \in seen
    /\ \A p, q \in Publishes : Taken(p) /\ Taken(q) /\ BusKeyOf[p] = BusKeyOf[q] => p = q
    /\ \A p \in Publishes : pub[p].pc = "deduplicated"
          => \E q \in Publishes \ {p} : BusKeyOf[q] = BusKeyOf[p] /\ Taken(q)

PersistentInv ==
    /\ PersistentTypes /\ NoRepeat(subscribed)
    /\ inflight = Cardinality(Running) /\ inflight <= MaxInflight
    /\ \A p \in Publishes : Serving(p)
    /\ KeysTaken

\* The publishes under way are counted one up or one down.
LEMMA RunningCounts ==
    ASSUME PersistentInv, NEW p \in Publishes,
           \A q \in Publishes : q # p => pub'[q].pc = pub[q].pc
    PROVE  /\ p \notin Running /\ pub'[p].pc \in {"auditing", "delivering"} => Cardinality(Running') = inflight + 1
           /\ p \in Running /\ pub'[p].pc \notin {"auditing", "delivering"} => Cardinality(Running') = inflight - 1
           /\ (p \in Running <=> pub'[p].pc \in {"auditing", "delivering"}) => Cardinality(Running') = inflight
<1>1. IsFiniteSet(Running) /\ Cardinality(Running) = inflight
    <2>1. Running \subseteq Publishes BY DEF Running
    <2> QED BY <2>1, BusAssumption, FS_Subset DEF PersistentInv
<1>2. ASSUME p \notin Running, pub'[p].pc \in {"auditing", "delivering"} PROVE Cardinality(Running') = inflight + 1
    <2>1. Running' = Running \cup {p} BY <1>2 DEF Running
    <2> QED BY <1>1, <1>2, <2>1, FS_AddElement
<1>3. ASSUME p \in Running, pub'[p].pc \notin {"auditing", "delivering"} PROVE Cardinality(Running') = inflight - 1
    <2>1. Running' = Running \ {p} BY <1>3 DEF Running
    <2> QED BY <1>1, <1>3, <2>1, FS_RemoveElement
<1>4. ASSUME p \in Running <=> pub'[p].pc \in {"auditing", "delivering"} PROVE Cardinality(Running') = inflight
    <2>1. Running' = Running BY <1>4 DEF Running
    <2> QED BY <1>1, <2>1
<1> QED BY <1>2, <1>3, <1>4

\* A step of one publish leaves the others' groups alone.
LEMMA OtherServing ==
    ASSUME NEW q \in Publishes, Serving(q), pub'[q] = pub[q], acked'[q] = acked[q],
           \A g : <<q, g>> \in deadLetters' <=> <<q, g>> \in deadLetters
    PROVE  Serving(q)'
BY DEF Serving, More

\* Keys are taken and seen as before.
LEMMA KeysKept ==
    ASSUME KeysTaken, seen' = seen,
           \A q \in Publishes : (Taken(q)' <=> Taken(q)) /\ (pub'[q].pc = "deduplicated" => pub[q].pc = "deduplicated")
    PROVE  KeysTaken'
BY DEF KeysTaken

\* A publish under way moves on, or ends and is counted down.
LEMMA ProgressKeeps ==
    ASSUME PersistentInv, NEW p \in Publishes, NEW x \in PubProgress, pub' = [pub EXCEPT ![p] = x],
           pub[p].pc \in {"auditing", "delivering"}, x.pc \in {"delivering", "published", "threw"},
           UNCHANGED <<seen, subscribed>>, acked' \in [Publishes -> SUBSET Groups],
           \A q \in Publishes \ {p} : acked'[q] = acked[q] /\ \A g : <<q, g>> \in deadLetters' <=> <<q, g>> \in deadLetters,
           inflight' = IF x.pc = "delivering" THEN inflight ELSE inflight - 1,
           Serving(p)'
    PROVE  PersistentInv'
<1> USE BusAssumption
<1>1. PersistentTypes /\ KeysTaken /\ inflight \in Nat /\ inflight <= MaxInflight BY DEF PersistentInv, PersistentTypes
<1>2. pub'[p] = x /\ \A q \in Publishes : q # p => pub'[q] = pub[q] BY <1>1 DEF PersistentTypes
<1>3. p \in Running BY DEF Running
<1>4. inflight' = Cardinality(Running')
    <2>1. CASE x.pc = "delivering" BY <1>2, <1>3, <2>1, RunningCounts
    <2>2. CASE x.pc # "delivering"
        <3>1. pub'[p].pc \notin {"auditing", "delivering"} BY <1>2, <2>2
        <3>2. Cardinality(Running') = inflight - 1 BY <1>2, <1>3, <3>1, RunningCounts
        <3> QED BY <2>2, <3>2
    <2> QED BY <2>1, <2>2
<1>5. inflight >= 1
    <2>1. Running \subseteq Publishes BY DEF Running
    <2>2. IsFiniteSet(Running) BY <2>1, FS_Subset
    <2>3. Cardinality(Running) # 0 BY <1>3, <2>2, FS_EmptySet
    <2>4. inflight # 0 BY <2>3 DEF PersistentInv
    <2> QED BY <1>1, <2>4
<1>6. inflight' \in Nat /\ inflight' <= MaxInflight
    <2>1. inflight' = inflight \/ inflight' = inflight - 1 OBVIOUS
    <2> QED BY <1>1, <1>5, <2>1
<1>7. PersistentTypes' BY <1>1, <1>6 DEF PersistentTypes
<1>8. \A q \in Publishes : Serving(q)'
    <2> TAKE q \in Publishes
    <2>1. CASE q = p BY <2>1
    <2>2. CASE q # p
        <3>1. Serving(q) /\ pub'[q] = pub[q] BY <1>2, <2>2 DEF PersistentInv
        <3> QED BY <2>2, <3>1, OtherServing
    <2> QED BY <2>1, <2>2
<1>9. KeysTaken' BY <1>1, <1>2, KeysKept DEF Taken
<1>10. NoRepeat(subscribed)' BY DEF PersistentInv
<1> QED BY <1>4, <1>6, <1>7, <1>8, <1>9, <1>10 DEF PersistentInv

\* A publish is answered at once, or taken: its key is marked before any await.
LEMMA BusPublishKeeps ==
    ASSUME PersistentInv, NEW p \in Publishes, BusPublish(p)
    PROVE  PersistentInv'
<1> USE BusAssumption
<1>1. PersistentTypes /\ KeysTaken /\ Serving(p) /\ inflight \in Nat BY DEF PersistentInv, PersistentTypes
<1>2. pub[p].pc = "idle" /\ UNCHANGED <<subscribed, deadLetters, acked>> BY DEF BusPublish
<1>3. ~Taken(p) /\ p \notin Running BY <1>2 DEF Taken, Running
<1>4. ASSUME NEW s \in {"deduplicated", "backpressure_rejected", "auditing"}, pub' = [pub EXCEPT ![p].pc = s]
      PROVE  /\ pub' \in [Publishes -> PubProgress] /\ pub'[p].pc = s
             /\ \A q \in Publishes : q # p => pub'[q] = pub[q]
             /\ \A q \in Publishes : Serving(q)'
    <2>1. /\ pub' \in [Publishes -> PubProgress] /\ \A q \in Publishes : q # p => pub'[q] = pub[q]
          /\ pub'[p].pc = s /\ pub'[p].copy = pub[p].copy /\ pub'[p].next = pub[p].next /\ pub'[p].attempt = pub[p].attempt
        BY <1>1, <1>4 DEF PersistentTypes, PubProgress, PubState
    <2>2. Serving(p)'
        <3>1. pub'[p].pc \notin {"delivering", "published"} BY <2>1
        <3> QED BY <1>1, <1>2, <2>1, <3>1 DEF Serving
    <2>3. \A q \in Publishes : q # p => Serving(q)' BY <1>2, <2>1, OtherServing DEF PersistentInv
    <2> QED BY <2>1, <2>2, <2>3
<1>5. CASE BusKeyOf[p] \in seen /\ Answer(p, "deduplicated") /\ UNCHANGED <<seen, inflight>>
    <2>1. /\ pub' \in [Publishes -> PubProgress] /\ pub'[p].pc = "deduplicated"
          /\ \A q \in Publishes : q # p => pub'[q] = pub[q]
          /\ \A q \in Publishes : Serving(q)'
        BY <1>4, <1>5 DEF Answer
    <2>2. Cardinality(Running') = inflight BY <1>3, <2>1, RunningCounts
    <2>3. \A q \in Publishes : Taken(q)' <=> Taken(q) BY <1>3, <2>1 DEF Taken
    <2>4. \E q \in Publishes \ {p} : BusKeyOf[q] = BusKeyOf[p] /\ Taken(q) BY <1>1, <1>3, <1>5 DEF KeysTaken
    <2>5. KeysTaken' BY <1>1, <1>5, <2>1, <2>3, <2>4 DEF KeysTaken
    <2> QED BY <1>1, <1>2, <1>5, <2>1, <2>2, <2>5 DEF PersistentInv, PersistentTypes
<1>6. CASE Answer(p, "backpressure_rejected") /\ UNCHANGED <<seen, inflight>>
    <2>1. /\ pub' \in [Publishes -> PubProgress] /\ pub'[p].pc = "backpressure_rejected"
          /\ \A q \in Publishes : q # p => pub'[q] = pub[q]
          /\ \A q \in Publishes : Serving(q)'
        BY <1>4, <1>6 DEF Answer
    <2>2. Cardinality(Running') = inflight BY <1>3, <2>1, RunningCounts
    <2>3. \A q \in Publishes : (Taken(q)' <=> Taken(q)) /\ (pub'[q].pc = "deduplicated" => pub[q].pc = "deduplicated")
        BY <1>3, <2>1 DEF Taken
    <2>4. KeysTaken' BY <1>1, <1>6, <2>3, KeysKept
    <2> QED BY <1>1, <1>2, <1>6, <2>1, <2>2, <2>4 DEF PersistentInv, PersistentTypes
<1>7. CASE /\ BusKeyOf[p] \notin seen /\ inflight < MaxInflight
           /\ seen' = seen \cup {BusKeyOf[p]} /\ inflight' = inflight + 1
           /\ pub' = [pub EXCEPT ![p].pc = "auditing"]
    <2>1. /\ pub' \in [Publishes -> PubProgress] /\ pub'[p].pc = "auditing"
          /\ \A q \in Publishes : q # p => pub'[q] = pub[q]
          /\ \A q \in Publishes : Serving(q)'
        BY <1>4, <1>7
    <2>2. Cardinality(Running') = inflight + 1 BY <1>3, <2>1, RunningCounts
    <2>3. Taken(p)' /\ \A q \in Publishes : q # p => (Taken(q)' <=> Taken(q)) BY <2>1 DEF Taken
    <2>4. \A q \in Publishes : Taken(q) => BusKeyOf[q] # BusKeyOf[p] BY <1>1, <1>7 DEF KeysTaken
    <2>5. KeysTaken'
        <3>1. \A k \in seen' : \E q \in Publishes : BusKeyOf[q] = k /\ Taken(q)'
            BY <1>1, <1>3, <1>7, <2>3 DEF KeysTaken
        <3>2. \A q \in Publishes : Taken(q)' => BusKeyOf[q] \in seen' BY <1>1, <1>7, <2>3 DEF KeysTaken
        <3>3. \A q, r \in Publishes : Taken(q)' /\ Taken(r)' /\ BusKeyOf[q] = BusKeyOf[r] => q = r
            BY <1>1, <2>3, <2>4 DEF KeysTaken
        <3>4. \A q \in Publishes : pub'[q].pc = "deduplicated"
                  => \E r \in Publishes \ {q} : BusKeyOf[r] = BusKeyOf[q] /\ Taken(r)'
            BY <1>1, <1>3, <2>1, <2>3 DEF KeysTaken
        <3> QED BY <3>1, <3>2, <3>3, <3>4 DEF KeysTaken
    <2>6. inflight' \in Nat /\ inflight' <= MaxInflight BY <1>1, <1>7
    <2> QED BY <1>1, <1>2, <1>7, <2>1, <2>2, <2>5, <2>6 DEF PersistentInv, PersistentTypes
<1> QED BY <1>5, <1>6, <1>7 DEF BusPublish

\* The hook answered: the registrations are copied, or the publish ends.
LEMMA PublishAuditedKeeps ==
    ASSUME PersistentInv, NEW p \in Publishes, NEW t \in BOOLEAN, PublishAudited(p, t)
    PROVE  PersistentInv'
<1> USE BusAssumption
<1>1. PersistentTypes /\ Serving(p) /\ NoRepeat(subscribed) BY DEF PersistentInv
<1>2. pub[p].pc = "auditing" /\ UNCHANGED <<seen, subscribed, deadLetters, acked>> BY DEF PublishAudited
<1>3. pub[p] \in PubProgress BY <1>1 DEF PersistentTypes
<1>4. CASE t
    <2> DEFINE x == [pub[p] EXCEPT !.pc = "threw"]
    <2>1. pub' = [pub EXCEPT ![p] = x] /\ inflight' = inflight - 1 BY <1>4 DEF PublishAudited, Throws, Answer
    <2>2. /\ x \in PubProgress /\ x.pc = "threw" /\ x.copy = pub[p].copy /\ x.next = pub[p].next
          /\ x.attempt = pub[p].attempt
        BY <1>3 DEF PubProgress, PubState
    <2> HIDE DEF x
    <2>3. pub'[p] = x BY <1>1, <2>1 DEF PersistentTypes
    <2>4. Serving(p)' BY <1>1, <2>2, <2>3 DEF Serving
    <2>5. acked' \in [Publishes -> SUBSET Groups] BY <1>1, <1>2 DEF PersistentTypes
    <2> QED BY <1>2, <2>1, <2>2, <2>4, <2>5, ProgressKeeps
<1>5. CASE ~t
    <2> DEFINE x == [pub[p] EXCEPT !.pc = "delivering", !.copy = subscribed]
    <2>1. pub' = [pub EXCEPT ![p] = x] /\ inflight' = inflight BY <1>5 DEF PublishAudited
    <2>2. /\ x \in PubProgress /\ x.pc = "delivering" /\ x.copy = subscribed /\ x.next = pub[p].next
          /\ x.attempt = pub[p].attempt
        BY <1>1, <1>3 DEF PubProgress, PubState, PersistentTypes
    <2> HIDE DEF x
    <2>3. pub'[p] = x BY <1>1, <2>1 DEF PersistentTypes
    <2>4. x.next = 1 /\ acked[p] = {} /\ \A g : <<p, g>> \notin deadLetters BY <1>1, <1>2, <2>2 DEF Serving
    <2>5. Len(subscribed) \in Nat BY <1>1, LenProperties DEF PersistentTypes
    <2>6. x.next \in 1..(Len(x.copy) + 1) /\ 1..(x.next - 1) = {} BY <2>2, <2>4, <2>5
    <2>7. Serving(p)' BY <1>1, <1>2, <2>2, <2>3, <2>4, <2>6 DEF Serving
    <2>8. acked' \in [Publishes -> SUBSET Groups] BY <1>1, <1>2 DEF PersistentTypes
    <2> QED BY <1>2, <2>1, <2>2, <2>7, <2>8, ProgressKeeps
<1> QED BY <1>4, <1>5

\* All groups are served: the publish is answered.
LEMMA PublishEndsKeeps ==
    ASSUME PersistentInv, NEW p \in Publishes, PublishEnds(p)
    PROVE  PersistentInv'
<1> USE BusAssumption
<1> DEFINE x == [pub[p] EXCEPT !.pc = "published"]
<1>1. PersistentTypes /\ Serving(p) BY DEF PersistentInv
<1>2. /\ pub[p].pc = "delivering" /\ ~More(pub[p]) /\ UNCHANGED <<seen, subscribed, deadLetters, acked>>
      /\ pub' = [pub EXCEPT ![p] = x] /\ inflight' = inflight - 1
    BY DEF PublishEnds, Answer
<1>3. /\ x \in PubProgress /\ x.pc = "published" /\ x.copy = pub[p].copy /\ x.next = pub[p].next
      /\ x.attempt = pub[p].attempt
    BY <1>1 DEF PersistentTypes, PubProgress, PubState
<1> HIDE DEF x
<1>4. pub'[p] = x BY <1>1, <1>2 DEF PersistentTypes
<1>5. Serving(p)'
    <2>1. /\ pub'[p].pc = "published" /\ pub'[p].copy = pub[p].copy /\ pub'[p].next = pub[p].next
          /\ pub'[p].attempt = pub[p].attempt /\ acked' = acked /\ deadLetters' = deadLetters
        BY <1>2, <1>3, <1>4
    <2>2. /\ NoRepeat(pub[p].copy) /\ pub[p].next \in 1..(Len(pub[p].copy) + 1) /\ pub[p].attempt <= RetryLimit
          /\ ~(pub[p].next <= Len(pub[p].copy))
          /\ \A i \in 1..(pub[p].next - 1) : pub[p].copy[i] \in acked[p] <=> <<p, pub[p].copy[i]>> \notin deadLetters
        BY <1>1, <1>2 DEF Serving, More
    <2>3. /\ NoRepeat(pub'[p].copy) /\ pub'[p].next \in 1..(Len(pub'[p].copy) + 1) /\ pub'[p].attempt <= RetryLimit
          /\ ~(pub'[p].next <= Len(pub'[p].copy))
          /\ \A i \in 1..(pub'[p].next - 1) : pub'[p].copy[i] \in acked'[p] <=> <<p, pub'[p].copy[i]>> \notin deadLetters'
        BY <2>1, <2>2
    <2>4. /\ pub'[p].pc \notin {"idle", "deduplicated", "backpressure_rejected", "auditing"}
          /\ pub'[p].pc # "delivering"
        BY <2>1
    <2> QED BY <2>3, <2>4 DEF Serving, More
<1>6. acked' \in [Publishes -> SUBSET Groups] BY <1>1, <1>2 DEF PersistentTypes
<1> QED BY <1>2, <1>3, <1>5, <1>6, ProgressKeeps

\* The group that is served settles, by an acknowledgement or a dead letter and not
\* both, and the publish goes on or ends by a throwing hook.
LEMMA SettleKeeps ==
    ASSUME PersistentInv, NEW p \in Publishes, NEW throws \in BOOLEAN, pub[p].pc = "delivering", More(pub[p]),
           IF throws THEN Throws(p) ELSE NextGroup(p) /\ UNCHANGED inflight,
           UNCHANGED <<seen, subscribed>>,
           \/ acked' = [acked EXCEPT ![p] = @ \cup {Current(pub[p])}] /\ UNCHANGED deadLetters
           \/ deadLetters' = deadLetters \cup {<<p, Current(pub[p])>>} /\ UNCHANGED acked
    PROVE  PersistentInv'
<1> USE BusAssumption
<1> DEFINE x == pub[p]
           c == Current(x)
           y == IF throws THEN [x EXCEPT !.pc = "threw"] ELSE [x EXCEPT !.next = @ + 1, !.attempt = 0]
<1>1. PersistentTypes /\ Serving(p) /\ x \in PubProgress BY DEF PersistentInv, PersistentTypes
<1>2. pub' = [pub EXCEPT ![p] = y] /\ inflight' = IF throws THEN inflight - 1 ELSE inflight
    BY DEF Throws, Answer, NextGroup
<1>3. /\ y \in PubProgress /\ y.copy = x.copy
      /\ throws => y.pc = "threw" /\ y.next = x.next /\ y.attempt = x.attempt
      /\ ~throws => y.pc = "delivering" /\ y.next = x.next + 1 /\ y.attempt = 0
    <2>1. x.next + 1 \in Nat BY <1>1 DEF PubProgress
    <2> HIDE DEF x
    <2>2. CASE throws BY <1>1, <2>2 DEF PubProgress, PubState
    <2>3. CASE ~throws BY <1>1, <2>1, <2>3 DEF PubProgress, PubState, x
    <2> QED BY <2>2, <2>3
<1> HIDE DEF y
<1>4. pub'[p] = y BY <1>1, <1>2 DEF PersistentTypes
<1>5. /\ x.copy \in Seq(Groups) /\ Len(x.copy) \in Nat /\ x.next \in Nat /\ x.next \in 1..Len(x.copy)
      /\ NoRepeat(x.copy) /\ x.attempt \in Nat
      /\ \A i \in 1..(x.next - 1) : x.copy[i] \in acked[p] <=> <<p, x.copy[i]>> \notin deadLetters
      /\ \A i \in x.next..Len(x.copy) : x.copy[i] \notin acked[p] /\ <<p, x.copy[i]>> \notin deadLetters
    <2>1. x.copy \in Seq(Groups) /\ x.next \in Nat /\ x.attempt \in Nat BY <1>1 DEF PubProgress
    <2>2. Len(x.copy) \in Nat BY <2>1, LenProperties
    <2>3. x.next <= Len(x.copy) /\ x.next \in 1..(Len(x.copy) + 1) BY <1>1 DEF More, Serving
    <2> QED BY <1>1, <2>1, <2>2, <2>3 DEF Serving
<1>6. c = x.copy[x.next] /\ c \in Groups BY <1>5, ElementOfSeq DEF Current
<1>7. acked' \in [Publishes -> SUBSET Groups] /\ \A q \in Publishes \ {p} : acked'[q] = acked[q]
    BY <1>1, <1>6 DEF PersistentTypes
<1>8. \A q \in Publishes \ {p} : \A g : <<q, g>> \in deadLetters' <=> <<q, g>> \in deadLetters OBVIOUS
<1>9. \A i \in 1..Len(x.copy) : i # x.next =>
          /\ x.copy[i] \in acked'[p] <=> x.copy[i] \in acked[p]
          /\ <<p, x.copy[i]>> \in deadLetters' <=> <<p, x.copy[i]>> \in deadLetters
    <2> TAKE i \in 1..Len(x.copy)
    <2> HAVE i # x.next
    <2>1. x.copy[i] # c BY <1>5, <1>6 DEF NoRepeat
    <2> HIDE DEF c
    <2>2. CASE acked' = [acked EXCEPT ![p] = @ \cup {c}] /\ UNCHANGED deadLetters BY <1>1, <2>1, <2>2 DEF PersistentTypes
    <2>3. CASE deadLetters' = deadLetters \cup {<<p, c>>} /\ UNCHANGED acked BY <2>1, <2>3
    <2> QED BY <2>2, <2>3 DEF c
<1>10. x.copy[x.next] \in acked'[p] <=> <<p, x.copy[x.next]>> \notin deadLetters'
    <2>1. c \notin acked[p] /\ <<p, c>> \notin deadLetters
        <3>1. x.next \in x.next..Len(x.copy) BY <1>5
        <3> QED BY <1>5, <1>6, <3>1
    <2> HIDE DEF c
    <2>2. CASE acked' = [acked EXCEPT ![p] = @ \cup {c}] /\ UNCHANGED deadLetters
        BY <1>1, <1>6, <2>1, <2>2 DEF PersistentTypes
    <2>3. CASE deadLetters' = deadLetters \cup {<<p, c>>} /\ UNCHANGED acked BY <1>6, <2>1, <2>3
    <2> QED BY <2>2, <2>3 DEF c
<1>11. Serving(p)'
    <2> HIDE DEF x, c
    <2>1. CASE throws
        <3>1. y.next \in 1..(Len(y.copy) + 1) BY <1>3, <1>5, <2>1
        <3>2. y.attempt <= RetryLimit /\ NoRepeat(y.copy) BY <1>1, <1>3, <1>5, <2>1 DEF Serving, x
        <3> QED BY <1>3, <1>4, <2>1, <3>1, <3>2 DEF Serving
    <2>2. CASE ~throws
        <3>1. y.next = x.next + 1 /\ y.next - 1 = x.next /\ y.next \in 1..(Len(y.copy) + 1) BY <1>3, <1>5, <2>2
        <3>2. \A i \in 1..x.next : x.copy[i] \in acked'[p] <=> <<p, x.copy[i]>> \notin deadLetters'
            <4> TAKE i \in 1..x.next
            <4>1. CASE i = x.next BY <1>10, <4>1
            <4>2. CASE i # x.next
                <5>1. i \in 1..(x.next - 1) /\ i \in 1..Len(x.copy) BY <1>5, <4>2
                <5> QED BY <1>5, <1>9, <4>2, <5>1
            <4> QED BY <4>1, <4>2
        <3>3. \A i \in y.next..Len(x.copy) : x.copy[i] \notin acked'[p] /\ <<p, x.copy[i]>> \notin deadLetters'
            <4> TAKE i \in y.next..Len(x.copy)
            <4>1. i \in x.next..Len(x.copy) /\ i \in 1..Len(x.copy) /\ i # x.next BY <1>5, <3>1
            <4> QED BY <1>5, <1>9, <4>1
        <3>4. y.attempt <= RetryLimit BY <1>3, <2>2
        <3>5. /\ pub'[p].pc = "delivering" /\ pub'[p].copy = x.copy /\ pub'[p].next = y.next /\ pub'[p].attempt = y.attempt
              /\ NoRepeat(x.copy)
            BY <1>3, <1>4, <1>5, <2>2
        <3>6. pub'[p].next \in 1..(Len(pub'[p].copy) + 1) BY <1>3, <3>1, <3>5
        <3>7. \A i \in 1..(pub'[p].next - 1) : pub'[p].copy[i] \in acked'[p] <=> <<p, pub'[p].copy[i]>> \notin deadLetters'
            BY <3>1, <3>2, <3>5
        <3>8. \A i \in pub'[p].next..Len(pub'[p].copy) :
                  pub'[p].copy[i] \notin acked'[p] /\ <<p, pub'[p].copy[i]>> \notin deadLetters'
            BY <3>3, <3>5
        <3>9. NoRepeat(pub'[p].copy) /\ pub'[p].attempt <= RetryLimit BY <3>4, <3>5
        <3>10. /\ pub'[p].pc \notin {"idle", "deduplicated", "backpressure_rejected", "auditing"}
               /\ pub'[p].pc # "published"
            BY <3>5
        <3> QED BY <3>6, <3>7, <3>8, <3>9, <3>10 DEF Serving
    <2> QED BY <2>1, <2>2
<1>12. y.pc \in {"delivering", "published", "threw"} /\ inflight' = IF y.pc = "delivering" THEN inflight ELSE inflight - 1
    BY <1>2, <1>3
<1> QED BY <1>2, <1>3, <1>7, <1>8, <1>11, <1>12, ProgressKeeps

\* One answer of the consumer being served.
LEMMA ConsumerAnswersKeeps ==
    ASSUME PersistentInv, NEW p \in Publishes, NEW result, NEW throws \in BOOLEAN, ConsumerAnswers(p, result, throws)
    PROVE  PersistentInv'
<1> USE BusAssumption
<1>1. pub[p].pc = "delivering" /\ More(pub[p]) /\ UNCHANGED <<seen, subscribed>> BY DEF ConsumerAnswers
<1>2. CASE /\ acked' = [acked EXCEPT ![p] = @ \cup {Current(pub[p])}]
           /\ IF throws THEN Throws(p) ELSE NextGroup(p) /\ UNCHANGED inflight
           /\ UNCHANGED deadLetters
    BY <1>1, <1>2, SettleKeeps
<1>3. CASE DeadLetterOrThrow(p, throws) /\ UNCHANGED acked BY <1>1, <1>3, SettleKeeps DEF DeadLetterOrThrow
<1>4. CASE /\ RetriesLeft(p) /\ pub' = [pub EXCEPT ![p].attempt = @ + 1]
           /\ UNCHANGED <<inflight, deadLetters, acked>>
    <2> DEFINE x == [pub[p] EXCEPT !.attempt = pub[p].attempt + 1]
    <2>1. PersistentTypes /\ Serving(p) /\ pub[p] \in PubProgress BY DEF PersistentInv, PersistentTypes
    <2>2. pub' = [pub EXCEPT ![p] = x] BY <1>4, <2>1
    <2>3. pub[p].attempt \in Nat /\ pub[p].attempt + 1 \in Nat /\ pub[p].attempt + 1 <= RetryLimit
        <3>1. pub[p].attempt \in Nat BY <2>1 DEF PubProgress
        <3>2. pub[p].attempt < RetryLimit BY <1>4 DEF RetriesLeft
        <3> QED BY <3>1, <3>2
    <2>4. /\ x \in PubProgress /\ x.pc = pub[p].pc /\ x.copy = pub[p].copy /\ x.next = pub[p].next
          /\ x.attempt = pub[p].attempt + 1
        BY <2>1, <2>3 DEF PubProgress
    <2> HIDE DEF x
    <2>5. pub'[p] = x BY <2>1, <2>2 DEF PersistentTypes
    <2>6. Serving(p)' BY <1>1, <1>4, <2>1, <2>3, <2>4, <2>5 DEF Serving, More
    <2>7. acked' \in [Publishes -> SUBSET Groups] BY <1>4, <2>1 DEF PersistentTypes
    <2> QED BY <1>1, <1>4, <2>2, <2>4, <2>6, <2>7, ProgressKeeps
<1> QED BY <1>2, <1>3, <1>4 DEF ConsumerAnswers

\* A group is subscribed once: appending a new one, or splicing one out, repeats none.
LEMMA SubscribeKeeps ==
    ASSUME PersistentInv, NEW g \in Groups, BusSubscribe(g)
    PROVE  subscribed' \in Seq(Groups) /\ NoRepeat(subscribed')
<1> DEFINE n == Len(subscribed)
<1>1. subscribed \in Seq(Groups) /\ NoRepeat(subscribed) BY DEF PersistentInv, PersistentTypes
<1>2. n \in Nat /\ DOMAIN subscribed = 1..n BY <1>1, LenProperties
<1>3. subscribed' = Append(subscribed, g) /\ \A i \in 1..n : subscribed[i] # g BY <1>2 DEF BusSubscribe
<1>4. /\ subscribed' \in Seq(Groups) /\ Len(subscribed') = n + 1 /\ subscribed'[n + 1] = g
      /\ \A i \in 1..n : subscribed'[i] = subscribed[i]
    BY <1>1, <1>3, AppendProperties
<1>5. \A i \in 1..(n + 1) : i \in 1..n \/ i = n + 1 BY <1>2
<1> HIDE DEF n
<1>6. \A i, j \in 1..(n + 1) : subscribed'[i] = subscribed'[j] => i = j
    BY <1>1, <1>3, <1>4, <1>5 DEF NoRepeat, n
<1> QED BY <1>4, <1>6 DEF NoRepeat

LEMMA UnsubscribeKeeps ==
    ASSUME PersistentInv, NEW g \in Groups, BusUnsubscribe(g)
    PROVE  subscribed' \in Seq(Groups) /\ NoRepeat(subscribed')
<1> DEFINE n == Len(subscribed)
<1>1. subscribed \in Seq(Groups) /\ NoRepeat(subscribed) BY DEF PersistentInv, PersistentTypes
<1>2. n \in Nat /\ DOMAIN subscribed = 1..n BY <1>1, LenProperties
<1>3. PICK k \in 1..n : subscribed' = SubSeq(subscribed, 1, k - 1) \o SubSeq(subscribed, k + 1, n)
    BY <1>2 DEF BusUnsubscribe
<1> DEFINE a == SubSeq(subscribed, 1, k - 1)
           b == SubSeq(subscribed, k + 1, n)
<1>4. /\ a \in Seq(Groups) /\ Len(a) = k - 1 /\ \A i \in 1..(k - 1) : a[i] = subscribed[i]
    <2>1. \A i \in 1..(k - 1) : subscribed[i] \in Groups
        <3> TAKE i \in 1..(k - 1)
        <3>1. i \in 1..n BY <1>2
        <3> QED BY <1>1, <3>1, ElementOfSeq
    <2>2. 1 \in Int /\ k - 1 \in Int /\ 1 <= k /\ (k - 1) - 1 + 1 = k - 1 BY <1>2
    <2> QED BY <1>1, <1>2, <2>1, <2>2, SubSeqProperties
<1>5. /\ b \in Seq(Groups) /\ Len(b) = n - k /\ \A i \in 1..(n - k) : b[i] = subscribed[k + i]
    <2>1. \A i \in (k + 1)..n : subscribed[i] \in Groups
        <3> TAKE i \in (k + 1)..n
        <3>1. i \in 1..n BY <1>2
        <3> QED BY <1>1, <3>1, ElementOfSeq
    <2>2. k + 1 \in Int /\ n \in Int /\ n - (k + 1) + 1 = n - k /\ (~(k + 1 <= n) => n - k = 0)
        <3>1. n \in Nat /\ k \in 1..n BY <1>2
        <3> HIDE DEF n
        <3> QED BY <3>1
    <2>3. /\ b \in Seq(Groups) /\ Len(b) = IF k + 1 <= n THEN n - (k + 1) + 1 ELSE 0
          /\ \A i \in 1..(n - (k + 1) + 1) : b[i] = subscribed[(k + 1) + i - 1]
        <3> HIDE DEF n
        <3> QED BY <2>1, <2>2, SubSeqProperties
    <2>4. \A i \in 1..(n - k) : (k + 1) + i - 1 = k + i BY <1>2
    <2> HIDE DEF b, n
    <2> QED BY <2>2, <2>3, <2>4
<1>6. subscribed' = a \o b BY <1>3
<1> HIDE DEF a, b
<1>7. /\ subscribed' \in Seq(Groups) /\ Len(subscribed') = n - 1
      /\ \A i \in 1..(k - 1) : subscribed'[i] = subscribed[i]
      /\ \A i \in k..(n - 1) : subscribed'[i] = subscribed[i + 1]
    <2>1. /\ a \o b \in Seq(Groups) /\ Len(a \o b) = Len(a) + Len(b)
          /\ \A i \in 1..(Len(a) + Len(b)) : (a \o b)[i] = IF i <= Len(a) THEN a[i] ELSE b[i - Len(a)]
        <3>1. a \in Seq(Groups) /\ b \in Seq(Groups) BY <1>4, <1>5
        <3> QED BY <3>1, ConcatProperties, Zenon
    <2>2. Len(a) + Len(b) = n - 1 BY <1>2, <1>4, <1>5
    <2>3. \A i \in 1..(k - 1) : i \in 1..(n - 1) /\ i <= k - 1 BY <1>2
    <2>4. \A i \in k..(n - 1) : i \in 1..(n - 1) /\ ~(i <= k - 1) /\ i - (k - 1) \in 1..(n - k) /\ k + (i - (k - 1)) = i + 1
        BY <1>2
    <2>5. \A i \in k..(n - 1) : b[i - (k - 1)] = subscribed[i + 1] BY <1>5, <2>4
    <2> HIDE DEF n
    <2> QED BY <1>4, <1>6, <2>1, <2>2, <2>3, <2>4, <2>5
<1>8. \A i \in 1..(n - 1) : i \in 1..(k - 1) \/ i \in k..(n - 1) BY <1>2
<1>9. \A i \in 1..(k - 1) : i \in 1..n BY <1>2
<1>10. \A i \in k..(n - 1) : i + 1 \in 1..n BY <1>2
<1>11. \A i \in 1..(k - 1), j \in k..(n - 1) : i # j + 1 BY <1>2
<1>12. \A i, j \in k..(n - 1) : i + 1 = j + 1 => i = j BY <1>2
<1>13. \A i, j \in 1..n : subscribed[i] = subscribed[j] => i = j BY <1>1 DEF NoRepeat
<1> HIDE DEF n
<1>14. \A i, j \in 1..(n - 1) : subscribed'[i] = subscribed'[j] => i = j
    <2> TAKE i, j \in 1..(n - 1)
    <2> HAVE subscribed'[i] = subscribed'[j]
    <2>1. CASE i \in 1..(k - 1) /\ j \in 1..(k - 1) BY <1>7, <1>9, <1>13, <2>1
    <2>2. CASE i \in 1..(k - 1) /\ j \in k..(n - 1) BY <1>7, <1>9, <1>10, <1>11, <1>13, <2>2
    <2>3. CASE i \in k..(n - 1) /\ j \in 1..(k - 1) BY <1>7, <1>9, <1>10, <1>11, <1>13, <2>3
    <2>4. CASE i \in k..(n - 1) /\ j \in k..(n - 1) BY <1>7, <1>10, <1>12, <1>13, <2>4
    <2> QED BY <1>8, <2>1, <2>2, <2>3, <2>4
<1> QED BY <1>7, <1>14 DEF NoRepeat

\* Only the subscriptions changed.
LEMMA SubscribedKeeps ==
    ASSUME PersistentInv, UNCHANGED <<pub, seen, inflight, deadLetters, acked>>,
           subscribed' \in Seq(Groups), NoRepeat(subscribed')
    PROVE  PersistentInv'
<1>1. PersistentTypes' BY DEF PersistentInv, PersistentTypes
<1>2. Running' = Running BY DEF Running
<1>3. \A p \in Publishes : Serving(p)' BY OtherServing DEF PersistentInv
<1>4. KeysTaken' BY KeysKept DEF PersistentInv, Taken
<1> QED BY <1>1, <1>2, <1>3, <1>4 DEF PersistentInv

LEMMA PersistentStep ==
    ASSUME PersistentInv, PersistentNext
    PROVE  PersistentInv'
<1>1. ASSUME NEW p \in Publishes, BusPublish(p) \/ PublishEnds(p) PROVE PersistentInv'
    BY <1>1, BusPublishKeeps, PublishEndsKeeps
<1>2. ASSUME NEW p \in Publishes, NEW t \in BOOLEAN, PublishAudited(p, t) PROVE PersistentInv'
    BY <1>2, PublishAuditedKeeps
<1>3. ASSUME NEW p \in Publishes, NEW t \in BOOLEAN, NEW r, ConsumerAnswers(p, r, t) PROVE PersistentInv'
    BY <1>3, ConsumerAnswersKeeps
<1>4. ASSUME NEW g \in Groups, BusSubscribe(g) PROVE PersistentInv'
    BY <1>4, SubscribeKeeps, SubscribedKeeps DEF BusSubscribe
<1>5. ASSUME NEW g \in Groups, BusUnsubscribe(g) PROVE PersistentInv'
    BY <1>5, UnsubscribeKeeps, SubscribedKeeps DEF BusUnsubscribe
<1> QED BY <1>1, <1>2, <1>3, <1>4, <1>5 DEF PersistentNext

LEMMA PersistentInitInv == BusInit => PersistentInv
<1> SUFFICES ASSUME BusInit PROVE PersistentInv OBVIOUS
<1> USE BusAssumption
<1> DEFINE none == <<>>
<1>1. none \in Seq(Groups) /\ Len(none) = 0 /\ NoRepeat(none) BY DEF NoRepeat
<1>2. /\ pub = [p \in Publishes |-> Idle] /\ seen = {} /\ inflight = 0 /\ subscribed = none /\ deadLetters = {}
      /\ acked = [p \in Publishes |-> {}] /\ Idle.pc = "idle" /\ Idle.copy = none /\ Idle.next = 1 /\ Idle.attempt = 0
    BY DEF BusInit, Idle
<1>3. Idle \in PubProgress BY <1>1 DEF Idle, PubProgress, PubState
<1> HIDE DEF none
<1>4. PersistentTypes BY <1>1, <1>2, <1>3 DEF PersistentTypes
<1>5. Cardinality(Running) = 0
    <2>1. Running = {} BY <1>2 DEF Running
    <2> QED BY <2>1, FS_EmptySet
<1>6. \A p \in Publishes : Serving(p)
    <2> TAKE p \in Publishes
    <2>1. pub[p].pc = "idle" /\ pub[p].copy = none /\ pub[p].next = 1 /\ pub[p].attempt = 0 /\ acked[p] = {} BY <1>2
    <2> QED BY <1>1, <1>2, <2>1 DEF Serving
<1>7. KeysTaken BY <1>2 DEF KeysTaken, Taken
<1> QED BY <1>1, <1>2, <1>4, <1>5, <1>6, <1>7 DEF PersistentInv

\* The persistent bus's promises.
LEMMA PersistentInvSafe ==
    ASSUME PersistentInv
    PROVE  InflightExact /\ PublishedSettled /\ KeyDeliveredOnce
<1>1. KeysTaken /\ \A p \in Publishes : Serving(p) BY DEF PersistentInv
<1>2. InflightExact BY <1>1 DEF PersistentInv, InflightExact, Serving
<1>3. PublishedSettled BY <1>1 DEF PublishedSettled, KeysTaken, Taken, Serving
<1>4. \A p \in Publishes : ~Taken(p) => acked[p] = {}
    BY <1>1 DEF PersistentInv, PersistentTypes, PubProgress, PubState, Taken, Serving
<1>5. KeyDeliveredOnce BY <1>1, <1>4 DEF KeyDeliveredOnce, KeysTaken
<1> QED BY <1>2, <1>3, <1>5

\* Each bus leaves the other alone.
LEMMA BusStep ==
    ASSUME PersistentInv, KernelBusInv, [PersistentNext \/ KernelBusNext]_busVars
    PROVE  PersistentInv' /\ KernelBusInv'
<1>1. ASSUME UNCHANGED persistentVars PROVE PersistentInv'
    <2>1. UNCHANGED <<pub, seen, inflight, subscribed, deadLetters, acked>> BY <1>1 DEF persistentVars
    <2> QED BY <2>1, SubscribedKeeps DEF PersistentInv, PersistentTypes
<1>2. ASSUME UNCHANGED <<registered, kpub, callLog, nextReg>> PROVE KernelBusInv'
    BY <1>2 DEF KernelBusInv, KernelBusTypes, DistinctRegs, CopyServed, Called, LogEntry, LogOrdered
<1>3. CASE PersistentNext
    <2>1. UNCHANGED <<registered, kpub, callLog, nextReg>>
        BY <1>3 DEF PersistentNext, BusPublish, PublishEnds, PublishAudited, ConsumerAnswers, BusSubscribe,
                    BusUnsubscribe, kernelBusVars
    <2> QED BY <1>2, <1>3, <2>1, PersistentStep
<1>4. CASE KernelBusNext
    <2>1. UNCHANGED persistentVars
        BY <1>4 DEF KernelBusNext, KernelPublish, KernelPublishEnds, CallHandler, KernelUnsubscribe, KernelSubscribe
    <2> QED BY <1>1, <1>4, <2>1, KernelBusStep
<1>5. CASE UNCHANGED busVars BY <1>1, <1>2, <1>5 DEF busVars, kernelBusVars
<1> QED BY <1>3, <1>4, <1>5

\* Both buses are safe for any publishes, keys, groups, handlers and limits: the
\* in-flight counter is exact, a key reaches the consumers once, a published event is
\* settled with every group it was copied for, and the kernel's handlers are called by
\* priority, a once-handler again only by a publish that overlapped its call.
THEOREM BusesSafety == BusSpec => []BusesSafe
<1>1. BusSpec => [](PersistentInv /\ KernelBusInv)
    <2>1. BusInit => PersistentInv /\ KernelBusInv BY PersistentInitInv, KernelBusInitInv
    <2>2. PersistentInv /\ KernelBusInv /\ [PersistentNext \/ KernelBusNext]_busVars
              => (PersistentInv /\ KernelBusInv)'
        BY BusStep
    <2> QED BY <2>1, <2>2, PTL DEF BusSpec
<1>2. PersistentInv /\ KernelBusInv => BusesSafe BY PersistentInvSafe, KernelBusInvSafe DEF BusesSafe
<1> QED BY <1>1, <1>2, PTL

-----------------------------------------------------------------------------
(* ServiceLumi: the work orders and their ledger *)

Shops == [orders : [Orders -> WorkOrders \cup {None}],
          ledger : [Tenants -> [Orders -> OrderEntries \cup {None}]]]

Consented == {"APPROVED", "IN_REPAIR", "WAITING_PARTS", "TESTING", "READY_FOR_PICKUP", "DELIVERED"}

\* What each order needs of its own past; beyond the properties, a quote that waits for
\* approval is there.
OrderSound(order) ==
    /\ order.state = "QUOTE_PENDING_APPROVAL" => order.quote
    /\ order.parts \/ order.state \in Consented => order.quote /\ order.approval
    /\ order.warranty => order.state = "DELIVERED" /\ Checklist[order.module] \subseteq order.qc

EntryOf(order) == [state |-> order.state, tech |-> order.tech]

GoodOrder(sh, o) ==
    sh.orders[o] # None => /\ OrderSound(sh.orders[o])
                           /\ devices[sh.orders[o].dev] # None
                           /\ sh.ledger[sh.orders[o].scope][o] = EntryOf(sh.orders[o])

GoodShop(sh) == sh \in Shops /\ \A o \in Orders : GoodOrder(sh, o)

\* What a step from sh to n may do to an order: its id stays with its shop, and a new
\* technician is of that shop and cleared.
OrderFollows(sh, n, o) ==
    /\ sh.orders[o] # None => n.orders[o] # None /\ n.orders[o].scope = sh.orders[o].scope
    /\ \A k \in Technicians :
          n.orders[o] # None /\ n.orders[o].tech = k /\ (sh.orders[o] # None => sh.orders[o].tech # k)
             => technicians[k] = n.orders[o].scope /\ HazardCleared(n, o, k)

Follows(sh, n) == \A o \in Orders : OrderFollows(sh, n, o)

\* A transition besides leaves the technician and the device alone.
SameHands(sh, n) ==
    \A o \in Orders :
        /\ sh.orders[o] # None <=> n.orders[o] # None
        /\ sh.orders[o] # None => /\ n.orders[o].scope = sh.orders[o].scope
                                  /\ n.orders[o].tech = sh.orders[o].tech

LEMMA SameHandsFollow ==
    ASSUME NEW sh, NEW n, SameHands(sh, n)
    PROVE  Follows(sh, n)
  BY DEF SameHands, Follows, OrderFollows

LEMMA SameHandsCompose ==
    ASSUME NEW sh, NEW n, NEW m, SameHands(sh, n), SameHands(n, m)
    PROVE  SameHands(sh, m)
  BY DEF SameHands

\* put: what the store and the ledger hold after an accepted write.
LEMMA PutWrites ==
    ASSUME NEW sh \in Shops, NEW t \in Tenants, NEW o \in Orders, NEW order \in WorkOrders,
           CanPut(t, order.scope, OwnerOf(sh, o))
    PROVE  /\ PutOrder(sh, t, o, order) \in Shops
           /\ PutOrder(sh, t, o, order).orders = [sh.orders EXCEPT ![o] = order]
           /\ PutOrder(sh, t, o, order).ledger = [sh.ledger EXCEPT ![t] = [sh.ledger[t] EXCEPT ![o] = EntryOf(order)]]
<1> DEFINE n == [sh EXCEPT !.orders[o] = order, !.ledger[t][o] = EntryOf(order)]
<1>1. PutOrder(sh, t, o, order) = n
    BY DEF PutOrder, EntryOf
<1>2. EntryOf(order) \in OrderEntries
    BY DEF EntryOf, OrderEntries, WorkOrders
<1>3. /\ n.orders = [sh.orders EXCEPT ![o] = order]
      /\ n.ledger = [sh.ledger EXCEPT ![t] = [sh.ledger[t] EXCEPT ![o] = EntryOf(order)]]
    BY DEF Shops
<1>4. n.orders \in [Orders -> WorkOrders \cup {None}]
    BY <1>3 DEF Shops
<1>5. n.ledger \in [Tenants -> [Orders -> OrderEntries \cup {None}]]
    <2>1. sh.ledger \in [Tenants -> [Orders -> OrderEntries \cup {None}]] BY DEF Shops
    <2>2. [sh.ledger[t] EXCEPT ![o] = EntryOf(order)] \in [Orders -> OrderEntries \cup {None}] BY <1>2, <2>1
    <2> QED BY <1>3, <2>1, <2>2
<1>6. n \in Shops
    <2> DEFINE A == [sh.orders EXCEPT ![o] = order]
               B == [sh.ledger EXCEPT ![t] = [sh.ledger[t] EXCEPT ![o] = EntryOf(order)]]
    <2>1. n = [sh EXCEPT !.orders = A, !.ledger = B] OBVIOUS
    <2>2. A = n.orders /\ B = n.ledger BY <1>3
    <2> HIDE DEF A, B, n
    <2> QED BY <1>4, <1>5, <2>1, <2>2 DEF Shops
<1> QED BY <1>1, <1>3, <1>6

\* A write of a sound order keeps the books; ids stay with their shop.
LEMMA PutKeeps ==
    ASSUME NEW sh, GoodShop(sh), NEW t \in Tenants, NEW o \in Orders, NEW order \in WorkOrders,
           order.scope = t, OrderSound(order), devices[order.dev] # None
    PROVE  /\ GoodShop(PutOrder(sh, t, o, order))
           /\ \/ PutOrder(sh, t, o, order) = sh
              \/ /\ PutOrder(sh, t, o, order).orders[o] = order
                 /\ sh.orders[o] # None => sh.orders[o].scope = t
                 /\ \A x \in Orders \ {o} : PutOrder(sh, t, o, order).orders[x] = sh.orders[x]
<1> DEFINE n == PutOrder(sh, t, o, order)
<1>1. CASE ~CanPut(t, order.scope, OwnerOf(sh, o)) BY <1>1 DEF PutOrder
<1>2. CASE CanPut(t, order.scope, OwnerOf(sh, o))
    <2>1. sh \in Shops BY DEF GoodShop
    <2>2. /\ n \in Shops /\ n.orders = [sh.orders EXCEPT ![o] = order]
          /\ n.ledger = [sh.ledger EXCEPT ![t] = [sh.ledger[t] EXCEPT ![o] = EntryOf(order)]]
        BY <1>2, <2>1, PutWrites
    <2> HIDE DEF n
    <2>3. /\ sh.orders \in [Orders -> WorkOrders \cup {None}]
          /\ sh.ledger \in [Tenants -> [Orders -> OrderEntries \cup {None}]]
        BY <2>1 DEF Shops
    <2>4. n.orders[o] = order /\ n.ledger[t][o] = EntryOf(order) BY <2>2, <2>3
    <2>5. ASSUME NEW x \in Orders, x # o, NEW u \in Tenants
          PROVE  n.orders[x] = sh.orders[x] /\ n.ledger[u][x] = sh.ledger[u][x]
        <3>1. sh.ledger[t] \in [Orders -> OrderEntries \cup {None}] BY <2>3
        <3>2. u = t \/ n.ledger[u] = sh.ledger[u] BY <2>2, <2>3
        <3>3. n.ledger[t][x] = sh.ledger[t][x] BY <2>2, <2>3, <2>5, <3>1
        <3> QED BY <2>2, <2>3, <2>5, <3>2, <3>3
    <2>6. ASSUME NEW x \in Orders PROVE GoodOrder(n, x)
        <3>1. CASE x = o BY <2>4, <3>1 DEF GoodOrder
        <3>2. CASE x # o
            <4>1. n.orders[x] = sh.orders[x] BY <2>5, <3>2
            <4>2. CASE n.orders[x] = None BY <4>2 DEF GoodOrder
            <4>3. CASE n.orders[x] # None
                <5>1. sh.orders[x].scope \in Tenants BY <2>3, <4>1, <4>3 DEF WorkOrders
                <5>2. n.ledger[sh.orders[x].scope][x] = sh.ledger[sh.orders[x].scope][x] BY <2>5, <3>2, <5>1
                <5> QED BY <4>1, <5>2 DEF GoodShop, GoodOrder
            <4> QED BY <4>2, <4>3
        <3> QED BY <3>1, <3>2
    <2>7. sh.orders[o] # None => sh.orders[o].scope = t
        <3>1. sh.orders[o] # None => sh.orders[o].scope \in Tenants BY <2>3 DEF WorkOrders
        <3> QED BY <1>2, <3>1, ShopCoreAssumption DEF CanPut, OwnerOf, SameScope
    <2> QED BY <2>2, <2>4, <2>5, <2>6, <2>7 DEF GoodShop, n
<1> QED BY <1>1, <1>2

\* A write that assigns nobody new.
LEMMA PutSameHands ==
    ASSUME NEW sh, GoodShop(sh), NEW t \in Tenants, NEW o \in Orders, NEW order \in WorkOrders,
           order.scope = t, OrderSound(order), devices[order.dev] # None,
           sh.orders[o] # None, order.tech = sh.orders[o].tech
    PROVE  GoodShop(PutOrder(sh, t, o, order)) /\ SameHands(sh, PutOrder(sh, t, o, order))
<1> DEFINE n == PutOrder(sh, t, o, order)
<1>1. /\ GoodShop(n)
      /\ \/ n = sh
         \/ /\ n.orders[o] = order
            /\ sh.orders[o] # None => sh.orders[o].scope = t
            /\ \A x \in Orders \ {o} : n.orders[x] = sh.orders[x]
    BY PutKeeps
<1>2. order # None BY ShopCoreAssumption
<1> HIDE DEF n
<1>3. SameHands(sh, n) BY <1>1, <1>2 DEF SameHands
<1> QED BY <1>1, <1>3 DEF n

Requests == [to : States, quote : {"absent", "valid", "invalid"}, approval : BOOLEAN, faults : {"known", "unknown"}]

LEMMA RequestTyped == ASSUME NEW to \in States PROVE Request(to) \in Requests
  BY DEF Request, Requests

LEMMA ButtonsTyped == ButtonRequests \subseteq Requests
<1>1. \A to \in {"IN_REPAIR", "WAITING_PARTS", "TESTING", "READY_FOR_PICKUP", "CANCELLED"} : Request(to) \in Requests
    BY RequestTyped DEF States
<1>2. \A f \in {"known", "unknown"} : [Request("DIAGNOSING") EXCEPT !.faults = f] \in Requests
    BY DEF Request, Requests, States
<1>3. \A q \in {"valid", "invalid"} : [Request("QUOTE_PENDING_APPROVAL") EXCEPT !.quote = q] \in Requests
    BY DEF Request, Requests, States
<1>4. \A a \in BOOLEAN : [Request("APPROVED") EXCEPT !.approval = a] \in Requests
    BY DEF Request, Requests, States
<1> QED BY <1>1, <1>2, <1>3, <1>4 DEF ButtonRequests

\* LEGAL_TRANSITIONS: repair states are entered from repair states, but for APPROVED.
LEMMA LegalMoves ==
    ASSUME NEW from \in States, NEW to \in LegalTransitions[from]
    PROVE  /\ to \in States /\ from # "DELIVERED"
           /\ to = "APPROVED" => from = "QUOTE_PENDING_APPROVAL"
           /\ to \in Consented /\ to # "APPROVED" => from \in Consented
  BY DEF LegalTransitions, States, Consented

LEMMA SeenOrder ==
    ASSUME NEW sh, GoodShop(sh), NEW t, NEW o \in Orders, Visible(sh, t, o)
    PROVE  /\ sh.orders[o] # None /\ sh.orders[o] \in WorkOrders /\ sh.orders[o].scope = t /\ t \in Tenants
           /\ OrderSound(sh.orders[o]) /\ devices[sh.orders[o].dev] # None
<1>1. sh.orders[o] # None /\ sh.orders[o].scope = t
    BY DEF Visible, SameScope
<1>2. sh.orders[o] \in WorkOrders
    BY <1>1 DEF GoodShop, Shops
<1>3. t \in Tenants
    BY <1>1, <1>2 DEF WorkOrders
<1> QED BY <1>1, <1>2, <1>3 DEF GoodShop, GoodOrder

LEMMA TransitionedSound ==
    ASSUME NEW order \in WorkOrders, OrderSound(order), NEW req \in Requests, TransitionApplies(order, req)
    PROVE  /\ Transitioned(order, req) \in WorkOrders /\ OrderSound(Transitioned(order, req))
           /\ Transitioned(order, req).scope = order.scope /\ Transitioned(order, req).dev = order.dev
           /\ Transitioned(order, req).tech = order.tech /\ Transitioned(order, req).state = req.to
           /\ Transitioned(order, req).module = order.module /\ Transitioned(order, req).qc = order.qc
           /\ Transitioned(order, req).quote = (order.quote \/ req.quote = "valid")
           /\ Transitioned(order, req).approval = (order.approval \/ req.approval)
           /\ Transitioned(order, req).parts = order.parts /\ ~Transitioned(order, req).warranty
<1> DEFINE n == Transitioned(order, req)
<1>1. order.state \in States /\ order.quote \in BOOLEAN /\ order.approval \in BOOLEAN /\ req.approval \in BOOLEAN
    BY DEF WorkOrders, Requests
<1>2. req.to \in LegalTransitions[order.state]
    BY DEF TransitionApplies
<1>3. /\ req.to \in States /\ order.state # "DELIVERED"
      /\ req.to = "APPROVED" => order.state = "QUOTE_PENDING_APPROVAL"
      /\ req.to \in Consented /\ req.to # "APPROVED" => order.state \in Consented
    BY <1>1, <1>2, LegalMoves
<1>4. /\ n.scope = order.scope /\ n.dev = order.dev /\ n.tech = order.tech /\ n.state = req.to
      /\ n.module = order.module /\ n.qc = order.qc /\ n.parts = order.parts /\ n.warranty = order.warranty
    BY DEF Transitioned, WorkOrders
<1>5. n.quote = (order.quote \/ req.quote = "valid") /\ n.approval = (order.approval \/ req.approval)
    BY DEF Transitioned, WorkOrders
<1>6. n \in WorkOrders
    <2>1. (order.quote \/ req.quote = "valid") \in BOOLEAN /\ (order.approval \/ req.approval) \in BOOLEAN
        OBVIOUS
    <2> QED BY <1>3, <2>1 DEF Transitioned, WorkOrders
<1>7. ~order.warranty
    BY <1>3 DEF OrderSound
<1>8. order.parts \in BOOLEAN /\ order.warranty \in BOOLEAN
    BY DEF WorkOrders
<1> HIDE DEF n
<1>9. n.state = "QUOTE_PENDING_APPROVAL" => n.quote
    BY <1>1, <1>4, <1>5 DEF TransitionApplies, Requests
<1>10. n.parts \/ n.state \in Consented => n.quote /\ n.approval
    <2>1. CASE order.parts BY <2>1, <1>5 DEF OrderSound
    <2>2. CASE n.state = "APPROVED"
        <3>1. order.quote BY <1>3, <1>4, <2>2 DEF OrderSound
        <3>2. req.approval \/ order.approval BY <1>4, <2>2 DEF TransitionApplies
        <3> QED BY <1>5, <3>1, <3>2
    <2>3. CASE n.state \in Consented /\ n.state # "APPROVED"
        <3>1. order.quote /\ order.approval BY <1>3, <1>4, <2>3 DEF OrderSound
        <3> QED BY <1>5, <3>1
    <2> QED BY <1>4, <2>1, <2>2, <2>3
<1>11. OrderSound(n)
    BY <1>4, <1>7, <1>9, <1>10 DEF OrderSound
<1> QED BY <1>4, <1>5, <1>6, <1>7, <1>11 DEF n

\* applyWorkOrderTransition keeps the books and everybody's hands off the job.
LEMMA TransitionKeeps ==
    ASSUME NEW sh, GoodShop(sh), NEW t \in Tenants, NEW o \in Orders, NEW req \in Requests
    PROVE  /\ GoodShop(ApplyWorkOrderTransition(sh, t, o, req))
           /\ SameHands(sh, ApplyWorkOrderTransition(sh, t, o, req))
<1> DEFINE done == Visible(sh, t, o) /\ req.faults = "known" /\ TransitionApplies(sh.orders[o], req)
<1>1. CASE ~done
    <2>1. ApplyWorkOrderTransition(sh, t, o, req) = sh BY <1>1 DEF ApplyWorkOrderTransition
    <2> QED BY <2>1 DEF SameHands
<1>2. CASE done
    <2> DEFINE order == Transitioned(sh.orders[o], req)
    <2>1. ApplyWorkOrderTransition(sh, t, o, req) = PutOrder(sh, t, o, order)
        BY <1>2 DEF ApplyWorkOrderTransition
    <2>2. /\ sh.orders[o] # None /\ sh.orders[o] \in WorkOrders /\ sh.orders[o].scope = t
          /\ OrderSound(sh.orders[o]) /\ devices[sh.orders[o].dev] # None
        BY <1>2, SeenOrder
    <2>3. /\ order \in WorkOrders /\ OrderSound(order) /\ order.scope = t /\ order.dev = sh.orders[o].dev
          /\ order.tech = sh.orders[o].tech
        BY <1>2, <2>2, TransitionedSound
    <2> HIDE DEF order
    <2>4. GoodShop(PutOrder(sh, t, o, order)) /\ SameHands(sh, PutOrder(sh, t, o, order))
        BY <2>2, <2>3, PutSameHands
    <2> QED BY <2>1, <2>4
<1> QED BY <1>1, <1>2

LEMMA HandOverKeeps ==
    ASSUME NEW sh, GoodShop(sh), NEW t \in Tenants, NEW o \in Orders
    PROVE  GoodShop(DeliverWithWarranty(sh, t, o)) /\ SameHands(sh, DeliverWithWarranty(sh, t, o))
<1> DEFINE req == Request("DELIVERED")
           done == Visible(sh, t, o) /\ ChecklistPassed(sh.orders[o]) /\ TransitionApplies(sh.orders[o], req)
<1>3. req \in Requests /\ req.to = "DELIVERED"
    BY RequestTyped DEF States, Request
<1> HIDE DEF req
<1>1. CASE ~done
    <2>1. DeliverWithWarranty(sh, t, o) = sh BY <1>1 DEF DeliverWithWarranty, req
    <2> QED BY <2>1 DEF SameHands
<1>2. CASE done
    <2> DEFINE moved == Transitioned(sh.orders[o], req)
               order == [moved EXCEPT !.warranty = TRUE]
    <2>1. DeliverWithWarranty(sh, t, o) = PutOrder(sh, t, o, order)
        BY <1>2 DEF DeliverWithWarranty, req
    <2>2. /\ sh.orders[o] # None /\ sh.orders[o] \in WorkOrders /\ sh.orders[o].scope = t
          /\ OrderSound(sh.orders[o]) /\ devices[sh.orders[o].dev] # None
        BY <1>2, SeenOrder
    <2>3. /\ moved \in WorkOrders /\ OrderSound(moved) /\ moved.scope = t /\ moved.dev = sh.orders[o].dev
          /\ moved.tech = sh.orders[o].tech /\ moved.state = "DELIVERED"
          /\ moved.module = sh.orders[o].module /\ moved.qc = sh.orders[o].qc
        BY <1>3, <1>2, <2>2, TransitionedSound
    <2>4. Checklist[moved.module] \subseteq moved.qc BY <1>2, <2>3 DEF ChecklistPassed
    <2> HIDE DEF moved
    <2>5. /\ order \in WorkOrders /\ order.scope = moved.scope /\ order.dev = moved.dev /\ order.tech = moved.tech
          /\ order.state = moved.state /\ order.module = moved.module /\ order.qc = moved.qc
          /\ order.quote = moved.quote /\ order.approval = moved.approval /\ order.parts = moved.parts
        BY <2>3 DEF WorkOrders
    <2> HIDE DEF order
    <2>6. OrderSound(order) BY <2>3, <2>4, <2>5 DEF OrderSound
    <2>7. GoodShop(PutOrder(sh, t, o, order)) /\ SameHands(sh, PutOrder(sh, t, o, order))
        BY <2>2, <2>3, <2>5, <2>6, PutSameHands
    <2> QED BY <2>1, <2>7
<1> QED BY <1>1, <1>2

\* The writes of an order's own fields: a part, a passed check, a photo.
LEMMA FieldsKeep ==
    ASSUME NEW sh, GoodShop(sh), NEW t \in Tenants, NEW o \in Orders
    PROVE  /\ GoodShop(RecordPartUsed(sh, t, o)) /\ SameHands(sh, RecordPartUsed(sh, t, o))
           /\ \A item \in Items : /\ GoodShop(RecordQualityCheck(sh, t, o, item))
                                  /\ SameHands(sh, RecordQualityCheck(sh, t, o, item))
           /\ GoodShop(AddPhotoRef(sh, t, o)) /\ SameHands(sh, AddPhotoRef(sh, t, o))
<1>1. SameHands(sh, sh)
    BY DEF SameHands
<1>2. CASE ~Visible(sh, t, o)
    BY <1>1, <1>2 DEF RecordPartUsed, RecordQualityCheck, AddPhotoRef
<1>3. CASE Visible(sh, t, o)
    <2> DEFINE old == sh.orders[o]
    <2>1. /\ old # None /\ old \in WorkOrders /\ old.scope = t /\ OrderSound(old) /\ devices[old.dev] # None
        BY <1>3, SeenOrder
    <2>2. GoodShop(AddPhotoRef(sh, t, o)) /\ SameHands(sh, AddPhotoRef(sh, t, o))
        BY <1>3, <2>1, PutSameHands DEF AddPhotoRef
    <2>3. ASSUME old.state \in {"IN_REPAIR", "TESTING"}
          PROVE  GoodShop(RecordPartUsed(sh, t, o)) /\ SameHands(sh, RecordPartUsed(sh, t, o))
        <3> DEFINE order == [old EXCEPT !.parts = TRUE]
        <3>1. RecordPartUsed(sh, t, o) = PutOrder(sh, t, o, order) BY <1>3, <2>3 DEF RecordPartUsed
        <3>2. old.quote /\ old.approval BY <2>1, <2>3 DEF OrderSound, Consented
        <3>3. /\ order \in WorkOrders /\ order.scope = old.scope /\ order.dev = old.dev /\ order.tech = old.tech
              /\ order.state = old.state /\ order.module = old.module /\ order.qc = old.qc
              /\ order.quote = old.quote /\ order.approval = old.approval /\ order.warranty = old.warranty
            BY <2>1 DEF WorkOrders
        <3> HIDE DEF old, order
        <3>4. OrderSound(order) BY <2>1, <3>2, <3>3 DEF OrderSound
        <3>5. GoodShop(PutOrder(sh, t, o, order)) /\ SameHands(sh, PutOrder(sh, t, o, order))
            BY <2>1, <3>3, <3>4, PutSameHands DEF old
        <3> QED BY <3>1, <3>5
    <2>4. ASSUME old.state \notin {"IN_REPAIR", "TESTING"}
          PROVE  GoodShop(RecordPartUsed(sh, t, o)) /\ SameHands(sh, RecordPartUsed(sh, t, o))
        BY <1>1, <2>4 DEF RecordPartUsed
    <2>5. ASSUME NEW item \in Items
          PROVE  /\ GoodShop(RecordQualityCheck(sh, t, o, item))
                 /\ SameHands(sh, RecordQualityCheck(sh, t, o, item))
        <3>1. CASE old.state # "TESTING" BY <1>1, <3>1 DEF RecordQualityCheck
        <3>2. CASE old.state = "TESTING"
            <4> DEFINE order == [old EXCEPT !.qc = @ \cup {item}]
            <4>1. RecordQualityCheck(sh, t, o, item) = PutOrder(sh, t, o, order)
                BY <1>3, <3>2 DEF RecordQualityCheck
            <4>2. /\ order \in WorkOrders /\ order.scope = old.scope /\ order.dev = old.dev
                  /\ order.tech = old.tech /\ order.state = old.state /\ order.parts = old.parts
                  /\ order.quote = old.quote /\ order.approval = old.approval /\ order.warranty = old.warranty
                BY <2>1 DEF WorkOrders
            <4> HIDE DEF old, order
            <4>3. OrderSound(order) BY <2>1, <3>2, <4>2 DEF OrderSound
            <4>4. GoodShop(PutOrder(sh, t, o, order)) /\ SameHands(sh, PutOrder(sh, t, o, order))
                BY <2>1, <4>2, <4>3, PutSameHands DEF old
            <4> QED BY <4>1, <4>4
        <3> QED BY <3>1, <3>2
    <2> QED BY <2>2, <2>3, <2>4, <2>5
<1> QED BY <1>2, <1>3

\* assignTechnician: whom it assigns is of the shop and cleared.
LEMMA AssignKeeps ==
    ASSUME NEW sh, GoodShop(sh), NEW t \in Tenants, NEW o \in Orders, NEW k \in Technicians
    PROVE  GoodShop(AssignTechnician(sh, t, o, k)) /\ Follows(sh, AssignTechnician(sh, t, o, k))
<1> DEFINE may == /\ Visible(sh, t, o)
                  /\ sh.orders[o].state \in Workable
                  /\ SameScope(t, technicians[k])
                  /\ HazardCleared(sh, o, k)
           old == sh.orders[o]
           n == AssignTechnician(sh, t, o, k)
<1>1. CASE ~may
    <2>1. n = sh BY <1>1 DEF AssignTechnician
    <2>2. Follows(sh, sh) BY DEF Follows, OrderFollows
    <2> QED BY <2>1, <2>2
<1>2. CASE may
    <2> DEFINE order == [old EXCEPT !.tech = k]
    <2>1. /\ old # None /\ old \in WorkOrders /\ old.scope = t /\ OrderSound(old) /\ devices[old.dev] # None
        BY <1>2, SeenOrder
    <2>2. n = PutOrder(sh, t, o, order) BY <1>2 DEF AssignTechnician
    <2>3. technicians[k] = t /\ ({old.module, devices[old.dev].module} \subseteq Hazardous => k \in Certified)
        BY <1>2 DEF SameScope, HazardCleared
    <2> HIDE DEF old, n
    <2>4. /\ order \in WorkOrders /\ order.scope = old.scope /\ order.dev = old.dev /\ order.tech = k
          /\ order.state = old.state /\ order.module = old.module /\ order.qc = old.qc
          /\ order.quote = old.quote /\ order.approval = old.approval /\ order.warranty = old.warranty
          /\ order.parts = old.parts
        BY <2>1 DEF WorkOrders
    <2> HIDE DEF order
    <2>5. OrderSound(order) BY <2>1, <2>4 DEF OrderSound
    <2>6. /\ GoodShop(n)
          /\ \/ n = sh
             \/ /\ n.orders[o] = order
                /\ \A x \in Orders \ {o} : n.orders[x] = sh.orders[x]
        BY <2>1, <2>2, <2>4, <2>5, PutKeeps
    <2>7. CASE n = sh BY <2>6, <2>7 DEF Follows, OrderFollows, n
    <2>8. CASE n.orders[o] = order /\ \A x \in Orders \ {o} : n.orders[x] = sh.orders[x]
        <3>1. order # None BY <2>4, ShopCoreAssumption
        <3>2. ASSUME NEW x \in Orders PROVE OrderFollows(sh, n, x)
            <4>1. CASE x = o
                <5>1. HazardCleared(n, o, k) BY <2>3, <2>4, <2>8 DEF HazardCleared
                <5> QED BY <2>1, <2>3, <2>4, <2>8, <3>1, <4>1, <5>1 DEF OrderFollows, old
            <4>2. CASE x # o BY <2>8, <4>2 DEF OrderFollows
            <4> QED BY <4>1, <4>2
        <3> QED BY <2>6, <3>2 DEF Follows, n
    <2> QED BY <2>6, <2>7, <2>8
<1> QED BY <1>1, <1>2

\* openWorkOrder, also over an order of the same shop: nobody is assigned.
LEMMA OpenKeeps ==
    ASSUME NEW sh, GoodShop(sh), NEW t \in Tenants, NEW o \in Orders, NEW d \in Devices, NEW c,
           devices \in [Devices -> DeviceRecords \cup {None}]
    PROVE  GoodShop(OpenWorkOrder(sh, t, o, d, c)) /\ Follows(sh, OpenWorkOrder(sh, t, o, d, c))
<1> DEFINE may == /\ devices[d] # None /\ SameScope(t, devices[d].scope)
                  /\ devices[d].module \in enabled[t]
                  /\ devices[d].customer = c
           n == OpenWorkOrder(sh, t, o, d, c)
<1>1. CASE ~may
    <2>1. n = sh BY <1>1 DEF OpenWorkOrder
    <2>2. Follows(sh, sh) BY DEF Follows, OrderFollows
    <2> QED BY <2>1, <2>2
<1>2. CASE may
    <2> DEFINE order == NewWorkOrder(t, d)
    <2>1. n = PutOrder(sh, t, o, order) BY <1>2 DEF OpenWorkOrder
    <2>2. devices[d].module \in Modules BY <1>2 DEF DeviceRecords
    <2>3. /\ order.scope = t /\ order.dev = d /\ order.tech = None /\ order.state = "RECEIVED"
          /\ ~order.parts /\ ~order.warranty
        BY DEF NewWorkOrder
    <2>4. order \in WorkOrders BY <2>2 DEF NewWorkOrder, WorkOrders, States
    <2> HIDE DEF order, n
    <2>5. OrderSound(order) BY <2>3 DEF OrderSound, Consented
    <2>6. /\ GoodShop(n)
          /\ \/ n = sh
             \/ /\ n.orders[o] = order /\ (sh.orders[o] # None => sh.orders[o].scope = t)
                /\ \A x \in Orders \ {o} : n.orders[x] = sh.orders[x]
        BY <1>2, <2>1, <2>3, <2>4, <2>5, PutKeeps
    <2>7. CASE n = sh BY <2>6, <2>7 DEF Follows, OrderFollows, n
    <2>8. CASE /\ n.orders[o] = order /\ (sh.orders[o] # None => sh.orders[o].scope = t)
               /\ \A x \in Orders \ {o} : n.orders[x] = sh.orders[x]
        <3>1. order # None BY <2>4, ShopCoreAssumption
        <3>2. ASSUME NEW x \in Orders PROVE OrderFollows(sh, n, x)
            <4>1. CASE x = o BY <2>3, <2>8, <3>1, <4>1, ShopCoreAssumption DEF OrderFollows
            <4>2. CASE x # o BY <2>8, <4>2 DEF OrderFollows
            <4> QED BY <4>1, <4>2
        <3> QED BY <2>6, <3>2 DEF Follows, n
    <2> QED BY <2>6, <2>7, <2>8
<1> QED BY <1>1, <1>2

\* One turn of the sync route's loop over the envelope, and the whole of it.
ReplayTurn(ops, acc, t, i, sh) == IF i \in acc THEN Replay(sh, t, ops[i]) ELSE sh

ReplayCourse(f, ops, acc, t) ==
    f = [i \in 0..Len(ops) |-> IF i = 0 THEN shop
                               ELSE IF i \in acc THEN Replay(f[i-1], t, ops[i]) ELSE f[i-1]]

LEMMA ReplayTurnKeeps ==
    ASSUME NEW ops \in Seq(Operations), NEW acc, NEW t \in Tenants, NEW i \in 1..Len(ops),
           NEW sh, GoodShop(sh)
    PROVE  GoodShop(ReplayTurn(ops, acc, t, i, sh)) /\ SameHands(sh, ReplayTurn(ops, acc, t, i, sh))
<1>1. CASE i \notin acc BY <1>1 DEF ReplayTurn, SameHands
<1>2. CASE i \in acc
    <2>1. ops[i].order \in Orders /\ ops[i].to \in States
        <3>1. ops[i] \in Operations BY ElementOfSeq
        <3> QED BY <3>1 DEF Operations
    <2>2. Request(ops[i].to) \in Requests BY <2>1, RequestTyped
    <2> QED BY <1>2, <2>1, <2>2, TransitionKeeps DEF ReplayTurn, Replay
<1> QED BY <1>1, <1>2

LEMMA ReplayRuns ==
    ASSUME NEW ops \in Seq(Operations), NEW acc, NEW t \in Tenants, GoodShop(shop)
    PROVE  /\ ReplayCourse(CHOOSE f : ReplayCourse(f, ops, acc, t), ops, acc, t)
           /\ GoodShop((CHOOSE f : ReplayCourse(f, ops, acc, t))[Len(ops)])
           /\ SameHands(shop, (CHOOSE f : ReplayCourse(f, ops, acc, t))[Len(ops)])
<1> DEFINE N == Len(ops)
           V == {sh \in Shops : GoodShop(sh)}
           F == [k \in 1..N |-> [sh \in V |-> ReplayTurn(ops, acc, t, k, sh)]]
           a == shop
<1>1. N \in Nat /\ a \in V
    BY LenProperties DEF GoodShop
<1>2. ASSUME NEW k \in 1..N, NEW sh \in V PROVE ReplayTurn(ops, acc, t, k, sh) \in V
    <2>1. GoodShop(sh) OBVIOUS
    <2>2. GoodShop(ReplayTurn(ops, acc, t, k, sh)) BY <2>1, ReplayTurnKeeps
    <2> QED BY <2>2 DEF GoodShop
<1>3. \A sh : sh \in V <=> GoodShop(sh)
    BY DEF GoodShop
<1> HIDE DEF V
<1>4. F \in [1..N -> [V -> V]] /\ \A k \in 1..N, sh \in V : F[k][sh] = ReplayTurn(ops, acc, t, k, sh)
    BY <1>2
<1>5. PICK g \in [0..N -> V] : g[0] = a /\ \A k \in 1..N : g[k] = F[k][g[k - 1]]
    <2>1. F \in [1..N -> [V -> V]] BY <1>4
    <2> HIDE DEF F, N, a
    <2> QED BY <1>1, <2>1, LoopRuns, SMTT(60)
<1>6. ASSUME NEW k \in 0..N
      PROVE  g[k] = IF k = 0 THEN shop ELSE IF k \in acc THEN Replay(g[k-1], t, ops[k]) ELSE g[k-1]
    <2>1. CASE k = 0 BY <1>5, <2>1
    <2>2. CASE k # 0
        <3>1. k \in 1..N /\ k - 1 \in 0..N BY <1>1, <2>2
        <3>2. g[k - 1] \in V BY <1>5, <3>1
        <3> HIDE DEF F, N
        <3>3. g[k] = ReplayTurn(ops, acc, t, k, g[k - 1]) BY <1>4, <1>5, <3>1, <3>2
        <3> QED BY <2>2, <3>3 DEF ReplayTurn
    <2> QED BY <2>1, <2>2
<1>7. g = [k \in 0..N |-> g[k]]
    BY <1>5
<1>8. ReplayCourse(g, ops, acc, t)
    <2> DEFINE h == [k \in 0..N |-> IF k = 0 THEN shop ELSE IF k \in acc THEN Replay(g[k-1], t, ops[k]) ELSE g[k-1]]
    <2>1. \A k \in 0..N : g[k] = h[k] BY <1>6
    <2>2. g = h BY <1>6, <1>7
    <2> QED BY <2>2 DEF ReplayCourse
<1> DEFINE at == CHOOSE f : ReplayCourse(f, ops, acc, t)
<1>9. ReplayCourse(at, ops, acc, t)
    BY <1>8
<1> HIDE DEF at
<1>10. at[0] = shop /\ \A k \in 1..N : at[k] = ReplayTurn(ops, acc, t, k, at[k - 1])
    BY <1>1, <1>9 DEF ReplayCourse, ReplayTurn
<1> DEFINE good == {k \in 0..N : GoodShop(at[k]) /\ SameHands(shop, at[k])}
<1>11. 0 \in good
    BY <1>1, <1>10 DEF SameHands
<1>12. ASSUME NEW k \in 0..(N - 1), k \in good PROVE k + 1 \in good
    <2>1. k + 1 \in 1..N /\ (k + 1) - 1 = k /\ k + 1 \in 0..N BY <1>1
    <2>2. at[k + 1] = ReplayTurn(ops, acc, t, k + 1, at[k]) BY <1>10, <2>1
    <2>3. GoodShop(at[k]) /\ SameHands(shop, at[k]) BY <1>12
    <2>4. GoodShop(at[k + 1]) /\ SameHands(at[k], at[k + 1]) BY <2>1, <2>2, <2>3, ReplayTurnKeeps
    <2>5. SameHands(shop, at[k + 1]) BY <2>3, <2>4, SameHandsCompose
    <2> QED BY <2>1, <2>4, <2>5
<1>13. N \in good
    <2>1. N \in 0..N BY <1>1
    <2> HIDE DEF good, N
    <2>2. \A k \in 0..N : k \in good BY <1>1, <1>11, <1>12, UptoInduction
    <2> QED BY <2>1, <2>2
<1> QED BY <1>9, <1>13 DEF at

\* The sync route of an accepted envelope, at being the course of its loop.
Synced(ops, at) ==
    /\ appliedKeys' = appliedKeys \cup {ops[i].key : i \in Accepted(ops)}
    /\ shop' = at[Len(ops)]
    /\ replayed' = [k \in SyncKeys |-> replayed[k] +
            Cardinality({i \in Accepted(ops) : ops[i].key = k /\ at[i] # at[i-1]})]

LEMMA SyncRuns ==
    ASSUME NEW s, NEW ops, MobileSync(s, ops)
    PROVE  /\ s \in posting /\ posting' = posting \ {s} /\ UNCHANGED sessions
           /\ UNCHANGED <<customers, devices, technicians, enabled, issuing, pending, ticketCount, confirmed>>
           /\ \/ UNCHANGED <<appliedKeys, replayed, shop>>
              \/ Synced(ops, CHOOSE f : ReplayCourse(f, ops, Accepted(ops), TenantOf(s)))
<1>1. /\ s \in posting /\ posting' = posting \ {s} /\ UNCHANGED sessions
      /\ UNCHANGED <<customers, devices, technicians, enabled, issuing, pending, ticketCount, confirmed>>
    BY DEF MobileSync, Handled
<1>2. CASE \E i \in 1..Len(ops) : ops[i].scope # TenantOf(s)
    <2>1. UNCHANGED <<appliedKeys, replayed, shop>> BY <1>2 DEF MobileSync
    <2> QED BY <1>1, <2>1
<1>3. CASE ~\E i \in 1..Len(ops) : ops[i].scope # TenantOf(s)
    <2>1. Synced(ops, CHOOSE f : ReplayCourse(f, ops, Accepted(ops), TenantOf(s)))
        BY <1>3 DEF MobileSync, ReplayCourse, Synced
    <2> QED BY <1>1, <2>1
<1> QED BY <1>2, <1>3

\* No key is counted twice, whatever the envelopes.
LEMMA AcceptedOnce ==
    ASSUME NEW ops \in Seq(Operations), NEW i \in Accepted(ops), NEW j \in Accepted(ops),
           ops[i].key = ops[j].key
    PROVE  i = j
<1>1. i \in 1..Len(ops) /\ j \in 1..Len(ops) /\ Len(ops) \in Nat
    BY LenProperties DEF Accepted
<1>2. ~(i < j) /\ ~(j < i)
    <2>1. i < j => i \in 1..(j - 1) BY <1>1
    <2>2. j < i => j \in 1..(i - 1) BY <1>1
    <2> QED BY <2>1, <2>2 DEF Accepted
<1> QED BY <1>1, <1>2

SyncInv ==
    /\ replayed \in [SyncKeys -> {0, 1}]
    /\ \A k \in SyncKeys : replayed[k] # 0 => k \in appliedKeys

LEMMA SyncKeeps ==
    ASSUME SyncInv, NEW s, NEW ops \in Seq(Operations), MobileSync(s, ops)
    PROVE  SyncInv'
<1>1. CASE UNCHANGED <<appliedKeys, replayed, shop>> BY <1>1 DEF SyncInv
<1>2. ASSUME NEW at, Synced(ops, at) PROVE SyncInv'
    <2>1. /\ appliedKeys' = appliedKeys \cup {ops[i].key : i \in Accepted(ops)}
          /\ replayed' = [k \in SyncKeys |-> replayed[k] +
                  Cardinality({i \in Accepted(ops) : ops[i].key = k /\ at[i] # at[i-1]})]
        BY <1>2 DEF Synced
    <2>2. ASSUME NEW k \in SyncKeys
          PROVE  replayed'[k] \in {0, 1} /\ (replayed'[k] # 0 => k \in appliedKeys')
        <3> DEFINE now_ == {i \in Accepted(ops) : ops[i].key = k /\ at[i] # at[i-1]}
        <3>1. replayed'[k] = replayed[k] + Cardinality(now_) BY <2>1
        <3>2. replayed[k] \in {0, 1} /\ (replayed[k] # 0 => k \in appliedKeys) BY DEF SyncInv
        <3>3. CASE now_ = {}
            <4>1. Cardinality(now_) = 0 BY <3>3, FS_EmptySet
            <4> HIDE DEF now_
            <4> QED BY <2>1, <3>1, <3>2, <4>1
        <3>4. CASE now_ # {}
            <4>1. PICK i \in Accepted(ops) : i \in now_ /\ ops[i].key = k BY <3>4
            <4>2. \A j \in now_ : j = i BY <4>1, AcceptedOnce
            <4>3. now_ = {i}
                <5> HIDE DEF now_
                <5> QED BY <4>1, <4>2
            <4>4. Cardinality(now_) = 1 BY <4>3, FS_Singleton
            <4>5. k \notin appliedKeys BY <4>1 DEF Accepted
            <4>6. k \in appliedKeys' BY <2>1, <4>1
            <4> HIDE DEF now_
            <4> QED BY <3>1, <3>2, <4>4, <4>5, <4>6
        <3> QED BY <3>3, <3>4
    <2>3. DOMAIN replayed' = SyncKeys /\ replayed' = [k \in SyncKeys |-> replayed'[k]] BY <2>1
    <2> QED BY <2>2, <2>3 DEF SyncInv
<1> QED BY <1>1, <1>2, SyncRuns

-----------------------------------------------------------------------------
(* ServiceLumi: sessions, prepared commands and every step *)

SessionRecords == [tenant : Tenants, role : {"OWNER", "RECEPTION", "TECHNICIAN"}, live : BOOLEAN]

\* What is prepared belongs to a session whose role allows it.
CommandSound(p, ss) ==
    /\ p.session \in Sessions /\ ss[p.session] # None
    /\ p.intent # "LABEL" => /\ RoleAllows(ss[p.session].role, p.intent)
                             /\ p.order \in Orders /\ p.tech \in Technicians

CommandsSound(pend, conf, ss, count) ==
    /\ \A p \in pend : p.id \in Nat /\ p.id < count /\ CommandSound(p, ss)
    /\ \A c \in conf : c[1].id \in Nat /\ c[1].id < count /\ CommandSound(c[1], ss) /\ c[2] = c[1].session
    /\ \A c \in conf, p \in pend : c[1].id # p.id
    /\ \A p, q \in pend : p.id = q.id => p = q
    /\ \A c, e \in conf : c[1].id = e[1].id => c = e

SessionsInv ==
    /\ sessions \in [Sessions -> SessionRecords \cup {None}]
    /\ posting \subseteq {s \in Sessions : sessions[s] # None}
    /\ ticketCount \in Nat
    /\ CommandsSound(pending, confirmed, sessions, ticketCount)

ShopInv ==
    /\ devices \in [Devices -> DeviceRecords \cup {None}]
    /\ enabled \in [Tenants -> SUBSET Modules]
    /\ GoodShop(shop)

LEMMA PosterKnown ==
    ASSUME SessionsInv, NEW s \in posting
    PROVE  s \in Sessions /\ sessions[s] # None /\ sessions[s] \in SessionRecords /\ TenantOf(s) \in Tenants
  BY DEF SessionsInv, SessionRecords, TenantOf

LEMMA CommandAdded ==
    ASSUME NEW pend, NEW conf, NEW ss, NEW n \in Nat, CommandsSound(pend, conf, ss, n),
           NEW p, p.id = n, CommandSound(p, ss)
    PROVE  CommandsSound(pend \cup {p}, conf, ss, n + 1)
<1>1. \A q \in pend : q.id \in Nat /\ q.id < n /\ CommandSound(q, ss)
    BY DEF CommandsSound
<1>2. \A c \in conf : c[1].id \in Nat /\ c[1].id < n /\ CommandSound(c[1], ss) /\ c[2] = c[1].session
    BY DEF CommandsSound
<1>3. \A q \in pend \cup {p} : q.id \in Nat /\ q.id < n + 1 /\ CommandSound(q, ss)
    BY <1>1
<1>4. \A c \in conf : c[1].id \in Nat /\ c[1].id < n + 1 /\ CommandSound(c[1], ss) /\ c[2] = c[1].session
    BY <1>2
<1>5. \A c \in conf, q \in pend \cup {p} : c[1].id # q.id
    BY <1>2 DEF CommandsSound
<1>6. \A q, r \in pend \cup {p} : q.id = r.id => q = r
    BY <1>1 DEF CommandsSound
<1> QED BY <1>3, <1>4, <1>5, <1>6 DEF CommandsSound

LEMMA CommandTaken ==
    ASSUME NEW pend, NEW conf, NEW ss, NEW n, CommandsSound(pend, conf, ss, n), NEW p \in pend
    PROVE  /\ CommandsSound(pend \ {p}, conf, ss, n)
           /\ CommandsSound(pend \ {p}, conf \cup {<<p, p.session>>}, ss, n)
<1>1. CommandsSound(pend \ {p}, conf, ss, n)
    BY DEF CommandsSound
<1> DEFINE c0 == <<p, p.session>>
<1>2. c0[1] = p /\ c0[2] = p.session
    OBVIOUS
<1> HIDE DEF c0
<1>3. \A c \in conf \cup {c0} : c[1].id \in Nat /\ c[1].id < n /\ CommandSound(c[1], ss) /\ c[2] = c[1].session
    BY <1>2 DEF CommandsSound
<1>4. \A c \in conf \cup {c0}, q \in pend \ {p} : c[1].id # q.id
    BY <1>2 DEF CommandsSound
<1>5. \A c, e \in conf \cup {c0} : c[1].id = e[1].id => c = e
    BY <1>2 DEF CommandsSound
<1>6. CommandsSound(pend \ {p}, conf \cup {c0}, ss, n)
    BY <1>1, <1>3, <1>4, <1>5 DEF CommandsSound
<1> QED BY <1>1, <1>6 DEF c0

\* Sessions come and go, their tenant and role stay.
LEMMA SessionsChange ==
    ASSUME SessionsInv, sessions' \in [Sessions -> SessionRecords \cup {None}],
           \A s \in Sessions : sessions[s] # None => sessions'[s] # None /\ sessions'[s].role = sessions[s].role,
           posting' \subseteq {s \in Sessions : sessions'[s] # None},
           UNCHANGED <<pending, ticketCount, confirmed>>
    PROVE  SessionsInv'
<1>1. \A p : CommandSound(p, sessions) => CommandSound(p, sessions')
    BY DEF CommandSound
<1>2. CommandsSound(pending, confirmed, sessions, ticketCount)
    BY DEF SessionsInv
<1>3. CommandsSound(pending, confirmed, sessions', ticketCount)
    BY <1>1, <1>2 DEF CommandsSound
<1> QED BY <1>3 DEF SessionsInv

LEMMA HandledKeeps ==
    ASSUME SessionsInv, NEW s, Handled(s), ticketCount' \in Nat,
           CommandsSound(pending', confirmed', sessions, ticketCount')
    PROVE  SessionsInv'
  BY DEF SessionsInv, Handled

LEMMA LoginsKeep ==
    ASSUME SessionsInv, NEW s \in Sessions, Login(s) \/ Logout(s) \/ ReceivePost(s)
    PROVE  SessionsInv'
<1>0. /\ sessions \in [Sessions -> SessionRecords \cup {None}]
      /\ posting \subseteq {x \in Sessions : sessions[x] # None}
    BY DEF SessionsInv
<1>4. None \notin SessionRecords
    BY ServiceLumiAssumption DEF SessionRecords
<1>1. CASE Login(s)
    <2>1. PICK l \in Logins :
              /\ sessions[s] = None
              /\ sessions' = [sessions EXCEPT ![s] = [tenant |-> l[1], role |-> l[2], live |-> TRUE]]
        BY <1>1 DEF Login
    <2> DEFINE r == [tenant |-> l[1], role |-> l[2], live |-> TRUE]
    <2>2. r \in SessionRecords BY ServiceLumiAssumption DEF SessionRecords
    <2>3. sessions' = [sessions EXCEPT ![s] = r] BY <2>1
    <2> HIDE DEF r
    <2>4. sessions' \in [Sessions -> SessionRecords \cup {None}] BY <1>0, <2>2, <2>3
    <2>5. \A x \in Sessions : sessions[x] # None => sessions'[x] # None /\ sessions'[x].role = sessions[x].role
        BY <1>0, <2>1, <2>3
    <2>6. UNCHANGED <<posting, pending, ticketCount, confirmed>> BY <1>1 DEF Login
    <2> QED BY <1>0, <2>4, <2>5, <2>6, SessionsChange
<1>2. CASE Logout(s)
    <2>1. sessions[s] # None /\ sessions' = [sessions EXCEPT ![s].live = FALSE]
        BY <1>2 DEF Logout, Live
    <2> DEFINE r == [sessions[s] EXCEPT !.live = FALSE]
    <2>2. sessions[s] \in SessionRecords BY <1>0, <2>1
    <2>3. r \in SessionRecords /\ r.role = sessions[s].role BY <2>2 DEF SessionRecords
    <2>4. sessions' = [sessions EXCEPT ![s] = r] BY <1>0, <2>1
    <2> HIDE DEF r
    <2>5. sessions' \in [Sessions -> SessionRecords \cup {None}] BY <1>0, <2>3, <2>4
    <2>6. \A x \in Sessions : sessions[x] # None => sessions'[x] # None /\ sessions'[x].role = sessions[x].role
        BY <1>0, <1>4, <2>3, <2>4
    <2>7. UNCHANGED <<posting, pending, ticketCount, confirmed>> BY <1>2 DEF Logout
    <2> QED BY <1>0, <2>5, <2>6, <2>7, SessionsChange
<1>3. CASE ReceivePost(s)
    <2>1. sessions[s] # None /\ posting' = posting \cup {s} /\ UNCHANGED <<sessions, pending, ticketCount, confirmed>>
        BY <1>3 DEF ReceivePost, Live
    <2> QED BY <1>0, <2>1, SessionsChange
<1> QED BY <1>1, <1>2, <1>3

\* The forms, and the sync route, prepare and confirm nothing.
LEMMA FormsKeepCommands ==
    ASSUME SessionsInv, NEW s, Handled(s), UNCHANGED <<pending, ticketCount, confirmed>>
    PROVE  SessionsInv'
<1>1. ticketCount \in Nat /\ CommandsSound(pending, confirmed, sessions, ticketCount)
    BY DEF SessionsInv
<1> QED BY <1>1, HandledKeeps

\* submitTurn and scanLabel prepare; confirmPending, rejectPending and confirmDraft take.
LEMMA CommandsKeep ==
    ASSUME SessionsInv, NEW s \in Sessions,
           \/ \E i \in Intents, o \in Orders, k \in Technicians : SubmitTurn(s, i, o, k)
           \/ ScanLabel(s)
           \/ \E p \in pending : ConfirmPending(s, p) \/ RejectPending(s, p) \/ ConfirmDraft(s, p)
    PROVE  SessionsInv'
<1>1. ticketCount \in Nat /\ CommandsSound(pending, confirmed, sessions, ticketCount)
    BY DEF SessionsInv
<1>2. ASSUME NEW p, p.id = ticketCount, CommandSound(p, sessions), Handled(s), pending' = pending \cup {p},
             ticketCount' = ticketCount + 1, confirmed' = confirmed
      PROVE  SessionsInv'
    <2>1. CommandsSound(pending \cup {p}, confirmed, sessions, ticketCount + 1) BY <1>1, <1>2, CommandAdded
    <2>2. CommandsSound(pending', confirmed', sessions, ticketCount') BY <1>2, <2>1
    <2>3. ticketCount' \in Nat BY <1>1, <1>2
    <2> QED BY <1>2, <2>2, <2>3, HandledKeeps
<1>3. ASSUME NEW i \in Intents, NEW o \in Orders, NEW k \in Technicians, SubmitTurn(s, i, o, k) PROVE SessionsInv'
    <2>1. Handled(s) /\ confirmed' = confirmed BY <1>3 DEF SubmitTurn
    <2>2. CASE i # "READ" /\ RoleAllows(sessions[s].role, i)
        <3> DEFINE p == [id |-> ticketCount, session |-> s, intent |-> i, order |-> o, tech |-> k]
        <3>1. pending' = pending \cup {p} /\ ticketCount' = ticketCount + 1 BY <1>3, <2>2 DEF SubmitTurn
        <3>2. sessions[s] # None BY <2>1 DEF Handled, SessionsInv
        <3>3. p.id = ticketCount /\ p.session = s /\ p.intent = i /\ p.order = o /\ p.tech = k OBVIOUS
        <3> HIDE DEF p
        <3>4. CommandSound(p, sessions) BY <2>2, <3>2, <3>3 DEF CommandSound
        <3> QED BY <1>2, <2>1, <3>1, <3>3, <3>4
    <2>3. CASE ~(i # "READ" /\ RoleAllows(sessions[s].role, i))
        <3>1. UNCHANGED <<ticketCount, pending>> BY <1>3, <2>3 DEF SubmitTurn
        <3> QED BY <2>1, <3>1, FormsKeepCommands
    <2> QED BY <2>2, <2>3
<1>4. ASSUME ScanLabel(s) PROVE SessionsInv'
    <2> DEFINE p == [id |-> ticketCount, session |-> s, intent |-> "LABEL"]
    <2>1. /\ Handled(s) /\ confirmed' = confirmed /\ pending' = pending \cup {p} /\ ticketCount' = ticketCount + 1
        BY <1>4 DEF ScanLabel
    <2>2. sessions[s] # None BY <2>1 DEF Handled, SessionsInv
    <2>3. p.id = ticketCount /\ p.session = s /\ p.intent = "LABEL" OBVIOUS
    <2> HIDE DEF p
    <2>4. CommandSound(p, sessions) BY <2>2, <2>3 DEF CommandSound
    <2> QED BY <1>2, <2>1, <2>3, <2>4
<1>5. ASSUME NEW p \in pending, ConfirmPending(s, p) \/ RejectPending(s, p) \/ ConfirmDraft(s, p) PROVE SessionsInv'
    <2>1. /\ Handled(s) /\ p.session = s /\ pending' = pending \ {p} /\ ticketCount' = ticketCount
          /\ confirmed' = confirmed \/ confirmed' = confirmed \cup {<<p, s>>}
        BY <1>5 DEF ConfirmPending, RejectPending, ConfirmDraft, MayConfirm
    <2>2. /\ CommandsSound(pending \ {p}, confirmed, sessions, ticketCount)
          /\ CommandsSound(pending \ {p}, confirmed \cup {<<p, p.session>>}, sessions, ticketCount)
        BY <1>1, CommandTaken
    <2>3. CommandsSound(pending', confirmed', sessions, ticketCount')
        <3>1. CASE confirmed' = confirmed BY <2>1, <2>2, <3>1
        <3>2. CASE confirmed' = confirmed \cup {<<p, s>>} BY <2>1, <2>2, <3>2
        <3> QED BY <2>1, <3>1, <3>2
    <2> QED BY <1>1, <2>1, <2>3, HandledKeeps
<1> QED BY <1>3, <1>4, <1>5

\* Steps that write no order.
LEMMA ShopUnchanged ==
    ASSUME ShopInv, shop' = shop, devices' \in [Devices -> DeviceRecords \cup {None}],
           \A d \in Devices : devices[d] # None => devices'[d] # None,
           enabled' \in [Tenants -> SUBSET Modules]
    PROVE  ShopInv' /\ Follows(shop, shop')
<1>1. Follows(shop, shop')
    BY DEF Follows, OrderFollows
<1>2. \A o \in Orders : shop.orders[o] # None => shop.orders[o].dev \in Devices
    BY DEF ShopInv, GoodShop, Shops, WorkOrders
<1>3. GoodShop(shop)'
    BY <1>2 DEF ShopInv, GoodShop, GoodOrder
<1> QED BY <1>1, <1>3 DEF ShopInv

\* Steps that only write orders.
LEMMA ShopWritten ==
    ASSUME ShopInv, GoodShop(shop'), Follows(shop, shop'), UNCHANGED <<devices, enabled>>
    PROVE  ShopInv' /\ Follows(shop, shop')
<1>1. GoodShop(shop)'
    BY DEF GoodShop, GoodOrder
<1> QED BY <1>1 DEF ShopInv

LEMMA OrderStepsKeep ==
    ASSUME ShopInv, SessionsInv, NEW s, NEW o \in Orders, OrderAction(s, o)
    PROVE  ShopInv' /\ Follows(shop, shop')
<1> DEFINE t == TenantOf(s)
<1>1. t \in Tenants
    BY PosterKnown DEF OrderAction, Handled
<1>2. GoodShop(shop)
    BY DEF ShopInv
<1>3. GoodShop(shop') /\ Follows(shop, shop')
    <2>1. ASSUME NEW n, GoodShop(n), SameHands(shop, n), shop' = n PROVE GoodShop(shop') /\ Follows(shop, shop')
        BY <2>1, SameHandsFollow
    <2>2. ASSUME NEW req \in ButtonRequests, shop' = ApplyWorkOrderTransition(shop, t, o, req)
          PROVE  GoodShop(shop') /\ Follows(shop, shop')
        <3>1. req \in Requests BY ButtonsTyped
        <3> QED BY <1>1, <1>2, <2>1, <2>2, <3>1, TransitionKeeps
    <2>3. ASSUME NEW k \in Technicians, shop' = AssignTechnician(shop, t, o, k)
          PROVE  GoodShop(shop') /\ Follows(shop, shop')
        BY <1>1, <1>2, <2>3, AssignKeeps
    <2>4. ASSUME shop' = RecordPartUsed(shop, t, o) PROVE GoodShop(shop') /\ Follows(shop, shop')
        BY <1>1, <1>2, <2>1, <2>4, FieldsKeep
    <2>5. ASSUME NEW item \in Items, shop' = RecordQualityCheck(shop, t, o, item)
          PROVE  GoodShop(shop') /\ Follows(shop, shop')
        BY <1>1, <1>2, <2>1, <2>5, FieldsKeep
    <2>6. ASSUME shop' = AddPhotoRef(shop, t, o) PROVE GoodShop(shop') /\ Follows(shop, shop')
        BY <1>1, <1>2, <2>1, <2>6, FieldsKeep
    <2>7. ASSUME shop' = DeliverWithWarranty(shop, t, o) PROVE GoodShop(shop') /\ Follows(shop, shop')
        BY <1>1, <1>2, <2>1, <2>7, HandOverKeeps
    <2> QED BY <2>2, <2>3, <2>4, <2>5, <2>6, <2>7 DEF OrderAction
<1>4. UNCHANGED <<devices, enabled>>
    BY DEF OrderAction
<1> QED BY <1>3, <1>4, ShopWritten

\* A confirmed voice command runs against the orders of now, not those it was prepared on.
LEMMA ConfirmKeeps ==
    ASSUME ShopInv, SessionsInv, NEW s, NEW p \in pending, ConfirmPending(s, p)
    PROVE  ShopInv' /\ Follows(shop, shop')
<1> DEFINE t == TenantOf(s)
<1>1. t \in Tenants /\ GoodShop(shop)
    BY PosterKnown DEF ConfirmPending, Handled, ShopInv
<1>2. p.intent # "LABEL" /\ shop' = Confirmed(shop, t, p) /\ UNCHANGED <<devices, enabled>>
    BY DEF ConfirmPending
<1>3. p.order \in Orders /\ p.tech \in Technicians
    BY <1>2 DEF SessionsInv, CommandsSound, CommandSound
<1>4. GoodShop(shop') /\ Follows(shop, shop')
    <2>1. CASE p.intent = "ASSIGN_TECHNICIAN"
        <3>1. shop' = AssignTechnician(shop, t, p.order, p.tech) BY <1>2, <2>1 DEF Confirmed
        <3> QED BY <1>1, <1>3, <3>1, AssignKeeps
    <2>2. CASE p.intent = "SET_WAITING_PARTS"
        <3>1. shop' = ApplyWorkOrderTransition(shop, t, p.order, Request("WAITING_PARTS")) BY <1>2, <2>2 DEF Confirmed
        <3>2. Request("WAITING_PARTS") \in Requests BY RequestTyped DEF States
        <3> QED BY <1>1, <1>3, <3>1, <3>2, TransitionKeeps, SameHandsFollow
    <2>3. CASE p.intent \notin {"ASSIGN_TECHNICIAN", "SET_WAITING_PARTS"}
        <3>1. shop' = shop BY <1>2, <2>3 DEF Confirmed
        <3> QED BY <1>1, <3>1 DEF Follows, OrderFollows
    <2> QED BY <2>1, <2>2, <2>3
<1> QED BY <1>2, <1>4, ShopWritten

LEMMA SyncBooks ==
    ASSUME ShopInv, SessionsInv, NEW s, NEW ops \in Seq(Operations), MobileSync(s, ops)
    PROVE  ShopInv' /\ Follows(shop, shop')
<1> DEFINE t == TenantOf(s)
           at == CHOOSE f : ReplayCourse(f, ops, Accepted(ops), t)
<1>1. /\ s \in posting /\ UNCHANGED <<devices, enabled>>
      /\ shop' = shop \/ shop' = at[Len(ops)]
    BY SyncRuns DEF Synced
<1>2. t \in Tenants /\ GoodShop(shop)
    BY <1>1, PosterKnown DEF ShopInv
<1>3. GoodShop(at[Len(ops)]) /\ SameHands(shop, at[Len(ops)])
    BY <1>2, ReplayRuns
<1>4. GoodShop(shop') /\ SameHands(shop, shop')
    <2>1. SameHands(shop, shop) BY DEF SameHands
    <2> HIDE DEF at
    <2> QED BY <1>1, <1>2, <1>3, <2>1
<1> QED BY <1>1, <1>4, SameHandsFollow, ShopWritten

LEMMA FormsKeep ==
    ASSUME ShopInv, SessionsInv, NEW s,
           \/ \E c \in Customers : NewCustomer(s, c)
           \/ \E d \in Devices, c \in Customers, m \in Modules : NewDevice(s, d, c, m)
           \/ \E o \in Orders, d \in Devices, c \in Customers : NewOrder(s, o, d, c)
           \/ \E m \in Modules : ToggleModule(s, m)
    PROVE  ShopInv' /\ Follows(shop, shop')
<1> DEFINE t == TenantOf(s)
<1>1. t \in Tenants
    BY PosterKnown DEF NewCustomer, NewDevice, NewOrder, ToggleModule, Handled
<1>2. /\ devices \in [Devices -> DeviceRecords \cup {None}] /\ enabled \in [Tenants -> SUBSET Modules]
      /\ GoodShop(shop)
    BY DEF ShopInv
<1>3. ASSUME NEW c \in Customers, NewCustomer(s, c) PROVE ShopInv' /\ Follows(shop, shop')
    BY <1>2, <1>3, ShopUnchanged DEF NewCustomer, CreateCustomer
<1>4. ASSUME NEW d \in Devices, NEW c \in Customers, NEW m \in Modules, NewDevice(s, d, c, m)
      PROVE  ShopInv' /\ Follows(shop, shop')
    <2> DEFINE r == [scope |-> t, customer |-> c, module |-> m]
    <2>1. /\ devices' = devices \/ devices' = [devices EXCEPT ![d] = r]
          /\ UNCHANGED <<enabled, shop>>
        BY <1>4 DEF NewDevice, RegisterDevice
    <2>2. r \in DeviceRecords /\ r # None BY <1>1, ShopCoreAssumption DEF DeviceRecords
    <2> HIDE DEF r
    <2>3. devices' \in [Devices -> DeviceRecords \cup {None}] BY <1>2, <2>1, <2>2
    <2>4. \A x \in Devices : devices[x] # None => devices'[x] # None BY <1>2, <2>1, <2>2
    <2> QED BY <1>2, <2>1, <2>3, <2>4, ShopUnchanged
<1>5. ASSUME NEW o \in Orders, NEW d \in Devices, NEW c \in Customers, NewOrder(s, o, d, c)
      PROVE  ShopInv' /\ Follows(shop, shop')
    <2>1. shop' = OpenWorkOrder(shop, t, o, d, c) /\ UNCHANGED <<devices, enabled>> BY <1>5 DEF NewOrder
    <2>2. GoodShop(shop') /\ Follows(shop, shop') BY <1>1, <1>2, <2>1, OpenKeeps
    <2> QED BY <2>1, <2>2, ShopWritten
<1>6. ASSUME NEW m \in Modules, ToggleModule(s, m) PROVE ShopInv' /\ Follows(shop, shop')
    <2>1. enabled' \in [Tenants -> SUBSET Modules]
        <3>1. CASE EnableModule(t, m) BY <1>1, <1>2, <3>1 DEF EnableModule
        <3>2. CASE DisableModule(t, m) BY <1>1, <1>2, <3>2 DEF DisableModule
        <3> QED BY <1>6, <3>1, <3>2 DEF ToggleModule
    <2>2. UNCHANGED <<devices, shop>> BY <1>6 DEF ToggleModule, EnableModule, DisableModule
    <2> QED BY <1>2, <2>1, <2>2, ShopUnchanged
<1> QED BY <1>3, <1>4, <1>5, <1>6

Shopkeeping == ShopInv /\ SessionsInv /\ SyncInv

LEMMA ShopStep ==
    ASSUME Shopkeeping, [ShopNext]_vars
    PROVE  Shopkeeping' /\ Follows(shop, shop')
<1>1. ShopInv /\ SessionsInv /\ SyncInv
    BY DEF Shopkeeping
<1>2. /\ devices \in [Devices -> DeviceRecords \cup {None}] /\ enabled \in [Tenants -> SUBSET Modules]
      /\ ticketCount \in Nat
    BY <1>1 DEF ShopInv, SessionsInv
<1>3. ASSUME UNCHANGED <<devices, enabled, shop>> PROVE ShopInv' /\ Follows(shop, shop')
    BY <1>1, <1>2, <1>3, ShopUnchanged
<1>4. ASSUME UNCHANGED <<appliedKeys, replayed>> PROVE SyncInv'
    BY <1>1, <1>4 DEF SyncInv
<1>5. ASSUME NEW s \in Sessions, Login(s) \/ Logout(s) \/ ReceivePost(s) PROVE Shopkeeping' /\ Follows(shop, shop')
    <2>1. UNCHANGED <<devices, enabled, shop, appliedKeys, replayed>>
        BY <1>5 DEF Login, Logout, ReceivePost, coreVars
    <2> QED BY <1>1, <1>3, <1>4, <1>5, <2>1, LoginsKeep DEF Shopkeeping
<1>6. ASSUME NEW s \in Sessions,
             \/ \E i \in Intents, o \in Orders, k \in Technicians : SubmitTurn(s, i, o, k)
             \/ ScanLabel(s)
             \/ \E p \in pending : RejectPending(s, p) \/ ConfirmDraft(s, p)
      PROVE  Shopkeeping' /\ Follows(shop, shop')
    <2>1. UNCHANGED <<devices, enabled, shop, appliedKeys, replayed>>
        BY <1>6 DEF SubmitTurn, ScanLabel, RejectPending, ConfirmDraft, coreVars
    <2>2. SessionsInv' BY <1>1, <1>6, CommandsKeep
    <2> QED BY <1>3, <1>4, <2>1, <2>2 DEF Shopkeeping
<1>7. ASSUME NEW s \in Sessions, NEW p \in pending, ConfirmPending(s, p) PROVE Shopkeeping' /\ Follows(shop, shop')
    <2>1. UNCHANGED <<appliedKeys, replayed>> BY <1>7 DEF ConfirmPending
    <2>2. SessionsInv' BY <1>1, <1>7, CommandsKeep
    <2> QED BY <1>1, <1>4, <1>7, <2>1, <2>2, ConfirmKeeps DEF Shopkeeping
<1>8. ASSUME NEW s \in Sessions,
             \/ \E c \in Customers : NewCustomer(s, c)
             \/ \E d \in Devices, c \in Customers, m \in Modules : NewDevice(s, d, c, m)
             \/ \E o \in Orders, d \in Devices, c \in Customers : NewOrder(s, o, d, c)
             \/ \E m \in Modules : ToggleModule(s, m)
      PROVE  Shopkeeping' /\ Follows(shop, shop')
    <2>1. Handled(s) /\ UNCHANGED <<pending, ticketCount, confirmed, appliedKeys, replayed>>
        BY <1>8 DEF NewCustomer, NewDevice, NewOrder, ToggleModule
    <2>2. SessionsInv' BY <1>1, <2>1, FormsKeepCommands
    <2>3. ShopInv' /\ Follows(shop, shop') BY <1>1, <1>8, FormsKeep
    <2> QED BY <1>4, <2>1, <2>2, <2>3 DEF Shopkeeping
<1>9. ASSUME NEW s \in Sessions, NEW o \in Orders, OrderAction(s, o) PROVE Shopkeeping' /\ Follows(shop, shop')
    <2>1. Handled(s) /\ UNCHANGED <<pending, ticketCount, confirmed, appliedKeys, replayed>>
        BY <1>9 DEF OrderAction
    <2>2. SessionsInv' BY <1>1, <2>1, FormsKeepCommands
    <2> QED BY <1>1, <1>4, <1>9, <2>1, <2>2, OrderStepsKeep DEF Shopkeeping
<1>10. ASSUME NEW s \in Sessions, NEW ops \in Seq(Operations), MobileSync(s, ops)
       PROVE  Shopkeeping' /\ Follows(shop, shop')
    <2>1. Handled(s) /\ UNCHANGED <<pending, ticketCount, confirmed>>
        BY <1>10 DEF MobileSync
    <2>2. SessionsInv' BY <1>1, <2>1, FormsKeepCommands
    <2> QED BY <1>1, <1>10, <2>2, SyncBooks, SyncKeeps DEF Shopkeeping
<1>11. ASSUME NextMillisecond \/ UNCHANGED vars PROVE Shopkeeping' /\ Follows(shop, shop')
    <2>1. UNCHANGED <<devices, enabled, shop, sessions, posting, pending, ticketCount, confirmed, appliedKeys, replayed>>
        BY <1>11 DEF NextMillisecond, vars, coreVars, appVars
    <2>2. SessionsInv' BY <1>1, <2>1 DEF SessionsInv
    <2> QED BY <1>3, <1>4, <2>1, <2>2 DEF Shopkeeping
<1> QED BY <1>5, <1>6, <1>7, <1>8, <1>9, <1>10, <1>11 DEF ShopNext

LEMMA ShopInitInv == Init => Shopkeeping
<1> SUFFICES ASSUME Init PROVE Shopkeeping
    OBVIOUS
<1>1. devices \in [Devices -> DeviceRecords \cup {None}]
    BY ServiceLumiAssumption DEF Init, DeviceRecords
<1>2. enabled \in [Tenants -> SUBSET Modules]
    BY ServiceLumiAssumption DEF Init
<1>3. shop \in Shops /\ \A o \in Orders : shop.orders[o] = None
    BY DEF Init, Shops
<1>4. ShopInv
    BY <1>1, <1>2, <1>3 DEF ShopInv, GoodShop, GoodOrder
<1>5. SessionsInv
    BY DEF Init, SessionsInv, CommandsSound
<1>6. SyncInv
    BY DEF Init, SyncInv
<1> QED BY <1>4, <1>5, <1>6 DEF Shopkeeping

LEMMA ShopInvariant == ShopSpec => []Shopkeeping
<1>1. Shopkeeping /\ [ShopNext]_vars => Shopkeeping'
    BY ShopStep
<1> QED BY <1>1, ShopInitInv, PTL DEF ShopSpec

\* For any shops, orders, devices, modules, sessions, commands and envelopes: each shop's
\* ledger replays to its orders, no repair without quote and approval, no warranty
\* without the checklist (applyWorkOrderTransition, deliverWithWarranty, put).
THEOREM ShopSafety == ShopSpec => []ShopSafe
<1>1. Shopkeeping => ShopSafe
    <2> SUFFICES ASSUME Shopkeeping PROVE ShopSafe
        OBVIOUS
    <2>1. ShopInv /\ SessionsInv BY DEF Shopkeeping
    <2>2. ASSUME NEW o \in Orders, shop.orders[o] # None
          PROVE  /\ shop.orders[o] \in WorkOrders /\ OrderSound(shop.orders[o])
                 /\ devices[shop.orders[o].dev] # None
                 /\ shop.ledger[shop.orders[o].scope][o] = EntryOf(shop.orders[o])
        BY <2>1, <2>2 DEF ShopInv, GoodShop, GoodOrder, Shops
    <2>3. TypeOK
        <3>1. \A o \in Orders : shop.orders[o] # None =>
                  /\ shop.orders[o].scope \in Tenants /\ shop.orders[o].state \in States
                  /\ devices[shop.orders[o].dev] # None
                  /\ shop.orders[o].tech \in Technicians \cup {None}
            BY <2>2 DEF WorkOrders
        <3>2. \A t \in Tenants : enabled[t] \subseteq Modules BY <2>1 DEF ShopInv
        <3>3. \A p \in pending : p.id < ticketCount /\ sessions[p.session] # None
            BY <2>1 DEF SessionsInv, CommandsSound, CommandSound
        <3>4. posting \subseteq {s \in Sessions : sessions[s] # None} BY <2>1 DEF SessionsInv
        <3> QED BY <3>1, <3>2, <3>3, <3>4 DEF TypeOK
    <2>4. LedgerTruth BY <2>2 DEF LedgerTruth, Visible, SameScope, EntryOf
    <2>5. RepairConsented BY <2>2 DEF RepairConsented, OrderSound, Consented
    <2>6. WarrantyEarned BY <2>2 DEF WarrantyEarned, OrderSound
    <2> QED BY <2>3, <2>4, <2>5, <2>6 DEF ShopSafe
<1> QED BY <1>1, ShopInvariant, PTL

\* A prepared command runs once, in the session that prepared it and whose role allows
\* it, and an offline operation once per key, however sessions end, envelopes repeat
\* their keys and requests interleave (confirmPending, OfflineSyncGate.evaluate).
THEOREM SurfacesSafety == ShopSpec => []SurfacesSafe
<1>1. Shopkeeping => SurfacesSafe
    <2> SUFFICES ASSUME Shopkeeping PROVE SurfacesSafe
        OBVIOUS
    <2>1. CommandsSound(pending, confirmed, sessions, ticketCount) BY DEF Shopkeeping, SessionsInv
    <2>2. ASSUME NEW c \in confirmed
          PROVE  /\ c[1].session = c[2] /\ c[1] \notin pending
                 /\ c[1].intent # "LABEL" => RoleAllows(sessions[c[2]].role, c[1].intent)
                 /\ \A e \in confirmed : e[1].id = c[1].id => e = c
        BY <2>1 DEF CommandsSound, CommandSound
    <2>3. ConfirmedByOwner BY <2>2 DEF ConfirmedByOwner
    <2>4. SyncOnce BY DEF Shopkeeping, SyncInv, SyncOnce
    <2> QED BY <2>3, <2>4 DEF SurfacesSafe
<1> QED BY <1>1, ShopInvariant, PTL

\* Whichever surface writes, a technician newly on an order is of its shop and holds what
\* the device requires now (assignTechnician), and an id stays with its shop (put).
THEOREM ShopStepsKept == ShopSpec => ShopSteps
<1>1. Shopkeeping /\ [ShopNext]_vars => [HazardCertified /\ NoTakeover]_vars
    <2> SUFFICES ASSUME Shopkeeping, [ShopNext]_vars PROVE HazardCertified /\ NoTakeover
        OBVIOUS
    <2>1. Follows(shop, shop') BY ShopStep
    <2>2. NoTakeover BY <2>1 DEF Follows, OrderFollows, NoTakeover
    <2>3. HazardCertified BY <2>1 DEF Follows, OrderFollows, HazardCertified
    <2> QED BY <2>2, <2>3
<1> QED BY <1>1, ShopInvariant, PTL DEF ShopSpec, ShopSteps

===============================================================================
