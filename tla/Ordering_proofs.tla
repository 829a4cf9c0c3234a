--------------------------- MODULE Ordering_proofs ---------------------------
(***************************************************************************)
(* What runs in the order of its dependencies: the topological sort, the    *)
(* kernel that boots, unwinds and shuts modules down along it, and the      *)
(* workflows that hand their nodes along it to the secure pipeline, whose   *)
(* single-use guarantees and audit trail come first.  For any graphs, any   *)
(* number of concurrent requests and calls, and however long the hooks, the *)
(* stores, the executor and the sink take.                                  *)
(***************************************************************************)
EXTENDS Orchestrator, Kernel, Gates_proofs, FiniteSetTheorems, SequenceTheorems

-----------------------------------------------------------------------------
(* The secure pipeline *)

\* A run has not been decided before it reaches the sink, and its executor
\* was invoked only if its claim was granted.
Progressed ==
    \A r \in Run :
        /\ pc[r] \in {"idle", "claiming", "claimed", "replayed", "rejected", "executing"}
           => outcome[r] = "none"
        /\ pc[r] \in {"auditing", "returned"} => outcome[r] # "none"
        /\ pc[r] = "auditing" => r \notin Direct
        /\ pc[r] = "executing" => r \in executed
        /\ r \in executed => pc[r] \in {"executing", "auditing", "returned", "threw"}
        /\ r \in executed /\ pc[r] # "executing" =>
            outcome[r] \in {"VERIFIED", "VERIFICATION_FAILED"}
        /\ r \notin executed => outcome[r] \notin {"VERIFIED", "VERIFICATION_FAILED"}

\* The runs whose claim was granted.
Holds(r) == pc[r] = "claimed" \/ r \in executed

PermitHeld ==
    /\ \A r \in Run : Holds(r) => PermitOf[r] \in claimed
    /\ \A r, s \in Run : Holds(r) /\ Holds(s) /\ PermitOf[r] = PermitOf[s] => r = s

ApprovalHeld ==
    \A r \in executed \cap Required : ApprovalOf[r] \in consumed

Recorded ==
    /\ \A t \in trail : t = <<t[1], outcome[t[1]]>> /\ pc[t[1]] = "returned"
                        /\ t[1] \in Run \ Direct
    /\ \A r \in Run \ Direct : pc[r] = "returned" => <<r, outcome[r]>> \in trail

\* The inductive invariant.
PipelineInv ==
    /\ PipelineTypeOK
    /\ Progressed
    /\ PermitHeld
    /\ ApprovalHeld
    /\ ApprovalOnce
    /\ DenialKeepsApproval
    /\ Recorded

\* The initial state satisfies the inductive invariant.
LEMMA PipelineInitInv == PipelineInit => PipelineInv
  BY PipelineAssumption
     DEF PipelineInit, PipelineInv, PipelineTypeOK, PC, AuditOutcome, Progressed, PermitHeld,
         Holds, ApprovalHeld, ApprovalOnce, DenialKeepsApproval, Recorded

\* Every step of the pipeline, one case per action, preserves the inductive
\* invariant of its runs, stores and trail.
LEMMA PipelineStepInv == PipelineInv /\ [PipelineNext]_pipelineVars => PipelineInv'
<1> SUFFICES ASSUME PipelineInv, [PipelineNext]_pipelineVars PROVE PipelineInv'
    OBVIOUS
<1> USE PipelineAssumption
<1>1. ASSUME NEW r \in Run, DenyRequest(r) PROVE PipelineInv'
    <2> USE <1>1 DEF DenyRequest, PipelineInv, PipelineTypeOK, PC
    <2>0. PICK o \in DenialOutcome(r) : outcome' = [outcome EXCEPT ![r] = o]
        OBVIOUS
    <2>00. o \in {"DENIED", "PENDING_APPROVAL", "STEP_UP_REQUIRED"}
        BY <2>0 DEF DenialOutcome
    <2> USE <2>0, <2>00
    <2>1. PipelineTypeOK'
        BY DEF AuditOutcome
    <2>2. Progressed'
        BY DEF Progressed
    <2>3. PermitHeld'
        BY DEF PermitHeld, Holds
    <2>4. ApprovalHeld' /\ ApprovalOnce' /\ DenialKeepsApproval'
        BY DEF ApprovalHeld, ApprovalOnce, DenialKeepsApproval
    <2>5. Recorded'
        BY DEF Recorded
    <2> QED BY <2>1, <2>2, <2>3, <2>4, <2>5
<1>2. ASSUME NEW r \in Run, IssuePermit(r) PROVE PipelineInv'
    <2> USE <1>2 DEF IssuePermit, PipelineInv, PipelineTypeOK, PC
    <2>1. PipelineTypeOK'
        OBVIOUS
    <2>2. Progressed'
        BY DEF Progressed
    <2>3. PermitHeld'
        BY DEF PermitHeld, Holds
    <2>4. ApprovalHeld' /\ ApprovalOnce' /\ DenialKeepsApproval'
        BY DEF ApprovalHeld, ApprovalOnce, DenialKeepsApproval
    <2>5. Recorded'
        BY DEF Recorded
    <2> QED BY <2>1, <2>2, <2>3, <2>4, <2>5
<1>3. ASSUME NEW r \in Run, PresentPermit(r) PROVE PipelineInv'
    <2> USE <1>3 DEF PresentPermit, PipelineInv, PipelineTypeOK, PC
    <2>1. PipelineTypeOK'
        BY DEF AuditOutcome
    <2>2. Progressed'
        BY DEF Progressed
    <2>3. PermitHeld'
        BY DEF PermitHeld, Holds
    <2>4. ApprovalHeld' /\ ApprovalOnce' /\ DenialKeepsApproval'
        BY DEF ApprovalHeld, ApprovalOnce, DenialKeepsApproval
    <2>5. Recorded'
        BY DEF Recorded
    <2> QED BY <2>1, <2>2, <2>3, <2>4, <2>5
<1>4. ASSUME NEW r \in Run, Claim(r) PROVE PipelineInv'
    <2> USE <1>4 DEF Claim, PipelineInv, PipelineTypeOK, PC
    <2>1. PipelineTypeOK'
        OBVIOUS
    <2>2. Progressed'
        BY DEF Progressed
    <2>3. PermitHeld'
        BY DEF PermitHeld, Holds
    <2>4. ApprovalHeld' /\ ApprovalOnce' /\ DenialKeepsApproval'
        BY DEF ApprovalHeld, ApprovalOnce, DenialKeepsApproval
    <2>5. Recorded'
        BY DEF Recorded
    <2> QED BY <2>1, <2>2, <2>3, <2>4, <2>5
<1>5. ASSUME NEW r \in Run, ClaimFails(r) PROVE PipelineInv'
    <2> USE <1>5 DEF ClaimFails, PipelineInv, PipelineTypeOK, PC
    <2>1. PipelineTypeOK'
        OBVIOUS
    <2>2. Progressed'
        BY DEF Progressed
    <2>3. PermitHeld'
        BY DEF PermitHeld, Holds, Progressed
    <2>4. ApprovalHeld' /\ ApprovalOnce' /\ DenialKeepsApproval'
        BY DEF ApprovalHeld, ApprovalOnce, DenialKeepsApproval
    <2>5. Recorded'
        BY DEF Recorded
    <2> QED BY <2>1, <2>2, <2>3, <2>4, <2>5
<1>6. ASSUME NEW r \in Run, RefuseClaim(r) PROVE PipelineInv'
    <2> USE <1>6 DEF RefuseClaim, Decide, PipelineInv, PipelineTypeOK, PC
    <2>1. PipelineTypeOK'
        BY DEF AuditOutcome
    <2>2. Progressed'
        BY DEF Progressed
    <2>3. PermitHeld'
        BY DEF PermitHeld, Holds
    <2>4. ApprovalHeld' /\ ApprovalOnce' /\ DenialKeepsApproval'
        BY DEF ApprovalHeld, ApprovalOnce, DenialKeepsApproval
    <2>5. Recorded'
        BY DEF Recorded
    <2> QED BY <2>1, <2>2, <2>3, <2>4, <2>5
<1>7. ASSUME NEW r \in Run, RefuseApproval(r) PROVE PipelineInv'
    <2> USE <1>7 DEF RefuseApproval, Decide, PipelineInv, PipelineTypeOK, PC
    <2>1. PipelineTypeOK'
        BY DEF AuditOutcome
    <2>2. Progressed'
        BY DEF Progressed
    <2>3. PermitHeld'
        BY DEF PermitHeld, Holds
    <2>4. ApprovalHeld' /\ ApprovalOnce' /\ DenialKeepsApproval'
        BY DEF ApprovalHeld, ApprovalOnce, DenialKeepsApproval
    <2>5. Recorded'
        BY DEF Recorded
    <2> QED BY <2>1, <2>2, <2>3, <2>4, <2>5
<1>8. ASSUME NEW r \in Run, Grant(r) PROVE PipelineInv'
    <2> USE <1>8 DEF Grant, PipelineInv, PipelineTypeOK, PC
    <2>0. r \in Required => ApprovalOf[r] \in Approval \ consumed
        BY DEF Consumable
    <2>1. PipelineTypeOK'
        BY <2>0
    <2>2. Progressed'
        BY DEF Progressed
    <2>3. PermitHeld'
        BY DEF PermitHeld, Holds
    <2>4. ApprovalHeld'
        BY <2>0 DEF ApprovalHeld
    <2>5. ApprovalOnce'
        BY <2>0 DEF ApprovalOnce, ApprovalHeld
    <2>6. DenialKeepsApproval'
        BY <2>0 DEF DenialKeepsApproval
    <2>7. Recorded'
        BY DEF Recorded
    <2> QED BY <2>1, <2>2, <2>3, <2>4, <2>5, <2>6, <2>7
<1>9. ASSUME NEW r \in Run, ExecutorReturns(r) PROVE PipelineInv'
    <2> USE <1>9 DEF ExecutorReturns, Decide, PipelineInv, PipelineTypeOK, PC
    <2>1. PipelineTypeOK'
        BY DEF AuditOutcome
    <2>2. Progressed'
        BY DEF Progressed
    <2>3. PermitHeld'
        BY DEF PermitHeld, Holds
    <2>4. ApprovalHeld' /\ ApprovalOnce' /\ DenialKeepsApproval'
        BY DEF ApprovalHeld, ApprovalOnce, DenialKeepsApproval
    <2>5. Recorded'
        BY DEF Recorded
    <2> QED BY <2>1, <2>2, <2>3, <2>4, <2>5
<1>10. ASSUME NEW r \in Run, AppendAudit(r) PROVE PipelineInv'
    <2> USE <1>10 DEF AppendAudit, PipelineInv, PipelineTypeOK, PC
    <2>1. PipelineTypeOK'
        BY DEF AuditOutcome, Progressed
    <2>2. Progressed'
        BY DEF Progressed
    <2>3. PermitHeld'
        BY DEF PermitHeld, Holds
    <2>4. ApprovalHeld' /\ ApprovalOnce' /\ DenialKeepsApproval'
        BY DEF ApprovalHeld, ApprovalOnce, DenialKeepsApproval
    <2>5. Recorded'
        BY DEF Recorded, Progressed
    <2> QED BY <2>1, <2>2, <2>3, <2>4, <2>5
<1>11. ASSUME NEW r \in Run, AppendAuditFails(r) PROVE PipelineInv'
    <2> USE <1>11 DEF AppendAuditFails, PipelineInv, PipelineTypeOK, PC
    <2>1. PipelineTypeOK'
        OBVIOUS
    <2>2. Progressed'
        BY DEF Progressed
    <2>3. PermitHeld'
        BY DEF PermitHeld, Holds
    <2>4. ApprovalHeld' /\ ApprovalOnce' /\ DenialKeepsApproval'
        BY DEF ApprovalHeld, ApprovalOnce, DenialKeepsApproval
    <2>5. Recorded'
        BY DEF Recorded
    <2> QED BY <2>1, <2>2, <2>3, <2>4, <2>5
<1>12. CASE Tick
    BY <1>12 DEF Tick, PipelineInv, PipelineTypeOK, Progressed, PermitHeld, Holds,
                ApprovalHeld, ApprovalOnce, DenialKeepsApproval, Recorded
<1>13. CASE UNCHANGED pipelineVars
    BY <1>13 DEF pipelineVars, PipelineInv, PipelineTypeOK, Progressed, PermitHeld, Holds,
                ApprovalHeld, ApprovalOnce, DenialKeepsApproval, Recorded
<1> QED
    BY <1>1, <1>2, <1>3, <1>4, <1>5, <1>6, <1>7, <1>8, <1>9, <1>10, <1>11, <1>12, <1>13
    DEF PipelineNext, Start, Continue, Fault

\* Every reachable state of the pipeline satisfies the inductive invariant.
THEOREM PipelineInvariant == PipelineSpec => []PipelineInv
  BY PipelineInitInv, PipelineStepInv, PTL DEF PipelineSpec

\* An approval drives the executor at most once, for every interleaving of the
\* requests that carry it.
THEOREM PipelineApprovalOnce == PipelineSpec => []ApprovalOnce
  BY PipelineInvariant, PTL DEF PipelineInv

\* A permit drives the executor at most once, also when it is presented again
\* while the first claim is under way.
THEOREM PipelinePermitOnce == PipelineSpec => []PermitOnce
<1>1. PipelineInv => PermitOnce
    BY DEF PipelineInv, PipelineTypeOK, PermitHeld, Holds, PermitOnce
<1> QED BY <1>1, PipelineInvariant, PTL

\* Only a run whose executor is invoked spends an approval.
THEOREM PipelineDenialKeepsApproval == PipelineSpec => []DenialKeepsApproval
  BY PipelineInvariant, PTL DEF PipelineInv

\* The trail has exactly the record of every answered run, and the executor ran
\* exactly for those whose record says so.
THEOREM PipelineTrailTruth == PipelineSpec => []TrailTruth
<1>1. PipelineInv => TrailTruth
    <2> SUFFICES ASSUME PipelineInv, NEW r \in Run \ Direct
                 PROVE  /\ pc[r] = "returned" => {t \in trail : t[1] = r} = {<<r, outcome[r]>>}
                        /\ pc[r] # "returned" => \A t \in trail : t[1] # r
                        /\ outcome[r] # "none" =>
                             (r \in executed <=> outcome[r] \in {"VERIFIED", "VERIFICATION_FAILED"})
        BY DEF TrailTruth
    <2>1. pc[r] = "returned" => {t \in trail : t[1] = r} = {<<r, outcome[r]>>}
        BY DEF PipelineInv, Recorded
    <2>2. pc[r] # "returned" => \A t \in trail : t[1] # r
        BY DEF PipelineInv, Recorded
    <2>3. outcome[r] # "none" =>
            (r \in executed <=> outcome[r] \in {"VERIFIED", "VERIFICATION_FAILED"})
        BY DEF PipelineInv, Progressed
    <2> QED BY <2>1, <2>2, <2>3
<1> QED BY <1>1, PipelineInvariant, PTL

\* What the final gate spends is spent once, and only by a run it lets through.
THEOREM PipelineSpentOnce == PipelineSpec => []SpentOnce
  BY PipelineApprovalOnce, PipelinePermitOnce, PipelineDenialKeepsApproval, PTL DEF SpentOnce
-----------------------------------------------------------------------------
(* The topological sort *)

\* Nodes are numbered and finitely many, ranks are numbers.
Sortable(g, rank) ==
    /\ IsFiniteSet(DOMAIN g)
    /\ DOMAIN g \subseteq Nat
    /\ \A n \in DOMAIN g : rank[n] \in Nat

Before(s, i) == {s[j] : j \in 1..(i - 1)}

\* s lists nodes of g, each once and behind all it depends on.
Ordered(g, s) ==
    /\ s \in Seq(DOMAIN g)
    /\ \A i, j \in 1..Len(s) : s[i] = s[j] => i = j
    /\ \A i \in 1..Len(s) : g[s[i]] \subseteq Before(s, i)
    /\ IsFiniteSet(ToSet(s)) /\ Cardinality(ToSet(s)) = Len(s)

\* No node that is not in s has all its dependencies there.
NoneReady(g, s) ==
    \A n \in DOMAIN g : n \notin ToSet(s) => ~(g[n] \subseteq ToSet(s))

LEMMA ListedIs ==
    ASSUME NEW S, NEW s \in Seq(S)
    PROVE  /\ Len(s) \in Nat /\ DOMAIN s = 1..Len(s)
           /\ ToSet(s) = {s[i] : i \in 1..Len(s)} /\ ToSet(s) \subseteq S
  BY LenProperties, ElementOfSeq DEF ToSet

LEMMA AppendLists ==
    ASSUME NEW S, NEW s \in Seq(S), NEW x \in S
    PROVE  /\ Append(s, x) \in Seq(S) /\ Len(Append(s, x)) = Len(s) + 1
           /\ \A i \in 1..Len(s) : Append(s, x)[i] = s[i]
           /\ Append(s, x)[Len(s) + 1] = x
           /\ ToSet(Append(s, x)) = ToSet(s) \cup {x}
<1> DEFINE t == Append(s, x)
<1>1. /\ t \in Seq(S) /\ Len(t) = Len(s) + 1 /\ \A i \in 1..Len(s) : t[i] = s[i]
      /\ t[Len(s) + 1] = x
  BY AppendProperties
<1>2. Len(s) \in Nat /\ ToSet(s) = {s[i] : i \in 1..Len(s)}
  BY ListedIs
<1>3. ToSet(t) = {t[i] : i \in 1..(Len(s) + 1)}
  BY <1>1, ListedIs
<1> HIDE DEF t
<1>4. ToSet(t) \subseteq ToSet(s) \cup {x}
  <2> SUFFICES ASSUME NEW i \in 1..(Len(s) + 1) PROVE t[i] \in ToSet(s) \cup {x}
    BY <1>3
  <2>1. CASE i \in 1..Len(s) BY <1>1, <1>2, <2>1
  <2>2. CASE i = Len(s) + 1 BY <1>1, <2>2
  <2> QED BY <1>2, <2>1, <2>2
<1>5. ToSet(s) \cup {x} \subseteq ToSet(t)
  <2>1. x \in ToSet(t)
    <3>1. Len(s) + 1 \in 1..(Len(s) + 1) BY <1>2
    <3> QED BY <1>1, <1>3, <3>1
  <2>2. ASSUME NEW i \in 1..Len(s) PROVE s[i] \in ToSet(t)
    <3>1. i \in 1..(Len(s) + 1) BY <1>2
    <3> QED BY <1>1, <1>3, <3>1
  <2> QED BY <1>2, <2>1, <2>2
<1> QED BY <1>1, <1>4, <1>5 DEF t

\* The sorted list of ready nodes has a head.
LEMMA FirstIsReady ==
    ASSUME NEW g, NEW rank, Sortable(g, rank), NEW ready \in SUBSET DOMAIN g, ready # {}
    PROVE  FirstReady(ready, rank) \in ready
<1> DEFINE ranks == {rank[n] : n \in ready}
<1>1. ranks \subseteq Nat /\ ranks # {}
  BY DEF Sortable
<1>2. PICK r \in ranks : \A q \in ranks : r <= q
  <2> HIDE DEF ranks
  <2> QED BY <1>1, LeastNatural
<1> DEFINE lowest == {n \in ready : rank[n] = r}
<1>3. lowest \subseteq Nat /\ lowest # {}
  BY <1>2 DEF Sortable
<1>4. PICK n \in lowest : \A m \in lowest : n <= m
  <2> HIDE DEF lowest
  <2> QED BY <1>3, LeastNatural
<1>5. ASSUME NEW m \in ready PROVE rank[n] < rank[m] \/ (rank[n] = rank[m] /\ n <= m)
  <2>1. rank[n] = r /\ n \in ready /\ rank[m] \in Nat /\ r \in Nat /\ r <= rank[m]
    BY <1>2, <1>4 DEF Sortable
  <2>2. CASE rank[m] = r BY <1>4, <2>1, <2>2
  <2>3. CASE rank[m] # r BY <2>1, <2>3
  <2> QED BY <2>2, <2>3
<1>6. n \in ready BY <1>4
<1> QED BY <1>5, <1>6 DEF FirstReady

\* A turn of the loop keeps the list ordered, and lengthens it while a node is ready.
LEMMA PushKeeps ==
    ASSUME NEW g, NEW rank, Sortable(g, rank), NEW s, Ordered(g, s)
    PROVE  LET t == PushReady(g, rank, s)
           IN  Ordered(g, t) /\ (Len(t) = Len(s) + 1 \/ (t = s /\ NoneReady(g, s)))
<1> DEFINE ready == {n \in DOMAIN g \ ToSet(s) : g[n] \subseteq ToSet(s)}
           t == PushReady(g, rank, s)
           n == FirstReady(ready, rank)
<1>1. CASE ready = {}
  <2>1. t = s BY <1>1 DEF PushReady
  <2>2. NoneReady(g, s) BY <1>1 DEF NoneReady
  <2> QED BY <2>1, <2>2
<1>2. CASE ready # {}
  <2>1. t = Append(s, n) BY <1>2 DEF PushReady
  <2>2. n \in ready
    <3>1. ready \in SUBSET DOMAIN g OBVIOUS
    <3> HIDE DEF ready
    <3> QED BY <1>2, <3>1, FirstIsReady
  <2>3. n \in DOMAIN g /\ n \notin ToSet(s) /\ g[n] \subseteq ToSet(s) BY <2>2
  <2> HIDE DEF n, ready
  <2>4. s \in Seq(DOMAIN g) BY DEF Ordered
  <2>5. /\ t \in Seq(DOMAIN g) /\ Len(t) = Len(s) + 1
        /\ \A i \in 1..Len(s) : t[i] = s[i]
        /\ t[Len(s) + 1] = n /\ ToSet(t) = ToSet(s) \cup {n}
    BY <2>1, <2>3, <2>4, AppendLists
  <2>6. Len(s) \in Nat /\ ToSet(s) = {s[i] : i \in 1..Len(s)} BY <2>4, ListedIs
  <2> HIDE DEF t
  <2>7. \A i, j \in 1..Len(t) : t[i] = t[j] => i = j
    <3> SUFFICES ASSUME NEW i \in 1..Len(t), NEW j \in 1..Len(t), t[i] = t[j] PROVE i = j
      OBVIOUS
    <3>1. CASE i \in 1..Len(s) /\ j \in 1..Len(s) BY <2>5, <3>1 DEF Ordered
    <3>2. CASE i = Len(s) + 1 /\ j = Len(s) + 1 BY <3>2
    <3>3. CASE i \in 1..Len(s) /\ j = Len(s) + 1 BY <2>3, <2>5, <2>6, <3>3
    <3>4. CASE j \in 1..Len(s) /\ i = Len(s) + 1 BY <2>3, <2>5, <2>6, <3>4
    <3> QED BY <2>5, <2>6, <3>1, <3>2, <3>3, <3>4
  <2>8. ASSUME NEW i \in 1..Len(t) PROVE g[t[i]] \subseteq Before(t, i)
    <3>1. i <= Len(s) + 1 /\ i \in Nat /\ 1..(i - 1) \subseteq 1..Len(s) BY <2>5, <2>6
    <3>2. Before(t, i) = Before(s, i) BY <2>5, <3>1 DEF Before
    <3>3. CASE i \in 1..Len(s) BY <2>5, <3>2, <3>3 DEF Ordered
    <3>4. CASE i = Len(s) + 1
      <4>1. Before(s, i) = ToSet(s) BY <2>6, <3>4 DEF Before
      <4> QED BY <2>3, <2>5, <3>2, <3>4, <4>1
    <3> QED BY <2>5, <2>6, <3>3, <3>4
  <2>9. IsFiniteSet(ToSet(t)) /\ Cardinality(ToSet(t)) = Len(t)
    <3>1. IsFiniteSet(ToSet(s)) /\ Cardinality(ToSet(s)) = Len(s) BY DEF Ordered
    <3> QED BY <2>3, <2>5, <3>1, FS_AddElement
  <2>10. Ordered(g, t) BY <2>5, <2>7, <2>8, <2>9 DEF Ordered
  <2> QED BY <2>5, <2>10 DEF t
<1> QED BY <1>1, <1>2

\* The course of the loop.
Turns(g, rank, f) ==
    f = [k \in 0..Cardinality(DOMAIN g) |-> IF k = 0 THEN <<>> ELSE PushReady(g, rank, f[k - 1])]

LEMMA OrderIsLastTurn ==
    ASSUME NEW g, NEW rank
    PROVE  Order(g, rank) = (CHOOSE f : Turns(g, rank, f))[Cardinality(DOMAIN g)]
  BY DEF Order, Turns

LEMMA EmptyOrdered ==
    ASSUME NEW g
    PROVE  Ordered(g, <<>>) /\ Len(<<>>) = 0
<1>1. <<>> \in Seq(DOMAIN g) /\ Len(<<>>) = 0
  BY EmptySeq
<1>2. ToSet(<<>>) = {}
  BY DEF ToSet
<1> QED BY <1>1, <1>2, FS_EmptySet DEF Ordered

\* The loop has a course, and every turn's list is ordered and as long as the turns
\* so far, until none is ready.
LEMMA TurnsRun ==
    ASSUME NEW g, NEW rank, Sortable(g, rank)
    PROVE  LET N == Cardinality(DOMAIN g)
               s == Order(g, rank)
           IN  N \in Nat /\ Ordered(g, s) /\ (Len(s) = N \/ NoneReady(g, s))
<1> DEFINE N == Cardinality(DOMAIN g)
           V == {s \in Seq(DOMAIN g) : Ordered(g, s)}
           F == [k \in 1..N |-> [s \in V |-> PushReady(g, rank, s)]]
           turn == CHOOSE f : Turns(g, rank, f)
<1>1. N \in Nat
  BY FS_CardinalityType DEF Sortable
<1>2. <<>> \in V
  BY EmptyOrdered DEF Ordered
<1>3. \A s \in V : PushReady(g, rank, s) \in V
  BY PushKeeps DEF Ordered
<1>4. F \in [1..N -> [V -> V]]
  BY <1>3
<1> HIDE DEF N
<1>5. \E f : Turns(g, rank, f)
  <2>1. PICK f \in [0..N -> V] : f[0] = <<>> /\ \A k \in 1..N : f[k] = F[k][f[k - 1]]
    <3> DEFINE a == <<>>
    <3>1. a \in V BY <1>2
    <3> HIDE DEF V, F, a
    <3>2. \E f \in [0..N -> V] : f[0] = a /\ \A k \in 1..N : f[k] = F[k][f[k - 1]]
      BY <1>1, <1>4, <3>1, LoopRuns
    <3> QED BY <3>2 DEF a
  <2>2. ASSUME NEW k \in 0..N
        PROVE  f[k] = IF k = 0 THEN <<>> ELSE PushReady(g, rank, f[k - 1])
    <3>1. CASE k = 0 BY <2>1, <3>1
    <3>2. CASE k # 0
      <4>1. k \in 1..N /\ k - 1 \in 0..N BY <1>1, <3>2
      <4>2. f[k - 1] \in V
        <5> HIDE DEF V
        <5> QED BY <2>1, <4>1
      <4> QED BY <2>1, <3>2, <4>1, <4>2
    <3> QED BY <3>1, <3>2
  <2>3. f = [k \in 0..N |-> IF k = 0 THEN <<>> ELSE PushReady(g, rank, f[k - 1])]
    <3> HIDE DEF V, F
    <3> QED BY <2>1, <2>2
  <2> QED BY <2>3 DEF Turns, N
<1>6. Turns(g, rank, turn)
  BY <1>5
<1> HIDE DEF turn
<1>7. /\ turn[0] = <<>>
      /\ \A k \in 1..N : turn[k] = PushReady(g, rank, turn[k - 1])
  BY <1>1, <1>6 DEF Turns, N
<1> DEFINE good == {k \in 0..N : Ordered(g, turn[k]) /\ (Len(turn[k]) = k \/ NoneReady(g, turn[k]))}
<1>8. \A k \in 0..N : k \in good
  <2>1. 0 \in good
    BY <1>1, <1>7, EmptyOrdered
  <2>2. ASSUME NEW k \in 0..(N - 1), k \in good PROVE k + 1 \in good
    <3>1. k + 1 \in 1..N /\ (k + 1) - 1 = k /\ k + 1 \in 0..N BY <1>1
    <3>2. turn[k + 1] = PushReady(g, rank, turn[k]) BY <1>7, <3>1
    <3>3. Ordered(g, turn[k]) /\ (Len(turn[k]) = k \/ NoneReady(g, turn[k])) BY <2>2
    <3>4. /\ Ordered(g, turn[k + 1])
          /\ \/ Len(turn[k + 1]) = Len(turn[k]) + 1
             \/ turn[k + 1] = turn[k] /\ NoneReady(g, turn[k])
      BY <3>2, <3>3, PushKeeps
    <3>5. CASE NoneReady(g, turn[k])
      <4>1. turn[k + 1] = turn[k]
        <5>1. {n \in DOMAIN g \ ToSet(turn[k]) : g[n] \subseteq ToSet(turn[k])} = {}
          BY <3>5 DEF NoneReady
        <5> QED BY <3>2, <5>1 DEF PushReady
      <4> QED BY <3>1, <3>3, <3>5, <4>1
    <3>6. CASE ~NoneReady(g, turn[k]) BY <3>1, <3>3, <3>4, <3>6
    <3> QED BY <3>5, <3>6
  <2> HIDE DEF good
  <2> QED BY <1>1, <2>1, <2>2, UptoInduction
<1>9. N \in good
  BY <1>1, <1>8
<1>10. Order(g, rank) = turn[N]
  BY OrderIsLastTurn DEF turn, N
<1> QED BY <1>1, <1>9, <1>10 DEF N

\* Every list the sort returns is ordered, and no node is left that was ready.
LEMMA OrderSound ==
    ASSUME NEW g, NEW rank, Sortable(g, rank)
    PROVE  LET s == Order(g, rank)
           IN  /\ Ordered(g, s) /\ NoneReady(g, s)
               /\ (Len(s) = Cardinality(DOMAIN g) <=> ToSet(s) = DOMAIN g)
<1> DEFINE s == Order(g, rank)
           N == Cardinality(DOMAIN g)
<1>1. N \in Nat /\ Ordered(g, s) /\ (Len(s) = N \/ NoneReady(g, s))
  BY TurnsRun
<1> HIDE DEF s
<1>2. ToSet(s) \subseteq DOMAIN g /\ Cardinality(ToSet(s)) = Len(s)
  BY <1>1, ListedIs DEF Ordered
<1>3. Len(s) = N <=> ToSet(s) = DOMAIN g
  BY <1>2, FS_Subset DEF Sortable
<1>4. NoneReady(g, s)
  BY <1>1, <1>3 DEF NoneReady
<1> QED BY <1>1, <1>3, <1>4 DEF s

\* No nodes wait for one another in a circle.
Acyclic(g) ==
    \A S \in SUBSET DOMAIN g : S = {} \/ \E n \in S : g[n] \cap S = {}

\* resolveBootOrder and validateExecutionGraph accept exactly the acyclic graphs over
\* their own nodes, and then list every node.
THEOREM SortCorrect ==
    ASSUME NEW g, NEW rank, Sortable(g, rank)
    PROVE  /\ Ordered(g, Order(g, rank))
           /\ Resolves(g, rank) <=> (\A n \in DOMAIN g : g[n] \subseteq DOMAIN g) /\ Acyclic(g)
           /\ Resolves(g, rank) => ToSet(Order(g, rank)) = DOMAIN g
<1> DEFINE s == Order(g, rank)
<1>1. /\ Ordered(g, s) /\ NoneReady(g, s)
      /\ (Len(s) = Cardinality(DOMAIN g) <=> ToSet(s) = DOMAIN g)
  BY OrderSound
<1>2. Resolves(g, rank) <=> (\A n \in DOMAIN g : g[n] \subseteq DOMAIN g) /\ ToSet(s) = DOMAIN g
  <2>1. MissingDependencies(g) = {} <=> \A n \in DOMAIN g : g[n] \subseteq DOMAIN g
    BY DEF MissingDependencies
  <2> QED BY <1>1, <2>1 DEF Resolves
<1> HIDE DEF s
<1>3. Len(s) \in Nat /\ ToSet(s) = {s[i] : i \in 1..Len(s)} /\ ToSet(s) \subseteq DOMAIN g
  BY <1>1, ListedIs DEF Ordered
<1>4. ASSUME ToSet(s) = DOMAIN g PROVE Acyclic(g)
  <2> SUFFICES ASSUME NEW S \in SUBSET DOMAIN g, S # {} PROVE \E n \in S : g[n] \cap S = {}
    BY DEF Acyclic
  <2> DEFINE places == {i \in 1..Len(s) : s[i] \in S}
  <2>1. places \subseteq Nat /\ places # {}
    BY <1>3, <1>4
  <2>2. PICK i \in places : \A j \in places : i <= j
    <3> HIDE DEF places
    <3> QED BY <2>1, LeastNatural
  <2>3. g[s[i]] \subseteq Before(s, i) /\ i \in 1..Len(s) /\ s[i] \in S
    BY <1>1, <2>2 DEF Ordered
  <2>4. Before(s, i) \cap S = {}
    <3> SUFFICES ASSUME NEW j \in 1..(i - 1), s[j] \in S PROVE FALSE
      BY DEF Before
    <3>1. j \in 1..Len(s) /\ ~(i <= j) BY <1>3, <2>3
    <3> QED BY <2>2, <3>1
  <2> QED BY <2>3, <2>4
<1>5. ASSUME Acyclic(g), \A n \in DOMAIN g : g[n] \subseteq DOMAIN g PROVE ToSet(s) = DOMAIN g
  <2> DEFINE S == DOMAIN g \ ToSet(s)
  <2> SUFFICES ASSUME S # {} PROVE FALSE
    BY <1>3
  <2>1. PICK n \in S : g[n] \cap S = {}
    BY <1>5 DEF Acyclic
  <2>2. n \in DOMAIN g /\ n \notin ToSet(s) /\ g[n] \subseteq ToSet(s)
    BY <1>5, <2>1
  <2> QED BY <1>1, <2>2 DEF NoneReady
<1> QED BY <1>1, <1>2, <1>4, <1>5 DEF s

-----------------------------------------------------------------------------
(* The kernel: the inductive invariant *)

Placed == ToSet(order)

\* Not up, or up again only because a crash report restarted it.
Down(m) == m \notin up \/ restarts[m] > 0

\* The steps of boot() and the state of the kernel go together.  Before boot() has
\* ended nothing is shut down, paused or resumed.
BootSteps ==
    /\ state = "created" <=> boot.step = "idle"
    /\ state = "booting" <=> boot.step \in {"resolving", "starting", "started", "threw", "unwinding"}
    /\ boot.step \in {"idle", "resolving"} => order = <<>>
    /\ boot.step # "done" =>
        \A c \in Call : call[c].op \notin {"shutdown", "pause", "resume"}

\* The boot order, once there is one, has every registered module.
OrderStands ==
    IF order = <<>>
    THEN /\ up = {} /\ boot.at = 0
         /\ boot.step \in {"idle", "resolving", "done"}
         /\ \A c \in Call : call[c].op \notin {"crash", "restart"}
    ELSE /\ Placed = registry
         /\ \A i \in 1..Len(order) : dependsOn[order[i]] \subseteq Before(order, i)
         /\ \A m \in registry : dependsOn[m] \subseteq registry
         /\ \A S \in SUBSET registry : S = {} \/ \E m \in S : dependsOn[m] \cap S = {}

\* What boot() has started is what is up, until it unwinds.
BootedSoFar ==
    /\ boot.step = "starting" => boot.at > 0 /\ up = Before(order, boot.at)
    /\ boot.step = "started" => boot.at > 0 /\ up = Before(order, boot.at + 1)
    /\ boot.step = "threw" => up = Before(order, boot.at + 1)
    /\ boot.step \in {"starting", "started", "threw"} =>
        \A c \in Call : call[c].op \in {"crash", "restart"} => call[c].module \in up
    /\ boot.step = "unwinding" =>
        /\ Before(order, boot.at + 1) \subseteq up
        /\ \A m \in up \ Before(order, boot.at + 1) : restarts[m] > 0

\* Modules go down in the order of shutdown, also when shutdowns overlap.
DownInOrder ==
    /\ \A c \in Call : call[c].op = "none" => call[c].module = 0
    /\ \A m \in Module : status[m] = "STOPPED" => Down(m)
    /\ boot.step = "done" =>
        \A d \in Placed \ up : \A n \in Placed : ShutsBefore(n, d) => Down(n)
    /\ \A c \in Call : call[c].op = "shutdown" /\ call[c].module # 0 =>
        /\ call[c].module \in Placed
        /\ \A n \in Placed : ShutsBefore(n, call[c].module) => Down(n)
    /\ state \in {"boot_failed", "stopped"} => \A m \in up : restarts[m] > 0

\* The crash reports that still may lead to a restart of m, by their failure count.
Pending(m) ==
    {k \in 1..MaxRestarts : \E c \in Call :
        call[c].op = "crash" /\ call[c].module = m /\ call[c].at = k}

\* Every restart of a module spent a failure count of its own.
CrashesCounted ==
    /\ \A c \in Call : call[c].op \in {"crash", "restart", "health"} => call[c].module \in registry
    /\ \A c \in Call : call[c].op = "crash" => call[c].at \in 1..failures[call[c].module]
    /\ \A c \in Call : call[c].op = "restart" => restarts[call[c].module] > 0
    /\ \A c, d \in Call :
        call[c].op = "crash" /\ call[d].op = "crash" /\ call[c].module = call[d].module
        /\ call[c].at = call[d].at => c = d
    /\ \A m \in Module :
        /\ restarts[m] + Cardinality(Pending(m)) <= failures[m]
        /\ restarts[m] + Cardinality(Pending(m)) <= MaxRestarts

\* The inductive invariant.
KernelInv ==
    /\ KernelTypeOK
    /\ BootSteps
    /\ OrderStands
    /\ BootedSoFar
    /\ DownInOrder
    /\ CrashesCounted

-----------------------------------------------------------------------------
(* The order of shutdown *)

LEMMA KernelTypes ==
    ASSUME KernelTypeOK
    PROVE  /\ Len(order) \in Nat /\ Placed = {order[i] : i \in 1..Len(order)}
           /\ Placed \subseteq registry /\ registry \subseteq Module
           /\ DOMAIN order = 1..Len(order)
           /\ \A i, j \in 1..Len(order) : order[i] = order[j] => i = j
<1>1. order \in Seq(registry) /\ IsInjective(order)
  BY DEF KernelTypeOK
<1>2. Len(order) \in Nat /\ DOMAIN order = 1..Len(order)
      /\ Placed = {order[i] : i \in 1..Len(order)} /\ Placed \subseteq registry
  BY <1>1, ListedIs DEF Placed
<1> QED BY <1>1, <1>2 DEF IsInjective, KernelTypeOK

\* Of two modules one is shut down before the other, and not the other way round.
LEMMA ShutdownTotal ==
    ASSUME KernelTypeOK, NEW m \in Placed, NEW n \in Placed, m # n
    PROVE  ShutsBefore(m, n) <=> ~ShutsBefore(n, m)
<1>1. PICK i \in 1..Len(order) : order[i] = m
  BY KernelTypes
<1>2. PICK j \in 1..Len(order) : order[j] = n
  BY KernelTypes
<1>3. i # j /\ i \in Nat /\ j \in Nat
  BY <1>1, <1>2, KernelTypes
<1>4. \A k, l \in DOMAIN order : order[k] = m /\ order[l] = n => k = i /\ l = j
  BY <1>1, <1>2, KernelTypes
<1>5. i \in DOMAIN order /\ j \in DOMAIN order
  BY <1>1, <1>2, KernelTypes
<1>6. (\E k, l \in DOMAIN order : k < l /\ order[k] = n /\ order[l] = m) <=> j < i
  BY <1>1, <1>2, <1>4, <1>5
<1>7. (\E k, l \in DOMAIN order : k < l /\ order[k] = m /\ order[l] = n) <=> i < j
  BY <1>1, <1>2, <1>4, <1>5
<1> QED BY <1>3, <1>6, <1>7 DEF ShutsBefore

\* A module that is no audit module is shut down before all it depends on.
LEMMA DependentsFirst ==
    ASSUME KernelTypeOK, OrderStands, NEW m \in Placed \ Audit, NEW d \in dependsOn[m]
    PROVE  d \in Placed /\ ShutsBefore(m, d)
<1>1. PICK i \in 1..Len(order) : order[i] = m
  BY KernelTypes
<1>2. order # <<>>
  BY <1>1
<1>3. d \in Before(order, i)
  BY <1>1, <1>2 DEF OrderStands
<1>4. PICK j \in 1..(i - 1) : order[j] = d
  BY <1>3 DEF Before
<1>5. j \in 1..Len(order) /\ j < i
  BY <1>1, <1>4, KernelTypes
<1> QED BY <1>1, <1>4, <1>5, KernelTypes DEF ShutsBefore

LEMMA ShutsBeforeFrame ==
    ASSUME UNCHANGED order
    PROVE  Placed' = Placed /\ \A m, n : ShutsBefore(m, n)' <=> ShutsBefore(m, n)
  BY DEF ShutsBefore, Placed

LEMMA PendingFinite ==
    ASSUME NEW m, MaxRestarts \in Nat
    PROVE  /\ IsFiniteSet(Pending(m)) /\ Cardinality(Pending(m)) \in Nat
           /\ Pending(m) \subseteq 1..MaxRestarts
<1>1. IsFiniteSet(1..MaxRestarts)
  BY FS_Interval
<1>2. Pending(m) \subseteq 1..MaxRestarts
  BY DEF Pending
<1> QED BY <1>1, <1>2, FS_Subset, FS_CardinalityType

-----------------------------------------------------------------------------
(* The steps of the kernel *)

\* A step that starts no restart and takes no report counts no crash.
LEMMA CrashesFrame ==
    ASSUME KernelTypeOK, CrashesCounted, KernelTypeOK',
           UNCHANGED restarts, registry \subseteq registry',
           \A m \in Module : failures[m] <= failures'[m],
           \A c \in Call : call'[c].op \in {"crash", "restart"} => call'[c] = call[c],
           \A c \in Call : call'[c].op = "health" => call'[c].module \in registry'
    PROVE  CrashesCounted'
<1> USE KernelAssumption
<1>1. ASSUME NEW m \in Module
      PROVE  /\ restarts'[m] + Cardinality(Pending(m)') <= failures'[m]
             /\ restarts'[m] + Cardinality(Pending(m)') <= MaxRestarts
  <2>1. Pending(m)' \subseteq Pending(m)
    BY DEF Pending
  <2>2. Cardinality(Pending(m)') \in Nat /\ Cardinality(Pending(m)') <= Cardinality(Pending(m))
    <3>1. MaxRestarts \in Nat OBVIOUS
    <3>2. IsFiniteSet(Pending(m)) BY <3>1, PendingFinite
    <3>3. IsFiniteSet(Pending(m)') BY <2>1, <3>2, FS_Subset
    <3> QED BY <2>1, <3>2, <3>3, FS_Subset, FS_CardinalityType
  <2>3. Cardinality(Pending(m)) \in Nat
    <3>1. MaxRestarts \in Nat OBVIOUS
    <3> QED BY <3>1, PendingFinite
  <2>4. /\ restarts[m] \in Nat /\ failures[m] \in Nat /\ failures'[m] \in Nat /\ MaxRestarts \in Nat
        /\ failures[m] <= failures'[m]
    BY DEF KernelTypeOK
  <2>5. /\ restarts[m] + Cardinality(Pending(m)) <= failures[m]
        /\ restarts[m] + Cardinality(Pending(m)) <= MaxRestarts
    BY DEF CrashesCounted
  <2> QED BY <2>2, <2>3, <2>4, <2>5
<1>2. ASSUME NEW c \in Call, call'[c].op \in {"crash", "restart"}
      PROVE  /\ call'[c] = call[c] /\ call[c].module \in registry /\ call[c].module \in Module
  BY <1>2 DEF CrashesCounted, KernelTypeOK
<1>3. ASSUME NEW c \in Call, call'[c].op = "crash"
      PROVE  call'[c].at \in 1..failures'[call'[c].module]
  <2>1. call[c].at \in 1..failures[call[c].module] /\ call'[c] = call[c] /\ call[c].module \in Module
    BY <1>2, <1>3 DEF CrashesCounted
  <2>2. /\ failures[call[c].module] \in Nat /\ failures'[call[c].module] \in Nat
        /\ failures[call[c].module] <= failures'[call[c].module]
    BY <2>1 DEF KernelTypeOK
  <2>3. call[c].at \in 1..failures'[call[c].module]
    BY <2>1, <2>2
  <2> QED BY <2>1, <2>3
<1>4. \A c \in Call : call'[c].op \in {"crash", "restart", "health"} => call'[c].module \in registry'
  BY <1>2
<1>5. \A c \in Call : call'[c].op = "restart" => restarts'[call'[c].module] > 0
  BY <1>2 DEF CrashesCounted
<1>6. \A c, d \in Call :
        call'[c].op = "crash" /\ call'[d].op = "crash" /\ call'[c].module = call'[d].module
        /\ call'[c].at = call'[d].at => c = d
  BY <1>2 DEF CrashesCounted
<1> QED BY <1>1, <1>3, <1>4, <1>5, <1>6 DEF CrashesCounted

\* A step that shuts nothing down keeps the order in which modules go down.
LEMMA DownFrame ==
    ASSUME KernelTypeOK, KernelTypeOK', DownInOrder, UNCHANGED <<order, boot>>, up \subseteq up',
           \A m \in Module : Down(m) => Down(m)',
           \A m \in Module : status'[m] = "STOPPED" => status[m] = "STOPPED",
           \A c \in Call : call'[c].op = "shutdown" /\ call'[c].module # 0 => call'[c] = call[c],
           \A c \in Call : call'[c].op = "none" => call'[c] = call[c],
           state' \in {"boot_failed", "stopped"} => state' = state
    PROVE  DownInOrder'
<1>1. Placed' = Placed /\ Placed \subseteq Module /\ \A m, n : ShutsBefore(m, n)' <=> ShutsBefore(m, n)
  BY ShutsBeforeFrame, KernelTypes
<1>2. \A m \in Module : status'[m] = "STOPPED" => Down(m)'
  BY DEF DownInOrder
<1>3. boot'.step = "done" =>
        \A d \in Placed' \ up' : \A n \in Placed' : ShutsBefore(n, d)' => Down(n)'
  BY <1>1 DEF DownInOrder
<1>4. ASSUME NEW c \in Call, call'[c].op = "shutdown" /\ call'[c].module # 0
      PROVE  /\ call'[c].module \in Placed'
             /\ \A n \in Placed' : ShutsBefore(n, call[c].module)' => Down(n)'
  BY <1>1, <1>4 DEF DownInOrder
<1>6. \A c \in Call : call'[c].op = "shutdown" /\ call'[c].module # 0 =>
        /\ call'[c].module \in Placed'
        /\ \A n \in Placed' : ShutsBefore(n, call[c].module)' => Down(n)'
  BY <1>4
<1>7. state' \in {"boot_failed", "stopped"} => \A m \in up' : restarts'[m] > 0
  <2> SUFFICES ASSUME state' \in {"boot_failed", "stopped"}, NEW m \in up' PROVE restarts'[m] > 0
    OBVIOUS
  <2>1. m \in Module BY DEF KernelTypeOK
  <2>2. Down(m) BY <2>1 DEF DownInOrder, Down
  <2> QED BY <2>1, <2>2 DEF Down
<1>8. \A c \in Call : call'[c].op = "none" => call'[c].module = 0
  BY DEF DownInOrder
<1> QED BY <1>1, <1>2, <1>3, <1>6, <1>7, <1>8 DEF DownInOrder

\* A step that is none of boot() leaves it where it is.
LEMMA BootFrame ==
    ASSUME BootSteps, OrderStands, BootedSoFar,
           UNCHANGED <<dependsOn, registry, order, boot>>,
           state' = state \/ (boot.step = "done" /\ {state, state'} \cap {"created", "booting"} = {}),
           boot.step # "done" => \A c \in Call : call'[c].op \notin {"shutdown", "pause", "resume"},
           up \subseteq up', \A m \in up' \ up : restarts'[m] > 0,
           order = <<>> \/ boot.step \in {"starting", "started", "threw"} => up' = up,
           order = <<>> => \A c \in Call : call'[c].op \notin {"crash", "restart"},
           \A m \in up : restarts[m] > 0 => restarts'[m] > 0,
           \A c \in Call : call'[c].op \in {"crash", "restart"} =>
               \/ call[c].op \in {"crash", "restart"} /\ call'[c].module = call[c].module
               \/ call'[c].module \in up
    PROVE  BootSteps' /\ OrderStands' /\ BootedSoFar'
<1>1. BootSteps'
  BY DEF BootSteps
<1>2. OrderStands'
  <2>1. CASE order = <<>> BY <2>1 DEF OrderStands, Before, Placed
  <2>2. CASE order # <<>> BY <2>2 DEF OrderStands, Before, Placed
  <2> QED BY <2>1, <2>2
<1>3. BootedSoFar'
  <2>1. \A i : Before(order, i)' = Before(order, i) BY DEF Before
  <2>2. Before(order, boot.at)' = Before(order, boot.at) /\ Before(order, boot.at + 1)' = Before(order, boot.at + 1)
    BY DEF Before
  <2> QED BY <2>2 DEF BootedSoFar
<1> QED BY <1>1, <1>2, <1>3

\* How a step changes the entry of a call it belongs to.
LEMMA CallChanges ==
    ASSUME KernelTypeOK, NEW c \in Call, NEW o
    PROVE  /\ [call EXCEPT ![c].op = o][c].op = o
           /\ [call EXCEPT ![c].op = o][c].at = call[c].at
           /\ [call EXCEPT ![c].op = o][c].module = call[c].module
           /\ \A d \in Call \ {c} : [call EXCEPT ![c].op = o][d] = call[d]
  BY DEF KernelTypeOK

LEMMA CallTyped ==
    ASSUME KernelTypeOK, NEW c \in Call, NEW o \in Operation
    PROVE  [call EXCEPT ![c].op = o] \in [Call -> [op : Operation, at : Nat, module : Module \cup {0}]]
<1> DEFINE e == [call[c] EXCEPT !.op = o]
<1>1. call[c] \in [op : Operation, at : Nat, module : Module \cup {0}]
  BY DEF KernelTypeOK
<1>2. e \in [op : Operation, at : Nat, module : Module \cup {0}]
  BY <1>1
<1>3. [call EXCEPT ![c].op = o] = [call EXCEPT ![c] = e]
  OBVIOUS
<1> HIDE DEF e
<1> QED BY <1>2, <1>3 DEF KernelTypeOK

\* shutdown(), pause() and resume() are called, or the last two of them end.
LEMMA LifecycleCallKeeps ==
    ASSUME KernelInv, NEW c \in Call, Shutdown(c) \/ Pause(c) \/ Resume(c) \/ LullEnds(c)
    PROVE  KernelInv'
<1> USE DEF KernelInv
<1>1. UNCHANGED <<dependsOn, registry, order, status, failures, up, restarts, boot>>
  BY DEF Shutdown, Pause, Resume, LullEnds
<1>2. PICK o \in {"shutdown", "pause", "resume", "done"} :
        call' = [call EXCEPT ![c].op = o] /\ (o = "shutdown" => call[c].op = "none")
  BY DEF Shutdown, Pause, Resume, LullEnds
<1>3. /\ call'[c].op = o /\ call'[c].module = call[c].module
      /\ \A d \in Call \ {c} : call'[d] = call[d]
  BY <1>2, CallChanges
<1>4. KernelTypeOK'
  BY <1>1, <1>2, ZenonT(20) DEF KernelTypeOK, KernelState, Operation, Shutdown, Pause, Resume, LullEnds
<1>7. boot.step = "done" /\ {state, state'} \cap {"created", "booting"} = {}
  <2>1. CASE Shutdown(c) BY <2>1 DEF Shutdown, CanShutdown, BootSteps, KernelTypeOK
  <2>2. CASE Pause(c) BY <2>2 DEF Pause, BootSteps, KernelTypeOK
  <2>3. CASE Resume(c) BY <2>3 DEF Resume, BootSteps, KernelTypeOK
  <2>4. CASE LullEnds(c)
    <3>1. boot.step = "done" BY <2>4 DEF LullEnds, BootSteps
    <3>2. state \notin {"created", "booting"} BY <3>1 DEF BootSteps
    <3> QED BY <2>4, <3>1, <3>2 DEF LullEnds
  <2> QED BY <2>1, <2>2, <2>3, <2>4
<1>8. state' \in {"boot_failed", "stopped"} => state' = state
  BY DEF Shutdown, Pause, Resume, LullEnds
<1>9. BootSteps' /\ OrderStands' /\ BootedSoFar'
  <2>1. order = <<>> => \A d \in Call : call'[d].op \notin {"crash", "restart"}
    BY <1>3 DEF OrderStands
  <2> QED BY <1>1, <1>3, <1>7, <2>1, BootFrame
<1>10. DownInOrder'
  <2>1. \A m \in Module : Down(m) => Down(m)' BY <1>1 DEF Down
  <2>2. call'[c].op = "shutdown" => call'[c].module = 0 BY <1>2, <1>3 DEF DownInOrder
  <2> QED BY <1>1, <1>3, <1>4, <1>8, <2>1, <2>2, DownFrame
<1>11. CrashesCounted'
  <2>1. \A m \in Module : failures[m] <= failures'[m] BY <1>1 DEF KernelTypeOK
  <2>2. \A d \in Call : call'[d].op = "health" => call'[d].module \in registry'
    BY <1>1, <1>3 DEF CrashesCounted
  <2> QED BY <1>1, <1>3, <1>4, <2>1, <2>2, CrashesFrame
<1> QED BY <1>4, <1>9, <1>10, <1>11

\* A crash is reported: it takes the next failure count of its module.
LEMMA ReportCrashKeeps ==
    ASSUME KernelInv, NEW c \in Call, NEW m \in Module, ReportCrash(c, m)
    PROVE  KernelInv'
<1> USE DEF KernelInv
<1>0. MaxRestarts \in Nat BY KernelAssumption
<1>1. /\ UNCHANGED <<dependsOn, registry, state, order, up, restarts, boot>>
      /\ m \in up /\ call[c].op = "none"
  BY DEF ReportCrash
<1>2. /\ status' = [status EXCEPT ![m] = "FAILED"]
      /\ failures' = [failures EXCEPT ![m] = @ + 1]
  BY DEF ReportCrash
<1>3. failures[m] \in Nat /\ failures'[m] = failures[m] + 1 /\ \A n \in Module \ {m} : failures'[n] = failures[n]
  BY <1>2 DEF KernelTypeOK
<1>4. call' = [call EXCEPT ![c] = [op |-> "crash", at |-> failures[m] + 1, module |-> m]]
  BY <1>3 DEF ReportCrash
<1>5. /\ call'[c].op = "crash" /\ call'[c].at = failures[m] + 1 /\ call'[c].module = m
      /\ \A d \in Call \ {c} : call'[d] = call[d]
  BY <1>4 DEF KernelTypeOK
<1>6. KernelTypeOK'
  BY <1>1, <1>2, <1>3, <1>4 DEF KernelTypeOK, HealthStatus, Operation
<1>7. order # <<>> BY <1>1 DEF OrderStands
<1>8. BootSteps' /\ OrderStands' /\ BootedSoFar'
  <2>1. boot.step # "done" => \A d \in Call : call'[d].op \notin {"shutdown", "pause", "resume"}
    BY <1>5 DEF BootSteps
  <2> QED BY <1>1, <1>5, <1>7, <2>1, BootFrame
<1>9. DownInOrder'
  <2>1. \A n \in Module : Down(n) => Down(n)' BY <1>1 DEF Down
  <2>2. \A n \in Module : status'[n] = "STOPPED" => status[n] = "STOPPED" BY <1>2 DEF KernelTypeOK
  <2> QED BY <1>1, <1>5, <1>6, <2>1, <2>2, DownFrame
<1>10. CrashesCounted'
  <2>1. ASSUME NEW n \in Module
        PROVE  /\ restarts'[n] + Cardinality(Pending(n)') <= failures'[n]
               /\ restarts'[n] + Cardinality(Pending(n)') <= MaxRestarts
    <3>1. IsFiniteSet(Pending(n)) /\ Cardinality(Pending(n)) \in Nat /\ MaxRestarts \in Nat
      BY <1>0, PendingFinite
    <3>2. /\ restarts[n] + Cardinality(Pending(n)) <= failures[n]
          /\ restarts[n] + Cardinality(Pending(n)) <= MaxRestarts
          /\ restarts[n] \in Nat /\ failures[n] \in Nat
      BY DEF CrashesCounted, KernelTypeOK
    <3>3. CASE n = m /\ failures[m] + 1 <= MaxRestarts
      <4>1. Pending(n)' = Pending(n) \cup {failures[m] + 1}
        <5>1. failures[m] + 1 \in 1..MaxRestarts BY <1>3, <3>3
        <5>2. \A k : k \in Pending(n)' => k \in Pending(n) \cup {failures[m] + 1}
          BY <1>5 DEF Pending
        <5>3. failures[m] + 1 \in Pending(n)' BY <1>5, <3>3, <5>1 DEF Pending
        <5>4. Pending(n) \subseteq Pending(n)' BY <1>1, <1>5 DEF Pending
        <5> QED BY <5>2, <5>3, <5>4
      <4>2. failures[m] + 1 \notin Pending(n)
        <5> SUFFICES ASSUME NEW d \in Call, call[d].op = "crash", call[d].module = n,
                            call[d].at = failures[m] + 1
                     PROVE  FALSE
          BY DEF Pending
        <5>1. failures[m] + 1 \in 1..failures[m] BY <3>3 DEF CrashesCounted
        <5> QED BY <1>3, <5>1
      <4>3. Cardinality(Pending(n)') = Cardinality(Pending(n)) + 1
        BY <3>1, <4>1, <4>2, FS_AddElement
      <4> QED BY <1>1, <1>3, <3>1, <3>2, <3>3, <4>3
    <3>4. CASE ~(n = m /\ failures[m] + 1 <= MaxRestarts)
      <4>1. Pending(n)' = Pending(n)
        <5>1. \A k \in 1..MaxRestarts : n = m => k # failures[m] + 1 BY <1>3, <3>1, <3>4
        <5>2. Pending(n)' \subseteq Pending(n) BY <1>5, <5>1 DEF Pending
        <5>3. Pending(n) \subseteq Pending(n)' BY <1>1, <1>5 DEF Pending
        <5> QED BY <5>2, <5>3
      <4>2. failures'[n] \in Nat /\ failures[n] <= failures'[n] BY <1>3, <3>2
      <4> QED BY <1>1, <3>1, <3>2, <4>1, <4>2
    <3> QED BY <3>3, <3>4
  <2>2. ASSUME NEW d \in Call, call'[d].op = "crash"
        PROVE  call'[d].at \in 1..failures'[call'[d].module]
    <3>1. CASE d = c BY <1>3, <1>5, <3>1
    <3>2. CASE d # c
      <4>1. /\ call'[d] = call[d] /\ call[d].at \in 1..failures[call[d].module]
            /\ call[d].module \in Module
        BY <1>5, <2>2, <3>2 DEF CrashesCounted, KernelTypeOK
      <4>2. failures[call[d].module] \in Nat /\ failures'[call[d].module] \in Nat
            /\ failures[call[d].module] <= failures'[call[d].module]
        <5> DEFINE x == call[d].module
        <5>1. x \in Module BY <4>1
        <5> HIDE DEF x
        <5>2. failures[x] \in Nat /\ failures'[x] \in Nat /\ failures[x] <= failures'[x]
          <6>1. failures[x] \in Nat BY <5>1 DEF KernelTypeOK
          <6>2. failures'[x] = IF x = m THEN failures[m] + 1 ELSE failures[x] BY <1>3, <5>1
          <6> QED BY <6>1, <6>2
        <5> QED BY <5>2 DEF x
      <4>3. call[d].at \in 1..failures'[call[d].module] BY <4>1, <4>2
      <4> QED BY <4>1, <4>3
    <3> QED BY <3>1, <3>2
  <2>3. \A d \in Call : call'[d].op \in {"crash", "restart", "health"} => call'[d].module \in registry'
    BY <1>1, <1>5 DEF CrashesCounted, KernelTypeOK
  <2>4. \A d \in Call : call'[d].op = "restart" => restarts'[call'[d].module] > 0
    BY <1>1, <1>5 DEF CrashesCounted
  <2>5. ASSUME NEW d \in Call, NEW e \in Call, call'[d].op = "crash", call'[e].op = "crash",
               call'[d].module = call'[e].module, call'[d].at = call'[e].at
        PROVE  d = e
    <3>1. ASSUME NEW f \in Call \ {c}, call[f].op = "crash", call[f].module = m,
                 call[f].at = failures[m] + 1
          PROVE  FALSE
      <4>1. failures[m] + 1 \in 1..failures[m] BY <3>1 DEF CrashesCounted
      <4> QED BY <1>3, <4>1
    <3> QED BY <1>5, <2>5, <3>1 DEF CrashesCounted
  <2> QED BY <2>1, <2>2, <2>3, <2>4, <2>5 DEF CrashesCounted
<1> QED BY <1>6, <1>8, <1>9, <1>10

\* BoundedRestartPolicy restarts the module: the report's count is spent.
LEMMA CrashRestartsKeeps ==
    ASSUME KernelInv, NEW c \in Call, CrashRestarts(c)
    PROVE  KernelInv'
<1> USE DEF KernelInv
<1>0. MaxRestarts \in Nat BY KernelAssumption
<1> DEFINE m == call[c].module
           a == call[c].at
<1>1. /\ UNCHANGED <<dependsOn, registry, state, order, status, failures, up, boot>>
      /\ call[c].op = "crash" /\ a <= MaxRestarts /\ call' = [call EXCEPT ![c].op = "restart"]
      /\ restarts' = [restarts EXCEPT ![m] = @ + 1]
  BY DEF CrashRestarts
<1>2. m \in registry /\ m \in Module /\ a \in 1..failures[m]
  BY <1>1 DEF CrashesCounted, KernelTypeOK
<1>3. /\ call'[c].op = "restart" /\ call'[c].module = m
      /\ \A d \in Call \ {c} : call'[d] = call[d]
  <2>1. KernelTypeOK OBVIOUS
  <2> QED BY <1>1, <2>1, CallChanges
<1>4. restarts[m] \in Nat /\ restarts'[m] = restarts[m] + 1 /\ \A n \in Module \ {m} : restarts'[n] = restarts[n]
  BY <1>1, <1>2 DEF KernelTypeOK
<1>5. KernelTypeOK'
  <2>1. restarts' \in [Module -> Nat] BY <1>1, <1>2, <1>4 DEF KernelTypeOK
  <2>2. call' \in [Call -> [op : Operation, at : Nat, module : Module \cup {0}]]
    BY <1>1 DEF KernelTypeOK, Operation
  <2> QED BY <1>1, <2>1, <2>2 DEF KernelTypeOK
<1>6. \A n \in Module : restarts[n] > 0 => restarts'[n] > 0
  BY <1>4
<1>7. BootSteps' /\ OrderStands' /\ BootedSoFar'
  <2>1. boot.step # "done" => \A d \in Call : call'[d].op \notin {"shutdown", "pause", "resume"}
    BY <1>3 DEF BootSteps
  <2>2. order # <<>> BY <1>1 DEF OrderStands
  <2>3. up \subseteq Module BY DEF KernelTypeOK
  <2> QED BY <1>1, <1>3, <1>6, <2>1, <2>2, <2>3, BootFrame
<1>8. DownInOrder'
  <2>1. \A n \in Module : Down(n) => Down(n)' BY <1>1, <1>6 DEF Down
  <2> QED BY <1>1, <1>3, <1>5, <2>1, DownFrame
<1>9. CrashesCounted'
  <2>1. ASSUME NEW n \in Module
        PROVE  /\ restarts'[n] + Cardinality(Pending(n)') <= failures'[n]
               /\ restarts'[n] + Cardinality(Pending(n)') <= MaxRestarts
    <3>1. IsFiniteSet(Pending(n)) /\ Cardinality(Pending(n)) \in Nat /\ MaxRestarts \in Nat
      BY <1>0, PendingFinite
    <3>2. /\ restarts[n] + Cardinality(Pending(n)) <= failures[n]
          /\ restarts[n] + Cardinality(Pending(n)) <= MaxRestarts
          /\ restarts[n] \in Nat /\ failures[n] \in Nat
      BY DEF CrashesCounted, KernelTypeOK
    <3>3. CASE n = m
      <4>1. a \in Pending(n) BY <1>1, <1>2, <3>1, <3>3 DEF Pending, KernelTypeOK
      <4>2. Pending(n)' = Pending(n) \ {a}
        <5>1. Pending(n)' \subseteq Pending(n) BY <1>3 DEF Pending
        <5>2. a \notin Pending(n)' BY <1>1, <1>3, <3>3 DEF Pending, CrashesCounted
        <5>3. Pending(n) \ {a} \subseteq Pending(n)' BY <1>3 DEF Pending
        <5> QED BY <5>1, <5>2, <5>3
      <4>3. Cardinality(Pending(n)') = Cardinality(Pending(n)) - 1
        <5> HIDE DEF a
        <5> QED BY <3>1, <4>1, <4>2, FS_RemoveElement
      <4> QED BY <1>1, <1>4, <3>1, <3>2, <3>3, <4>3
    <3>4. CASE n # m
      <4>1. Pending(n)' = Pending(n)
        <5>1. Pending(n)' \subseteq Pending(n) BY <1>3, <3>4 DEF Pending
        <5>2. Pending(n) \subseteq Pending(n)' BY <1>3, <3>4 DEF Pending
        <5> QED BY <5>1, <5>2
      <4> QED BY <1>1, <1>4, <3>2, <3>4, <4>1
    <3> QED BY <3>3, <3>4
  <2>2. \A d \in Call : call'[d].op = "crash" => call'[d].at \in 1..failures'[call'[d].module]
    BY <1>1, <1>3 DEF CrashesCounted
  <2>3. \A d \in Call : call'[d].op \in {"crash", "restart", "health"} => call'[d].module \in registry'
    BY <1>1, <1>2, <1>3 DEF CrashesCounted
  <2>4. ASSUME NEW d \in Call, call'[d].op = "restart" PROVE restarts'[call'[d].module] > 0
    <3>1. CASE d = c BY <1>3, <1>4, <3>1
    <3>2. CASE d # c
      <4>1. call'[d] = call[d] /\ call[d].module \in Module /\ restarts[call[d].module] > 0
        BY <1>3, <2>4, <3>2 DEF CrashesCounted, KernelTypeOK
      <4> QED BY <1>6, <4>1
    <3> QED BY <3>1, <3>2
  <2>5. \A d, e \in Call :
            call'[d].op = "crash" /\ call'[e].op = "crash" /\ call'[d].module = call'[e].module
            /\ call'[d].at = call'[e].at => d = e
    BY <1>3 DEF CrashesCounted
  <2> QED BY <2>1, <2>2, <2>3, <2>4, <2>5 DEF CrashesCounted
<1> QED BY <1>5, <1>7, <1>8, <1>9

\* The policy gives the module up, and the kernel is stopped or not.
LEMMA CrashEscalatesKeeps ==
    ASSUME KernelInv, NEW c \in Call, CrashEscalates(c)
    PROVE  KernelInv'
<1> USE DEF KernelInv
<1>1. UNCHANGED <<dependsOn, registry, order, status, failures, up, restarts, boot>> /\ call[c].op = "crash"
  BY DEF CrashEscalates
<1>2. \/ /\ state' = "shutting_down" /\ state \in {"running", "paused", "boot_failed"}
         /\ call' = [call EXCEPT ![c] = [op |-> "shutdown", at |-> 0, module |-> 0]]
      \/ UNCHANGED state /\ call' = [call EXCEPT ![c].op = "done"]
  BY DEF CrashEscalates, CanShutdown
<1>3. /\ \A d \in Call \ {c} : call'[d] = call[d]
      /\ \/ call'[c].op = "done"
         \/ /\ call'[c].op = "shutdown" /\ call'[c].module = 0
            /\ state' = "shutting_down" /\ state \in {"running", "paused", "boot_failed"}
  <2>1. CASE call' = [call EXCEPT ![c].op = "done"] BY <2>1, CallChanges
  <2>2. CASE call' = [call EXCEPT ![c] = [op |-> "shutdown", at |-> 0, module |-> 0]]
    BY <1>2, <2>1, <2>2 DEF KernelTypeOK
  <2> QED BY <1>2, <2>1, <2>2
<1>4. KernelTypeOK'
  <2>1. call' \in [Call -> [op : Operation, at : Nat, module : Module \cup {0}]]
    <3>1. CASE call' = [call EXCEPT ![c].op = "done"]
      <4>1. "done" \in Operation BY DEF Operation
      <4> QED BY <3>1, <4>1, CallTyped
    <3>2. CASE call' = [call EXCEPT ![c] = [op |-> "shutdown", at |-> 0, module |-> 0]]
      BY <3>2 DEF KernelTypeOK, Operation
    <3> QED BY <1>2, <3>1, <3>2
  <2> QED BY <1>1, <1>2, <2>1 DEF KernelTypeOK, KernelState
<1>5. BootSteps' /\ OrderStands' /\ BootedSoFar'
  <2>1. order # <<>> BY <1>1 DEF OrderStands
  <2>2. state' = state \/ (boot.step = "done" /\ {state, state'} \cap {"created", "booting"} = {})
    BY <1>2 DEF BootSteps, KernelTypeOK
  <2>3. boot.step # "done" => \A d \in Call : call'[d].op \notin {"shutdown", "pause", "resume"}
    BY <1>3, <2>2 DEF BootSteps
  <2> QED BY <1>1, <1>3, <2>1, <2>2, <2>3, BootFrame
<1>6. DownInOrder'
  <2>1. \A m \in Module : Down(m) => Down(m)' BY <1>1 DEF Down
  <2>2. state' \in {"boot_failed", "stopped"} => state' = state BY <1>2
  <2> QED BY <1>1, <1>3, <1>4, <2>1, <2>2, DownFrame
<1>7. CrashesCounted'
  <2>1. \A m \in Module : failures[m] <= failures'[m] BY <1>1 DEF KernelTypeOK
  <2>2. \A d \in Call : call'[d].op = "health" => call'[d].module \in registry'
    BY <1>1, <1>3 DEF CrashesCounted
  <2> QED BY <1>1, <1>3, <1>4, <2>1, <2>2, CrashesFrame
<1> QED BY <1>4, <1>5, <1>6, <1>7

\* A restart ends, whatever became of the module meanwhile.
LEMMA RestartEndsKeeps ==
    ASSUME KernelInv, NEW c \in Call, RestartEnds(c)
    PROVE  KernelInv'
<1> USE DEF KernelInv
<1> DEFINE m == call[c].module
<1>1. /\ UNCHANGED <<dependsOn, registry, state, order, failures, restarts, boot>>
      /\ call[c].op = "restart" /\ call' = [call EXCEPT ![c].op = "done"]
      /\ \E h \in {"READY", "FAILED"} : status' = [status EXCEPT ![m] = h]
      /\ up' = up \cup {m} \/ up' = up
  BY DEF RestartEnds
<1>2. m \in registry /\ m \in Module /\ restarts[m] > 0
  BY <1>1 DEF CrashesCounted, KernelTypeOK
<1>3. call'[c].op = "done" /\ \A d \in Call \ {c} : call'[d] = call[d]
  <2>1. KernelTypeOK OBVIOUS
  <2> QED BY <1>1, <2>1, CallChanges
<1>4. KernelTypeOK'
  <2>1. call' \in [Call -> [op : Operation, at : Nat, module : Module \cup {0}]]
    <3>1. "done" \in Operation /\ KernelTypeOK BY DEF Operation
    <3> QED BY <1>1, <3>1, CallTyped
  <2>2. status' \in [Module -> HealthStatus] BY <1>1 DEF KernelTypeOK, HealthStatus
  <2>3. up' \subseteq registry BY <1>1, <1>2 DEF KernelTypeOK
  <2> QED BY <1>1, <2>1, <2>2, <2>3 DEF KernelTypeOK
<1>5. BootSteps' /\ OrderStands' /\ BootedSoFar'
  <2>1. order # <<>> BY <1>1 DEF OrderStands
  <2>2. boot.step \in {"starting", "started", "threw"} => up' = up BY <1>1 DEF BootedSoFar
  <2>3. boot.step # "done" => \A d \in Call : call'[d].op \notin {"shutdown", "pause", "resume"}
    BY <1>3 DEF BootSteps
  <2>4. up \subseteq up' /\ \A n \in up' \ up : restarts'[n] > 0 BY <1>1, <1>2
  <2> HIDE DEF m
  <2> QED BY <1>1, <1>3, <2>1, <2>2, <2>3, <2>4, BootFrame
<1>6. DownInOrder'
  <2>1. \A n \in Module : Down(n) => Down(n)' BY <1>1, <1>2 DEF Down
  <2>2. \A n \in Module : status'[n] = "STOPPED" => status[n] = "STOPPED" BY <1>1 DEF KernelTypeOK
  <2>3. up \subseteq up' BY <1>1
  <2> HIDE DEF m
  <2> QED BY <1>1, <1>3, <1>4, <2>1, <2>2, <2>3, DownFrame
<1>7. CrashesCounted'
  <2>1. \A n \in Module : failures[n] <= failures'[n] BY <1>1 DEF KernelTypeOK
  <2>2. \A d \in Call : call'[d].op = "health" => call'[d].module \in registry'
    BY <1>1, <1>3 DEF CrashesCounted
  <2> QED BY <1>1, <1>3, <1>4, <2>1, <2>2, CrashesFrame
<1> QED BY <1>4, <1>5, <1>6, <1>7

\* A health poll starts or goes on to the next registered module.
LEMMA PollNextIs ==
    ASSUME KernelTypeOK, NEW c \in Call, NEW m, NEW s, PollNext(c, m, s)
    PROVE  /\ \A d \in Call \ {c} : call'[d] = call[d]
           /\ call'[c].op \in {"done", "health"}
           /\ call'[c].op = "health" => call'[c].module \in registry
           /\ call' \in [Call -> [op : Operation, at : Nat, module : Module \cup {0}]]
<1> DEFINE left == {n \in registry : n > m /\ s[n] \in {"READY", "DEGRADED"}}
           e == IF left = {} THEN [op |-> "done", at |-> 0, module |-> 0]
                ELSE [op |-> "health", at |-> 0, module |-> Min(left)]
<1>1. call' = [call EXCEPT ![c] = e]
  BY DEF PollNext
<1>2. left # {} => Min(left) \in left
  <2>1. left \subseteq Nat BY KernelAssumption DEF KernelTypeOK
  <2> HIDE DEF left
  <2> QED BY <2>1, LeastNatural DEF Min
<1>3. /\ e \in [op : Operation, at : Nat, module : Module \cup {0}]
      /\ e.op \in {"done", "health"} /\ (e.op = "health" => e.module \in registry)
  <2>1. CASE left = {} BY <2>1 DEF Operation
  <2>2. CASE left # {}
    <3>1. Min(left) \in registry /\ Min(left) \in Module BY <1>2, <2>2 DEF KernelTypeOK
    <3>2. e = [op |-> "health", at |-> 0, module |-> Min(left)] BY <2>2
    <3> HIDE DEF left, e
    <3> QED BY <3>1, <3>2 DEF Operation
  <2> QED BY <2>1, <2>2
<1> HIDE DEF e
<1> QED BY <1>1, <1>3 DEF KernelTypeOK

\* health() is called or one of its polls is answered.
LEMMA HealthKeeps ==
    ASSUME KernelInv, NEW c \in Call, Health(c) \/ Polled(c)
    PROVE  KernelInv'
<1> USE DEF KernelInv
<1>1. /\ UNCHANGED <<dependsOn, registry, state, order, failures, up, restarts, boot>>
      /\ status' = status \/ \E h \in {"READY", "DEGRADED", "FAILED"} :
                                status' = [status EXCEPT ![call[c].module] = h]
  BY DEF Health, Polled
<1>2. /\ \A d \in Call \ {c} : call'[d] = call[d]
      /\ call'[c].op \in {"done", "health"}
      /\ call'[c].op = "health" => call'[c].module \in registry
      /\ call' \in [Call -> [op : Operation, at : Nat, module : Module \cup {0}]]
  BY PollNextIs DEF Health, Polled
<1>3. KernelTypeOK'
  <2>1. status' \in [Module -> HealthStatus] BY <1>1 DEF KernelTypeOK, HealthStatus
  <2> QED BY <1>1, <1>2, <2>1 DEF KernelTypeOK
<1>4. BootSteps' /\ OrderStands' /\ BootedSoFar'
  <2>1. boot.step # "done" => \A d \in Call : call'[d].op \notin {"shutdown", "pause", "resume"}
    BY <1>2 DEF BootSteps
  <2>2. order = <<>> => \A d \in Call : call'[d].op \notin {"crash", "restart"}
    BY <1>2 DEF OrderStands
  <2> QED BY <1>1, <1>2, <2>1, <2>2, BootFrame
<1>5. DownInOrder'
  <2>1. \A n \in Module : Down(n) => Down(n)' BY <1>1 DEF Down
  <2>2. \A n \in Module : status'[n] = "STOPPED" => status[n] = "STOPPED" BY <1>1 DEF KernelTypeOK
  <2> QED BY <1>1, <1>2, <1>3, <2>1, <2>2, DownFrame
<1>6. CrashesCounted'
  <2>1. \A n \in Module : failures[n] <= failures'[n] BY <1>1 DEF KernelTypeOK
  <2>2. \A d \in Call : call'[d].op = "health" => call'[d].module \in registry'
    BY <1>1, <1>2 DEF CrashesCounted
  <2> QED BY <1>1, <1>2, <1>3, <2>1, <2>2, CrashesFrame
<1> QED BY <1>3, <1>4, <1>5, <1>6

\* A module's shutdown() has returned: it is down, as is all that goes down before
\* it, and the next one is the first that is left.
LEMMA ShutdownNextKeeps ==
    ASSUME KernelInv, NEW c \in Call, ShutdownNext(c)
    PROVE  KernelInv'
<1> USE DEF KernelInv
<1> DEFINE m == call[c].module
           s == [n \in Module |-> IF n = m THEN "STOPPED" ELSE status[n]]
           left == {n \in Placed : s[n] # "STOPPED" /\ (m = 0 \/ ShutsBefore(m, n))}
<1>1. /\ UNCHANGED <<dependsOn, registry, order, failures, restarts, boot>>
      /\ call[c].op = "shutdown" /\ status' = s /\ up' = up \ {m}
  BY DEF ShutdownNext
<1>2. \/ left = {} /\ state' = "stopped" /\ call' = [call EXCEPT ![c].op = "done"]
      \/ \E n \in left : /\ \A l \in left \ {n} : ShutsBefore(n, l)
                         /\ call' = [call EXCEPT ![c].module = n] /\ UNCHANGED state
  BY DEF ShutdownNext, Placed
<1>3. boot.step = "done" /\ state \notin {"created", "booting"}
  BY <1>1 DEF BootSteps
<1>4. /\ Placed' = Placed /\ Placed \subseteq Module /\ left \subseteq Placed
      /\ \A k, n : ShutsBefore(k, n)' <=> ShutsBefore(k, n)
  BY <1>1, ShutsBeforeFrame, KernelTypes
<1>5. m \in Module \cup {0} /\ (m # 0 => m \in Placed)
      /\ (m # 0 => \A n \in Placed : ShutsBefore(n, m) => Down(n))
  BY <1>1 DEF DownInOrder, KernelTypeOK
<1>6. \A n \in Module : Down(n) => Down(n)'
  BY <1>1 DEF Down
<1>7. \A n \in Module : n = m => Down(n)'
  BY <1>1 DEF Down
<1>8. \A n \in Module : s[n] = "STOPPED" => Down(n)'
  <2> TAKE n \in Module
  <2>1. CASE n = m BY <1>7, <2>1
  <2>2. CASE n # m BY <1>6, <2>2 DEF DownInOrder
  <2> QED BY <2>1, <2>2
\* What is not left is down.
<1>9. \A n \in Placed \ left : Down(n)'
  <2> TAKE n \in Placed \ left
  <2>1. CASE s[n] = "STOPPED" BY <1>4, <1>8, <2>1
  <2>2. CASE s[n] # "STOPPED"
    <3>1. m # 0 /\ ~ShutsBefore(m, n) /\ n \in Placed BY <2>2
    <3>2. n # m BY <1>4, <2>2
    <3>3. ShutsBefore(n, m) BY <1>5, <3>1, <3>2, ShutdownTotal
    <3> QED BY <1>4, <1>5, <1>6, <3>1, <3>3
  <2> QED BY <2>1, <2>2
<1>10. /\ \A d \in Call \ {c} : call'[d] = call[d]
       /\ \/ call'[c].op = "done" /\ state' = "stopped" /\ left = {}
          \/ /\ call'[c].op = "shutdown" /\ UNCHANGED state
             /\ call'[c].module \in left
             /\ \A l \in left \ {call'[c].module} : ShutsBefore(call[c].module, l)'
  <2>1. KernelTypeOK OBVIOUS
  <2>2. CASE left = {} /\ state' = "stopped" /\ call' = [call EXCEPT ![c].op = "done"]
    BY <2>1, <2>2, CallChanges
  <2>3. ASSUME NEW n \in left, \A l \in left \ {n} : ShutsBefore(n, l),
               call' = [call EXCEPT ![c].module = n], UNCHANGED state
        PROVE  /\ \A d \in Call \ {c} : call'[d] = call[d]
               /\ call'[c].op = "shutdown" /\ call'[c].module = n
    <3> HIDE DEF left, m
    <3> QED BY <1>1, <2>3 DEF KernelTypeOK
  <2>4. ASSUME NEW n \in left, \A l \in left \ {n} : ShutsBefore(n, l),
               call' = [call EXCEPT ![c].module = n], UNCHANGED state
        PROVE  \A l \in left \ {call'[c].module} : ShutsBefore(call[c].module, l)'
    <3>1. call'[c].module = n BY <2>3, <2>4
    <3> HIDE DEF left, m
    <3> QED BY <1>4, <2>4, <3>1
  <2> HIDE DEF left, m
  <2> QED BY <1>2, <2>2, <2>3, <2>4
<1>11. KernelTypeOK'
  <2>1. status' \in [Module -> HealthStatus] BY <1>1 DEF KernelTypeOK, HealthStatus
  <2>2. call' \in [Call -> [op : Operation, at : Nat, module : Module \cup {0}]]
    <3>1. CASE call' = [call EXCEPT ![c].op = "done"]
      <4>1. "done" \in Operation /\ KernelTypeOK BY DEF Operation
      <4> QED BY <3>1, <4>1, CallTyped
    <3>2. ASSUME NEW n \in left, call' = [call EXCEPT ![c].module = n]
          PROVE  call' \in [Call -> [op : Operation, at : Nat, module : Module \cup {0}]]
      <4>1. n \in Module BY <1>4
      <4> HIDE DEF left, m
      <4> QED BY <3>2, <4>1 DEF KernelTypeOK
    <3> QED BY <1>2, <3>1, <3>2
  <2>3. state' \in KernelState BY <1>2 DEF KernelTypeOK, KernelState
  <2> HIDE DEF left, m, s
  <2> QED BY <1>1, <2>1, <2>2, <2>3 DEF KernelTypeOK
<1> HIDE DEF left, s, m
<1>12. BootSteps'
  <2>1. state' \notin {"created", "booting"} BY <1>3, <1>10
  <2> QED BY <1>1, <1>3, <2>1 DEF BootSteps
<1>13. OrderStands' /\ BootedSoFar'
  <2>1. \A d \in Call : call'[d].op \in {"crash", "restart"} => call[d].op \in {"crash", "restart"}
    BY <1>10
  <2>2. OrderStands'
    <3>1. CASE order = <<>> BY <1>1, <2>1, <3>1 DEF OrderStands
    <3>2. CASE order # <<>> BY <1>1, <1>4, <3>2 DEF OrderStands, Before
    <3> QED BY <3>1, <3>2
  <2> QED BY <1>1, <1>3, <2>2 DEF BootedSoFar
<1>14. DownInOrder'
  <2>1. \A n \in Module : status'[n] = "STOPPED" => Down(n)' BY <1>1, <1>8
  <2>2. \A d \in Placed' \ up' : \A n \in Placed' : ShutsBefore(n, d)' => Down(n)'
    <3> SUFFICES ASSUME NEW d \in Placed \ up', NEW n \in Placed, ShutsBefore(n, d) PROVE Down(n)'
      BY <1>4
    <3>1. n \in Module BY <1>4
    <3>2. CASE d = m
      <4>1. m # 0 BY <1>4, <3>2, KernelAssumption
      <4> QED BY <1>5, <1>6, <3>1, <3>2, <4>1
    <3>3. CASE d # m
      <4>1. d \notin up BY <1>1, <3>3
      <4> QED BY <1>3, <1>6, <3>1, <4>1 DEF DownInOrder
    <3> QED BY <3>2, <3>3
  <2>3. ASSUME NEW d \in Call, call'[d].op = "shutdown", call'[d].module # 0
        PROVE  /\ call'[d].module \in Placed'
               /\ \A n \in Placed' : ShutsBefore(n, call[d].module)' => Down(n)'
    <3>1. CASE d # c
      <4>1. call'[d] = call[d] BY <1>10, <3>1
      <4>2. call[d].module \in Placed /\ \A n \in Placed : ShutsBefore(n, call[d].module) => Down(n)
        BY <2>3, <4>1 DEF DownInOrder
      <4> QED BY <1>4, <1>6, <4>1, <4>2
    <3>2. CASE d = c
      <4>1. /\ call'[c].module \in left
            /\ \A l \in left \ {call'[c].module} : ShutsBefore(call[c].module, l)'
        BY <1>10, <2>3, <3>2
      <4>2. PICK x \in Placed : x = call'[c].module BY <1>4, <4>1
      <4>3. \A l \in left \ {x} : ShutsBefore(x, l) BY <1>4, <4>1, <4>2
      <4>4. ASSUME NEW n \in Placed, ShutsBefore(n, x) PROVE Down(n)'
        <5>1. CASE n \notin left BY <1>9, <5>1
        <5>2. CASE n \in left
          <6>1. n # x
            <7> SUFFICES ASSUME n = x PROVE FALSE OBVIOUS
            <7>1. ShutsBefore(x, x) BY <4>4
            <7>2. \E i, j \in DOMAIN order : i < j /\ order[i] = x /\ order[j] = x
              BY <7>1 DEF ShutsBefore
            <7> QED BY <7>2, KernelTypes
          <6>2. ShutsBefore(x, n) BY <4>3, <5>2, <6>1
          <6> QED BY <4>2, <4>4, <6>1, <6>2, ShutdownTotal
        <5> QED BY <5>1, <5>2
      <4> QED BY <1>4, <3>2, <4>2, <4>4
    <3> QED BY <3>1, <3>2
  <2>4. state' \in {"boot_failed", "stopped"} => \A n \in up' : restarts'[n] > 0
    <3> SUFFICES ASSUME state' \in {"boot_failed", "stopped"}, NEW n \in up' PROVE restarts'[n] > 0
      OBVIOUS
    <3>1. n \in up /\ n \in Module BY <1>1 DEF KernelTypeOK
    <3>2. CASE state' = state
      BY <1>1, <3>1, <3>2 DEF DownInOrder
    <3>3. CASE left = {}
      <4>1. order # <<>> BY <3>1 DEF OrderStands
      <4>2. n \in Placed BY <3>1, <4>1 DEF OrderStands, KernelTypeOK
      <4>3. Down(n)' BY <1>9, <3>3, <4>2
      <4> QED BY <4>3 DEF Down
    <3> QED BY <1>10, <3>2, <3>3
  <2>5. \A d \in Call : call'[d].op = "none" => call'[d].module = 0 BY <1>10 DEF DownInOrder
  <2> QED BY <2>1, <2>2, <2>3, <2>4, <2>5 DEF DownInOrder
<1>15. CrashesCounted'
  <2>1. \A n \in Module : failures[n] <= failures'[n] BY <1>1 DEF KernelTypeOK
  <2>2. \A d \in Call : call'[d].op = "health" => call'[d].module \in registry'
    BY <1>1, <1>10 DEF CrashesCounted
  <2>3. \A d \in Call : call'[d].op \in {"crash", "restart"} => call'[d] = call[d] BY <1>10
  <2> QED BY <1>1, <1>11, <2>1, <2>2, <2>3, CrashesFrame
<1> QED BY <1>11, <1>12, <1>13, <1>14, <1>15

\* A step of boot() leaves the other calls and the restarts alone.
LEMMA BootStepCounts ==
    ASSUME KernelInv, KernelTypeOK', UNCHANGED <<restarts, call>>, registry \subseteq registry',
           \A m \in Module : failures[m] <= failures'[m]
    PROVE  CrashesCounted'
<1>1. \A c \in Call : call'[c].op = "health" => call'[c].module \in registry'
  BY DEF KernelInv, CrashesCounted
<1> QED BY <1>1, CrashesFrame DEF KernelInv

LEMMA BootRecord ==
    ASSUME KernelTypeOK, NEW o
    PROVE  [boot EXCEPT !.step = o].step = o /\ [boot EXCEPT !.step = o].at = boot.at
  BY DEF KernelTypeOK

LEMMA RegisterKeeps ==
    ASSUME KernelInv, NEW m \in Module, Register(m)
    PROVE  KernelInv'
<1> USE DEF KernelInv
<1>1. /\ UNCHANGED <<dependsOn, state, order, status, failures, up, restarts, boot, call>>
      /\ registry' = registry \cup {m} /\ state = "created"
  BY DEF Register
<1>2. boot.step = "idle" /\ order = <<>> BY <1>1 DEF BootSteps
<1>3. KernelTypeOK'
  <2>1. order \in Seq(registry') BY <1>2
  <2> QED BY <1>1, <2>1 DEF KernelTypeOK
<1>4. BootSteps' /\ OrderStands' /\ BootedSoFar'
  BY <1>1, <1>2 DEF BootSteps, OrderStands, BootedSoFar
<1>5. DownInOrder'
  <2>1. \A n \in Module : Down(n) => Down(n)' BY <1>1 DEF Down
  <2> QED BY <1>1, <1>3, <2>1, DownFrame
<1>6. CrashesCounted'
  <2>1. \A n \in Module : failures[n] <= failures'[n] BY <1>1 DEF KernelTypeOK
  <2> QED BY <1>1, <1>3, <2>1, BootStepCounts
<1> QED BY <1>3, <1>4, <1>5, <1>6

\* Before boot() has an order, nothing is down that was up.
LEMMA NothingBooted ==
    ASSUME KernelInv, UNCHANGED <<order, status, up, restarts, call>>, order = <<>>,
           boot.step # "done", state' \in {"boot_failed", "booting"}
    PROVE  DownInOrder'
<1>1. up = {} BY DEF KernelInv, OrderStands
<1>2. \A m : Down(m)' BY <1>1 DEF Down
<1>3. \A c \in Call : call'[c].op # "shutdown" BY DEF KernelInv, BootSteps
<1>4. \A c \in Call : call'[c].op = "none" => call'[c].module = 0 BY DEF KernelInv, DownInOrder
<1> QED BY <1>1, <1>2, <1>3, <1>4 DEF DownInOrder

LEMMA BootBegins ==
    ASSUME KernelInv, Boot \/ ResolveFails
    PROVE  KernelInv'
<1> USE DEF KernelInv
<1>1. UNCHANGED <<dependsOn, registry, order, status, failures, up, restarts, call>>
  BY DEF Boot, ResolveFails
<1>2. /\ boot.step \in {"idle", "resolving"}
      /\ \/ state' = "booting" /\ boot' = [boot EXCEPT !.step = "resolving"]
         \/ state' = "boot_failed" /\ boot' = [boot EXCEPT !.step = "done"]
  BY DEF Boot, ResolveFails, BootSteps
<1>3. order = <<>> /\ boot'.at = boot.at /\ boot'.step \in {"resolving", "done"}
      /\ (boot'.step = "resolving" <=> state' = "booting")
      /\ state' \in {"booting", "boot_failed"}
  BY <1>2, BootRecord, ZenonT(20) DEF BootSteps
<1>4. KernelTypeOK'
  BY <1>1, <1>2 DEF KernelTypeOK, KernelState
<1>5. BootSteps' /\ OrderStands' /\ BootedSoFar'
  <2>1. \A c \in Call : call'[c].op \notin {"shutdown", "pause", "resume"} BY <1>1, <1>2 DEF BootSteps
  <2> QED BY <1>1, <1>3, <2>1 DEF BootSteps, OrderStands, BootedSoFar
<1>6. DownInOrder' BY <1>1, <1>2, <1>3, NothingBooted
<1>7. CrashesCounted'
  <2>1. \A n \in Module : failures[n] <= failures'[n] BY <1>1 DEF KernelTypeOK
  <2> QED BY <1>1, <1>4, <2>1, BootStepCounts
<1> QED BY <1>4, <1>5, <1>6, <1>7

\* The graph that boot() resolves is one the sort can take.
LEMMA RegisteredSortable ==
    ASSUME KernelTypeOK
    PROVE  Sortable(Registered, BootRank) /\ DOMAIN Registered = registry
<1>1. DOMAIN Registered = registry /\ registry \subseteq Module BY DEF Registered, KernelTypeOK
<1>2. IsFiniteSet(registry) BY <1>1, KernelAssumption, FS_Subset
<1> QED BY <1>1, <1>2, KernelAssumption DEF Sortable

LEMMA ResolvedOrder ==
    ASSUME KernelTypeOK, Resolves(Registered, BootRank), NEW o, o = Order(Registered, BootRank)
    PROVE  /\ o \in Seq(registry) /\ IsInjective(o) /\ ToSet(o) = registry
           /\ Len(o) \in Nat /\ ToSet(o) = {o[i] : i \in 1..Len(o)}
           /\ \A i \in 1..Len(o) : dependsOn[o[i]] \subseteq Before(o, i)
           /\ \A m \in registry : dependsOn[m] \subseteq registry
           /\ \A S \in SUBSET registry : S = {} \/ \E m \in S : dependsOn[m] \cap S = {}
<1> DEFINE g == Registered
<1>1. Sortable(g, BootRank) /\ DOMAIN g = registry /\ \A m \in registry : g[m] = dependsOn[m]
  BY RegisteredSortable DEF Registered
<1>2. /\ Ordered(g, o) /\ ToSet(o) = registry /\ Acyclic(g)
      /\ \A n \in registry : g[n] \subseteq registry
  <2> HIDE DEF g
  <2>1. Resolves(g, BootRank) /\ o = Order(g, BootRank) BY DEF g
  <2> QED BY <1>1, <2>1, SortCorrect
<1> HIDE DEF g
<1>3. o \in Seq(registry) BY <1>1, <1>2 DEF Ordered
<1>4. Len(o) \in Nat /\ DOMAIN o = 1..Len(o) /\ ToSet(o) = {o[i] : i \in 1..Len(o)}
      /\ \A i \in 1..Len(o) : o[i] \in registry
  BY <1>3, ListedIs, ElementOfSeq
<1>5. IsInjective(o) BY <1>2, <1>4 DEF Ordered, IsInjective
<1>6. \A i \in 1..Len(o) : dependsOn[o[i]] \subseteq Before(o, i) BY <1>1, <1>2, <1>4 DEF Ordered
<1>7. \A S \in SUBSET registry : S = {} \/ \E m \in S : dependsOn[m] \cap S = {}
  BY <1>1, <1>2 DEF Acyclic
<1> QED BY <1>1, <1>2, <1>3, <1>4, <1>5, <1>6, <1>7

\* What one turn of the loop of boot() does after i modules are started.
LEMMA StartNextIs ==
    ASSUME KernelTypeOK, NEW o \in Seq(Module), NEW i \in 0..Len(o), Len(o) \in Nat, StartNext(o, i)
    PROVE  \/ /\ i < Len(o) /\ boot' = [step |-> "starting", at |-> i + 1] /\ UNCHANGED state
              /\ status' \in [Module -> HealthStatus]
              /\ \A m \in Module : status'[m] = "STOPPED" => status[m] = "STOPPED"
           \/ i < Len(o) /\ boot' = [step |-> "threw", at |-> i] /\ UNCHANGED <<state, status>>
           \/ i = Len(o) /\ boot' = [boot EXCEPT !.step = "done"] /\ state' = "running" /\ UNCHANGED status
<1>1. CASE /\ i < Len(o) /\ boot' = [step |-> "starting", at |-> i + 1] /\ UNCHANGED state
           /\ status' = [status EXCEPT ![o[i + 1]] = "INITIALIZING"]
  <2>1. o[i + 1] \in Module BY <1>1, ElementOfSeq
  <2> QED BY <1>1, <2>1 DEF KernelTypeOK, HealthStatus
<1>2. CASE i < Len(o) /\ boot' = [step |-> "threw", at |-> i] /\ UNCHANGED <<state, status>> BY <1>2
<1>3. CASE /\ i = Len(o) /\ boot' = [boot EXCEPT !.step = "done"] /\ state' = "running"
           /\ UNCHANGED status
  BY <1>3
<1> QED BY <1>1, <1>2, <1>3 DEF StartNext

LEMMA ResolveKeeps ==
    ASSUME KernelInv, Resolve
    PROVE  /\ KernelInv'
           /\ state' = "running" => up = registry
           /\ \A m \in registry : dependsOn[m] \subseteq registry
           /\ \A S \in SUBSET registry : S = {} \/ \E m \in S : dependsOn[m] \cap S = {}
<1> USE DEF KernelInv
<1>1. /\ UNCHANGED <<dependsOn, registry, failures, up, restarts, call>>
      /\ boot.step = "resolving" /\ Resolves(Registered, BootRank)
      /\ order' = Order(Registered, BootRank) /\ StartNext(order', 0)
  BY DEF Resolve
<1>2. order = <<>> /\ state = "booting" /\ up = {} /\ boot.at = 0
  BY <1>1 DEF BootSteps, OrderStands
<1>3. PICK o : o = order' OBVIOUS
<1>4. /\ o \in Seq(registry) /\ IsInjective(o) /\ ToSet(o) = registry
      /\ Len(o) \in Nat /\ ToSet(o) = {o[i] : i \in 1..Len(o)}
      /\ \A i \in 1..Len(o) : dependsOn[o[i]] \subseteq Before(o, i)
      /\ \A m \in registry : dependsOn[m] \subseteq registry
      /\ \A S \in SUBSET registry : S = {} \/ \E m \in S : dependsOn[m] \cap S = {}
  <2>1. KernelTypeOK OBVIOUS
  <2> QED BY <1>1, <1>3, <2>1, ResolvedOrder
<1>5. \/ /\ 0 < Len(o) /\ boot' = [step |-> "starting", at |-> 1] /\ UNCHANGED state
         /\ status' \in [Module -> HealthStatus]
         /\ \A m \in Module : status'[m] = "STOPPED" => status[m] = "STOPPED"
      \/ 0 < Len(o) /\ boot' = [step |-> "threw", at |-> 0] /\ UNCHANGED <<state, status>>
      \/ 0 = Len(o) /\ boot' = [boot EXCEPT !.step = "done"] /\ state' = "running" /\ UNCHANGED status
  <2>1. registry \subseteq Module BY DEF KernelTypeOK
  <2>2. o \in Seq(Module) BY <1>4, <2>1, SeqMonotonic
  <2>3. 0 \in 0..Len(o) /\ KernelTypeOK /\ StartNext(o, 0) BY <1>1, <1>3, <1>4
  <2>4. 0 + 1 = 1 OBVIOUS
  <2> QED BY <1>4, <2>2, <2>3, <2>4, StartNextIs
<1>6. \/ /\ 0 < Len(o) /\ boot'.step = "starting" /\ boot'.at = 1 /\ state' = "booting" /\ o # <<>>
      \/ /\ 0 < Len(o) /\ boot'.step = "threw" /\ boot'.at = 0 /\ state' = "booting" /\ o # <<>>
      \/ /\ 0 = Len(o) /\ boot'.step = "done" /\ boot'.at = 0 /\ state' = "running" /\ o = <<>>
         /\ registry = {}
  <2>1. CASE 0 < Len(o) BY <1>2, <1>4, <1>5, <2>1
  <2>2. CASE 0 = Len(o)
    <3>1. o = <<>> BY <1>4, <2>2, EmptySeq
    <3>2. registry = {} BY <1>4, <2>2
    <3>3. boot' = [boot EXCEPT !.step = "done"] /\ state' = "running" BY <1>4, <1>5, <2>2
    <3> QED BY <1>2, <2>2, <3>1, <3>2, <3>3, BootRecord
  <2> QED BY <1>4, <2>1, <2>2
<1>7. KernelTypeOK'
  <2>1. status' \in [Module -> HealthStatus] /\ state' \in KernelState
    BY <1>5, <1>6 DEF KernelTypeOK, KernelState
  <2>2. boot' \in [step : {"idle", "resolving", "starting", "started", "threw", "unwinding", "done"}, at : 0..Len(o)]
    <3>1. CASE 0 < Len(o) /\ boot' = [step |-> "starting", at |-> 1] BY <1>4, <3>1
    <3>2. CASE 0 < Len(o) /\ boot' = [step |-> "threw", at |-> 0] BY <1>4, <3>2
    <3>3. CASE 0 = Len(o) /\ boot' = [boot EXCEPT !.step = "done"] BY <1>2, <3>3 DEF KernelTypeOK
    <3> QED BY <1>5, <3>1, <3>2, <3>3
  <2> QED BY <1>1, <1>3, <1>4, <2>1, <2>2 DEF KernelTypeOK
<1>8. BootSteps' /\ OrderStands' /\ BootedSoFar'
  <2>1. \A c \in Call : call'[c].op \notin {"shutdown", "pause", "resume", "crash", "restart"}
    BY <1>1, <1>2 DEF BootSteps, OrderStands
  <2>2. BootSteps' BY <1>3, <1>6, <2>1 DEF BootSteps
  <2>3. OrderStands'
    <3>1. CASE o = <<>> BY <1>1, <1>2, <1>3, <1>6, <2>1, <3>1 DEF OrderStands
    <3>2. CASE o # <<>>
      <4>1. Placed' = registry' BY <1>1, <1>3, <1>4 DEF Placed
      <4>2. \A i \in 1..Len(order') : dependsOn'[order'[i]] \subseteq Before(order', i) BY <1>1, <1>3, <1>4
      <4>3. /\ \A m \in registry' : dependsOn'[m] \subseteq registry'
            /\ \A S \in SUBSET registry' : S = {} \/ \E m \in S : dependsOn'[m] \cap S = {}
        BY <1>1, <1>4
      <4> QED BY <1>3, <3>2, <4>1, <4>2, <4>3 DEF OrderStands
    <3> QED BY <3>1, <3>2
  <2>4. BootedSoFar'
    <3>1. CASE boot'.step = "done" BY <3>1 DEF BootedSoFar
    <3>2. CASE boot'.step = "starting"
      <4>1. Before(order, boot.at)' = {} BY <1>6, <3>2 DEF Before
      <4> QED BY <1>1, <1>2, <1>6, <2>1, <3>2, <4>1 DEF BootedSoFar
    <3>3. CASE boot'.step = "threw"
      <4>1. Before(order, boot.at + 1)' = {} BY <1>6, <3>3 DEF Before
      <4> QED BY <1>1, <1>2, <1>6, <2>1, <3>3, <4>1 DEF BootedSoFar
    <3> QED BY <1>6, <3>1, <3>2, <3>3
  <2> QED BY <2>2, <2>3, <2>4
<1>9. DownInOrder'
  <2>1. \A m : Down(m)' BY <1>1, <1>2 DEF Down
  <2>2. \A c \in Call : call'[c].op # "shutdown" BY <1>1 DEF BootSteps
  <2>3. \A c \in Call : call'[c].op = "none" => call'[c].module = 0 BY <1>1 DEF DownInOrder
  <2> QED BY <1>1, <1>2, <2>1, <2>2, <2>3 DEF DownInOrder
<1>10. CrashesCounted'
  <2>1. \A n \in Module : failures[n] <= failures'[n] BY <1>1 DEF KernelTypeOK
  <2> QED BY <1>1, <1>7, <2>1, BootStepCounts
<1>11. state' = "running" => up = registry BY <1>2, <1>6
<1> QED BY <1>4, <1>7, <1>8, <1>9, <1>10, <1>11

\* While boot() is in its loop there is an order and no call but crash reports and polls.
LEMMA BootUnderWay ==
    ASSUME KernelInv, boot.step \in {"starting", "started", "unwinding"}
    PROVE  /\ order # <<>> /\ Placed = registry /\ state = "booting"
           /\ boot.at \in 0..Len(order) /\ Len(order) \in Nat
           /\ \A c \in Call : call[c].op \notin {"shutdown", "pause", "resume"}
           /\ boot.at > 0 => /\ order[boot.at] \in registry /\ order[boot.at] \in Module
                             /\ Before(order, boot.at + 1) = Before(order, boot.at) \cup {order[boot.at]}
                             /\ order[boot.at] \notin Before(order, boot.at)
<1> USE DEF KernelInv
<1>1. order # <<>> /\ Placed = registry BY DEF OrderStands
<1>2. state = "booting" /\ \A c \in Call : call[c].op \notin {"shutdown", "pause", "resume"} BY DEF BootSteps
<1>3. boot.at \in 0..Len(order) BY DEF KernelTypeOK
<1>4. /\ Len(order) \in Nat /\ Placed = {order[i] : i \in 1..Len(order)} /\ registry \subseteq Module
      /\ \A i, j \in 1..Len(order) : order[i] = order[j] => i = j
  BY KernelTypes
<1>5. ASSUME boot.at > 0
      PROVE  /\ order[boot.at] \in registry
             /\ Before(order, boot.at + 1) = Before(order, boot.at) \cup {order[boot.at]}
             /\ order[boot.at] \notin Before(order, boot.at)
  <2>1. PICK i \in 1..Len(order) : i = boot.at BY <1>3, <1>4, <1>5
  <2>2. 1..((i + 1) - 1) = (1..(i - 1)) \cup {i} /\ 1..(i - 1) \subseteq 1..Len(order) /\ i \notin 1..(i - 1)
    BY <1>4, <2>1
  <2>3. Before(order, i + 1) = Before(order, i) \cup {order[i]} BY <2>2 DEF Before
  <2>4. order[i] \notin Before(order, i) BY <1>4, <2>2 DEF Before
  <2> QED BY <1>1, <1>4, <2>1, <2>3, <2>4
<1> QED BY <1>1, <1>2, <1>3, <1>4, <1>5

\* A step of the loop that changes neither the order nor what it is of.
LEMMA LoopFrame ==
    ASSUME KernelInv, KernelTypeOK', boot.step \in {"starting", "started", "unwinding"},
           UNCHANGED <<dependsOn, registry, order, restarts, call>>,
           \A m \in Module : failures[m] <= failures'[m],
           \/ state' = state /\ boot'.step \in {"starting", "started", "threw", "unwinding"}
           \/ state' \in {"running", "boot_failed"} /\ boot'.step = "done"
    PROVE  /\ BootSteps' /\ OrderStands' /\ CrashesCounted'
           /\ Placed' = Placed
           /\ \A c \in Call : call'[c].op # "shutdown" /\ (call'[c].op = "none" => call'[c].module = 0)
<1>1. BootSteps' BY BootUnderWay DEF BootSteps
<1>2. OrderStands' BY BootUnderWay DEF KernelInv, OrderStands, Placed, Before
<1>3. CrashesCounted' BY BootStepCounts
<1>4. Placed' = Placed BY DEF Placed
<1>5. \A c \in Call : call'[c].op # "shutdown" /\ (call'[c].op = "none" => call'[c].module = 0)
  BY BootUnderWay DEF KernelInv, DownInOrder
<1> QED BY <1>1, <1>2, <1>3, <1>4, <1>5

LEMMA ModuleStartsKeeps ==
    ASSUME KernelInv, ModuleStarts
    PROVE  KernelInv'
<1> USE DEF KernelInv
<1> DEFINE m == order[boot.at]
<1>1. /\ UNCHANGED <<dependsOn, registry, state, order, failures, restarts, call>>
      /\ boot.step = "starting" /\ status' = [status EXCEPT ![m] = "READY"] /\ up' = up \cup {m}
      /\ boot' = [boot EXCEPT !.step = "started"]
  BY DEF ModuleStarts
<1>2. boot.at > 0 /\ up = Before(order, boot.at) BY <1>1 DEF BootedSoFar
<1>3. /\ m \in registry /\ m \in Module /\ state = "booting"
      /\ Before(order, boot.at + 1) = Before(order, boot.at) \cup {m}
  BY <1>1, <1>2, BootUnderWay
<1>4. boot'.step = "started" /\ boot'.at = boot.at BY <1>1, BootRecord
<1> HIDE DEF m
<1>5. KernelTypeOK'
  <2>1. boot' \in [step : {"idle", "resolving", "starting", "started", "threw", "unwinding", "done"}, at : 0..Len(order)]
    BY <1>1 DEF KernelTypeOK
  <2> QED BY <1>1, <1>3, <2>1 DEF KernelTypeOK, HealthStatus
<1>6. \A n \in Module : failures[n] <= failures'[n] BY <1>1 DEF KernelTypeOK
<1>7. /\ BootSteps' /\ OrderStands' /\ CrashesCounted'
      /\ \A c \in Call : call'[c].op # "shutdown" /\ (call'[c].op = "none" => call'[c].module = 0)
  BY <1>1, <1>4, <1>5, <1>6, LoopFrame
<1>8. BootedSoFar'
  <2>1. Before(order, boot.at + 1)' = Before(order, boot.at + 1) BY <1>1, <1>4
  <2>2. \A c \in Call : call'[c].op \in {"crash", "restart"} => call'[c].module \in up'
    BY <1>1 DEF BootedSoFar
  <2> QED BY <1>1, <1>2, <1>3, <1>4, <2>1, <2>2 DEF BootedSoFar
<1>9. DownInOrder'
  <2>1. \A n \in Module : status'[n] = "STOPPED" => Down(n)'
    BY <1>1, <1>3 DEF DownInOrder, Down, KernelTypeOK
  <2> QED BY <1>1, <1>3, <1>4, <1>7, <2>1 DEF DownInOrder
<1> QED BY <1>5, <1>7, <1>8, <1>9

LEMMA BootNextKeeps ==
    ASSUME KernelInv, BootNext
    PROVE  KernelInv' /\ (state' = "running" => up = registry /\ order # <<>>)
<1> USE DEF KernelInv
<1>1. /\ UNCHANGED <<dependsOn, registry, order, failures, up, restarts, call>>
      /\ boot.step = "started" /\ StartNext(order, boot.at)
  BY DEF BootNext
<1>2. boot.at > 0 /\ up = Before(order, boot.at + 1) BY <1>1 DEF BootedSoFar
<1>3. boot.at \in 0..Len(order) /\ Len(order) \in Nat /\ state = "booting" /\ Placed = registry /\ order # <<>>
  BY <1>1, BootUnderWay
<1>4. \/ /\ boot.at < Len(order) /\ boot' = [step |-> "starting", at |-> boot.at + 1] /\ UNCHANGED state
         /\ status' \in [Module -> HealthStatus]
         /\ \A n \in Module : status'[n] = "STOPPED" => status[n] = "STOPPED"
      \/ /\ boot.at < Len(order) /\ boot' = [step |-> "threw", at |-> boot.at] /\ UNCHANGED <<state, status>>
      \/ /\ boot.at = Len(order) /\ boot' = [boot EXCEPT !.step = "done"] /\ state' = "running"
         /\ UNCHANGED status
  <2>1. order \in Seq(registry) /\ registry \subseteq Module /\ KernelTypeOK BY DEF KernelTypeOK
  <2>2. order \in Seq(Module) BY <2>1, SeqMonotonic
  <2> QED BY <1>1, <1>3, <2>1, <2>2, StartNextIs
<1>5. \/ /\ boot.at < Len(order) /\ boot'.step = "starting" /\ boot'.at = boot.at + 1 /\ state' = state
      \/ /\ boot.at < Len(order) /\ boot'.step = "threw" /\ boot'.at = boot.at /\ state' = state
      \/ /\ boot.at = Len(order) /\ boot'.step = "done" /\ boot'.at = boot.at /\ state' = "running"
  <2>1. CASE boot' = [step |-> "starting", at |-> boot.at + 1] /\ boot.at < Len(order) /\ state' = state
    BY <2>1
  <2>2. CASE boot' = [boot EXCEPT !.step = "done"] /\ boot.at = Len(order) /\ state' = "running"
    BY <2>2, BootRecord
  <2>3. CASE boot' = [step |-> "threw", at |-> boot.at] /\ boot.at < Len(order) /\ state' = state
    BY <2>3
  <2> QED BY <1>4, <2>1, <2>2, <2>3
<1>6. KernelTypeOK'
  <2>1. boot' \in [step : {"idle", "resolving", "starting", "started", "threw", "unwinding", "done"}, at : 0..Len(order)]
    <3>1. CASE boot.at < Len(order) /\ boot' = [step |-> "starting", at |-> boot.at + 1] BY <1>3, <3>1
    <3>2. CASE boot' = [boot EXCEPT !.step = "done"] BY <3>2 DEF KernelTypeOK
    <3>3. CASE boot' = [step |-> "threw", at |-> boot.at] BY <1>3, <3>3
    <3> QED BY <1>4, <3>1, <3>2, <3>3
  <2>2. status' \in [Module -> HealthStatus] /\ state' \in KernelState BY <1>4 DEF KernelTypeOK, KernelState
  <2> QED BY <1>1, <2>1, <2>2 DEF KernelTypeOK
<1>7. \A n \in Module : failures[n] <= failures'[n] BY <1>1 DEF KernelTypeOK
<1>8. /\ BootSteps' /\ OrderStands' /\ CrashesCounted' /\ Placed' = Placed
      /\ \A c \in Call : call'[c].op # "shutdown" /\ (call'[c].op = "none" => call'[c].module = 0)
  BY <1>1, <1>5, <1>6, <1>7, LoopFrame
<1>9. boot.at = Len(order) => up = registry
  <2>1. Placed = {order[i] : i \in 1..Len(order)} BY KernelTypes
  <2>2. boot.at = Len(order) => (boot.at + 1) - 1 = Len(order) BY <1>3
  <2> QED BY <1>2, <1>3, <2>1, <2>2 DEF Before
<1>10. BootedSoFar'
  <2>1. CASE boot'.step = "starting"
    <3>1. Before(order, boot.at)' = Before(order, boot.at + 1) BY <1>1, <1>5, <2>1
    <3>2. \A c \in Call : call'[c].op \in {"crash", "restart"} => call'[c].module \in up'
      BY <1>1 DEF BootedSoFar
    <3>3. boot'.at > 0 BY <1>3, <1>5, <2>1
    <3> QED BY <1>1, <1>2, <2>1, <3>1, <3>2, <3>3 DEF BootedSoFar
  <2>2. CASE boot'.step = "done" BY <2>2 DEF BootedSoFar
  <2>3. CASE boot'.step = "threw"
    <3>1. Before(order, boot.at + 1)' = Before(order, boot.at + 1) BY <1>1, <1>5, <2>3
    <3>2. \A c \in Call : call'[c].op \in {"crash", "restart"} => call'[c].module \in up'
      BY <1>1 DEF BootedSoFar
    <3> QED BY <1>1, <1>2, <2>3, <3>1, <3>2 DEF BootedSoFar
  <2> QED BY <1>5, <2>1, <2>2, <2>3
<1>11. DownInOrder'
  <2>1. \A n \in Module : status'[n] = "STOPPED" => Down(n)'
    BY <1>1, <1>4 DEF DownInOrder, Down
  <2>2. boot'.step = "done" => Placed' \ up' = {} BY <1>1, <1>3, <1>5, <1>8, <1>9
  <2>3. state' \notin {"boot_failed", "stopped"} BY <1>3, <1>5
  <2> QED BY <1>8, <2>1, <2>2, <2>3 DEF DownInOrder
<1> QED BY <1>3, <1>5, <1>6, <1>8, <1>9, <1>10, <1>11

LEMMA ModuleStartFailsKeeps ==
    ASSUME KernelInv, ModuleStartFails
    PROVE  KernelInv'
<1> USE DEF KernelInv
<1> DEFINE m == order[boot.at]
<1>1. /\ UNCHANGED <<dependsOn, registry, state, order, up, restarts, call>>
      /\ boot.step = "starting" /\ status' = [status EXCEPT ![m] = "FAILED"]
      /\ failures' = [failures EXCEPT ![m] = @ + 1]
      /\ boot' = [step |-> "unwinding", at |-> boot.at - 1]
  BY DEF ModuleStartFails
<1>2. boot.at > 0 /\ up = Before(order, boot.at) BY <1>1 DEF BootedSoFar
<1>3. m \in Module /\ state = "booting" /\ boot.at \in 0..Len(order) /\ Len(order) \in Nat
  BY <1>1, <1>2, BootUnderWay
<1>4. boot'.step = "unwinding" /\ boot'.at = boot.at - 1 /\ boot'.at + 1 = boot.at BY <1>1, <1>3
<1> HIDE DEF m
<1>5. failures' \in [Module -> Nat] /\ \A n \in Module : failures[n] <= failures'[n]
  <2>1. failures \in [Module -> Nat] BY DEF KernelTypeOK
  <2>2. \A n \in Module : failures'[n] = IF n = m THEN failures[n] + 1 ELSE failures[n] BY <1>1, <2>1
  <2>3. \A n \in Module : failures[n] \in Nat BY <2>1
  <2> QED BY <1>1, <1>3, <2>1, <2>2, <2>3
<1>6. KernelTypeOK'
  <2>1. boot' \in [step : {"idle", "resolving", "starting", "started", "threw", "unwinding", "done"}, at : 0..Len(order)]
    BY <1>1, <1>2, <1>3
  <2>2. status' \in [Module -> HealthStatus] BY <1>1 DEF KernelTypeOK, HealthStatus
  <2> QED BY <1>1, <1>5, <2>1, <2>2 DEF KernelTypeOK
<1>7. /\ BootSteps' /\ OrderStands' /\ CrashesCounted'
      /\ \A c \in Call : call'[c].op # "shutdown" /\ (call'[c].op = "none" => call'[c].module = 0)
  BY <1>1, <1>4, <1>5, <1>6, LoopFrame
<1>8. BootedSoFar'
  <2>1. Before(order, boot.at + 1)' = Before(order, boot.at) BY <1>1, <1>4
  <2> QED BY <1>1, <1>2, <1>4, <2>1 DEF BootedSoFar
<1>9. DownInOrder'
  <2>1. \A n \in Module : status'[n] = "STOPPED" => Down(n)'
    BY <1>1, <1>3 DEF DownInOrder, Down, KernelTypeOK
  <2> QED BY <1>1, <1>3, <1>4, <1>7, <2>1 DEF DownInOrder
<1> QED BY <1>6, <1>7, <1>8, <1>9

\* The module that is unwound is the last one that was started and still is up.
LEMMA UnwindModuleKeeps ==
    ASSUME KernelInv, UnwindModule
    PROVE  KernelInv'
<1> USE DEF KernelInv
<1> DEFINE m == order[boot.at]
<1>1. /\ UNCHANGED <<dependsOn, registry, state, order, failures, restarts, call>>
      /\ boot.step = "unwinding" /\ boot.at > 0 /\ status' = [status EXCEPT ![m] = "STOPPED"]
      /\ up' = up \ {m} /\ boot' = [boot EXCEPT !.at = @ - 1]
  BY DEF UnwindModule
<1>2. /\ m \in Module /\ state = "booting" /\ boot.at \in 0..Len(order) /\ Len(order) \in Nat
      /\ Before(order, boot.at + 1) = Before(order, boot.at) \cup {m} /\ m \notin Before(order, boot.at)
  BY <1>1, BootUnderWay
<1>3. /\ Before(order, boot.at + 1) \subseteq up
      /\ \A n \in up \ Before(order, boot.at + 1) : restarts[n] > 0
  BY <1>1 DEF BootedSoFar
<1>4. boot'.step = "unwinding" /\ boot'.at = boot.at - 1 /\ boot'.at + 1 = boot.at
  BY <1>1, <1>2 DEF KernelTypeOK
<1> HIDE DEF m
<1>5. \A n \in Module : failures[n] <= failures'[n] BY <1>1 DEF KernelTypeOK
<1>6. KernelTypeOK'
  <2>1. boot' \in [step : {"idle", "resolving", "starting", "started", "threw", "unwinding", "done"}, at : 0..Len(order)]
    <3>1. boot.at - 1 \in 0..Len(order) BY <1>1, <1>2
    <3>2. boot \in [step : {"idle", "resolving", "starting", "started", "threw", "unwinding", "done"}, at : 0..Len(order)]
      BY DEF KernelTypeOK
    <3> QED BY <1>1, <3>1, <3>2
  <2>2. status' \in [Module -> HealthStatus] BY <1>1 DEF KernelTypeOK, HealthStatus
  <2> QED BY <1>1, <2>1, <2>2 DEF KernelTypeOK
<1>7. /\ BootSteps' /\ OrderStands' /\ CrashesCounted'
      /\ \A c \in Call : call'[c].op # "shutdown" /\ (call'[c].op = "none" => call'[c].module = 0)
  BY <1>1, <1>4, <1>5, <1>6, LoopFrame
<1>8. BootedSoFar'
  <2>1. Before(order, boot.at + 1)' = Before(order, boot.at) BY <1>1, <1>4
  <2>2. Before(order, boot.at) \subseteq up' BY <1>1, <1>2, <1>3
  <2>3. \A n \in up' \ Before(order, boot.at) : restarts[n] > 0 BY <1>1, <1>2, <1>3
  <2> QED BY <1>1, <1>4, <2>1, <2>2, <2>3 DEF BootedSoFar
<1>9. DownInOrder'
  <2>1. \A n \in Module : status'[n] = "STOPPED" => Down(n)'
    BY <1>1, <1>2 DEF DownInOrder, Down, KernelTypeOK
  <2> QED BY <1>1, <1>2, <1>4, <1>7, <2>1 DEF DownInOrder
<1> QED BY <1>6, <1>7, <1>8, <1>9

LEMMA UnwindEndsKeeps ==
    ASSUME KernelInv, UnwindEnds
    PROVE  KernelInv' /\ \A m \in up : restarts[m] > 0
<1> USE DEF KernelInv
<1>1. /\ UNCHANGED <<dependsOn, registry, order, status, failures, up, restarts, call>>
      /\ boot.step = "unwinding" /\ boot.at = 0 /\ state' = "boot_failed"
      /\ boot' = [boot EXCEPT !.step = "done"]
  BY DEF UnwindEnds
<1>2. boot'.step = "done" /\ boot'.at = 0 BY <1>1, BootRecord
<1>3. \A m \in up : restarts[m] > 0
  <2>1. Before(order, boot.at + 1) = {} BY <1>1 DEF Before
  <2> QED BY <1>1, <2>1 DEF BootedSoFar
<1>4. KernelTypeOK' BY <1>1 DEF KernelTypeOK, KernelState
<1>5. \A n \in Module : failures[n] <= failures'[n] BY <1>1 DEF KernelTypeOK
<1>6. /\ BootSteps' /\ OrderStands' /\ CrashesCounted'
      /\ \A c \in Call : call'[c].op # "shutdown" /\ (call'[c].op = "none" => call'[c].module = 0)
  BY <1>1, <1>2, <1>4, <1>5, LoopFrame
<1>7. BootedSoFar' BY <1>2 DEF BootedSoFar
<1>8. DownInOrder'
  <2>1. \A n : Down(n)' BY <1>1, <1>3 DEF Down
  <2> QED BY <1>1, <1>3, <1>6, <2>1 DEF DownInOrder
<1> QED BY <1>3, <1>4, <1>6, <1>7, <1>8

LEMMA KernelInitInv == KernelInit => KernelInv
<1> SUFFICES ASSUME KernelInit PROVE KernelInv OBVIOUS
<1> USE KernelAssumption DEF KernelInit
<1>1. KernelTypeOK
  <2>1. order \in Seq(registry) /\ Len(order) = 0 BY EmptySeq
  <2>2. IsInjective(order) BY DEF IsInjective
  <2> QED BY <2>1, <2>2 DEF KernelTypeOK, KernelState, HealthStatus, Operation
<1>2. BootSteps /\ OrderStands /\ BootedSoFar BY DEF BootSteps, OrderStands, BootedSoFar
<1>3. DownInOrder BY DEF DownInOrder, Down
<1>4. CrashesCounted
  <2>1. \A m : Pending(m) = {} BY DEF Pending
  <2>2. Cardinality({}) = 0 BY FS_EmptySet
  <2>3. MaxRestarts \in Nat OBVIOUS
  <2>4. \A m \in Module : restarts[m] = 0 /\ failures[m] = 0 /\ Cardinality(Pending(m)) = 0 BY <2>1, <2>2
  <2>5. \A m \in Module : /\ restarts[m] + Cardinality(Pending(m)) <= failures[m]
                          /\ restarts[m] + Cardinality(Pending(m)) <= MaxRestarts
    BY <2>3, <2>4
  <2>6. \A c \in Call : call[c].op = "none" OBVIOUS
  <2> QED BY <2>5, <2>6 DEF CrashesCounted
<1> QED BY <1>1, <1>2, <1>3, <1>4 DEF KernelInv

LEMMA KernelUnchanged == KernelInv /\ UNCHANGED kernelVars => KernelInv'
<1> SUFFICES ASSUME KernelInv, UNCHANGED kernelVars PROVE KernelInv' OBVIOUS
<1> USE DEF KernelInv
<1>1. /\ UNCHANGED <<dependsOn, registry, order, boot>> /\ UNCHANGED state /\ UNCHANGED status
      /\ UNCHANGED <<restarts, call>> /\ UNCHANGED up /\ UNCHANGED failures
  BY DEF kernelVars
<1>2. KernelTypeOK' BY <1>1 DEF KernelTypeOK
<1>3. /\ BootSteps' /\ OrderStands' /\ BootedSoFar'
  <2>1. boot.step # "done" => \A c \in Call : call'[c].op \notin {"shutdown", "pause", "resume"}
    BY <1>1 DEF BootSteps
  <2>2. order = <<>> => \A c \in Call : call'[c].op \notin {"crash", "restart"}
    BY <1>1 DEF OrderStands
  <2> QED BY <1>1, <2>1, <2>2, BootFrame
<1>4. CrashesCounted'
  <2>1. \A m \in Module : failures[m] <= failures'[m] BY <1>1 DEF KernelTypeOK
  <2> QED BY <1>1, <1>2, <2>1, BootStepCounts
<1>5. DownInOrder'
  <2>1. \A m \in Module : Down(m) => Down(m)' BY <1>1 DEF Down
  <2> QED BY <1>1, <1>2, <2>1, DownFrame
<1> QED BY <1>2, <1>3, <1>4, <1>5

\* Every step of the kernel, one case per action, preserves the invariant.
LEMMA KernelStepInv == KernelInv /\ [KernelNext]_kernelVars => KernelInv'
  BY ResolveKeeps, BootBegins, ModuleStartsKeeps, ModuleStartFailsKeeps, BootNextKeeps, UnwindModuleKeeps,
     UnwindEndsKeeps, ShutdownNextKeeps, LifecycleCallKeeps, CrashRestartsKeeps, CrashEscalatesKeeps,
     RestartEndsKeeps, HealthKeeps, RegisterKeeps, ReportCrashKeeps, KernelUnchanged
     DEF KernelNext, KernelProceed

LEMMA KernelInvSafe == KernelInv => KernelSafe
<1> SUFFICES ASSUME KernelInv PROVE KernelSafe OBVIOUS
<1> USE DEF KernelInv
<1>1. ASSUME NEW m \in up PROVE m \in registry /\ m \in Module /\ m \in Placed /\ order # <<>>
  BY <1>1 DEF KernelTypeOK, OrderStands
<1>2. boot.step \in {"starting", "started", "threw", "unwinding", "done"} \/ order = <<>>
  BY DEF KernelTypeOK, BootSteps
<1>3. DependenciesUp
  <2> SUFFICES ASSUME NEW m \in up \ Audit, NEW d \in dependsOn[m], d \notin up PROVE restarts[m] > 0
    BY DEF DependenciesUp
  <2>1. d \in Placed /\ ShutsBefore(m, d) BY <1>1, DependentsFirst
  <2>2. CASE boot.step = "done" BY <1>1, <2>1, <2>2 DEF DownInOrder, Down
  <2>3. ASSUME NEW k \in 0..(Len(order) + 1), Before(order, k) \subseteq up, m \in Before(order, k) PROVE FALSE
    <3>1. PICK i \in 1..(k - 1) : order[i] = m BY <2>3 DEF Before
    <3>2. i \in 1..Len(order) /\ 1..(i - 1) \subseteq 1..(k - 1) BY <3>1, KernelTypes
    <3>3. d \in Before(order, i) BY <1>1, <3>1, <3>2 DEF OrderStands
    <3>4. d \in Before(order, k) BY <3>2, <3>3 DEF Before
    <3> QED BY <2>3, <3>4
  <2>4. boot.at \in 0..Len(order) /\ Len(order) \in Nat
        /\ boot.at \in 0..(Len(order) + 1) /\ boot.at + 1 \in 0..(Len(order) + 1)
    BY KernelTypes DEF KernelTypeOK
  <2>5. CASE boot.step = "starting"
    <3>1. up = Before(order, boot.at) BY <2>5 DEF BootedSoFar
    <3> QED BY <2>3, <2>4, <3>1
  <2>6. CASE boot.step \in {"started", "threw"}
    <3>1. up = Before(order, boot.at + 1) BY <2>6 DEF BootedSoFar
    <3> QED BY <2>3, <2>4, <3>1
  <2>7. CASE boot.step = "unwinding"
    <3>1. /\ Before(order, boot.at + 1) \subseteq up
          /\ \A n \in up \ Before(order, boot.at + 1) : restarts[n] > 0
      BY <2>7 DEF BootedSoFar
    <3> QED BY <2>3, <2>4, <3>1
  <2> QED BY <1>1, <1>2, <2>2, <2>5, <2>6, <2>7
<1>4. AuditLast
  <2> SUFFICES ASSUME boot.step = "done", NEW a \in (Audit \cap Placed) \ up, NEW m \in up \ Audit
               PROVE  restarts[m] > 0
    BY DEF AuditLast, Placed
  <2>1. ShutsBefore(m, a) BY DEF ShutsBefore
  <2> QED BY <1>1, <2>1 DEF DownInOrder, Down
<1>5. StoppedIsDown BY DEF DownInOrder, StoppedIsDown
<1>6. RestartBounded
  <2> SUFFICES ASSUME NEW m \in Module PROVE restarts[m] <= MaxRestarts BY DEF RestartBounded
  <2>1. MaxRestarts \in Nat BY KernelAssumption
  <2>2. Cardinality(Pending(m)) \in Nat BY <2>1, PendingFinite
  <2>3. restarts[m] \in Nat /\ restarts[m] + Cardinality(Pending(m)) <= MaxRestarts
    BY DEF KernelTypeOK, CrashesCounted
  <2> QED BY <2>1, <2>2, <2>3
<1> QED BY <1>3, <1>4, <1>5, <1>6 DEF KernelSafe

\* Whatever crashes, is polled, paused or shut down meanwhile: no module runs above a
\* stopped dependency, audit goes down last, a stopped kernel is down and restarts are
\* bounded, for any modules, acyclic or not, any calls and any restart policy.
THEOREM KernelSafety == KernelSpec => []KernelSafe
  BY KernelInitInv, KernelStepInv, KernelInvSafe, PTL DEF KernelSpec

\* Where boot() reaches an end of its own it is fail-closed: "running" only with every
\* registered module up and none waiting for itself, "boot_failed" with none up but the
\* restarted.  While it stands where a throwing attach() left it, exactly the modules
\* ordered before that one are up.  Nothing is said of shutdown().
THEOREM KernelBootFailClosed == KernelSpec => BootFailClosed
<1> DEFINE Closed ==
      state = "booting" =>
        /\ state' = "running" =>
            /\ up = registry
            /\ \A m \in registry : dependsOn[m] \subseteq registry
            /\ \A S \in SUBSET registry : S = {} \/ \E m \in S : dependsOn[m] \cap S = {}
        /\ state' = "boot_failed" => \A m \in up : restarts[m] > 0
        /\ boot'.step = "threw" => up' = {order'[i] : i \in 1..boot'.at}
<1>0. ASSUME KernelInv', boot'.step = "threw" PROVE up' = {order'[i] : i \in 1..boot'.at}
  <2>1. up' = Before(order', boot'.at + 1) /\ boot'.at \in Nat
    BY <1>0 DEF KernelInv, BootedSoFar, KernelTypeOK
  <2>2. 1..((boot'.at + 1) - 1) = 1..boot'.at BY <2>1
  <2> QED BY <2>1, <2>2 DEF Before
<1>1. KernelInv /\ KernelInv' /\ [KernelNext]_kernelVars => Closed
  <2> SUFFICES ASSUME KernelInv, KernelInv', [KernelNext]_kernelVars, state = "booting", state' # state
               PROVE  /\ state' = "running" =>
                          /\ up = registry
                          /\ \A m \in registry : dependsOn[m] \subseteq registry
                          /\ \A S \in SUBSET registry : S = {} \/ \E m \in S : dependsOn[m] \cap S = {}
                      /\ state' = "boot_failed" => \A m \in up : restarts[m] > 0
    BY <1>0
  <2>1. boot.step # "done" /\ \A c \in Call : call[c].op \notin {"shutdown", "pause", "resume"}
    BY DEF KernelInv, BootSteps
  <2>2. Resolve \/ ResolveFails \/ BootNext \/ UnwindEnds
    BY <2>1 DEF KernelNext, KernelProceed, kernelVars, Register, Boot, ModuleStarts, ModuleStartFails,
                UnwindModule, ShutdownNext, LullEnds, CrashRestarts, CrashEscalates, CanShutdown,
                RestartEnds, Polled, Shutdown, Pause, Resume, Health, ReportCrash
  <2>3. CASE Resolve
    <3>1. state' # "boot_failed" BY <2>3 DEF Resolve, StartNext
    <3> QED BY <2>3, <3>1, ResolveKeeps
  <2>4. CASE ResolveFails
    <3>1. state' = "boot_failed" /\ up = {} BY <2>4 DEF ResolveFails, KernelInv, BootSteps, OrderStands
    <3> QED BY <3>1
  <2>5. CASE BootNext
    <3>1. state' # "boot_failed" BY <2>5 DEF BootNext, StartNext
    <3>2. state' = "running" => up = registry /\ order # <<>> BY <2>5, BootNextKeeps
    <3> QED BY <3>1, <3>2 DEF KernelInv, OrderStands
  <2>6. CASE UnwindEnds
    <3>1. state' = "boot_failed" BY <2>6 DEF UnwindEnds
    <3> QED BY <2>6, <3>1, UnwindEndsKeeps
  <2> QED BY <2>2, <2>3, <2>4, <2>5, <2>6
<1> QED BY <1>1, KernelInitInv, KernelStepInv, PTL DEF KernelSpec, BootFailClosed

-----------------------------------------------------------------------------
(* The workflows: which nodes are blocked *)

\* The course of the loop over s that collects the blocked nodes.
Blocking(g, s, failed, f) ==
    f = [i \in 0..Len(s) |-> IF i = 0 THEN failed ELSE AddBlocked(g, s[i], f[i - 1])]

\* B is what failed and all that depends on a member of B.
BlockedBy(g, failed, B) ==
    /\ failed \subseteq B /\ B \subseteq DOMAIN g
    /\ \A n \in DOMAIN g : n \in B <=> n \in failed \/ g[n] \cap B # {}

\* A turn of the loop settles its node and no earlier one.
LEMMA TurnSettles ==
    ASSUME NEW g, NEW s, Ordered(g, s), NEW failed \in SUBSET DOMAIN g,
           NEW k \in 0..(Len(s) - 1), NEW X \in SUBSET DOMAIN g, failed \subseteq X,
           \A j \in 1..k : s[j] \in X <=> s[j] \in failed \/ g[s[j]] \cap X # {},
           \A j \in (k + 1)..Len(s) : s[j] \in X <=> s[j] \in failed
    PROVE  LET Y == AddBlocked(g, s[k + 1], X)
           IN  /\ Y \in SUBSET DOMAIN g /\ failed \subseteq Y
               /\ \A j \in 1..(k + 1) : s[j] \in Y <=> s[j] \in failed \/ g[s[j]] \cap Y # {}
               /\ \A j \in (k + 2)..Len(s) : s[j] \in Y <=> s[j] \in failed
<1> DEFINE n == s[k + 1]
           Y == AddBlocked(g, n, X)
<1>1. Len(s) \in Nat /\ k + 1 \in 1..Len(s) /\ k \in Nat
  BY ListedIs DEF Ordered
<1>2. n \in DOMAIN g
  BY <1>1, ElementOfSeq DEF Ordered
<1>3. (Y = X /\ g[n] \cap X = {}) \/ (Y = X \cup {n} /\ g[n] \cap X # {})
  BY DEF AddBlocked
<1>4. \A j \in 1..(k + 1) : n \notin g[s[j]]
  <2> SUFFICES ASSUME NEW j \in 1..(k + 1), n \in g[s[j]] PROVE FALSE OBVIOUS
  <2>1. j \in 1..Len(s) BY <1>1
  <2>2. n \in Before(s, j) BY <2>1 DEF Ordered
  <2>3. PICK i \in 1..(j - 1) : s[i] = n BY <2>2 DEF Before
  <2>4. i \in 1..Len(s) /\ i # k + 1 BY <1>1, <2>1
  <2> QED BY <1>1, <2>3, <2>4 DEF Ordered
<1>5. \A j \in 1..Len(s) : s[j] = n => j = k + 1
  BY <1>1 DEF Ordered
<1> HIDE DEF n, Y
<1>6. Y \in SUBSET DOMAIN g /\ failed \subseteq Y
  BY <1>2, <1>3
<1>7. ASSUME NEW j \in 1..(k + 1) PROVE s[j] \in Y <=> s[j] \in failed \/ g[s[j]] \cap Y # {}
  <2>1. g[s[j]] \cap Y = g[s[j]] \cap X BY <1>3, <1>4
  <2>2. CASE j \in 1..k
    <3>1. s[j] # n BY <1>1, <1>5, <2>2
    <3> QED BY <1>3, <2>1, <2>2, <3>1
  <2>3. CASE j = k + 1
    <3>1. s[j] = n BY <2>3 DEF n
    <3>2. k + 1 \in (k + 1)..Len(s) BY <1>1
    <3>3. n \in X <=> n \in failed BY <3>2 DEF n
    <3> QED BY <1>3, <2>1, <3>1, <3>3
  <2> QED BY <1>1, <2>2, <2>3
<1>8. ASSUME NEW j \in (k + 2)..Len(s) PROVE s[j] \in Y <=> s[j] \in failed
  <2>1. j \in (k + 1)..Len(s) /\ j \in 1..Len(s) /\ j # k + 1 BY <1>1
  <2> QED BY <1>3, <1>5, <2>1
<1> QED BY <1>6, <1>7, <1>8 DEF Y, n

\* The loop of execute() blocks what failed and all that depends on it, however far.
LEMMA LoopBlocks ==
    ASSUME NEW g, NEW s, Ordered(g, s), ToSet(s) = DOMAIN g, NEW failed \in SUBSET DOMAIN g
    PROVE  BlockedBy(g, failed, (CHOOSE f : Blocking(g, s, failed, f))[Len(s)])
<1> DEFINE N == Len(s)
           V == SUBSET DOMAIN g
           F == [k \in 1..N |-> [X \in V |-> AddBlocked(g, s[k], X)]]
           upto == CHOOSE f : Blocking(g, s, failed, f)
<1>1. N \in Nat /\ \A k \in 1..N : s[k] \in DOMAIN g
  BY ListedIs, ElementOfSeq DEF Ordered
<1>2. \A k \in 1..N : \A X \in V : AddBlocked(g, s[k], X) \in V
  BY <1>1 DEF AddBlocked
<1>3. F \in [1..N -> [V -> V]]
  BY <1>2
<1>4. \A k \in 1..N : \A X \in V : F[k][X] = AddBlocked(g, s[k], X)
  OBVIOUS
<1> HIDE DEF N, F
<1>5. \E f : Blocking(g, s, failed, f)
  <2>1. PICK f \in [0..N -> V] : f[0] = failed /\ \A k \in 1..N : f[k] = F[k][f[k - 1]]
    <3> DEFINE a == failed
    <3>1. a \in V /\ N \in Nat BY <1>1
    <3> HIDE DEF V, a
    <3>2. \E f \in [0..N -> V] : f[0] = a /\ \A k \in 1..N : f[k] = F[k][f[k - 1]]
      BY <1>3, <3>1, LoopRuns
    <3> QED BY <3>2 DEF a
  <2> HIDE DEF V
  <2>2. ASSUME NEW k \in 0..N
        PROVE  f[k] = IF k = 0 THEN failed ELSE AddBlocked(g, s[k], f[k - 1])
    <3>1. CASE k = 0 BY <2>1, <3>1
    <3>2. CASE k # 0
      <4>1. k \in 1..N /\ k - 1 \in 0..N BY <1>1, <3>2
      <4>2. f[k - 1] \in V BY <2>1, <4>1
      <4> QED BY <1>4, <2>1, <3>2, <4>1, <4>2
    <3> QED BY <3>1, <3>2
  <2>3. f = [k \in 0..N |-> IF k = 0 THEN failed ELSE AddBlocked(g, s[k], f[k - 1])]
    BY <2>1, <2>2
  <2> QED BY <2>3 DEF Blocking, N
<1>6. Blocking(g, s, failed, upto)
  BY <1>5
<1> HIDE DEF upto
<1>7. /\ upto[0] = failed
      /\ \A k \in 1..N : upto[k] = AddBlocked(g, s[k], upto[k - 1])
  BY <1>1, <1>6 DEF Blocking, N
<1> DEFINE good == {k \in 0..N :
              /\ upto[k] \in SUBSET DOMAIN g /\ failed \subseteq upto[k]
              /\ \A j \in 1..k : s[j] \in upto[k] <=> s[j] \in failed \/ g[s[j]] \cap upto[k] # {}
              /\ \A j \in (k + 1)..N : s[j] \in upto[k] <=> s[j] \in failed}
<1>8. \A k \in 0..N : k \in good
  <2>1. 0 \in good
    BY <1>1, <1>7
  <2>2. ASSUME NEW k \in 0..(N - 1), k \in good PROVE k + 1 \in good
    <3>1. k + 1 \in 1..N /\ (k + 1) - 1 = k /\ k + 1 \in 0..N /\ (k + 1) + 1 = k + 2 BY <1>1
    <3>2. upto[k + 1] = AddBlocked(g, s[k + 1], upto[k]) BY <1>7, <3>1
    <3> DEFINE X == upto[k]
               Y == upto[k + 1]
    <3>3. /\ X \in SUBSET DOMAIN g /\ failed \subseteq X
          /\ \A j \in 1..k : s[j] \in X <=> s[j] \in failed \/ g[s[j]] \cap X # {}
          /\ \A j \in (k + 1)..N : s[j] \in X <=> s[j] \in failed
      BY <2>2
    <3>4. /\ Y \in SUBSET DOMAIN g /\ failed \subseteq Y
          /\ \A j \in 1..(k + 1) : s[j] \in Y <=> s[j] \in failed \/ g[s[j]] \cap Y # {}
          /\ \A j \in (k + 2)..N : s[j] \in Y <=> s[j] \in failed
      <4>1. k \in 0..(Len(s) - 1) BY DEF N
      <4>2. Y = AddBlocked(g, s[k + 1], X) BY <3>2
      <4> HIDE DEF X, Y
      <4> QED BY <3>3, <4>1, <4>2, TurnSettles, ZenonT(20) DEF N
    <3> QED BY <3>1, <3>4
  <2> HIDE DEF good
  <2> QED BY <1>1, <2>1, <2>2, UptoInduction
<1>9. N \in good
  BY <1>1, <1>8
<1>10. \A n \in DOMAIN g : \E j \in 1..N : s[j] = n
  BY ListedIs DEF Ordered, N
<1>11. BlockedBy(g, failed, upto[N])
  BY <1>9, <1>10 DEF BlockedBy
<1> QED BY <1>11 DEF upto, N

-----------------------------------------------------------------------------
(* The workflows: the inductive invariant *)

NodeStatus == {"none", "running", "succeeded", "failed", "skipped"}

\* Only what all its dependencies let run was run, and only what one of them blocks
\* was skipped.
Follows(g, result) ==
    \A n \in DOMAIN g :
        /\ result[n] \in {"running", "succeeded", "failed"} => \A d \in g[n] : result[d] = "succeeded"
        /\ result[n] = "skipped" => \E d \in g[n] : result[d] \in {"failed", "skipped"}

\* The nodes of a workflow that is not yet or never run, of one that succeeded, and
\* where the pipeline is with each of them.
NodesFollow(w) ==
    /\ workflow[w] \in {"planned", "invalid"} => \A n \in DOMAIN plan[w] : node[n] = "none"
    /\ workflow[w] \notin {"planned", "invalid"} => PlanValid[plan[w]]
    /\ workflow[w] = "succeeded" => \A n \in DOMAIN plan[w] : node[n] = "succeeded"
    /\ Follows(plan[w], node)
    /\ \A m, n \in DOMAIN plan[w] : node[m] = "running" /\ node[n] = "running" => m = n
    /\ \A n \in DOMAIN plan[w] :
        /\ node[n] \in {"none", "skipped"} => pc[n] = "idle"
        /\ node[n] = "succeeded" => pc[n] = "returned" /\ outcome[n] = "VERIFIED"

\* The inductive invariant.
OrchestratorInv ==
    /\ TypeOK
    /\ PipelineInv
    /\ \A w \in Workflow : NodesFollow(w)

\* What the planner returns can be sorted; the members of a valid plan are listed
\* behind all they depend on, and execute() blocks what its failures block.
LEMMA PlanSorted ==
    ASSUME NEW w \in Workflow, NEW g \in PlannedGraphs[w]
    PROVE  /\ g \in PlannedGraph /\ DOMAIN g \subseteq Run /\ DOMAIN g \cap Direct = {}
           /\ DOMAIN g \subseteq Nat
           /\ Ordered(g, PlanOrder[g])
           /\ PlanValid[g] <=> (\A n \in DOMAIN g : g[n] \subseteq DOMAIN g) /\ Acyclic(g)
           /\ PlanValid[g] => ToSet(PlanOrder[g]) = DOMAIN g
<1> DEFINE rank == [n \in DOMAIN g |-> 0]
<1>1. g \in PlannedGraph
  BY DEF PlannedGraph
<1>2. DOMAIN g \subseteq Run /\ DOMAIN g \cap Direct = {} /\ DOMAIN g \subseteq Nat
  BY OrchestratorAssumption
<1>3. Sortable(g, rank)
  <2>1. IsFiniteSet(DOMAIN g) BY <1>2, PipelineAssumption, FS_Subset
  <2> QED BY <1>2, <2>1 DEF Sortable
<1>4. PlanOrder[g] = Order(g, rank) /\ PlanValid[g] = Resolves(g, rank)
  BY <1>1 DEF PlanOrder, PlanValid
<1> HIDE DEF rank
<1> QED BY <1>1, <1>2, <1>3, <1>4, SortCorrect

LEMMA PlanBlocks ==
    ASSUME NEW w \in Workflow, NEW g \in PlannedGraphs[w], PlanValid[g], NEW failed \in SUBSET DOMAIN g
    PROVE  BlockedBy(g, failed, FailedOrSkipped[g][failed])
<1> DEFINE s == PlanOrder[g]
<1>1. g \in PlannedGraph /\ Ordered(g, s) /\ ToSet(s) = DOMAIN g
  BY PlanSorted
<1>2. FailedOrSkipped[g][failed] = (CHOOSE f : Blocking(g, s, failed, f))[Len(s)]
  BY <1>1 DEF FailedOrSkipped, Blocking
<1> HIDE DEF s
<1> QED BY <1>1, <1>2, LoopBlocks

\* Along the plan, what was run or still can run is not blocked; what was skipped is.
LEMMA BlockedAreSkipped ==
    ASSUME NEW g, NEW s, Ordered(g, s), ToSet(s) = DOMAIN g, NEW result, Follows(g, result),
           NEW failed, failed = {n \in DOMAIN g : result[n] = "failed"},
           NEW B, BlockedBy(g, failed, B), NEW n \in DOMAIN g
    PROVE  /\ n \in B => result[n] \notin {"running", "succeeded"}
           /\ result[n] = "skipped" => n \in B
<1>1. /\ Len(s) \in Nat /\ DOMAIN g = {s[i] : i \in 1..Len(s)}
      /\ \A i \in 1..Len(s) : s[i] \in DOMAIN g
  BY ListedIs, ZenonT(20) DEF Ordered
<1> DEFINE wrong == {i \in 1..Len(s) : \/ s[i] \in B /\ result[s[i]] \in {"running", "succeeded"}
                                       \/ s[i] \notin B /\ result[s[i]] = "skipped"}
<1>2. wrong = {}
  <2> SUFFICES ASSUME wrong # {} PROVE FALSE OBVIOUS
  <2>1. PICK i \in wrong : \A j \in wrong : i <= j
    <3>1. wrong \subseteq Nat OBVIOUS
    <3> HIDE DEF wrong
    <3> QED BY <3>1, LeastNatural
  <2> DEFINE x == s[i]
  <2>2. i \in 1..Len(s) /\ x \in DOMAIN g /\ g[x] \subseteq Before(s, i)
    BY <1>1, <2>1 DEF Ordered
  <2>3. \A d \in g[x] : /\ d \in DOMAIN g
                        /\ d \in B => result[d] \notin {"running", "succeeded"}
                        /\ d \notin B => result[d] # "skipped"
    <3> SUFFICES ASSUME NEW d \in g[x]
                 PROVE  /\ d \in DOMAIN g
                        /\ d \in B => result[d] \notin {"running", "succeeded"}
                        /\ d \notin B => result[d] # "skipped"
      OBVIOUS
    <3>1. PICK j \in 1..(i - 1) : s[j] = d BY <2>2 DEF Before
    <3>2. j \in 1..Len(s) /\ ~(i <= j) BY <1>1, <2>2, <3>1
    <3>3. j \notin wrong BY <2>1, <3>2
    <3> QED BY <1>1, <3>1, <3>2, <3>3
  <2>4. x \in B <=> x \in failed \/ g[x] \cap B # {}
    BY <2>2 DEF BlockedBy
  <2>5. CASE x \in B /\ result[x] \in {"running", "succeeded"}
    <3>1. PICK d \in g[x] : d \in B BY <2>4, <2>5
    <3>2. result[d] = "succeeded" BY <2>2, <2>5 DEF Follows
    <3> QED BY <2>3, <3>1, <3>2
  <2>6. CASE x \notin B /\ result[x] = "skipped"
    <3>1. PICK d \in g[x] : result[d] \in {"failed", "skipped"} BY <2>2, <2>6 DEF Follows
    <3>2. d \in B
      <4>1. CASE result[d] = "failed" BY <2>3, <4>1 DEF BlockedBy
      <4>2. CASE result[d] = "skipped" BY <2>3, <4>2
      <4> QED BY <3>1, <4>1, <4>2
    <3> QED BY <2>4, <2>6, <3>2
  <2> QED BY <2>1, <2>5, <2>6
<1>3. PICK i \in 1..Len(s) : s[i] = n
  BY <1>1
<1> QED BY <1>2, <1>3

FailedIn(g, result) == {n \in DOMAIN g : result[n] = "failed"}

Startable(s, result, skipped) == {i \in DOMAIN s : result[s[i]] = "none" /\ s[i] \notin skipped}

Marked(result, skipped) == [n \in Run |-> IF n \in skipped THEN "skipped" ELSE result[n]]

Running(result, n) == [result EXCEPT ![n] = "running"]

\* The turn that follows a result with no node running.
Turn(g, s, result, failed, B, left, marked) ==
    /\ Ordered(g, s) /\ ToSet(s) = DOMAIN g /\ DOMAIN g \subseteq Run
    /\ result \in [Run -> NodeStatus] /\ Follows(g, result)
    /\ \A n \in DOMAIN g : result[n] # "running"
    /\ failed = FailedIn(g, result) /\ BlockedBy(g, failed, B)
    /\ left = Startable(s, result, B \ failed) /\ marked = Marked(result, B \ failed)

\* It marks only nodes that were not run, and the node it hands to the pipeline has
\* every dependency succeeded.
TurnGood(g, s, result, left, marked) ==
    /\ marked \in [Run -> NodeStatus] /\ Follows(g, marked)
    /\ \A n \in DOMAIN g : marked[n] = result[n] \/ (marked[n] = "skipped" /\ result[n] = "none")
    /\ \A n \in Run \ DOMAIN g : marked[n] = result[n]
    /\ left # {} => /\ s[Min(left)] \in DOMAIN g /\ result[s[Min(left)]] = "none"
                    /\ Follows(g, Running(marked, s[Min(left)]))

LEMMA TurnFollows ==
    ASSUME NEW g, NEW s, NEW result, NEW failed, NEW B, NEW left, NEW marked,
           Turn(g, s, result, failed, B, left, marked)
    PROVE  TurnGood(g, s, result, left, marked)
<1> USE DEF Turn
<1> USE DEF FailedIn, Startable, Marked
<1>1. /\ Len(s) \in Nat /\ DOMAIN s = 1..Len(s) /\ DOMAIN g = {s[i] : i \in 1..Len(s)}
      /\ \A i \in 1..Len(s) : s[i] \in DOMAIN g
  <2>1. s \in Seq(DOMAIN g) BY DEF Ordered
  <2>2. /\ Len(s) \in Nat /\ DOMAIN s = 1..Len(s) /\ ToSet(s) = {s[i] : i \in 1..Len(s)} BY <2>1, ListedIs
  <2> QED BY <2>2
<1>2. \A n \in DOMAIN g : g[n] \subseteq DOMAIN g
  <2> SUFFICES ASSUME NEW i \in 1..Len(s) PROVE g[s[i]] \subseteq DOMAIN g BY <1>1
  <2>1. g[s[i]] \subseteq Before(s, i) BY DEF Ordered
  <2>2. 1..(i - 1) \subseteq 1..Len(s) BY <1>1
  <2> QED BY <1>1, <2>1, <2>2 DEF Before
<1>3. /\ failed \subseteq B /\ B \subseteq DOMAIN g
      /\ \A n \in DOMAIN g : n \in B <=> n \in failed \/ g[n] \cap B # {}
  BY DEF BlockedBy
<1>4. \A n \in DOMAIN g : /\ n \in B => result[n] \notin {"running", "succeeded"}
                          /\ result[n] = "skipped" => n \in B
  BY BlockedAreSkipped
<1>5. \A n \in DOMAIN g : result[n] \in NodeStatus /\ n \in Run
  OBVIOUS
<1>6. marked \in [Run -> NodeStatus]
  BY DEF NodeStatus
<1>7. \A n \in DOMAIN g : marked[n] = IF n \in B \ failed THEN "skipped" ELSE result[n]
  OBVIOUS
<1>8. \A n \in DOMAIN g : marked[n] = result[n] \/ (marked[n] = "skipped" /\ result[n] = "none")
  BY <1>4, <1>5, <1>7 DEF NodeStatus
<1>9. \A n \in Run \ DOMAIN g : marked[n] = result[n]
  BY <1>3
<1>10. Follows(g, marked)
  <2>1. ASSUME NEW n \in DOMAIN g, marked[n] \in {"running", "succeeded", "failed"}, NEW d \in g[n]
        PROVE  marked[d] = "succeeded"
    <3>1. marked[n] = result[n] /\ d \in DOMAIN g BY <1>2, <1>8, <2>1
    <3>2. result[d] = "succeeded" BY <2>1, <3>1 DEF Follows
    <3> QED BY <1>8, <3>1, <3>2
  <2>2. ASSUME NEW n \in DOMAIN g, marked[n] = "skipped"
        PROVE  \E d \in g[n] : marked[d] \in {"failed", "skipped"}
    <3>1. n \in B /\ n \notin failed BY <1>4, <1>7, <2>2
    <3>2. PICK d \in g[n] : d \in B BY <1>3, <3>1
    <3>3. d \in DOMAIN g BY <1>2, <3>2
    <3> QED BY <1>7, <3>2, <3>3
  <2> QED BY <2>1, <2>2 DEF Follows
<1>11. ASSUME left # {}
       PROVE  /\ s[Min(left)] \in DOMAIN g /\ result[s[Min(left)]] = "none"
              /\ Follows(g, Running(marked, s[Min(left)]))
  <2>1. PICK i \in left : \A j \in left : i <= j
    <3>1. left \subseteq Nat BY <1>1
    <3> QED BY <1>11, <3>1, LeastNatural
  <2>2. Min(left) \in left /\ \A j \in left : Min(left) <= j BY <2>1 DEF Min
  <2> DEFINE k == Min(left)
             next == s[k]
             t == [marked EXCEPT ![next] = "running"]
  <2> HIDE DEF k
  <2>3. /\ k \in 1..Len(s) /\ next \in DOMAIN g /\ result[next] = "none" /\ next \notin B \ failed
        /\ \A j \in left : k <= j
    BY <1>1, <2>2 DEF k
  <2>4. next \notin B /\ marked[next] = "none" /\ g[next] \subseteq Before(s, k)
    BY <1>7, <2>3 DEF Ordered
  <2>5. ASSUME NEW d \in g[next] PROVE marked[d] = "succeeded"
    <3>1. PICK j \in 1..(k - 1) : s[j] = d BY <2>4 DEF Before
    <3>2. j \in DOMAIN s /\ ~(k <= j) BY <1>1, <2>3
    <3>3. j \notin left BY <2>3, <3>2
    <3>4. d \in DOMAIN g /\ d \notin B BY <1>2, <1>3, <2>3, <2>4
    <3>5. result[d] # "none" BY <3>1, <3>2, <3>3, <3>4
    <3>6. result[d] \notin {"failed", "skipped", "running"} BY <1>3, <1>4, <3>4
    <3> QED BY <1>5, <1>7, <3>4, <3>5, <3>6 DEF NodeStatus
  <2>6. \A n \in DOMAIN g : t[n] = IF n = next THEN "running" ELSE marked[n]
    BY <1>6
  <2> HIDE DEF t, next
  <2>7. next \notin g[next] BY <2>4, <2>5
  <2>8. ASSUME NEW n \in DOMAIN g, t[n] \in {"running", "succeeded", "failed"}, NEW d \in g[n]
        PROVE  t[d] = "succeeded"
    <3>1. d \in DOMAIN g BY <1>2
    <3>2. marked[d] = "succeeded" BY <1>10, <2>5, <2>6, <2>8 DEF Follows
    <3> QED BY <2>4, <2>6, <3>1, <3>2
  <2>9. ASSUME NEW n \in DOMAIN g, t[n] = "skipped"
        PROVE  \E d \in g[n] : t[d] \in {"failed", "skipped"}
    <3>1. marked[n] = "skipped" BY <2>6, <2>9
    <3>2. PICK d \in g[n] : marked[d] \in {"failed", "skipped"} BY <1>10, <3>1 DEF Follows
    <3>3. d \in DOMAIN g /\ d # next BY <1>2, <2>4, <3>2
    <3> QED BY <2>6, <3>2, <3>3
  <2>10. Follows(g, t) BY <2>8, <2>9 DEF Follows
  <2> QED BY <2>3, <2>10 DEF t, next, k, Running
<1> QED BY <1>6, <1>8, <1>9, <1>10, <1>11 DEF TurnGood

-----------------------------------------------------------------------------
(* The workflows: their steps *)

\* A step that leaves the nodes of a workflow alone, and the pipeline's answers on
\* those that were not run or succeeded.
LEMMA NodesFrame ==
    ASSUME OrchestratorInv, NEW v \in Workflow, plan'[v] = plan[v], workflow'[v] = workflow[v],
           \A n \in DOMAIN plan[v] :
               /\ node'[n] = node[n]
               /\ node[n] \in {"none", "skipped"} => pc'[n] = "idle"
               /\ node[n] = "succeeded" => pc'[n] = "returned" /\ outcome'[n] = outcome[n]
    PROVE  NodesFollow(v)'
<1> DEFINE g == plan[v]
<1>1. NodesFollow(v) /\ g \in PlannedGraphs[v]
  BY DEF OrchestratorInv, TypeOK
<1>2. PlanValid[g] => \A n \in DOMAIN g : g[n] \subseteq DOMAIN g
  BY <1>1, PlanSorted
<1>3. Follows(g, node')
  <2>1. CASE workflow[v] \in {"planned", "invalid"} BY <1>1, <2>1 DEF NodesFollow, Follows
  <2>2. CASE workflow[v] \notin {"planned", "invalid"}
    <3>1. \A n \in DOMAIN g : \A d \in g[n] : node'[d] = node[d] BY <1>1, <1>2, <2>2 DEF NodesFollow
    <3>2. Follows(g, node) BY <1>1 DEF NodesFollow
    <3> QED BY <3>1, <3>2 DEF Follows
  <2> QED BY <2>1, <2>2
<1>4. PlanValid' = PlanValid
  BY DEF PlanValid
<1> QED BY <1>1, <1>3, <1>4 DEF NodesFollow

\* Two workflows have no node in common.
LEMMA NodesApart ==
    ASSUME TypeOK, NEW v \in Workflow, NEW w \in Workflow, v # w
    PROVE  DOMAIN plan[v] \cap DOMAIN plan[w] = {}
  BY OrchestratorAssumption DEF TypeOK

\* Handing a request to the pipeline moves that request alone.
LEMMA StartMoves ==
    ASSUME PipelineTypeOK, NEW r \in Run, Start(r)
    PROVE  \A n \in Run \ {r} : pc'[n] = pc[n] /\ outcome'[n] = outcome[n]
  BY DEF Start, DenyRequest, IssuePermit, PipelineTypeOK

\* The loop of execute() goes on with a result in which no node is running.
LEMMA AdvanceKeeps ==
    ASSUME OrchestratorInv, NEW w \in Workflow, PlanValid[plan[w]], UNCHANGED plan,
           NEW result \in [Run -> NodeStatus], Follows(plan[w], result),
           \A n \in Run \ DOMAIN plan[w] : result[n] = node[n],
           \A n \in DOMAIN plan[w] :
               /\ result[n] # "running"
               /\ result[n] \in {"none", "skipped"} => pc[n] = "idle"
               /\ result[n] = "succeeded" => pc[n] = "returned" /\ outcome[n] = "VERIFIED",
           Advance(w, result)
    PROVE  OrchestratorInv' /\ [PipelineNext]_pipelineVars
<1> DEFINE g == plan[w]
           s == PlanOrder[g]
           failed == {n \in DOMAIN g : result[n] = "failed"}
           B == FailedOrSkipped[g][failed]
           left == {i \in DOMAIN s : result[s[i]] = "none" /\ s[i] \notin B \ failed}
           next == s[Min(left)]
           marked == [n \in Run |-> IF n \in B \ failed THEN "skipped" ELSE result[n]]
<1>1. g \in PlannedGraphs[w] /\ PipelineTypeOK
  BY DEF OrchestratorInv, TypeOK
<1>2. /\ DOMAIN g \subseteq Run /\ Ordered(g, s) /\ ToSet(s) = DOMAIN g
  BY <1>1, PlanSorted
<1>3. BlockedBy(g, failed, B)
  BY <1>1, PlanBlocks
<1>4. IF left = {}
      THEN /\ node' = marked
           /\ workflow' = [workflow EXCEPT ![w] = FinalStatus(w, marked)]
           /\ UNCHANGED pipelineVars
      ELSE /\ node' = [marked EXCEPT ![next] = "running"]
           /\ workflow' = [workflow EXCEPT ![w] = "running"]
           /\ Start(next)
  BY DEF Advance
<1>5. /\ marked \in [Run -> NodeStatus] /\ Follows(g, marked)
      /\ \A n \in DOMAIN g : marked[n] = result[n] \/ (marked[n] = "skipped" /\ result[n] = "none")
      /\ \A n \in Run \ DOMAIN g : marked[n] = result[n]
      /\ left # {} => /\ next \in DOMAIN g /\ result[next] = "none"
                      /\ Follows(g, [marked EXCEPT ![next] = "running"])
  <2>1. /\ failed = FailedIn(g, result) /\ left = Startable(s, result, B \ failed)
        /\ marked = Marked(result, B \ failed)
    BY DEF FailedIn, Startable, Marked
  <2> HIDE DEF g, s, failed, B, left, marked
  <2>2. Follows(g, result) /\ \A n \in DOMAIN g : result[n] # "running" BY DEF g
  <2>3. Turn(g, s, result, failed, B, left, marked) BY <1>2, <1>3, <2>1, <2>2 DEF Turn
  <2>4. TurnGood(g, s, result, left, marked) BY <2>3, TurnFollows
  <2> QED BY <2>4 DEF TurnGood, Running
<1>6. \A n \in DOMAIN g : result[n] # "running" /\ marked[n] # "running"
  <2> HIDE DEF marked
  <2> QED BY <1>5
<1>7. ASSUME NEW status2 \in WorkflowStatus, workflow' = [workflow EXCEPT ![w] = status2]
      PROVE  workflow' \in [Workflow -> WorkflowStatus] /\ workflow'[w] = status2
             /\ \A v \in Workflow \ {w} : workflow'[v] = workflow[v]
  BY <1>7 DEF OrchestratorInv, TypeOK
<1> HIDE DEF s, failed, B, left, next, marked
<1>8. CASE left = {}
  <2> DEFINE f == FinalStatus(w, marked)
  <2>1. node' = marked /\ workflow' = [workflow EXCEPT ![w] = f] /\ UNCHANGED pipelineVars
    BY <1>4, <1>8
  <2>2. f \in WorkflowStatus /\ f \notin {"planned", "invalid"}
        /\ (f = "succeeded" => \A n \in DOMAIN g : marked[n] = "succeeded")
    BY DEF FinalStatus, WorkflowStatus
  <2> HIDE DEF f
  <2>3. /\ workflow' \in [Workflow -> WorkflowStatus] /\ workflow'[w] = f
        /\ \A v \in Workflow \ {w} : workflow'[v] = workflow[v]
    BY <1>7, <2>1, <2>2
  <2>4. [PipelineNext]_pipelineVars BY <2>1
  <2>5. PipelineInv' BY <2>4, PipelineStepInv DEF OrchestratorInv
  <2>6. pc' = pc /\ outcome' = outcome BY <2>1 DEF pipelineVars
  <2>7. TypeOK' BY <1>5, <2>1, <2>3, <2>5 DEF OrchestratorInv, TypeOK, PipelineInv, NodeStatus
  <2>8. NodesFollow(w)'
    <3>1. PlanValid' = PlanValid BY DEF PlanValid
    <3>2. \A n \in DOMAIN g : /\ node'[n] \in {"none", "skipped"} => pc'[n] = "idle"
                              /\ node'[n] = "succeeded" => pc'[n] = "returned" /\ outcome'[n] = "VERIFIED"
      BY <1>5, <2>1, <2>6
    <3>3. \A m, n \in DOMAIN g : node'[m] = "running" /\ node'[n] = "running" => m = n
      BY <1>6, <2>1
    <3> QED BY <1>5, <2>1, <2>2, <2>3, <3>1, <3>2, <3>3 DEF NodesFollow
  <2>9. ASSUME NEW v \in Workflow \ {w} PROVE NodesFollow(v)'
    <3>1. NodesFollow(v) /\ DOMAIN plan[v] \subseteq Run /\ DOMAIN plan[v] \cap DOMAIN g = {}
      BY NodesApart, PlanSorted DEF OrchestratorInv, TypeOK
    <3>2. \A n \in DOMAIN plan[v] : node'[n] = node[n] BY <1>5, <2>1, <3>1
    <3> QED BY <2>3, <2>6, <3>1, <3>2, NodesFrame DEF NodesFollow
  <2> QED BY <2>4, <2>5, <2>7, <2>8, <2>9 DEF OrchestratorInv
<1>9. CASE left # {}
  <2>1. /\ node' = [marked EXCEPT ![next] = "running"] /\ workflow' = [workflow EXCEPT ![w] = "running"]
        /\ Start(next)
    BY <1>4, <1>9
  <2>2. next \in DOMAIN g /\ next \in Run /\ result[next] = "none" /\ Follows(g, node')
    BY <1>2, <1>5, <1>9, <2>1
  <2>3. /\ workflow' \in [Workflow -> WorkflowStatus] /\ workflow'[w] = "running"
        /\ \A v \in Workflow \ {w} : workflow'[v] = workflow[v]
    <3>1. "running" \in WorkflowStatus BY DEF WorkflowStatus
    <3> QED BY <1>7, <2>1, <3>1
  <2>4. [PipelineNext]_pipelineVars BY <2>1, <2>2 DEF PipelineNext
  <2>5. PipelineInv' BY <2>4, PipelineStepInv DEF OrchestratorInv
  <2>6. \A n \in Run \ {next} : pc'[n] = pc[n] /\ outcome'[n] = outcome[n]
    BY <1>1, <2>1, <2>2, StartMoves
  <2>7. /\ node' \in [Run -> NodeStatus]
        /\ \A n \in Run : node'[n] = IF n = next THEN "running" ELSE marked[n]
    BY <1>5, <2>1, <2>2 DEF NodeStatus
  <2>8. TypeOK' BY <2>3, <2>5, <2>7 DEF OrchestratorInv, TypeOK, PipelineInv, NodeStatus
  <2>9. NodesFollow(w)'
    <3>1. PlanValid' = PlanValid BY DEF PlanValid
    <3>2. \A n \in DOMAIN g : /\ node'[n] \in {"none", "skipped"} => pc'[n] = "idle"
                              /\ node'[n] = "succeeded" => pc'[n] = "returned" /\ outcome'[n] = "VERIFIED"
      BY <1>2, <1>5, <2>6, <2>7
    <3>3. \A m, n \in DOMAIN g : node'[m] = "running" /\ node'[n] = "running" => m = n
      BY <1>2, <1>6, <2>7
    <3> QED BY <2>2, <2>3, <3>1, <3>2, <3>3 DEF NodesFollow
  <2>10. ASSUME NEW v \in Workflow \ {w} PROVE NodesFollow(v)'
    <3>1. NodesFollow(v) /\ DOMAIN plan[v] \subseteq Run /\ DOMAIN plan[v] \cap DOMAIN g = {}
      BY NodesApart, PlanSorted DEF OrchestratorInv, TypeOK
    <3>2. \A n \in DOMAIN plan[v] : node'[n] = node[n] /\ pc'[n] = pc[n] /\ outcome'[n] = outcome[n]
      BY <1>5, <2>2, <2>6, <2>7, <3>1
    <3> QED BY <2>3, <3>1, <3>2, NodesFrame DEF NodesFollow
  <2> QED BY <2>4, <2>5, <2>8, <2>9, <2>10 DEF OrchestratorInv
<1> QED BY <1>8, <1>9

\* A workflow is handled: its plan is valid, and nothing of it has run.
LEMMA HandleKeeps ==
    ASSUME OrchestratorInv, NEW w \in Workflow, Handle(w)
    PROVE  OrchestratorInv' /\ [PipelineNext]_pipelineVars
<1>1. NodesFollow(w) /\ workflow[w] = "planned" /\ PlanValid[plan[w]] /\ Advance(w, node) /\ UNCHANGED plan
  BY DEF Handle, OrchestratorInv
<1>2. \A n \in DOMAIN plan[w] : node[n] = "none" /\ pc[n] = "idle"
  BY <1>1 DEF NodesFollow
<1>3. node \in [Run -> NodeStatus]
  BY DEF OrchestratorInv, TypeOK, NodeStatus
<1>4. Follows(plan[w], node)
  BY <1>1 DEF NodesFollow
<1> QED BY <1>1, <1>2, <1>3, <1>4, AdvanceKeeps

LEMMA HandleInvalidKeeps ==
    ASSUME OrchestratorInv, NEW w \in Workflow, HandleInvalid(w)
    PROVE  OrchestratorInv' /\ [PipelineNext]_pipelineVars
<1>1. /\ workflow[w] = "planned" /\ ~PlanValid[plan[w]] /\ workflow' = [workflow EXCEPT ![w] = "invalid"]
      /\ UNCHANGED pipelineVars /\ plan' = plan /\ node' = node
  BY DEF HandleInvalid
<1>2. [PipelineNext]_pipelineVars
  BY <1>1
<1>3. PipelineInv' /\ pc' = pc /\ outcome' = outcome
  BY <1>1, <1>2, PipelineStepInv DEF OrchestratorInv, pipelineVars
<1>4. TypeOK'
  BY <1>1, <1>3 DEF OrchestratorInv, TypeOK, PipelineInv, WorkflowStatus
<1>5. workflow'[w] = "invalid" /\ \A v \in Workflow \ {w} : workflow'[v] = workflow[v]
  BY <1>1 DEF OrchestratorInv, TypeOK
<1>6. NodesFollow(w)'
  <2>1. NodesFollow(w) BY DEF OrchestratorInv
  <2> QED BY <1>1, <1>3, <1>5, <2>1 DEF NodesFollow
<1>7. ASSUME NEW v \in Workflow \ {w} PROVE NodesFollow(v)'
  <2>1. NodesFollow(v) BY DEF OrchestratorInv
  <2> QED BY <1>1, <1>3, <1>5, <2>1, NodesFrame DEF NodesFollow
<1> QED BY <1>2, <1>3, <1>4, <1>6, <1>7 DEF OrchestratorInv

\* The pipeline has answered the node that is running, or thrown.
LEMMA NodeEndsKeeps ==
    ASSUME OrchestratorInv, NEW w \in Workflow, NodeEnds(w)
    PROVE  OrchestratorInv' /\ [PipelineNext]_pipelineVars
<1>1. PICK r \in DOMAIN plan[w] : /\ node[r] = "running" /\ Advance(w, [node EXCEPT ![r] = NodeResult(r)])
  BY DEF NodeEnds
<1> DEFINE g == plan[w]
           result == [node EXCEPT ![r] = NodeResult(r)]
<1>2. workflow[w] = "running" /\ UNCHANGED plan /\ NodesFollow(w) /\ g \in PlannedGraphs[w]
  BY DEF NodeEnds, OrchestratorInv, TypeOK
<1>3. PlanValid[g] /\ Follows(g, node)
  BY <1>2 DEF NodesFollow
<1>4. /\ DOMAIN g \subseteq Run /\ \A n \in DOMAIN g : g[n] \subseteq DOMAIN g
  BY <1>2, <1>3, PlanSorted
<1>5. /\ NodeResult(r) \in {"succeeded", "failed"}
      /\ NodeResult(r) = "succeeded" => pc[r] = "returned" /\ outcome[r] = "VERIFIED"
  BY DEF NodeResult
<1>6. node \in [Run -> NodeStatus]
  BY DEF OrchestratorInv, TypeOK, NodeStatus
<1>7. /\ result \in [Run -> NodeStatus] /\ result[r] = NodeResult(r)
      /\ \A n \in Run \ {r} : result[n] = node[n]
  BY <1>1, <1>4, <1>5, <1>6 DEF NodeStatus
<1> HIDE DEF result
<1>8. Follows(g, result)
  <2>1. ASSUME NEW n \in DOMAIN g, result[n] \in {"running", "succeeded", "failed"}, NEW d \in g[n]
        PROVE  result[d] = "succeeded"
    <3>1. node[n] \in {"running", "succeeded", "failed"} BY <1>1, <1>4, <1>7, <2>1
    <3>2. node[d] = "succeeded" BY <1>3, <3>1 DEF Follows
    <3> QED BY <1>1, <1>4, <1>7, <3>2
  <2>2. ASSUME NEW n \in DOMAIN g, result[n] = "skipped"
        PROVE  \E d \in g[n] : result[d] \in {"failed", "skipped"}
    <3>1. node[n] = "skipped" BY <1>4, <1>5, <1>7, <2>2
    <3>2. PICK d \in g[n] : node[d] \in {"failed", "skipped"} BY <1>3, <3>1 DEF Follows
    <3> QED BY <1>1, <1>4, <1>7, <3>2
  <2> QED BY <2>1, <2>2 DEF Follows
<1>9. \A n \in DOMAIN g :
        /\ result[n] # "running"
        /\ result[n] \in {"none", "skipped"} => pc[n] = "idle"
        /\ result[n] = "succeeded" => pc[n] = "returned" /\ outcome[n] = "VERIFIED"
  BY <1>1, <1>2, <1>4, <1>5, <1>7 DEF NodesFollow
<1>10. \A n \in Run \ DOMAIN g : result[n] = node[n]
  BY <1>7
<1>11. Advance(w, result)
  BY <1>1 DEF result
<1> QED BY <1>2, <1>3, <1>7, <1>8, <1>9, <1>10, <1>11, AdvanceKeeps

\* A request that has not been handed over stays idle, an answered one answered.
LEMMA PipelineMoves ==
    ASSUME PipelineTypeOK, NEW r \in Run, Continue(r) \/ Fault(r) \/ PresentPermit(r) \/ Tick
    PROVE  \A n \in Run \ Direct :
               /\ pc[n] = "idle" => pc'[n] = "idle"
               /\ pc[n] = "returned" => pc'[n] = "returned" /\ outcome'[n] = outcome[n]
<1> USE DEF PipelineTypeOK
<1>1. CASE Continue(r)
  BY <1>1 DEF Continue, Claim, RefuseClaim, RefuseApproval, Grant, ExecutorReturns, AppendAudit, Decide
<1>2. CASE Fault(r)
  BY <1>2 DEF Fault, ClaimFails, AppendAuditFails
<1>3. CASE PresentPermit(r)
  BY <1>3 DEF PresentPermit
<1>4. CASE Tick
  BY <1>4 DEF Tick
<1> QED BY <1>1, <1>2, <1>3, <1>4

LEMMA PipelineStepKeeps ==
    ASSUME OrchestratorInv, [PipelineNext]_pipelineVars, UNCHANGED <<plan, workflow, node>>,
           \A n \in Run \ Direct :
               /\ pc[n] = "idle" => pc'[n] = "idle"
               /\ pc[n] = "returned" => pc'[n] = "returned" /\ outcome'[n] = outcome[n]
    PROVE  OrchestratorInv'
<1>1. PipelineInv'
  BY PipelineStepInv DEF OrchestratorInv
<1>2. TypeOK'
  BY <1>1 DEF OrchestratorInv, TypeOK, PipelineInv
<1>3. ASSUME NEW v \in Workflow PROVE NodesFollow(v)'
  <2>1. NodesFollow(v) /\ DOMAIN plan[v] \subseteq Run /\ DOMAIN plan[v] \cap Direct = {}
    BY PlanSorted DEF OrchestratorInv, TypeOK
  <2>2. \A n \in DOMAIN plan[v] : n \in Run \ Direct BY <2>1
  <2>3. \A n \in DOMAIN plan[v] :
            /\ node'[n] = node[n]
            /\ node[n] \in {"none", "skipped"} => pc'[n] = "idle"
            /\ node[n] = "succeeded" => pc'[n] = "returned" /\ outcome'[n] = outcome[n]
    BY <2>1, <2>2 DEF NodesFollow
  <2> QED BY <2>3, NodesFrame
<1> QED BY <1>1, <1>2, <1>3 DEF OrchestratorInv

LEMMA OrchestratorInitInv == Init => OrchestratorInv
<1> SUFFICES ASSUME Init PROVE OrchestratorInv OBVIOUS
<1>1. PipelineInv
  BY PipelineInitInv DEF Init
<1>2. TypeOK
  BY <1>1 DEF Init, TypeOK, PipelineInv, WorkflowStatus
<1>3. ASSUME NEW w \in Workflow PROVE NodesFollow(w)
  <2>1. DOMAIN plan[w] \subseteq Run BY <1>2, PlanSorted DEF TypeOK
  <2>2. \A n \in DOMAIN plan[w] : node[n] = "none" /\ pc[n] = "idle" BY <2>1 DEF Init, PipelineInit
  <2>3. workflow[w] = "planned" BY DEF Init
  <2> QED BY <2>2, <2>3 DEF NodesFollow, Follows
<1> QED BY <1>1, <1>2, <1>3 DEF OrchestratorInv

\* Every step of the orchestrator, one case per action, is a step of the pipeline or
\* leaves it alone, and preserves the invariant.
LEMMA OrchestratorStepInv ==
    OrchestratorInv /\ [Next]_vars => OrchestratorInv' /\ [PipelineNext]_pipelineVars
<1> SUFFICES ASSUME OrchestratorInv, [Next]_vars
             PROVE  OrchestratorInv' /\ [PipelineNext]_pipelineVars
  OBVIOUS
<1>1. ASSUME NEW w \in Workflow, Handle(w) \/ HandleInvalid(w) \/ NodeEnds(w)
      PROVE  OrchestratorInv' /\ [PipelineNext]_pipelineVars
  BY <1>1, HandleKeeps, HandleInvalidKeeps, NodeEndsKeeps
<1>2. ASSUME NEW r \in Run, Continue(r) \/ Fault(r) \/ PresentPermit(r), UNCHANGED <<plan, workflow, node>>
      PROVE  OrchestratorInv' /\ [PipelineNext]_pipelineVars
  <2>1. [PipelineNext]_pipelineVars BY <1>2 DEF PipelineNext
  <2>2. PipelineTypeOK BY DEF OrchestratorInv, TypeOK
  <2> QED BY <1>2, <2>1, <2>2, PipelineMoves, PipelineStepKeeps
<1>3. ASSUME Tick, UNCHANGED <<plan, workflow, node>>
      PROVE  OrchestratorInv' /\ [PipelineNext]_pipelineVars
  <2>1. [PipelineNext]_pipelineVars BY <1>3 DEF PipelineNext
  <2>2. pc' = pc /\ outcome' = outcome BY <1>3 DEF Tick
  <2> QED BY <1>3, <2>1, <2>2, PipelineStepKeeps
<1>4. CASE UNCHANGED vars
  <2>1. UNCHANGED pipelineVars /\ UNCHANGED <<plan, workflow, node>> /\ pc' = pc /\ outcome' = outcome
    BY <1>4 DEF vars, pipelineVars
  <2> QED BY <2>1, PipelineStepKeeps
<1> QED BY <1>1, <1>2, <1>3, <1>4 DEF Next, Proceed

LEMMA OrchestratorInvSound == OrchestratorInv => WorkflowSound
<1> SUFFICES ASSUME OrchestratorInv PROVE WorkflowSound OBVIOUS
<1> USE DEF OrchestratorInv
<1>1. OrderCorrect
  <2> SUFFICES ASSUME NEW w \in Workflow
               PROVE  LET g == plan[w]
                          s == PlanOrder[g]
                      IN  /\ PlanValid[g] <=>
                              /\ \A n \in DOMAIN g : g[n] \subseteq DOMAIN g
                              /\ \A S \in SUBSET DOMAIN g : S = {} \/ \E n \in S : g[n] \cap S = {}
                          /\ \A i \in DOMAIN s : g[s[i]] \subseteq {s[j] : j \in 1..(i - 1)}
    BY DEF OrderCorrect
  <2> DEFINE g == plan[w]
             s == PlanOrder[g]
  <2>1. Ordered(g, s) /\ (PlanValid[g] <=> (\A n \in DOMAIN g : g[n] \subseteq DOMAIN g) /\ Acyclic(g))
    BY PlanSorted DEF TypeOK
  <2>2. DOMAIN s = 1..Len(s) BY <2>1, ListedIs DEF Ordered
  <2>3. \A i \in DOMAIN s : g[s[i]] \subseteq Before(s, i) BY <2>1, <2>2 DEF Ordered
  <2> QED BY <2>1, <2>3 DEF Acyclic, Before
<1>2. ASSUME NEW w \in Workflow, NEW n \in DOMAIN plan[w]
      PROVE  /\ n \in Run \ Direct
             /\ node[n] = "succeeded" => /\ n \in executed /\ outcome[n] = "VERIFIED"
                                         /\ <<n, "VERIFIED">> \in trail
             /\ n \in executed => node[n] \in {"running", "succeeded", "failed"}
  <2>1. n \in Run \ Direct BY PlanSorted DEF TypeOK
  <2>2. /\ node[n] \in {"none", "skipped"} => pc[n] = "idle"
        /\ node[n] = "succeeded" => pc[n] = "returned" /\ outcome[n] = "VERIFIED"
    BY DEF NodesFollow
  <2>3. /\ n \in executed => pc[n] # "idle"
        /\ outcome[n] = "VERIFIED" => n \in executed
        /\ pc[n] = "returned" => <<n, outcome[n]>> \in trail
    BY <2>1 DEF PipelineInv, Progressed, Recorded
  <2>4. node[n] \in {"none", "running", "succeeded", "failed", "skipped"} BY <2>1 DEF TypeOK
  <2> QED BY <2>1, <2>2, <2>3, <2>4
<1>3. DependenciesFirst
  <2> SUFFICES ASSUME NEW w \in Workflow, NEW n \in executed \cap DOMAIN plan[w], NEW d \in plan[w][n]
               PROVE  d \in executed /\ outcome[d] = "VERIFIED" /\ node[d] = "succeeded"
    BY DEF DependenciesFirst
  <2>1. NodesFollow(w) /\ node[n] \in {"running", "succeeded", "failed"} BY <1>2
  <2>2. node[d] = "succeeded" BY <2>1 DEF NodesFollow, Follows
  <2>3. PlanValid[plan[w]] BY <2>1 DEF NodesFollow
  <2>4. d \in DOMAIN plan[w] BY <2>3, PlanSorted DEF TypeOK
  <2> QED BY <1>2, <2>2, <2>4
<1>4. StatusTruth
  <2> SUFFICES ASSUME NEW w \in Workflow, NEW n \in DOMAIN plan[w]
               PROVE  /\ workflow[w] = "succeeded" => n \in executed /\ <<n, "VERIFIED">> \in trail
                      /\ workflow[w] \in {"planned", "invalid"} => pc[n] = "idle"
    BY DEF StatusTruth
  <2>1. NodesFollow(w) OBVIOUS
  <2> QED BY <1>2, <2>1 DEF NodesFollow
<1> QED BY <1>1, <1>3, <1>4 DEF WorkflowSound

\* However the workflows that share the pipeline's stores interleave, whatever fails,
\* throws or is replayed: nodes run behind all their dependencies, each of which was
\* executed and verified, and a workflow reports success only if all its nodes were.
\* For any planned graphs, cyclic and incomplete ones included.
THEOREM OrchestratorWorkflowSound == Spec => []WorkflowSound
<1>1. Init => OrchestratorInv
  BY OrchestratorInitInv
<1>2. OrchestratorInv /\ [Next]_vars => OrchestratorInv'
  BY OrchestratorStepInv
<1> QED BY <1>1, <1>2, OrchestratorInvSound, PTL DEF Spec

\* The orchestrator drives the pipeline only as the pipeline allows: every behaviour of
\* the composition is one of the pipeline alone, and what that guarantees holds of it.
THEOREM OrchestratorImplementsPipeline == Spec => PipelineSpec
<1>1. Init => OrchestratorInv /\ PipelineInit
  BY OrchestratorInitInv DEF Init
<1>2. OrchestratorInv /\ [Next]_vars => OrchestratorInv' /\ [PipelineNext]_pipelineVars
  BY OrchestratorStepInv
<1> QED BY <1>1, <1>2, PTL DEF Spec, PipelineSpec

\* Under the orchestrator, too, permits and approvals are spent once.
THEOREM OrchestratorSpentOnce == Spec => []SpentOnce
  BY OrchestratorImplementsPipeline, PipelineSpentOnce, PTL

\* Under the orchestrator, too, what the audit trail says is true.
THEOREM OrchestratorTrailTruth == Spec => []TrailTruth
  BY OrchestratorImplementsPipeline, PipelineTrailTruth, PTL

=====
