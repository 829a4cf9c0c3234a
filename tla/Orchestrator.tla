---------------------------- MODULE Orchestrator ----------------------------
(***************************************************************************)
(* Orchestrator.handle and WorkflowEngine.execute above the secure pipeline:*)
(* every workflow is a graph of nodes, each a request to the pipeline, run  *)
(* one after the other in topological order.  Workflows run concurrently    *)
(* and share the pipeline's stores.  A node whose dependency did not        *)
(* succeed is skipped; a pipeline run that throws counts as failed.         *)
(***************************************************************************)
EXTENDS Pipeline, DependencyGraph, Sequences, SequencesExt

CONSTANTS
    Workflow,
    PlannedGraphs  \* for each workflow, the graphs its planner may return

\* A node is a request of its own: two workflows share none.
ASSUME OrchestratorAssumption ==
    /\ \A w \in Workflow : \A g \in PlannedGraphs[w] :
        DOMAIN g \subseteq (Run \ Direct) \cap Nat
    /\ \A v, w \in Workflow : \A g \in PlannedGraphs[v], h \in PlannedGraphs[w] :
        v = w \/ DOMAIN g \cap DOMAIN h = {}

VARIABLES
    plan,      \* the graph each workflow was planned as
    workflow,  \* status of each workflow
    node       \* status of each node

vars == <<pipelineVars, plan, workflow, node>>

WorkflowStatus == {"planned", "running", "succeeded", "partial", "failed", "invalid"}

TypeOK ==
    /\ PipelineTypeOK
    /\ \A w \in Workflow : plan[w] \in PlannedGraphs[w]
    /\ workflow \in [Workflow -> WorkflowStatus]
    /\ node \in [Run -> {"none", "running", "succeeded", "failed", "skipped"}]

Init ==
    /\ PipelineInit
    /\ plan \in {p \in [Workflow -> UNION {PlannedGraphs[w] : w \in Workflow}] :
                    \A w \in Workflow : p[w] \in PlannedGraphs[w]}
    /\ workflow = [w \in Workflow |-> "planned"]
    /\ node = [r \in Run |-> "none"]

PlannedGraph == UNION {PlannedGraphs[w] : w \in Workflow}

\* validateExecutionGraph: nodes are ordered by id alone.
PlanOrder == [g \in PlannedGraph |-> Order(g, [n \in DOMAIN g |-> 0])]

PlanValid == [g \in PlannedGraph |-> Resolves(g, [n \in DOMAIN g |-> 0])]

\* The turn of node n: blocked by a dependency that is, it is skipped.
AddBlocked(g, n, blocked) ==
    IF g[n] \cap blocked # {} THEN blocked \cup {n} ELSE blocked

\* failedOrSkipped: the nodes in failed and, in the order of the plan, every
\* one that depends on a failed or a skipped node.
FailedOrSkipped ==
    [g \in PlannedGraph |-> [failed \in SUBSET DOMAIN g |->
        LET upto[i \in 0..Len(PlanOrder[g])] ==
                IF i = 0 THEN failed ELSE AddBlocked(g, PlanOrder[g][i], upto[i - 1])
        IN  upto[Len(PlanOrder[g])]]]

\* The status execute() returns.
FinalStatus(w, result) ==
    LET succeeded == {n \in DOMAIN plan[w] : result[n] = "succeeded"}
    IN  CASE succeeded = DOMAIN plan[w] -> "succeeded"
          [] succeeded = {} -> "failed"
          [] OTHER -> "partial"

-----------------------------------------------------------------------------

\* Mutant: only the nodes that depend on a failed one directly are skipped.
AdvanceShallow(w, result) ==
    LET g == plan[w]
        failed == {n \in DOMAIN g : result[n] = "failed"}
        skipped == {n \in DOMAIN g : g[n] \cap failed # {}} \ failed
        left == {i \in DOMAIN PlanOrder[g] :
                    result[PlanOrder[g][i]] = "none" /\ PlanOrder[g][i] \notin skipped}
        next == PlanOrder[g][Min(left)]
        marked == [n \in Run |-> IF n \in skipped THEN "skipped" ELSE result[n]]
    IN  IF left = {}
        THEN /\ node' = marked
             /\ workflow' = [workflow EXCEPT ![w] = FinalStatus(w, marked)]
             /\ UNCHANGED pipelineVars
        ELSE /\ node' = [marked EXCEPT ![next] = "running"]
             /\ workflow' = [workflow EXCEPT ![w] = "running"]
             /\ Start(next)

\* The loop goes on: blocked nodes are skipped and the next node is handed to
\* the pipeline, or the workflow ends.
Advance(w, result) ==
    LET g == plan[w]
        failed == {n \in DOMAIN g : result[n] = "failed"}
        skipped == FailedOrSkipped[g][failed] \ failed
        left == {i \in DOMAIN PlanOrder[g] :
                    result[PlanOrder[g][i]] = "none" /\ PlanOrder[g][i] \notin skipped}
        next == PlanOrder[g][Min(left)]
        marked == [n \in Run |-> IF n \in skipped THEN "skipped" ELSE result[n]]
    IN  IF left = {}
        THEN /\ node' = marked
             /\ workflow' = [workflow EXCEPT ![w] = FinalStatus(w, marked)]
             /\ UNCHANGED pipelineVars
        ELSE /\ node' = [marked EXCEPT ![next] = "running"]
             /\ workflow' = [workflow EXCEPT ![w] = "running"]
             /\ Start(next)

\* handle(): plan, validate the graph, run the first node.
Handle(w) ==
    /\ workflow[w] = "planned"
    /\ PlanValid[plan[w]]
    /\ Advance(w, node)
    /\ UNCHANGED plan

HandleInvalid(w) ==
    /\ workflow[w] = "planned"
    /\ ~ PlanValid[plan[w]]
    /\ workflow' = [workflow EXCEPT ![w] = "invalid"]
    /\ UNCHANGED <<pipelineVars, plan, node>>

\* EXECUTED and verified, or else failed.
NodeResult(r) ==
    IF pc[r] = "returned" /\ outcome[r] = "VERIFIED" THEN "succeeded" ELSE "failed"

\* Mutant: a pipeline run that throws is not caught.
NodeEndsUncaught(w) ==
    /\ workflow[w] = "running"
    /\ \E r \in DOMAIN plan[w] :
        /\ node[r] = "running"
        /\ pc[r] = "returned"
        /\ Advance(w, [node EXCEPT ![r] = NodeResult(r)])
    /\ UNCHANGED plan

\* The pipeline run of the current node has resolved or rejected.
NodeEnds(w) ==
    /\ workflow[w] = "running"
    /\ \E r \in DOMAIN plan[w] :
        /\ node[r] = "running"
        /\ pc[r] \in {"returned", "threw"}
        /\ Advance(w, [node EXCEPT ![r] = NodeResult(r)])
    /\ UNCHANGED plan

\* The callbacks that are due.
Proceed ==
    \/ \E w \in Workflow : NodeEnds(w)
    \/ /\ \E r \in Run : Continue(r) \/ Fault(r)
       /\ UNCHANGED <<plan, workflow, node>>

Next ==
    \/ Proceed
    \/ \E w \in Workflow : Handle(w) \/ HandleInvalid(w)
    \/ /\ \/ \E r \in Run : PresentPermit(r)
          \/ Tick
       /\ UNCHANGED <<plan, workflow, node>>

Spec == Init /\ [][Next]_vars

\* The event loop runs some callback while one is due: the stores, the sink
\* and the executor (it must honour the abort of its timeout) answer.
FairSpec == Spec /\ WF_vars(Proceed)

-----------------------------------------------------------------------------
(* Properties *)

\* validateExecutionGraph accepts exactly the acyclic graphs over their own
\* nodes, and orders every node behind all its dependencies.
OrderCorrect ==
    \A w \in Workflow :
        LET g == plan[w]
            order == PlanOrder[g]
        IN  /\ PlanValid[g] <=>
                /\ \A n \in DOMAIN g : g[n] \subseteq DOMAIN g
                /\ \A S \in SUBSET DOMAIN g : S = {} \/ \E n \in S : g[n] \cap S = {}
            /\ \A i \in DOMAIN order : g[order[i]] \subseteq {order[j] : j \in 1..(i - 1)}

\* The executor is never invoked for a node before it was invoked, and its
\* result verified, for every node it transitively depends on.
DependenciesFirst ==
    \A w \in Workflow : \A n \in executed \cap DOMAIN plan[w] :
        \A d \in plan[w][n] :
            d \in executed /\ outcome[d] = "VERIFIED" /\ node[d] = "succeeded"

\* A workflow reported as succeeded had every node executed, verified and
\* recorded; one reported as invalid had none started.
StatusTruth ==
    \A w \in Workflow :
        /\ workflow[w] = "succeeded"
           => \A n \in DOMAIN plan[w] : n \in executed /\ <<n, "VERIFIED">> \in trail
        /\ workflow[w] \in {"planned", "invalid"}
           => \A n \in DOMAIN plan[w] : pc[n] = "idle"

\* Every workflow that is handled ends, whatever its nodes, the stores and the
\* sink do: again and again none is running, and none runs twice.
WorkflowEnds == []<>(\A w \in Workflow : workflow[w] # "running")

\* A workflow's nodes run in a correct order behind all their dependencies, and
\* the status it reports follows from their results.
WorkflowSound ==
    /\ TypeOK
    /\ OrderCorrect
    /\ DependenciesFirst
    /\ StatusTruth
=============================================================================
