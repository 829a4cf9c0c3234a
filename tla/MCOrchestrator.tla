--------------------------- MODULE MCOrchestrator ---------------------------
(* Model-checking instance of Orchestrator and of Kernel, which share no     *)
(* state: the initial state chooses which of the two a behaviour explores.   *)
(* In the orchestrator workflow v has three nodes in                         *)
(* any of a few graphs, among them a cycle and a missing dependency.         *)
(* Workflow w has one node: 4, which needs the same approval as node 1, or   *)
(* 5, which requires an approval and has none.  9 presents the permit of     *)
(* node 3 again.                                                             *)
EXTENDS Orchestrator, MCKernel

VARIABLE part

MCRun == {1, 2, 3, 4, 5, 9}

MCDirect == {9}

MCPermit == {1, 2, 3, 4, 5}

MCPermitOf == [r \in MCRun |-> IF r = 9 THEN 3 ELSE r]

MCApprovalOf == [r \in MCRun |-> IF r \in {1, 4} THEN "a" ELSE "noApproval"]

MCApprovalExpiry == [a \in {"a"} |-> 1]

MCWorkflow == {"v", "w"}

\* A chain, a join of 1 and 2, a cycle, a missing dependency.
MCGraphsOfV ==
    {[n \in 1..3 |-> CASE n = 1 -> {} [] n = 2 -> {1} [] n = 3 -> {2}],
     [n \in 1..3 |-> CASE n = 1 -> {} [] n = 2 -> {} [] n = 3 -> {1, 2}],
     [n \in 1..3 |-> IF n = 2 THEN {3} ELSE IF n = 3 THEN {2} ELSE {}],
     [n \in 1..3 |-> IF n = 2 THEN {7} ELSE {}]}

MCPlannedGraphs == [w \in MCWorkflow |->
    IF w = "v" THEN MCGraphsOfV ELSE {[n \in {m} |-> {}] : m \in {4, 5}}]

\* The part that is not explored stays in one initial state, where none of its
\* continuations is due, so that its fairness asks for nothing.
MCInit ==
    /\ part \in {"workflows", "kernel"}
    /\ Init /\ KernelInit
    /\ part # "workflows" => plan["v"][3] = {2} /\ plan["v"][2] = {1} /\ DOMAIN plan["w"] = {4}
    /\ part # "kernel" => dependsOn[3] = {2} /\ dependsOn[2] = {1}

MCNext ==
    /\ UNCHANGED part
    /\ \/ part = "workflows" /\ Next /\ UNCHANGED kernelVars
       \/ part = "kernel" /\ KernelNext /\ UNCHANGED vars

MCSpec == /\ MCInit /\ [][MCNext]_<<part, vars, kernelVars>>
          /\ WF_vars(Proceed) /\ WF_kernelVars(KernelProceed)

=============================================================================
