-------------------------- MODULE DependencyGraph ---------------------------
(***************************************************************************)
(* The two topological sorts of the repository, resolveBootOrder of the     *)
(* kernel and validateExecutionGraph of the orchestrator: Kahn's algorithm  *)
(* with a sorted list of ready nodes.  A graph is a function from nodes to  *)
(* the sets of the nodes they depend on; rank gives the boot priority of a  *)
(* node, ties are broken by its id, an integer here.                        *)
(***************************************************************************)
EXTENDS Integers, Sequences, SequencesExt, FiniteSets

\* Dependencies that are no nodes: checked before anything is ordered.
MissingDependencies(g) == (UNION {g[n] : n \in DOMAIN g}) \ DOMAIN g

\* The head of the sorted list of ready nodes.
FirstReady(ready, rank) ==
    CHOOSE n \in ready : \A m \in ready :
        rank[n] < rank[m] \/ (rank[n] = rank[m] /\ n <= m)

\* One turn of the loop: the first ready node is pushed, if there is one.
PushReady(g, rank, sofar) ==
    LET ready == {n \in DOMAIN g \ ToSet(sofar) : g[n] \subseteq ToSet(sofar)}
    IN  IF ready = {} THEN sofar ELSE Append(sofar, FirstReady(ready, rank))

\* The turns of the loop: nodes on or behind a cycle are never ready and left out.
Order(g, rank) ==
    LET turn[k \in 0..Cardinality(DOMAIN g)] ==
            IF k = 0 THEN <<>> ELSE PushReady(g, rank, turn[k - 1])
    IN  turn[Cardinality(DOMAIN g)]

\* ok: no dependency is missing and the order has as many entries as nodes.
Resolves(g, rank) ==
    MissingDependencies(g) = {} /\ Len(Order(g, rank)) = Cardinality(DOMAIN g)

=============================================================================
