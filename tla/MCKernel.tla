------------------------------ MODULE MCKernel ------------------------------
(* Model-checking instance of Kernel: module 1 has the lowest boot priority  *)
(* number, 2 is an audit module.  Whatever is not registered is a missing    *)
(* dependency of what is.                                                    *)
EXTENDS Kernel

\* A chain, a chain against the priorities, a fork, a cycle.
MCGraphs ==
    {[m \in 1..3 |-> CASE m = 1 -> {} [] m = 2 -> {1} [] m = 3 -> {2}],
     [m \in 1..3 |-> CASE m = 1 -> {3} [] m = 2 -> {} [] m = 3 -> {}],
     [m \in 1..3 |-> IF m = 1 THEN {} ELSE {1}],
     [m \in 1..3 |-> CASE m = 1 -> {} [] m = 2 -> {3} [] m = 3 -> {2}]}

MCBootRank == [m \in 1..3 |-> m]

=============================================================================
