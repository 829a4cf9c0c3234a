-------------------------------- MODULE Gates --------------------------------
(* The shape every evaluate... function of the repository has: an ordered     *)
(* list of checks, each with the verdict it returns when it fails.            *)
EXTENDS Naturals, Sequences

\* checks is a sequence of <<condition that refuses, verdict>>.
FirstRefusal(checks, otherwise) ==
    LET failed == {i \in 1..Len(checks) : checks[i][1]}
    IN  IF failed = {} THEN otherwise
        ELSE checks[CHOOSE i \in failed : \A j \in failed : i <= j][2]

=============================================================================
