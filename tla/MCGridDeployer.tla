--------------------------- MODULE MCGridDeployer ---------------------------
(* Instances of GridDeployer for TLC. *)
EXTENDS GridDeployer, TLC

CONSTANTS n1, n2, w1, d1, d2

(* One workload that may ask for either of two things. *)
OneWorkload == {[w \in Workload |-> d] : d \in Data}

Symmetric == Permutations(Node) \cup Permutations(Data)
=============================================================================
