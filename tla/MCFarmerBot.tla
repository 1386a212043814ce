----------------------------- MODULE MCFarmerBot -----------------------------
(* Instances of FarmerBot for TLC. *)
EXTENDS FarmerBot
CONSTANTS n1, n2, n3
NodesTwo == {n1, n2}
NodesThree == {n1, n2, n3}
=============================================================================
