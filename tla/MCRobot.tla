------------------------------- MODULE MCRobot -------------------------------
(* Robot, with its constants for TLC. *)
EXTENDS Robot
G(name, n) == [name |-> name, count |-> n, cpu |-> 2, mem |-> 2, ssd |-> 2, ip4 |-> FALSE]
V(name, group, n) ==
  [name |-> name, group |-> group, count |-> n, cpu |-> 1, mem |-> 1, root |-> 1, disk |-> 0, ip4 |-> FALSE, key |-> TRUE]
ConfigsDef ==
  {[groups |-> <<G("g", 2), G("h", 1)>>, vms |-> <<V("v", "g", 2), V("w", "h", 1)>>],
   [groups |-> <<G("g", 1)>>, vms |-> <<V("v", "g", 2), V("w", "none", 1)>>],
   [groups |-> <<G("g", 1)>>, vms |-> <<V("v", "g", 3)>>]}
=============================================================================
