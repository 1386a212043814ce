---------------------------- MODULE MCDeployers -----------------------------
(***************************************************************************)
(* The deployers of networks, gateways and clusters, each on a small grid: *)
(* a behaviour is of one of them, chosen at its start, and the variables   *)
(* of the others stay as they are: those of Network, whose properties the  *)
(* run checks as they stand, as at its start.                              *)
(***************************************************************************)
EXTENDS Network, Sequences, TLC

CONSTANTS
  Gateway, FqdnKind, Project, GwName, GwData, GwNode, PublicNode, GwIds, GwCalls, GwFaults,       \* Gateways
  Cluster, ClusterNode, HiddenNode, Gate, Asks, LastHost, ClusterIds, ClusterCalls, ClusterFaults  \* Kubernetes

VARIABLES
  part,                                   \* the deployer: "net", "gw" or "k8s"
  gws, chain,                             \* Gateways alone
  clusters, nets, split, deployments,     \* Kubernetes alone
  recorded, made, outcome, tries, breaks  \* of these two

gwOnly == <<gws, chain>>
k8sOnly == <<clusters, nets, split, deployments>>
others == <<recorded, made, outcome, tries, breaks>>
mcVars == <<vars, part, gwOnly, k8sOnly, others>>

-----------------------------------------------------------------------------
(* A network over nodes that are reached in each of the three ways.         *)
NetKind == <<"hidden", "ipv6", "ipv4">>

(* Of three gateways two are of one project.                                *)
SomeProjects == [g \in Gateway |-> IF g = "b" THEN "q" ELSE "p"]
Gw == INSTANCE Gateways WITH
  Data <- GwData, Node <- GwNode, MaxIds <- GwIds, MaxCalls <- GwCalls, MaxFaults <- GwFaults,
  tracked <- recorded, status <- outcome, calls <- tries, faults <- breaks

(* A cluster, which grows, shrinks and moves.                               *)
NoAddress == <<0, 0>>
Member(name, node, v4) ==
  [name |-> name, node |-> node, disk |-> 1, pub4 |-> v4, pub6 |-> FALSE, ip |-> NoAddress]
Ask(node, workers, token, entry) == [master |-> Member("", node, TRUE), workers |-> workers, token |-> token, entry |-> entry]
SomeAsks ==
  {Ask(1, <<Member("worker0", 1, FALSE)>>, "token", ""),
   Ask(1, <<Member("worker0", 2, FALSE), Member("worker1", 2, TRUE)>>, "token", "own"),
   Ask(1, <<Member("worker1", 1, FALSE), Member("worker0", 2, FALSE)>>, "token", ""),
   Ask(2, <<>>, "token", ""), Ask(1, <<>>, "short", "")}
K8s == INSTANCE Kubernetes WITH
  Name <- Cluster, Node <- ClusterNode, MaxIds <- ClusterIds, MaxCalls <- ClusterCalls, MaxFaults <- ClusterFaults,
  grid <- deployments, tracked <- recorded, status <- outcome, calls <- tries, faults <- breaks

ASSUME Assumptions ==
  /\ NodeAssumption /\ KindAssumption /\ BoundAssumption
  /\ Gw!GatewayAssumption /\ K8s!ClusterAssumption

-----------------------------------------------------------------------------
NoGw == gws = "unused" /\ chain = "unused"
NoK8s == clusters = "unused" /\ nets = "unused" /\ split = "unused" /\ deployments = "unused"
NoOthers == recorded = "unused" /\ made = "unused" /\ outcome = "unused" /\ tries = "unused" /\ breaks = "unused"

MCInit ==
  /\ Init
  /\ \/ part = "net" /\ NoGw /\ NoK8s /\ NoOthers
     \/ part = "gw" /\ Gw!Init /\ NoK8s /\ light = FALSE
     \/ part = "k8s" /\ K8s!Init /\ NoGw /\ light = FALSE

MCNext ==
  \/ part = "net" /\ Next /\ UNCHANGED <<part, gwOnly, k8sOnly, others>>
  \/ part = "gw" /\ Gw!Next /\ UNCHANGED <<vars, part, k8sOnly>>
  \/ part = "k8s" /\ K8s!Next /\ UNCHANGED <<vars, part, gwOnly>>

MCSpec == MCInit /\ [][MCNext]_mcVars

-----------------------------------------------------------------------------
(* Properties: those of the modules, where they are explained.  Connected,  *)
(* NothingOutOfSight and SubnetsDistinct are Network's own.                 *)

\* A gateway that was deployed has its contracts; a cluster is joined.
DeployedRight == CASE part = "gw" -> Gw!HasItsName [] part = "k8s" -> K8s!Joined [] OTHER -> TRUE

\* A name contract stays with its gateway; a cluster is cancelled as a whole.
HeldUntilCancelled == [][CASE part = "gw" -> Gw!NameStep [] part = "k8s" -> K8s!CancelStep [] OTHER -> TRUE]_mcVars

\* What was just deployed reads back as it was asked for, networks included.
ReadsBack ==
  [][CASE part = "net" -> LoadStep
       [] part = "gw" -> Gw!ReadStep [] part = "k8s" -> K8s!ReadStep]_mcVars
=============================================================================
