------------------------------- MODULE Network -------------------------------
(***************************************************************************)
(* The life of one network: what grid-client/workloads/network.go (and     *)
(* network_light.go) generates for its nodes, what                         *)
(* deployer/network_deployer.go makes of it on the grid and in the         *)
(* plugin's state, and what state.LoadNetworkFromGrid reads back.          *)
(*                                                                         *)
(* A network gives every node one /24 of its range, a wireguard key and a  *)
(* port, and tells it of its peers. Nodes with an address are peers of     *)
(* each other; the hidden ones, and the user's own machine, are peers of   *)
(* one public node, which is taken from outside the network if it has      *)
(* none. A subnet is its third octet, and stands for the wireguard address *)
(* derived from it too. The range of the network never changes; mycelium   *)
(* keys are left out.                                                      *)
(***************************************************************************)
EXTENDS Naturals, FiniteSets, Functions

CONSTANTS
  Node,       \* node ids: not zero, which the code takes for "none"
  Kind,       \* what GetNodeEndpoint finds: "hidden", "ipv4" or "ipv6"
  LastOctet,  \* bound: 254 in the code
  MaxIds,     \* bound: contract ids the plugin's state may hold for a node
  MaxCalls,   \* bound: calls of the network deployer
  MaxFaults   \* bound: calls that fail on the way, and contracts that end

NodeAssumption == Node \subseteq Nat \ {0} /\ IsFiniteSet(Node)
KindAssumption == Kind \in [Node -> {"hidden", "ipv4", "ipv6"}]
BoundAssumption == LastOctet \in Nat /\ MaxIds \in Nat /\ MaxCalls \in Nat /\ MaxFaults \in Nat

NoNode == 0
NoSubnet == 0
Octet == 2..LastOctet
Empty == <<>>

VARIABLES
  light,    \* the network is a ZNetLight
  znet,     \* the ZNet in the caller's hands
  grid,     \* the deployment each node has: its contract and its workload
  tracked,  \* State.CurrentNodeDeployments
  subnets,  \* State.Networks: the subnets of this network
  status,   \* history: how the last call ended
  calls, faults

vars == <<light, znet, grid, tracked, subnets, status, calls, faults>>

NewNet == [nodes |-> {}, wg |-> FALSE, sized |-> TRUE, ext |-> NoSubnet, sk |-> FALSE,
           pub |-> NoNode, ranges |-> Empty, keys |-> Empty, ports |-> Empty, ids |-> Empty]

Without(f, S) == Restrict(f, DOMAIN f \ S)

(* f where it is defined, and g elsewhere.                                  *)
Over(f, g) == [x \in DOMAIN f \cup DOMAIN g |-> IF x \in DOMAIN f THEN f[x] ELSE g[x]]

(***************************************************************************)
(* Generation                                                              *)
(***************************************************************************)
Hidden(z) == {n \in z.nodes : Kind[n] = "hidden"}
Open(z) == z.nodes \ Hidden(z)

(* needsIPv4Access: the user wants a way in, or hidden nodes have others    *)
(* to talk to.                                                              *)
NeedsPublic(z) == z.wg \/ (Hidden(z) # {} /\ Cardinality(z.nodes) > 1)

(* The public node: the one set, else one of the network's own with an ipv4 *)
(* address, else the one found, whose endpoint must be known.               *)
PublicNodes(z, found, bad) ==
  LET own == {n \in z.nodes : Kind[n] = "ipv4"}
  IN  IF ~NeedsPublic(z) \/ z.pub # NoNode THEN {z.pub}
      ELSE IF own # {} THEN own ELSE {found} \ (bad \cup {NoNode})

Accessible(z) == Open(z) \cup (IF NeedsPublic(z) THEN {z.pub} ELSE {})

(* Fault: the subnets that nodes keep do not count as used. *)
FaultUsedOctets(z, kept) == IF z.wg THEN {z.ext} ELSE {}

(* usedIPs: the subnets nodes keep, and that of the user's machine.         *)
UsedOctets(z, kept) == Range(kept) \cup (IF z.wg THEN {z.ext} ELSE {})

(* AssignNodesIPs: nodes that have a subnet keep it, the user's machine and *)
(* the others take the lowest free octets, in the order the nodes are in.   *)
AssignNodesIPs(z, nodes) ==
  LET kept    == Restrict(z.ranges, nodes \cap DOMAIN z.ranges)
      missing == nodes \ DOMAIN kept
      before  == UsedOctets(z, kept)
      lowest(S) == CHOOSE o \in S : \A p \in S : o <= p
      ext     == IF z.wg /\ z.ext = NoSubnet /\ Octet \ before # {}
                   THEN lowest(Octet \ before) ELSE z.ext
      free    == Octet \ (before \cup (IF z.wg THEN {ext} ELSE {}))
      next    == {o \in free : Cardinality({p \in free : p < o}) < Cardinality(missing)}
      failed  == (z.wg /\ ext = NoSubnet) \/ Cardinality(next) < Cardinality(missing)
  IN  IF failed THEN {[ok |-> FALSE, z |-> [z EXCEPT !.ext = ext]]}
      ELSE {[ok |-> TRUE, z |-> [z EXCEPT !.ext = ext, !.ranges = Over(kept, f)]] :
              f \in Bijection(missing, next)}

(* AssignNodesWGKey: a new key for a node without one. The key a node has   *)
(* on the grid is 1 or 2, a new one is the other.                           *)
AssignNodesWGKey(z, nodes) ==
  [z EXCEPT !.keys = Over(@, [n \in nodes |-> IF n \in DOMAIN grid /\ grid[n].key = 1 THEN 2 ELSE 1])]

(* Ports are drawn anew each time, from those the node does not report as   *)
(* used.                                                                    *)
AssignPorts(z, nodes) ==
  [z EXCEPT !.ports = Over([n \in nodes |-> IF n \in DOMAIN grid /\ grid[n].port = 1 THEN 2 ELSE 1], @)]

(* The endpoint a peer is given: the address of a node that is in the       *)
(* network, or was taken into it by this very call, and its port. That of a *)
(* public node taken in by an earlier call is empty.                        *)
EndpointOf(z, taken, n) ==
  [node |-> IF n \in z.nodes \/ n = taken THEN n ELSE NoNode,
   port |-> IF n \in DOMAIN z.ports THEN z.ports[n] ELSE 0]
NoEndpoint == [node |-> NoNode, port |-> 0]

NodeKey(z, n) == IF n \in DOMAIN z.keys THEN <<n, z.keys[n]>> ELSE <<n, 0>>
UserKey == <<NoNode, 1>>

(* Fault: the user's machine is not reached through the public node. *)
FaultBehindPublic(z) == {z.ranges[h] : h \in Hidden(z)} \cap (IF z.wg THEN {} ELSE Octet)

(* nonAccessibleIPRanges: what is reached through the public node.          *)
BehindPublic(z) == {z.ranges[h] : h \in Hidden(z)} \cup (IF z.wg THEN {z.ext} ELSE {})

(* The peers of a node in the deployment generateDeployments makes for it.  *)
PeersOf(z, taken, n) ==
  LET toOpen(m)   == [key |-> NodeKey(z, m), at |-> EndpointOf(z, taken, m),
                      to |-> {z.ranges[m]} \cup (IF m = z.pub THEN BehindPublic(z) ELSE {})]
      toHidden(h) == [key |-> NodeKey(z, h), at |-> NoEndpoint, to |-> {z.ranges[h]}]
      toUser      == [key |-> UserKey, at |-> NoEndpoint, to |-> {z.ext}]
      toPublic    == [key |-> NodeKey(z, z.pub), at |-> EndpointOf(z, taken, z.pub), to |-> Octet]
  IN  IF n \in Accessible(z)
      THEN {toOpen(m) : m \in Accessible(z) \ {n}}
             \cup (IF n = z.pub THEN {toHidden(h) : h \in Hidden(z)} ELSE {})
             \cup (IF n = z.pub /\ z.wg THEN {toUser} ELSE {})
      ELSE IF z.pub = NoNode THEN {} ELSE {toPublic}

(* ZosWorkload with the metadata NetworkMetaData, in a deployment that has  *)
(* no contract yet.                                                         *)
WorkloadOf(z, taken, n) ==
  [id |-> 0, subnet |-> z.ranges[n], key |-> z.keys[n], port |-> z.ports[n],
   peers |-> PeersOf(z, taken, n), ext |-> z.ext, sk |-> z.sk, pub |-> z.pub]
LightWorkloadOf(z, n) ==
  [id |-> 0, subnet |-> z.ranges[n], key |-> 0, port |-> 0, peers |-> {},
   ext |-> NoSubnet, sk |-> FALSE, pub |-> NoNode]

Refused(z) == [ok |-> FALSE, z |-> z, dls |-> Empty]

(* generateDeployments and the queries before it: found is the node         *)
(* calcPublicNode came up with, bad those whose queries fail. The failure   *)
(* of a node outside the network is an error too, after the rest is done.   *)
GeneratedWith(z, taken, failed) ==
  LET all       == Hidden(z) \cup Accessible(z)
      signed(y) == AssignPorts(AssignNodesWGKey([y EXCEPT !.sk = @ \/ z.wg], all), all)
      made(y)   == [ok |-> ~failed, z |-> y, dls |-> [n \in all |-> WorkloadOf(y, taken, n)]]
  IN  {IF r.ok THEN made(signed(r.z)) ELSE Refused(r.z) : r \in AssignNodesIPs(z, all)}

(* A light network asks for no access, so only subnets are assigned.        *)
GeneratedLight(z) ==
  {IF r.ok THEN [ok |-> TRUE, z |-> r.z, dls |-> [n \in z.nodes |-> LightWorkloadOf(r.z, n)]]
           ELSE Refused(r.z) : r \in AssignNodesIPs(z, z.nodes)}

Generated(z, found, bad) ==
  IF light THEN GeneratedLight(z)
  ELSE IF z.nodes \cap bad # {} \/ PublicNodes(z, found, bad) = {} THEN {Refused(z)}
  ELSE UNION {GeneratedWith([z EXCEPT !.pub = p], IF z.pub = NoNode THEN p ELSE NoNode,
                            {z.pub, found} \cap bad # {}) : p \in PublicNodes(z, found, bad)}

(***************************************************************************)
(* The network deployer                                                    *)
(***************************************************************************)
(* calcPublicNode: asked of the proxy whenever a network may need one, also *)
(* when one of its own nodes has an ipv4 address: endpoints is empty here.  *)
LooksForPublic(z) == z.wg \/ Cardinality(z.nodes) > 1
CalcPublicNode(z) ==
  IF LooksForPublic(z) THEN {n \in Node : Kind[n] = "ipv4"} \cup {NoNode} ELSE {NoNode}

Alive(n, id) == n \in DOMAIN grid /\ grid[n].id = id

Valid(z) == z.nodes # {} /\ z.sized

(* InvalidateBrokenAttributes forgets what it held of nodes whose contract  *)
(* is gone, a public node that is down, and the user's subnet when access   *)
(* is not asked for any more.                                               *)
InvalidateBrokenAttributes(z, up) ==
  LET gone == {n \in DOMAIN z.ids : ~Alive(n, z.ids[n])}
  IN  [z EXCEPT !.ids = Without(@, gone), !.ranges = Without(@, gone),
                !.keys = Without(@, gone), !.ports = Without(@, gone),
                !.ext = IF z.wg THEN @ ELSE NoSubnet,
                !.pub = IF up THEN @ ELSE NoNode]

FreshIds(n) == (1..MaxIds) \ (tracked[n] \cup (IF n \in DOMAIN grid THEN {grid[n].id} ELSE {}))
FreshId(n) == CHOOSE i \in FreshIds(n) : \A j \in FreshIds(n) : i <= j

NewOn(z, dls, n) == [dls[n] EXCEPT !.id = IF n \in DOMAIN z.ids THEN z.ids[n] ELSE FreshId(n)]

(* What Deployer.Deploy leaves on a node when it fails: the deployment of   *)
(* before, of the target, of before under a new contract, or none, as far   *)
(* as the two passes got.                                                   *)
Absent == [id |-> 0]
LeftOn(z, dls, n) ==
  IF n \notin DOMAIN z.ids THEN {Absent, NewOn(z, dls, n)}
  ELSE IF n \in DOMAIN dls THEN {grid[n], NewOn(z, dls, n)}
  ELSE {grid[n], Absent} \cup {[grid[n] EXCEPT !.id = FreshId(n)] : i \in FreshIds(n)}
LeftBehind(z, dls) ==
  LET all == DOMAIN dls \cup DOMAIN z.ids
  IN  {f \in [all -> UNION {LeftOn(z, dls, n) : n \in all}] : \A n \in all : f[n] \in LeftOn(z, dls, n)}

NodesUsed(z) == z.nodes \cup ({z.pub} \ {NoNode})

(* The end of Deploy: ids are taken over, those of the nodes the network    *)
(* uses are stored, those of nodes that are gone removed.                   *)
Record(z, g) ==
  LET ids    == [n \in DOMAIN g |-> g[n].id]
      stored == NodesUsed(z) \cap DOMAIN ids
      gone   == DOMAIN z.ids \ DOMAIN ids
  IN  /\ grid' = g
      /\ tracked' = [n \in Node |-> (tracked[n] \cup (IF n \in stored THEN {ids[n]} ELSE {}))
                                      \ (IF n \in gone THEN {z.ids[n]} ELSE {})]
      /\ subnets' = IF stored = {} THEN subnets ELSE z.ranges

(* ReadNodesConfig: access is taken to be asked for when a peer without     *)
(* endpoint is found.                                                       *)
ReadNodesConfigLight(z, g) == [z EXCEPT !.ranges = [n \in DOMAIN g |-> g[n].subnet]]
ReadNodesConfig(z, g) ==
  IF light THEN ReadNodesConfigLight(z, g)
  ELSE [z EXCEPT !.keys = [n \in DOMAIN g |-> g[n].key], !.ports = [n \in DOMAIN g |-> g[n].port],
                 !.ranges = [n \in DOMAIN g |-> g[n].subnet],
                 !.wg = \E n \in DOMAIN g : \E p \in g[n].peers : p.at = NoEndpoint]

IdsOf(g) == [n \in DOMAIN g |-> g[n].id]

Init ==
  /\ light \in BOOLEAN
  /\ znet = NewNet
  /\ grid = Empty
  /\ tracked = [n \in Node |-> {}]
  /\ subnets = Empty
  /\ status = "new"
  /\ calls = 0 /\ faults = 0

(* "kept" after a call that kept a public node which an earlier one took in *)
(* from outside the network.                                                *)
Ended(before, z) == IF before.pub \in Accessible(z) \ z.nodes THEN "kept" ELSE "ok"

(* The caller sets the nodes of the network and the access it wants, then   *)
(* calls.                                                                   *)
Asked(nodes, wg) == [znet EXCEPT !.nodes = nodes, !.wg = wg]

DeployInvalid(z) ==
  /\ ~Valid(z)
  /\ znet' = z
  /\ status' = "refused"
  /\ UNCHANGED <<light, grid, tracked, subnets>>

(* A network that cannot be generated: what was assigned so far stays.      *)
GenerationFails(z, found) ==
  /\ \E r \in UNION {Generated(z, found, bad) : bad \in {{}} \cup {{n} : n \in Node}} :
       /\ ~r.ok \/ (LooksForPublic(z) /\ found = NoNode)
       /\ znet' = r.z
  /\ status' = "refused"
  /\ UNCHANGED <<light, grid, tracked, subnets>>

DeploySucceeds(z, found) ==
  \E r \in Generated(z, found, {}) :
    LET g == [n \in DOMAIN r.dls |-> NewOn(z, r.dls, n)]
    IN  /\ r.ok /\ (LooksForPublic(z) => found # NoNode)
        /\ \A n \in DOMAIN r.dls \ DOMAIN z.ids : FreshIds(n) # {}
        /\ Record(r.z, g)
        /\ LET y == [r.z EXCEPT !.ids = IdsOf(g)]
           IN  \/ znet' = ReadNodesConfig(y, g) /\ status' = Ended(z, r.z)
               \/ znet' = y /\ status' = "failed"
        /\ UNCHANGED light

DeployFails(z, found) ==
  /\ faults < MaxFaults
  /\ \E r \in Generated(z, found, {}) :
       /\ r.ok /\ (LooksForPublic(z) => found # NoNode)
       /\ \A n \in DOMAIN r.dls \ DOMAIN z.ids : FreshIds(n) # {}
       /\ \E left \in LeftBehind(z, r.dls) :
            LET g == Restrict(left, {n \in DOMAIN left : left[n] # Absent})
            IN  Record(r.z, g) /\ znet' = [r.z EXCEPT !.ids = IdsOf(g)]
  /\ status' = "failed"
  /\ UNCHANGED light

(* Deploy: one call, from validation to the configuration read back.        *)
Deploy(asked) ==
  \/ DeployInvalid(asked)
  \/ /\ Valid(asked)
     /\ \E z \in {InvalidateBrokenAttributes(asked, up) : up \in BOOLEAN} :
          \E found \in CalcPublicNode(z) :
            GenerationFails(z, found) \/ DeploySucceeds(z, found) \/ DeployFails(z, found)

(* BatchDeploy makes a contract for every deployment, so callers use it for *)
(* networks that have none. What was created is recorded and read back.     *)
BatchDeploy(asked) ==
  /\ Valid(asked) /\ DOMAIN znet.ids = {} /\ DOMAIN grid = {}
  /\ \E z \in {InvalidateBrokenAttributes(asked, up) : up \in BOOLEAN} :
       \E found \in CalcPublicNode(z) : \E r \in Generated(z, found, {}) :
             /\ r.ok
             /\ \A n \in DOMAIN r.dls : FreshIds(n) # {}
             /\ \E made \in SUBSET DOMAIN r.dls :
                  LET g == [n \in made |-> NewOn(z, r.dls, n)]
                  IN  /\ Record(r.z, g)
                      /\ znet' = ReadNodesConfig([r.z EXCEPT !.ids = IdsOf(g)], g)
                      /\ status' = IF made = DOMAIN r.dls /\ (LooksForPublic(z) => found # NoNode)
                                     THEN Ended(z, r.z) ELSE "failed"
  /\ UNCHANGED light

(* Fault: the state forgets contracts before they are cancelled. *)
FaultCancel(cancelled) ==
  /\ DOMAIN znet.ids # {}
  /\ grid' = Without(grid, cancelled)
  /\ tracked' = [n \in Node |-> tracked[n] \ (IF n \in DOMAIN znet.ids THEN {znet.ids[n]} ELSE {})]
  /\ znet' = [znet EXCEPT !.ids = Empty]
  /\ status' = "failed"
  /\ UNCHANGED <<light, subnets>>

(* The state forgets contracts before it is known that they are cancelled.  *)
(* Cancel goes from contract to contract and stops at the first error.      *)
Cancel(cancelled) ==
  /\ DOMAIN znet.ids # {}
  /\ LET left == Without(grid, cancelled)
         z    == [znet EXCEPT !.ids = Without(@, cancelled)]
         all  == cancelled = DOMAIN znet.ids
     IN  /\ grid' = left
         /\ tracked' = [n \in Node |-> tracked[n] \ (IF n \in cancelled THEN {znet.ids[n]} ELSE {})]
         /\ subnets' = IF all THEN Empty ELSE subnets
         /\ znet' = IF all THEN ReadNodesConfig(z, Empty) ELSE z
         /\ status' = IF all THEN "cancelled" ELSE "failed"
         /\ UNCHANGED light

(* BatchCancel takes all contracts or none.                                 *)
BatchCancel ==
  /\ DOMAIN znet.ids # {}
  /\ grid' = Without(grid, DOMAIN znet.ids)
  /\ tracked' = [n \in Node |-> tracked[n] \ (IF n \in DOMAIN znet.ids THEN {znet.ids[n]} ELSE {})]
  /\ subnets' = Empty
  /\ znet' = [znet EXCEPT !.ids = Empty, !.keys = Empty, !.ports = Empty, !.ranges = Empty]
  /\ status' = "cancelled"
  /\ UNCHANGED light

(* LoadNetworkFromGrid reads every deployment the state knows of; one that  *)
(* is gone is an error. What the network as a whole has comes from the      *)
(* metadata of the last node read. A light network comes without its range. *)
Merged(z, g) == [z EXCEPT !.nodes = DOMAIN g, !.ranges = [n \in DOMAIN g |-> g[n].subnet], !.ids = IdsOf(g)]
NetworkOf(last, g) ==
  [Merged(NewNet, g) EXCEPT !.wg = g[last].ext # NoSubnet, !.ext = g[last].ext, !.sk = g[last].sk,
     !.pub = g[last].pub, !.keys = [n \in DOMAIN g |-> g[n].key], !.ports = [n \in DOMAIN g |-> g[n].port]]
LightNetworkOf(g) == [Merged(NewNet, g) EXCEPT !.sized = FALSE]
Loaded(last, g) == IF light THEN LightNetworkOf(g) ELSE NetworkOf(last, g)

Load(known) ==
  /\ \A n \in Node : \A id \in known[n] : Alive(n, id)
  /\ LET g == Restrict(grid, {n \in DOMAIN grid : grid[n].id \in known[n]})
     IN  /\ DOMAIN g # {}
         /\ \E last \in DOMAIN g : znet' = Loaded(last, g)
         /\ subnets' = [n \in DOMAIN g |-> g[n].subnet]
  /\ tracked' = known
  /\ status' = "loaded"
  /\ UNCHANGED <<light, grid>>

(* A new process, as each run of grid-cli is one, takes the contracts of    *)
(* the project from the chain.                                              *)
FromChain == [n \in Node |-> IF n \in DOMAIN grid THEN {grid[n].id} ELSE {}]

(* The contract of a node ends on the chain.                                *)
ContractEnds(n) ==
  /\ n \in DOMAIN grid
  /\ grid' = Without(grid, {n})
  /\ status' = "broken"
  /\ UNCHANGED <<light, znet, tracked, subnets>>

Call(action) ==
  /\ calls < MaxCalls
  /\ action
  /\ calls' = calls + 1
  /\ faults' = IF status' = "failed" THEN faults + 1 ELSE faults
  /\ faults' <= MaxFaults

Next ==
  \/ \E nodes \in SUBSET Node \ {{}}, wg \in BOOLEAN :
       /\ light => ~wg
       /\ Call(Deploy(Asked(nodes, wg))) \/ Call(BatchDeploy(Asked(nodes, wg)))
  \/ \E cancelled \in SUBSET DOMAIN znet.ids : Call(Cancel(cancelled))
  \/ Call(BatchCancel)
  \/ (Load(tracked) \/ Load(FromChain)) /\ UNCHANGED <<calls, faults>>
  \/ /\ faults < MaxFaults
     /\ \E n \in Node : ContractEnds(n)
     /\ faults' = faults + 1 /\ UNCHANGED calls

Spec == Init /\ [][Next]_vars

(***************************************************************************)
(* Properties                                                              *)
(***************************************************************************)
(* No two nodes of a network, nor a node and the user's machine, are given  *)
(* the same subnet, whatever was added, removed or lost before. Only a load *)
(* can bring an overlap, one that a failed call left on the grid, and an    *)
(* assignment that runs out of subnets: the user's machine then keeps that  *)
(* of a node the network is to do without, which the network still holds.   *)
Overlaps(z) == ~IsInjective(z.ranges) \/ z.ext \in Range(z.ranges)
RanOut(z) == IsInjective(z.ranges) /\ \A n \in z.nodes \cap DOMAIN z.ranges : z.ranges[n] # z.ext
SubnetsStep ==
  ~Overlaps(znet) /\ Overlaps(znet') =>
    \/ status' = "loaded" /\ status \notin {"ok", "kept"}
    \/ status' = "refused" /\ RanOut(znet')
SubnetsDistinct == [][SubnetsStep]_vars

(* n sends to m what is for subnet to and comes from subnet from: each has  *)
(* the other's key, one knows where the other is, and both accept the       *)
(* subnets.                                                                 *)
At(n) == [node |-> n, port |-> grid[n].port]
Carries(n, m, from, to) ==
  \E q \in grid[n].peers, r \in grid[m].peers :
    /\ q.key = <<m, grid[m].key>> /\ r.key = <<n, grid[n].key>>
    /\ q.at = At(m) \/ r.at = At(n)
    /\ to \in q.to /\ from \in r.to

Reaches(a, b) ==
  LET from == grid[a].subnet
      to   == grid[b].subnet
  IN  \/ Carries(a, b, from, to)
      \/ \E m \in DOMAIN grid \ {a, b} : Carries(a, m, from, to) /\ Carries(m, b, from, to)

(* The user's machine is a peer of the public node, which is told of it     *)
(* alone; the others send to it through that node.                          *)
ReachesUser(a) ==
  LET pub == grid[a].pub
  IN  /\ \E p \in grid[pub].peers : p.key = UserKey /\ p.to = {grid[a].ext}
      /\ a # pub => Carries(a, pub, grid[a].subnet, grid[a].ext)

AllReach ==
  /\ \A a, b \in DOMAIN grid : a # b => Reaches(a, b)
  /\ \A a \in DOMAIN grid : grid[a].ext # NoSubnet => ReachesUser(a)

(* After a deployment without error every two nodes of the network, and the *)
(* user's machine if it asked for access, reach each other.                 *)
Connected == status = "ok" /\ ~light => AllReach

(* The same when the public node is from outside and was taken in by an     *)
(* earlier call: this does not hold, its address is left out.               *)
ConnectedAgain == status \in {"ok", "kept"} /\ ~light => AllReach

(* No deployment of the network is out of sight: the caller's network or    *)
(* the plugin state has its contract, so that one of them can cancel it,    *)
(* after failed calls and reverts that made a contract anew too.            *)
NothingOutOfSight ==
  \A n \in DOMAIN grid :
    grid[n].id \in tracked[n] \/ (n \in DOMAIN znet.ids /\ znet.ids[n] = grid[n].id)

(* Reading a network back from the grid right after it was deployed gives   *)
(* the network that was deployed.                                           *)
LoadStep ==
  (status \in {"ok", "kept"}) /\ status' = "loaded" =>
    /\ znet'.nodes = DOMAIN grid
    /\ \A f \in {"ranges", "keys", "ports", "ids", "ext", "sk", "pub"} : znet'[f] = znet[f]
LoadsWhatWasDeployed == [][LoadStep]_vars

(* A node that stays in the network keeps its subnet, from which its        *)
(* machines have their addresses.                                           *)
SubnetsKept ==
  [][(status \in {"ok", "kept", "loaded"}) /\ status' \in {"ok", "kept", "failed"} =>
       \A n \in DOMAIN grid \cap DOMAIN grid' : grid'[n].subnet = grid[n].subnet]_vars
=============================================================================
