----------------------------- MODULE Deployments -----------------------------
(***************************************************************************)
(* grid-client/deployer/deployment_deployer.go: deployments of machines in *)
(* the user's form (Workloads), each a contract on one node, with the      *)
(* private addresses the deployer chooses for them and the contracts the   *)
(* plugin's state remembers (grid-client/state).                           *)
(*                                                                         *)
(* There is one network; the subnet of a node is the node, and an address  *)
(* is the pair of a subnet and a host number in it. A call is one step:    *)
(* calls of this module do not overlap. Outcome has what Deployer.Deploy   *)
(* may leave behind.                                                       *)
(***************************************************************************)
EXTENDS Workloads, Outcome, TLC

CONSTANTS
  Name,       \* names of deployments
  Node,       \* node ids
  NetNode,    \* the nodes the network has a subnet on
  Contents,   \* what a caller may ask for: deployments without name, machines without address
  LastHost,   \* bound: 254 in the code
  MaxIds,     \* bound: contracts ever made
  MaxCalls,   \* bound: calls of the deployer
  MaxFaults   \* bound: calls that fail on the way, and contracts that end

NetAssumption == NetNode \subseteq Node /\ Node \subseteq Nat \ {0}

VARIABLES
  dls,      \* the Deployment objects in the caller's hands
  grid,     \* contract -> the deployment the node has for it
  tracked,  \* State.CurrentNodeDeployments
  made,     \* contracts made so far
  status,   \* history: how the last call for a deployment ended
  clean,    \* history: no call kept an address that was not in use there, or could not ask the node
  calls, faults

vars == <<dls, grid, tracked, made, status, clean, calls, faults>>

Host == 2..LastHost
Lowest(S) == CHOOSE h \in S : \A g \in S : h <= g
Empty == <<>>

NoContent == [net |-> NoName, disks |-> <<>>, volumes |-> <<>>, zdbs |-> <<>>, qsfs |-> <<>>,
              vms |-> <<>>, lights |-> <<>>]
NewDl(name) == [d |-> [name |-> name] @@ NoContent, node |-> 0, cid |-> 0, ids |-> Empty]

(***************************************************************************)
(* Private addresses                                                       *)
(***************************************************************************)
IsMachine(w) == w.type \in {"zmachine", "zmachine-light"}
Running(id) ==
  {grid[id].wls[i] : i \in {i \in DOMAIN grid[id].wls : IsMachine(grid[id].wls[i]) /\ IsOkay(grid[id].wls[i])}}
On(node) == {id \in DOMAIN grid : grid[id].node = node}

(* getUsedHostIDsOfNodeWithinNetwork: the node lists its private addresses, *)
(* those of its own subnet count.                                           *)
UsedHosts(node) == {ip[2] : ip \in {ip \in {w.data.ip : w \in UNION {Running(id) : id \in On(node)}} \ {NoAddress} : ip[1] = node}}

Given(vm) == vm.ip # NoAddress /\ vm.ip # BadAddress

(* AssignPrivateIP: an address that is given is kept if its host number is  *)
(* in use, and must be in the subnet if it is not; else the lowest free     *)
(* host is taken. It is used from then on.                                  *)
AssignPrivateIP(acc, vm, node) ==
  LET free    == Host \ acc.used
      host    == IF Given(vm) THEN vm.ip[2] ELSE Lowest(free)
      refused == IF Given(vm) THEN vm.ip[2] \notin acc.used /\ vm.ip[1] # node ELSE free = {}
  IN  IF refused THEN [acc EXCEPT !.ok = FALSE, !.vms = Append(@, vm)]
      ELSE [acc EXCEPT !.used = @ \cup {host},
                       !.vms = Append(@, IF Given(vm) THEN vm ELSE [vm EXCEPT !.ip = <<node, host>>])]

(* assignPrivateIPs, for one deployment: a deployment on a node without     *)
(* subnet is left out.                                                      *)
AssignAll(vms, used, node) ==
  FoldLeft(LAMBDA acc, vm : AssignPrivateIP(acc, vm, node), [used |-> used, ok |-> TRUE, vms |-> <<>>], vms)
HasMachines(d) == d.vms # <<>> \/ d.lights # <<>>
Assigned(d, node, used) ==
  LET v == AssignAll(d.vms, used, node)
      l == AssignAll(d.lights, v.used, node)
  IN  IF ~HasMachines(d) THEN [out |-> FALSE, ok |-> TRUE, d |-> d, used |-> used]
      ELSE IF node \notin NetNode THEN [out |-> TRUE, ok |-> FALSE, d |-> d, used |-> used]
      ELSE [out |-> FALSE, ok |-> v.ok /\ l.ok, d |-> [d EXCEPT !.vms = v.vms, !.lights = l.vms], used |-> l.used]

(* Fault: each deployment gets addresses as if it were the only one. *)
FaultAssignPrivateIPs(asked, seen) == [i \in DOMAIN asked |-> Assigned(asked[i].d, asked[i].node, seen[asked[i].node])]

(* The same for a list of deployments: what one takes is used for the next  *)
(* on the node. seen is what could be learned of the nodes.                 *)
AssignPrivateIPs(asked, seen) ==
  FoldLeft(LAMBDA acc, a : LET r == Assigned(a.d, a.node, acc.used[a.node])
                           IN  [used |-> [acc.used EXCEPT ![a.node] = r.used], got |-> Append(acc.got, r)],
           [used |-> seen, got |-> <<>>], asked).got

(***************************************************************************)
(* What the grid and the deployer leave                                    *)
(***************************************************************************)
Result(wls, state) == [i \in DOMAIN wls |-> [state |-> state] @@ wls[i]]
(* A node gives the workloads of a deployment in an order of its own: here  *)
(* the reverse of that they were sent in.                                   *)
OnNode(d, node, state) == [node |-> node, name |-> d.name, wls |-> Reverse(Result(ZosWorkloads(d), state))]

Alive(id) == id \in DOMAIN grid

(* A caller asks for contents c on a node, and keeps the addresses machines *)
(* of the same name had: those it uses on the node, or all.                 *)
Machines(d) == d.vms \o d.lights
Addresses(d) == {Machines(d)[i].ip : i \in DOMAIN Machines(d)} \ {NoAddress}
InUse(name, node) == {w.data.ip : w \in UNION {Running(id) : id \in {id \in On(node) : grid[id].name = name}}}
Asked(dl, c, node, keep) ==
  LET at(vm) == LET same == SelectSeq(Machines(dl.d), LAMBDA o : o.name = vm.name)
                IN  IF same # <<>> /\ same[1].ip \in keep THEN [vm EXCEPT !.ip = same[1].ip] ELSE vm
      kept   == [c EXCEPT !.vms = [i \in DOMAIN @ |-> at(@[i])], !.lights = [i \in DOMAIN @ |-> at(@[i])]]
  IN  [d |-> kept @@ [name |-> dl.d.name], node |-> node]
AskedCarefully(dl, c, node) == Asked(dl, c, node, InUse(dl.d.name, node))
Careful(asked) == Addresses(asked.d) \subseteq InUse(asked.d.name, asked.node)

Init ==
  /\ dls = [n \in Name |-> NewDl(n)]
  /\ grid = Empty
  /\ tracked = [n \in Node |-> {}]
  /\ made = 0
  /\ status = [n \in Name |-> "new"]
  /\ clean = TRUE
  /\ calls = 0 /\ faults = 0

(***************************************************************************)
(* The deployer's operations                                               *)
(***************************************************************************)
Track(node, id) == tracked' = [tracked EXCEPT ![node] = @ \cup {id}]

(* Deploy, refused: the deployment does not validate, or its node cannot be *)
(* asked for its addresses.                                                 *)
DeployInvalid(name, asked) ==
  /\ ~ValidDeployment(asked.d, asked.node)
  /\ dls' = [dls EXCEPT ![name].d = asked.d, ![name].node = asked.node]
  /\ status' = [status EXCEPT ![name] = "refused"]
  /\ UNCHANGED <<grid, tracked, made>>

(* Generation fails: addresses chosen so far stay in the caller's object.   *)
GenerationFails(name, asked, r) ==
  /\ ~r.ok
  /\ dls' = [dls EXCEPT ![name].d = r.d, ![name].node = asked.node]
  /\ status' = [status EXCEPT ![name] = "refused"]
  /\ UNCHANGED <<grid, tracked, made>>

(* The end of Deploy: the contract of the node is recorded, if there is     *)
(* one, also of a deployment that failed. Of other nodes nothing is         *)
(* forgotten.                                                               *)
Record(name, asked, d, out) ==
  LET known == asked.node \in DOMAIN out.ids
  IN  /\ dls' = [dls EXCEPT ![name] = [d |-> d, node |-> asked.node, ids |-> out.ids,
                                       cid |-> IF known THEN out.ids[asked.node] ELSE @.cid]]
      /\ grid' = out.grid
      /\ made' = out.made
      /\ IF known THEN Track(asked.node, out.ids[asked.node]) ELSE UNCHANGED tracked

DeploySucceeds(name, asked, r) ==
  /\ r.ok /\ made < MaxIds
  /\ LET new == asked.node :> OnNode(r.d, asked.node, "ok")
     IN  /\ Succeeds(dls[name].ids, grid, new)
         /\ Record(name, asked, r.d, Succeeded(dls[name].ids, grid, new, made))
  /\ status' = [status EXCEPT ![name] = "ok"]

DeployFails(name, asked, r) ==
  /\ r.ok /\ faults < MaxFaults /\ made < MaxIds
  /\ \E out \in Failures(dls[name].ids, grid, asked.node :> OnNode(r.d, asked.node, "error"), made) :
       Record(name, asked, r.d, out)
  /\ status' = [status EXCEPT ![name] = "failed"]

Deploy(name, asked) ==
  LET r == AssignPrivateIPs(<<asked>>, [n \in Node |-> UsedHosts(n)])[1]
  IN  /\ \/ DeployInvalid(name, asked)
         \/ ValidDeployment(asked.d, asked.node) /\ GenerationFails(name, asked, r)
         \/ ValidDeployment(asked.d, asked.node) /\ DeploySucceeds(name, asked, r)
         \/ ValidDeployment(asked.d, asked.node) /\ DeployFails(name, asked, r)
      /\ clean' = (clean /\ Careful(asked))

(* updateStateFromDeployments: what was made is recorded.                   *)
RecordAll(names, asked, got, kept, ids) ==
  LET at(n)   == {i \in DOMAIN names : names[i] = n}
      one(n)  == CHOOSE i \in at(n) : TRUE
      now(i)  == [d |-> got[i].d, node |-> asked[i].node,
                  cid |-> IF i \in kept THEN ids[i] ELSE dls[names[i]].cid,
                  ids |-> IF i \in kept THEN (asked[i].node :> ids[i]) ELSE Empty]
  IN  /\ dls' = [n \in Name |-> IF at(n) = {} THEN dls[n] ELSE now(one(n))]
      /\ tracked' = [n \in Node |-> tracked[n] \cup {ids[i] : i \in {i \in kept : asked[i].node = n}}]

(* BatchDeploy makes a contract for each deployment, so callers use it for  *)
(* those that have none. It goes on after errors: with deployments that are *)
(* not valid, and with nodes that could not be asked (deaf).                *)
BatchDeploy(names, asked, deaf) ==
  LET seen  == [n \in Node |-> IF n \in deaf THEN {} ELSE UsedHosts(n)]
      got   == AssignPrivateIPs(asked, seen)
      sent  == {i \in DOMAIN got : ~got[i].out}
      id(i) == made + Cardinality({j \in sent : j <= i})
      fine(i) == got[i].ok /\ ValidDeployment(got[i].d, asked[i].node)
  IN  /\ \A i \in DOMAIN names : DOMAIN dls[names[i]].ids = {}
      /\ made + Cardinality(sent) <= MaxIds
      /\ \E kept \in {{}, sent} \cup {{i} : i \in sent}, state \in {"ok", "error"} :
           /\ (kept # sent \/ state = "error") => faults < MaxFaults
           /\ grid' = [c \in {id(i) : i \in kept} |->
                         LET i == CHOOSE i \in kept : id(i) = c IN OnNode(got[i].d, asked[i].node, state)] @@ grid
           /\ RecordAll(names, asked, got, kept, [i \in sent |-> id(i)])
           /\ status' = [n \in Name |->
                IF \A i \in DOMAIN names : names[i] # n THEN status[n]
                ELSE IF state = "ok" /\ \A i \in DOMAIN names : names[i] = n => i \in kept /\ fine(i)
                     THEN "ok" ELSE "failed"]
      /\ made' = made + Cardinality(sent)
      /\ clean' = (clean /\ deaf = {} /\ \A i \in DOMAIN asked : Careful(asked[i]))

(* Cancel cancels ContractID, of whichever node, and forgets that of the    *)
(* deployment's node.                                                       *)
Cancel(name) ==
  LET dl == dls[name]
  IN  /\ ValidDeployment(dl.d, dl.node)
      /\ grid' = Without(grid, {dl.cid})
      /\ dls' = [dls EXCEPT ![name].ids = Without(@, {dl.node}), ![name].cid = 0]
      /\ tracked' = [tracked EXCEPT ![dl.node] = @ \ {dl.cid}]
      /\ status' = [status EXCEPT ![name] = "cancelled"]
      /\ UNCHANGED <<made, clean>>

(* Fault: workloads are kept whatever contract is gone, or cannot be read. *)
FaultSync(name) ==
  LET dl == dls[name]
      wls == grid[dl.ids[dl.node]].wls
  IN  /\ \A n \in DOMAIN dl.ids : Alive(dl.ids[n])
      /\ dl.node \in DOMAIN dl.ids
      /\ dls' = [dls EXCEPT ![name].d = Lists(SelectSeq(wls, IsOkay), wls) @@ @]
      /\ status' = [status EXCEPT ![name] = "synced"]
      /\ UNCHANGED <<grid, tracked, made, clean>>

(* Sync: the workloads that are okay, in the order the caller had. ids are  *)
(* kept even when the contract is gone; then they cannot be read.           *)
Sync(name) ==
  LET dl   == dls[name]
      cid  == IF Alive(dl.cid) THEN dl.cid ELSE 0
      wls  == IF dl.node \in DOMAIN dl.ids THEN grid[dl.ids[dl.node]].wls ELSE <<>>
      read == Lists(SelectSeq(wls, LAMBDA w : IsOkay(w) /\ Readable(w, wls)), wls)
  IN  /\ \A n \in DOMAIN dl.ids : Alive(dl.ids[n])
      /\ IF cid = 0 THEN dls' = [dls EXCEPT ![name].cid = 0, ![name].d = [net |-> @.net, name |-> @.name] @@ NoContent]
         ELSE \E d \in Match(dl.d, read) : dls' = [dls EXCEPT ![name].d = d]
      /\ status' = [status EXCEPT ![name] = "synced"]
      /\ UNCHANGED <<grid, tracked, made, clean>>

(* LoadDeploymentFromGrid: goes through the contracts the state has for the *)
(* node, and fails at one that cannot be read. A caller loads what it has   *)
(* no Deployment of, or one that is in order.                               *)
Load(name, node) ==
  /\ dls[name].ids = Empty \/ status[name] = "ok"
  /\ \A id \in tracked[node] : Alive(id)
  /\ \E id \in tracked[node] :
       /\ grid[id].name = name
       /\ \A i \in DOMAIN grid[id].wls : Readable(grid[id].wls[i], grid[id].wls)
       /\ dls' = [dls EXCEPT ![name] = [d |-> NewDeployment(name, grid[id].wls), node |-> node,
                                        cid |-> id, ids |-> (node :> id)]]
  /\ status' = [status EXCEPT ![name] = "loaded"]
  /\ UNCHANGED <<grid, tracked, made, clean>>

(* The contract of a deployment ends on the chain.                          *)
ContractEnds(id) ==
  /\ Alive(id)
  /\ grid' = Without(grid, {id})
  /\ status' = [n \in Name |-> IF status[n] = "ok" THEN "stale" ELSE status[n]]
  /\ UNCHANGED <<dls, tracked, made, clean>>

Call(action) ==
  /\ calls < MaxCalls
  /\ action
  /\ calls' = calls + 1
  /\ faults' = faults + (IF \E n \in Name : status'[n] = "failed" /\ dls'[n] # dls[n] THEN 1 ELSE 0)

Batches == {<<n>> : n \in Name} \cup {p \in Name \X Name : p[1] # p[2]}

Next ==
  \/ \E name \in Name, c \in Contents, node \in Node :
       \/ Call(Deploy(name, AskedCarefully(dls[name], c, node)))
       \/ Call(Deploy(name, Asked(dls[name], c, node, Addresses(dls[name].d))))
  \/ \E names \in Batches, deaf \in {{}, Node} :
       \E c \in Contents, ns \in [DOMAIN names -> Node] :
         Call(BatchDeploy(names, [i \in DOMAIN names |-> AskedCarefully(dls[names[i]], c, ns[i])], deaf))
  \/ \E name \in Name : Call(Cancel(name)) \/ Call(Sync(name))
  \/ \E name \in Name, node \in Node : Call(Load(name, node))
  \/ /\ faults < MaxFaults
     /\ \E id \in DOMAIN grid : ContractEnds(id)
     /\ faults' = faults + 1 /\ UNCHANGED calls

Spec == Init /\ [][Next]_vars

(***************************************************************************)
(* Properties                                                              *)
(***************************************************************************)
(* As long as callers keep only addresses that are in use and nodes can be  *)
(* asked, the machines that run on a node have addresses of its subnet, no  *)
(* two the same, whatever was updated, moved, reverted or cancelled before. *)
Sites == {s \in UNION {{id} \X DOMAIN grid[id].wls : id \in DOMAIN grid} :
            LET w == grid[s[1]].wls[s[2]] IN IsMachine(w) /\ IsOkay(w) /\ w.data.ip # NoAddress}
IpAt(s) == grid[s[1]].wls[s[2]].data.ip
AddressesRight ==
  clean => \A s, t \in Sites : s # t => IpAt(s) # IpAt(t) /\ IpAt(s)[1] = grid[s[1]].node

(* A contract that lives is known: the plugin's state or a deployment of    *)
(* the caller has it, after a failed or reverted move too.                  *)
NothingLost ==
  \A id \in DOMAIN grid :
    \/ \E n \in Node : id \in tracked[n]
    \/ \E name \in Name : \E n \in DOMAIN dls[name].ids : dls[name].ids[n] = id

(* Reading a deployment back right after it was deployed gives what was     *)
(* asked for: with Sync in the caller's order, by loading it up to a Match  *)
(* with that. Light machines with logs (ByType finds those twice) and the   *)
(* keys of a QSFS's metadata are not read back.                             *)
Plain(d) == (\A i \in DOMAIN d.lights : d.lights[i].zlogs = <<>>) /\ d.qsfs = <<>>
Content(d) == [f \in DOMAIN NoContent \ {"net"} |-> d[f]]
ReadStep ==
  \A name \in Name : status[name] = "ok" /\ Plain(dls[name].d) =>
    /\ status'[name] = "synced" => Content(dls'[name].d) = Content(dls[name].d)
    /\ status'[name] = "loaded" /\ dls'[name].node = dls[name].node =>
         dls[name].d \in Match(dls[name].d, dls'[name].d)
ReadsBack == [][ReadStep]_vars
=============================================================================
