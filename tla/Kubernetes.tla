----------------------------- MODULE Kubernetes -----------------------------
(***************************************************************************)
(* grid-client/deployer/k8s_deployer.go with workloads/k8s.go, and the     *)
(* commands of grid-cli for clusters: a cluster is a master and workers,   *)
(* one contract a node, on the network of the cluster. Calls do not        *)
(* overlap; Outcome has what Deployer.Deploy may leave behind. An address  *)
(* is the pair of a subnet, which is the node, and a host in it.           *)
(***************************************************************************)
EXTENDS Outcome, Integers, Sequences, SequencesExt, Functions

CONSTANTS
  Name,       \* names of clusters, which are those of their masters
  Node,       \* node ids
  HiddenNode, \* the nodes that cannot be reached from outside
  Gate,       \* the public node a network takes when it needs one
  Asks,       \* clusters a caller may ask for
  LastHost,   \* bound: 254 in the code
  MaxIds, MaxCalls, MaxFaults   \* bounds: contracts made, calls, failures


VARIABLES
  clusters,  \* the K8sCluster objects in the caller's hands
  grid,      \* contract -> the machines of a cluster its node has
  nets,      \* cluster -> the nodes its network is on
  tracked,   \* State.CurrentNodeDeployments
  made,      \* contracts made so far
  status,    \* history: how the last call for a cluster ended
  split,     \* history: the clusters that were batch deployed on more than one node,
             \* or that a refused call left with one address for two members
  calls, faults

vars == <<clusters, grid, nets, tracked, made, status, split, calls, faults>>

NoAddress == <<0, 0>>
Nobody == [name |-> "", node |-> 0, disk |-> 0, pub4 |-> FALSE, pub6 |-> FALSE, ip |-> NoAddress]
NoIds == [n \in {} |-> 0]
NoCluster == [master |-> Nobody, workers |-> <<>>, token |-> "", entry |-> "", ids |-> NoIds]

Members(k) == {k.master} \cup Range(k.workers)
NodesOf(k) == {m.node : m \in Members(k)}

(* A caller who asks for a cluster leaves the addresses to the deployer.    *)
Member == [name : STRING, node : Node, disk : Nat, pub4 : BOOLEAN, pub6 : BOOLEAN, ip : {NoAddress}]
ClusterAssumption ==
  /\ Node \subseteq Nat \ {0} /\ IsFiniteSet(Node) /\ HiddenNode \subseteq Node /\ Gate \in Node \ HiddenNode
  /\ LastHost \in Nat /\ Name \subseteq STRING /\ IsFiniteSet(Name)
  /\ \A a \in Asks :
       /\ a = [master |-> a.master, workers |-> a.workers, token |-> a.token, entry |-> a.entry]
       /\ a.master \in Member /\ a.workers \in Seq(Member)

Gone(id) == id \notin DOMAIN grid
Has(n, id) == id \in DOMAIN grid /\ grid[id].node = n
ContractsOf(c) == {id \in DOMAIN grid : grid[id].name = c}
Result(k, g, n, t, s) == [k |-> k, grid |-> g, made |-> n, tracked |-> t, status |-> s]

(***************************************************************************)
(* From a cluster to deployments and back                                  *)
(***************************************************************************)
(* zosWorkload: a machine with its disk and public address. A worker is     *)
(* given the address of the master.                                         *)
Machine(k, m, url) ==
  [name |-> m.name, disk |-> m.disk, pub4 |-> m.pub4, pub6 |-> m.pub6, ip |-> m.ip, url |-> url,
   token |-> k.token, entry |-> k.entry]
MachinesOn(k, n) ==
  {Machine(k, m, NoAddress) : m \in {m \in {k.master} : m.node = n}}
  \cup {Machine(k, m, k.master.ip) : m \in {m \in Range(k.workers) : m.node = n}}
Deployments(k, state) ==
  [n \in NodesOf(k) |-> [name |-> k.master.name, node |-> n, state |-> state, machines |-> MachinesOn(k, n)]]

(* NewK8sNodeFromWorkload: a node with one public address reads as one with *)
(* both, since an address that is not set is written "<nil>"; the           *)
(* entrypoint is not read.                                                  *)
FromWorkload(w, n) ==
  [name |-> w.name, node |-> n, disk |-> w.disk, pub4 |-> w.pub4 \/ w.pub6, pub6 |-> w.pub4 \/ w.pub6, ip |-> w.ip]
ReadFrom(ids) == UNION {{<<w, grid[ids[n]].node>> : w \in grid[ids[n]].machines} : n \in DOMAIN ids}

(* AssignNodesIPRange never fails: a node without subnet gets an empty      *)
(* range, from which no address can be taken.                               *)
HasRange(n, net) == n \in net
UsedIPs(k, n) == {m.ip[2] : m \in {m \in Members(k) : m.node = n /\ m.ip # NoAddress}}
(* Fault: only the master's address counts as used. *)
FaultFree(k, n, net) == IF HasRange(n, net) THEN (2..LastHost) \ {m.ip[2] : m \in {m \in {k.master} : m.node = n}} ELSE {}

Free(k, n, net) == IF HasRange(n, net) THEN (2..LastHost) \ UsedIPs(k, n) ELSE {}
Least(S) == CHOOSE h \in S : \A g \in S : h <= g

(* assignNodesIPs: an address is kept if it is in the range of the node,    *)
(* else the lowest host no machine of this cluster has there is taken. The  *)
(* master is first, at place 0; the first that gets none ends it.           *)
Places(k) == 0..Len(k.workers)
MemberAt(k, i) == IF i = 0 THEN k.master ELSE k.workers[i]
WithIp(k, i, ip) == IF i = 0 THEN [k EXCEPT !.master.ip = ip] ELSE [k EXCEPT !.workers[i].ip = ip]
Keeps(m, net) == m.ip # NoAddress /\ HasRange(m.node, net) /\ m.ip[1] = m.node
Assignable(k, m, net) == Keeps(m, net) \/ Free(k, m.node, net) # {}
AssignAt(r, i, net) ==
  LET m == MemberAt(r.k, i)
  IN  IF ~r.ok \/ ~Assignable(r.k, m, net) THEN [k |-> r.k, ok |-> FALSE]
      ELSE IF Keeps(m, net) THEN r
      ELSE [k |-> WithIp(r.k, i, <<m.node, Least(Free(r.k, m.node, net))>>), ok |-> TRUE]
AssignNodesIPs(k, net) ==
  LET upTo[i \in Places(k)] == AssignAt(IF i = 0 THEN [k |-> k, ok |-> TRUE] ELSE upTo[i - 1], i, net)
  IN  upTo[Len(k.workers)]

Valid(k) ==
  /\ k.token # "short"
  /\ \A i, j \in DOMAIN k.workers : i # j => k.workers[i].name # k.workers[j].name
  /\ \A i \in DOMAIN k.workers : k.workers[i].name # k.master.name

(* InvalidateBrokenAttributes: contracts that are gone are forgotten. When  *)
(* some contract was held and the node of the master has none, the master   *)
(* is replaced by an empty one, at which the next step of the call panics.  *)
Invalidated(k) == [k EXCEPT !.ids = Restrict(@, {n \in DOMAIN @ : ~Gone(@[n])})]
Panics(k) == k.master = Nobody \/ (DOMAIN k.ids # {} /\ k.master.node \notin DOMAIN Invalidated(k).ids)
(* assignNodesFlistsAndEntryPoints *)
Prepared(k) == [Invalidated(k) EXCEPT !.entry = IF @ = "" THEN "zinit" ELSE @]

(***************************************************************************)
(* Deploy                                                                  *)
(***************************************************************************)
(* What is remembered: nothing unless the master's node has its contract;   *)
(* a worker whose node has none leaves a contract 0.                        *)
Stored(k, ids) ==
  [n \in Node |-> IF k.master.node \in DOMAIN ids /\ n \in NodesOf(k)
                  THEN tracked[n] \cup {IF n \in DOMAIN ids THEN ids[n] ELSE 0} ELSE tracked[n]]

Panicked(k) == Result(k, grid, made, tracked, "panic")
Refused(k) == Result(k, grid, made, tracked, "refused")
(* A contract written under a node it is not of makes the update of that    *)
(* node fail, with contracts made on the others and nothing reverted.       *)
Misplaced(k) == \E n \in DOMAIN k.ids : ~Has(n, k.ids[n])
Half(ids, new) == {Left(ids, grid, new, made, {}, {}, L, {}) : L \in SUBSET (DOMAIN new \ DOMAIN ids)}
Ended(k, out, s) == Result([k EXCEPT !.ids = out.ids], out.grid, out.made, Stored(k, out.ids), s)

DeployOutcomes(k, net) ==
  LET p == Prepared(k)
      a == AssignNodesIPs(p, net)
      new(state) == Deployments(a.k, state)
  IN  IF Panics(k) THEN {Panicked(k)}
      ELSE IF ~Valid(p) THEN {Refused(p)}
      ELSE IF ~a.ok THEN {Refused(a.k)}
      ELSE IF Misplaced(p) THEN {Ended(a.k, out, "failed") : out \in Half(p.ids, new("ok"))}
      ELSE {Ended(a.k, Succeeded(p.ids, grid, new("ok"), made), "ok")}
           \cup (IF faults < MaxFaults
                 THEN {Refused(p)} \cup {Ended(a.k, out, "failed") : out \in Failures(p.ids, grid, new("error"), made)}
                 ELSE {})

(* No two members of a cluster have one address.                            *)
Apart(k) == \A a, b \in Members(k) : a.name # b.name /\ a.ip = b.ip => a.ip = NoAddress

Take(c, r) ==
  /\ made < MaxIds
  /\ clusters' = [clusters EXCEPT ![c] = r.k]
  /\ grid' = r.grid
  /\ made' = r.made
  /\ tracked' = r.tracked
  /\ status' = [status EXCEPT ![c] = r.status]
  /\ split' = IF r.status = "refused" /\ ~Apart(r.k) THEN split \cup {c} ELSE split

(* A caller asks for a new cluster, or changes the members of the one it    *)
(* has: those it had keep their addresses.                                  *)
Asked(k, ask) ==
  LET had(m) == {o \in Members(k) : o.name = m.name}
      with(m) == IF had(m) # {} THEN [m EXCEPT !.ip = (CHOOSE o \in had(m) : TRUE).ip] ELSE m
  IN  [master |-> with(ask.master), workers |-> [i \in DOMAIN ask.workers |-> with(ask.workers[i])],
       token |-> ask.token, entry |-> ask.entry, ids |-> k.ids]

Deploy(c, ask) ==
  /\ \E r \in DeployOutcomes(Asked(clusters[c], ask), nets[c]) : Take(c, r)
  /\ UNCHANGED nets

(* BatchDeploy of clusters without contracts, one after the other: the      *)
(* first, c, that is refused ends the call before anything is sent, when    *)
(* those of before have their addresses.                                    *)
BatchRefused(asked, gen) ==
  \E c \in DOMAIN asked : \E before \in SUBSET (DOMAIN asked \ {c}) :
    LET left(d) == IF d \in before \/ (d = c /\ Valid(asked[c])) THEN gen[d].k
                   ELSE IF d = c THEN Prepared(asked[c]) ELSE asked[d]
    IN  /\ \A d \in before : Valid(asked[d]) /\ gen[d].ok
        /\ ~Valid(asked[c]) \/ ~gen[c].ok
        /\ clusters' = [d \in Name |-> IF d \in DOMAIN asked THEN left(d) ELSE clusters[d]]
        /\ status' = [d \in Name |-> IF d \in DOMAIN asked THEN "refused" ELSE status[d]]
        /\ split' = split \cup {d \in DOMAIN asked : ~Apart(left(d))}
        /\ UNCHANGED <<grid, made, tracked>>

(* Else each contract found on a node of a cluster is written under the     *)
(* node of its master, the last one to stay.                                *)
Sent(gen) == UNION {{<<c, n>> : n \in NodesOf(gen[c].k)} : c \in DOMAIN gen}
Written(c, k, number, done) ==
  LET found == {i \in Places(k) : <<c, MemberAt(k, i).node>> \in done}
      last  == CHOOSE i \in found : \A j \in found : j <= i
  IN  IF found = {} THEN NoIds ELSE Single(k.master.node, number[<<c, MemberAt(k, last).node>>])

BatchEnds(gen, number, done, state) ==
  LET all   == done = DOMAIN number /\ state = "ok"
      ids(c) == Written(c, gen[c].k, number, done)
      keep(n) == {IF n \in DOMAIN ids(c) THEN ids(c)[n] ELSE 0 :
                    c \in {c \in DOMAIN gen : DOMAIN ids(c) # {} /\ n \in NodesOf(gen[c].k)}}
      from(id) == CHOOSE s \in done : number[s] = id
      new   == [id \in {number[s] : s \in done} |-> Deployments(gen[from(id)[1]].k, state)[from(id)[2]]]
  IN  /\ ~all => faults < MaxFaults
      /\ grid' = Over(new, grid)
      /\ clusters' = [c \in Name |-> IF c \in DOMAIN gen THEN [gen[c].k EXCEPT !.ids = ids(c)] ELSE clusters[c]]
      /\ tracked' = [n \in Node |-> tracked[n] \cup keep(n)]
      /\ status' = [c \in Name |-> IF c \notin DOMAIN gen THEN status[c] ELSE IF all THEN "batched" ELSE "failed"]
      /\ split' = split \cup {c \in DOMAIN gen : Cardinality(NodesOf(gen[c].k)) > 1}

BatchDeploy(asks) ==
  LET asked == [c \in DOMAIN asks |-> Asked(clusters[c], asks[c])]
      gen   == [c \in DOMAIN asks |-> AssignNodesIPs(Prepared(asked[c]), nets[c])]
  IN  /\ \A c \in DOMAIN asks : DOMAIN clusters[c].ids = {}
      /\ \/ BatchRefused(asked, gen)
         \/ /\ \A c \in DOMAIN asks : Valid(asked[c]) /\ gen[c].ok
            /\ made' = made + Cardinality(Sent(gen)) /\ made' <= MaxIds
            /\ \E number \in Bijection(Sent(gen), (made + 1)..made') : \E done \in SUBSET Sent(gen), state \in {"ok", "error"} :
                 BatchEnds(gen, number, done, state)
      /\ UNCHANGED nets

(* Cancel: contracts on nodes that are not of the cluster are passed over.  *)
Cancel(c) ==
  LET k == clusters[c]
      these == DOMAIN k.ids \cap NodesOf(k)
  IN  /\ k.master # Nobody
      /\ grid' = Without(grid, {k.ids[n] : n \in these})
      /\ clusters' = [clusters EXCEPT ![c].ids = Without(@, these)]
      /\ tracked' = [n \in Node |-> tracked[n] \ (IF n \in these THEN {k.ids[n]} ELSE {})]
      /\ status' = [status EXCEPT ![c] = "cancelled"]
      /\ UNCHANGED <<made, nets, split>>

(***************************************************************************)
(* Reading a cluster back                                                  *)
(***************************************************************************)
(* The elements of a sequence at the places in I.                           *)
OnlyAt(s, I) == [j \in 1..Cardinality(I) |-> s[CHOOSE i \in I : Cardinality({h \in I : h < i}) = j - 1]]

(* UpdateFromRemote: the workers the caller knows, in that order, then the  *)
(* others. Without a master, any machine left is one too many.              *)
RemoteWorkers(k, read) ==
  LET at(w) == FromWorkload(w[1], w[2])
      of(m) == {w \in read : w[1].name = m.name}
      known == OnlyAt(k.workers, {i \in DOMAIN k.workers : of(k.workers[i]) # {}})
      rest  == {w \in read : \A m \in Members(k) : m.name # w[1].name}
  IN  {[i \in DOMAIN known |-> at(CHOOSE w \in of(known[i]) : TRUE)] \o s : s \in SetToSeqs({at(w) : w \in rest})}
UpdateFromRemote(c) ==
  LET k    == clusters[c]
      read == ReadFrom(k.ids)
      ms   == {w \in read : w[1].name = k.master.name}
      seen == {w[1].token : w \in read} \ {k.token}
  IN  /\ k.master # Nobody
      /\ ~Misplaced(k)
      /\ IF ms = {} /\ read # {}
         THEN status' = [status EXCEPT ![c] = "panic"] /\ UNCHANGED clusters
         ELSE /\ status' = [status EXCEPT ![c] = IF @ = "ok" THEN "synced" ELSE "read"]
              /\ \E ws \in RemoteWorkers(k, read), t \in IF seen = {} THEN {k.token} ELSE seen :
                   clusters' = [clusters EXCEPT ![c].workers = ws, ![c].token = t,
                     ![c].master = IF ms = {} THEN Nobody ELSE LET w == CHOOSE w \in ms : TRUE IN FromWorkload(w[1], w[2])]
      /\ UNCHANGED <<grid, nets, tracked, made, split>>

(* LoadK8sFromGrid: every one of the nodes must have a deployment of the    *)
(* cluster, and no contract the state has for it may be gone. The master is *)
(* the machine that is given no other's address.                            *)
Found(c, n, known) == {id \in known[n] : Has(n, id) /\ grid[id].name = c}
Readable(c, ns, known) == \A n \in ns : Found(c, n, known) # {} /\ \A id \in known[n] : Has(n, id)
LoadedAs(c, ids) ==
  LET read == ReadFrom(ids)
      ms   == {w \in read : w[1].url = NoAddress}
  IN  {[master |-> FromWorkload(m[1], m[2]), workers |-> ws, token |-> m[1].token, entry |-> "", ids |-> ids] :
         m \in ms, ws \in SetToSeqs({FromWorkload(w[1], w[2]) : w \in read \ ms})}
Loads(c, ns, known) ==
  UNION {LoadedAs(c, ids) : ids \in {ids \in [ns -> UNION Range(known)] : \A n \in ns : ids[n] \in Found(c, n, known)}}

Load(c) ==
  LET ns == {grid[id].node : id \in ContractsOf(c)}
  IN  /\ ns # {} /\ Readable(c, ns, tracked)
      /\ \E k \in Loads(c, ns, tracked) : clusters' = [clusters EXCEPT ![c] = k]
      /\ status' = [status EXCEPT ![c] = IF @ = "ok" THEN "loaded" ELSE "read"]
      /\ UNCHANGED <<grid, nets, tracked, made, split>>

(* GetK8sCluster: the contracts of the project, of which the network has    *)
(* some: a node that has only the network makes the call fail.              *)
Get(c) ==
  LET known == [n \in Node |-> tracked[n] \cup {id \in ContractsOf(c) : grid[id].node = n}]
      ns    == {grid[id].node : id \in ContractsOf(c)} \cup nets[c]
  IN  /\ ContractsOf(c) # {}
      /\ tracked' = known
      /\ \/ /\ Readable(c, ns, known)
            /\ \E k \in Loads(c, ns, known) : clusters' = [clusters EXCEPT ![c] = k]
            /\ status' = [status EXCEPT ![c] = IF @ = "ok" THEN "loaded" ELSE "read"]
         \/ (~Readable(c, ns, known) \/ Loads(c, ns, known) = {}) /\ UNCHANGED <<clusters, status>>
      /\ UNCHANGED <<grid, nets, made, split>>

(***************************************************************************)
(* The commands                                                            *)
(***************************************************************************)
(* A network takes a public node when all of its nodes, two at least, are   *)
(* hidden (Network has the whole of it).                                    *)
NetworkOn(ns) == IF ns \subseteq HiddenNode /\ Cardinality(ns) > 1 THEN ns \cup {Gate} ELSE ns

(* DeployKubernetesCluster: the network, then the cluster; the network is   *)
(* taken away again if that fails.                                          *)
DeployCluster(c, ask) ==
  /\ clusters[c] = NoCluster /\ nets[c] = {}
  /\ LET net == NetworkOn({ask.master.node} \cup {m.node : m \in Range(ask.workers)})
     IN  \E r \in DeployOutcomes(Asked(NoCluster, ask), net) :
           Take(c, r) /\ nets' = [nets EXCEPT ![c] = IF r.status = "ok" THEN net ELSE {}]

(* AddWorkersKubernetesCluster: the network is deployed on the new node     *)
(* first. The new worker is named after the number there are.               *)
WorkerName(i) == <<"worker0", "worker1", "worker2", "worker3">>[i + 1]
NewWorker(k, n) == [Nobody EXCEPT !.name = WorkerName(Len(k.workers)), !.node = n, !.disk = 1]
AddWorker(c, n) ==
  LET net == NetworkOn(nets[c] \cup {n})
      k   == [clusters[c] EXCEPT !.workers = Append(@, NewWorker(clusters[c], n))]
  IN  /\ status[c] \in {"loaded", "read"} /\ nets[c] # {} /\ Len(clusters[c].workers) < 3
      /\ \E r \in DeployOutcomes(k, net) : Take(c, r)
      /\ nets' = [nets EXCEPT ![c] = net]

(* DeleteWorkerKubernetesCluster: the network leaves a node before the      *)
(* worker does, and the state forgets what it knew of the node.             *)
DeleteWorker(c, i) ==
  LET k   == [clusters[c] EXCEPT !.workers = OnlyAt(@, {j \in DOMAIN @ : @[j] # @[i]})]
      net == NetworkOn(NodesOf(k))
      out == nets[c] \ NodesOf(k)
  IN  /\ status[c] \in {"loaded", "read"} /\ nets[c] # {}
      /\ \E r \in DeployOutcomes(k, net) :
           Take(c, [r EXCEPT !.tracked = [n \in Node |-> IF n \in out THEN {} ELSE @[n]]])
      /\ nets' = [nets EXCEPT ![c] = net]

(***************************************************************************)
(* The specification                                                       *)
(***************************************************************************)
Init ==
  /\ clusters = [c \in Name |-> NoCluster]
  /\ grid = NoIds
  /\ nets \in [Name -> {{}, Node \ HiddenNode, Node}]
  /\ tracked = [n \in Node |-> {}]
  /\ made = 0
  /\ status = [c \in Name |-> "new"]
  /\ split = {}
  /\ calls = 0 /\ faults = 0

(* The contract of a deployment ends on the chain. A caller that panicked   *)
(* is gone for good.                                                        *)
ContractEnds(id) ==
  /\ faults < MaxFaults
  /\ grid' = Without(grid, {id})
  /\ status' = [status EXCEPT ![grid[id].name] = IF @ = "panic" THEN @ ELSE "stale"]
  /\ faults' = faults + 1
  /\ UNCHANGED <<clusters, nets, tracked, made, split, calls>>

Call(action) ==
  /\ calls < MaxCalls
  /\ \A c \in Name : status[c] # "panic"
  /\ action
  /\ calls' = calls + 1
  /\ faults' = faults + (IF "failed" \in Range(status') \ Range(status) THEN 1 ELSE 0)

AskFor(c, a) == [a EXCEPT !.master.name = c]

Next ==
  \/ \E c \in Name :
       \/ \E a \in Asks : Call(Deploy(c, AskFor(c, a))) \/ Call(DeployCluster(c, AskFor(c, a)))
       \/ Call(Cancel(c)) \/ Call(UpdateFromRemote(c)) \/ Call(Load(c)) \/ Call(Get(c))
       \/ \E n \in Node : Call(AddWorker(c, n))
       \/ \E i \in DOMAIN clusters[c].workers : Call(DeleteWorker(c, i))
  \/ \E S \in (SUBSET Name) \ {{}} : \E asks \in [S -> Asks] :
       Call(BatchDeploy([c \in S |-> AskFor(c, asks[c])]))
  \/ \E id \in DOMAIN grid : ContractEnds(id)

Spec == Init /\ [][Next]_vars

(***************************************************************************)
(* Properties                                                              *)
(***************************************************************************)
MachinesOf(c) == UNION {{<<grid[id].node, w>> : w \in grid[id].machines} : id \in ContractsOf(c)}

(* A cluster that was deployed, added to or taken from without an error is  *)
(* joined: its machines have addresses of their own in the subnets of their *)
(* nodes, and the workers are given the one the master has. (Out are        *)
(* clusters that were batch deployed on several nodes, whose contracts are  *)
(* lost, and those that a refused call left with one address for two.)      *)
Joined ==
  \A c \in Name \ split : status[c] = "ok" =>
    /\ \A p, q \in MachinesOf(c) : p # q => p[2].ip # q[2].ip
    /\ \A p \in MachinesOf(c) : p[2].ip[1] = p[1] /\ p[1] \in nets[c] /\ p[2].token = clusters[c].token
    /\ \E m \in MachinesOf(c) : m[2].url = NoAddress /\ \A w \in MachinesOf(c) \ {m} : w[2].url = m[2].ip

(* Cancelling a cluster that is in order, or was read back when it was,     *)
(* leaves none of its machines on the grid, wherever its workers moved.     *)
CancelStep ==
  \A c \in Name \ split :
    status[c] \in {"ok", "synced", "loaded"} /\ status'[c] = "cancelled" => (ContractsOf(c))' = {}
CancelledWhole == [][CancelStep]_vars

(* A cluster in order reads back as it was asked for, by UpdateFromRemote   *)
(* in the caller's order of workers: but for public addresses, of which one *)
(* reads as two.                                                            *)
Private(m) == [m EXCEPT !.pub4 = FALSE, !.pub6 = FALSE]
NamesOf(k) == [i \in DOMAIN k.workers |-> k.workers[i].name]
ReadStep ==
  \A c \in Name \ split : status[c] = "ok" /\ status'[c] \in {"synced", "loaded"} =>
    LET k == clusters[c]
        l == clusters'[c]
    IN  /\ Private(l.master) = Private(k.master) /\ l.token = k.token /\ l.ids = k.ids
        /\ {Private(m) : m \in Range(l.workers)} = {Private(m) : m \in Range(k.workers)}
        /\ status'[c] = "synced" => NamesOf(l) = NamesOf(k)
ReadsBack == [][ReadStep]_vars
=============================================================================
