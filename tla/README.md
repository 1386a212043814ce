# TLA+ models of tfgrid-sdk-go

This directory holds TLA+ specifications of the parts of `tfgrid-sdk-go` whose correctness depends on
the order in which things happen, or on two pieces of state that must agree: the deployers of the grid
client, the RMB peer and the local bus, the farmerbot, the grid proxy with its indexers, caches,
listings and clients, and tfrobot. TLC checks each on small instances; TLAPS proves, for every
instance, the theorems listed below. Paths are relative to `src/`.

Run in this directory: `tlc -config GridDeployer_nodes.cfg MCGridDeployer.tla` checks a run,
`tlapm GridDeployerProofs.tla` checks the proofs of a module. `PROJECT.json` lists the runs, what each
definition stands for in the source, the hazards and the findings.

## 1. The system

| component | state it keeps | operations | talks to |
|---|---|---|---|
| `grid-client/deployer` Deployer | none of its own: the map node -> contract its caller holds | `Deploy`, `BatchDeploy`, `Cancel`, `GetDeployments`, `Wait` | the chain (contracts), nodes (deployments) |
| DeploymentDeployer, NetworkDeployer, gateways, k8s | ids in the objects callers hold; the plugin's `State`: contracts per node, subnets per network | `Validate`, `GenerateVersionlessDeployments`, `Deploy`, `BatchDeploy`, `Cancel`, `Sync`, loads | Deployer, `State`, nodes, the chain |
| `grid-client/workloads`, `zos` | none | conversion to and from the form nodes know | |
| `FilterNodes`, `GetPublicNode` | goroutines of one call | pages of the proxy, pools of nodes | proxy, nodes |
| `rmb-sdk-go/peer` RpcClient | the map of pending calls | `Call`, `CallWithSession`, `router` | Peer |
| Peer, InnerConnection | a websocket, a writer channel and a reader per relay; one output channel; caches of twins | `NewPeer`, `SendRequest`, `process`, `Start`, `loop`, `reader` | relays, the chain |
| `rmb-sdk-go` over redis | queues; a pool of connections, workers, handlers per topic | `Call`, `Run`, `Subroute`, `Use` | redis |
| `farmerbot` | `state.nodes`: a record per node, under a mutex | the round of `iterateOnNodes`; requests `findnode`, `includenode`, `poweroff`, `poweron` | the chain (power targets), nodes (statistics) |
| `grid-proxy/internal/indexer` | buffers of a pipeline, the mark of the new finder | finders, workers, batcher, upserter | nodes over RMB, Postgres |
| `grid-proxy` explorer and database | tables others write, caches kept by triggers | REST queries | Postgres |
| `grid-proxy/pkg/client` | the active endpoint | one method per query, with retries | the proxy |
| `tfrobot` | per group: VMs, networks, nodes to avoid | `RunDeployer`, `deployNodeGroup`, load, cancel | proxy, deployers |
| `grid-cli`, `gridify`, `activation-service`, `monitoring-bot`, `user-contracts-mon`, `tools` | none that lasts | commands and periodic queries | the above |

What is hard in it, and what makes it correct:

* **Deployer.** Every call to the chain and to a node can fail, with its effect or without it, and a
  contract that is lost costs its owner money. A failed pass is followed by a second one, the revert,
  which can fail in turn, and the caller goes on with whatever map it was given. Correct means: no live
  contract out of sight; a pass that says it worked reached its target; versions step by one; a node
  that stays in the deployment keeps its contract.
* **BatchDeploy.** Goroutines append to shared slices, and results are paired with contracts by
  position; a batch of contracts can break off in the middle. Correct means: an id names the contract
  made for that deployment; no error means nothing is missing.
* **Networks, gateways, clusters, deployments.** Each keeps ids, addresses and names over a life of
  calls that change it, move it, fail half-way and read it back. Correct means: no two members have one
  subnet or address; the nodes of a network reach each other; a gateway keeps the contract on its name;
  what is cancelled is gone; what is read back is what was deployed; no contract is unknown.
* **tfrobot.** Retries over two deployers, with nodes to avoid. Correct means: what stays is what it says
  it deployed.
* **RpcClient and Peer.** Channels are closed while others may send on them; connections end and begin
  again while frames and requests are in the hands of several goroutines; peers cache what they know of
  each other. Correct means: exact ids, a truthful `send`, frames in order, no panic, no deadlock, and
  two peers that agree on relay and key.
* **Local bus.** Requests and answers pass through queues that outlive calls. Correct means: an answer is
  the caller's own, from the right handler, past the right middlewares, and once.
* **Farmerbot.** Records are copied, worked on during calls and written back, by the loop and by
  requests at the same time. Correct means: the farm never goes dark, excluded nodes are left alone,
  rented nodes come up, claims hold.
* **Indexers.** Two finders send the same node to several workers; readings overtake each other;
  batches are refused. Correct means: the table follows the nodes, no node is passed over, the pipeline
  never stands still.
* **Caches and listings.** Triggers add up differences in whatever order the chain's indexer writes rows,
  and a restart builds the same sums from views; one rule is written in SQL for a filter and in Go for an
  answer. Correct means: the two never differ.
* **Clients of the proxy.** Requests are tried again while rows change. Correct means: an answer was true
  at a moment of the call.

## 2. Modules

| module | models | checked in |
|---|---|---|
| `GridDeployer` | `Deployer.Deploy`, `deploy`, `Wait`, `GetDeployments`, version helpers | `GridDeployer_nodes`, `Clients_calls`; proofs in `GridDeployerProofs` |
| `BatchDeploy` | `Deployer.BatchDeploy` with its goroutines, and what its caller keeps | `Clients_calls`; `BatchDeployProofs` |
| `ContractLedger` | abstract: what any deployer promises about contracts | as a refinement in both; `DeployersProofs` |
| `Outcome` | what one `Deploy` may leave behind, as `GridDeployer` shows it | used by the three after `Workloads`; `DeployersProofs` |
| `Workloads` | the conversions of machines, disks, volumes, zdbs and qsfs, to zos and back | used by `Deployments` |
| `Deployments` | `DeploymentDeployer`: addresses, `Deploy`, `BatchDeploy`, `Cancel`, `Sync`, load | `Records_kept` |
| `Gateways` | the gateway deployers, name contracts, projects | `Deployers_life`; `DeployersProofs` |
| `Kubernetes` | `K8sDeployer` and grid-cli's cluster commands | `Deployers_life`; `DeployersProofs` |
| `Network` | `NetworkDeployer`, `ZNet` and `ZNetLight`, the state's networks | `Deployers_life`; `DeployersProofs` |
| `NodeFilter` | `FilterNodes`, the room in pools, `GetPublicNode` | `Clients_calls` |
| `Robot` | tfrobot's `RunDeployer`, with its validation, load and cancel | `Clients_calls`, `Robot_retries`; `CallsProofs` |
| `RpcClient` | `CallWithSession` and `router` | `Clients_calls`; `CallsProofs` |
| `RelayConnection` | `Start`, `listenAndServe`, `loop`, `reader`, `send`, `Peer.send`, `process` | `RelayConnection_*`; `RelayConnectionProofs` |
| `Envelopes` | `NewPeer`, the twin caches, envelopes signed, encrypted and verified | `Records_kept`; `ExplorerProofs` |
| `LocalBus` | the redis client, the routers, workers and middlewares | `Clients_calls`; `CallsProofs` |
| `FarmerBot` | the loop, the requests, `powerOn`, `powerOff`, the state | `FarmerBot_requests`, `FarmerBot_rounds`, `Records_kept`; `FarmerBotProofs` |
| `Indexer` | finders, `get`, `batch`, `upsert`, the table | `Indexer_*`; `IndexerProofs` |
| `Explorer` | the tables, triggers, views and restart of the proxy's database, and GPU rows | `Records_kept`; `ExplorerProofs` |
| `Queries` | the listings over them: filters, status, orders, pages, statistics | `Records_kept`; `ExplorerProofs` |
| `ProxyApi` | handlers, replies, decoding, retries and the stack of proxies | `Clients_calls`; `CallsProofs` |
| `MC...` | instances for TLC | |

`ContractLedger` is implemented by both `GridDeployer` and `BatchDeploy`, by the refinement mapping
each states at its end (`Ledger == INSTANCE ContractLedger WITH ...`). `Outcome` is the step from one to
the other: the deployers above do not repeat `GridDeployer`, they take one of the results it allows.

`MCDeployers`, `MCRecords` and `MCClients` put several components side by side. They share no state, so a
behaviour is of one part, chosen in the initial state, and the variables of the others stay as they
are: the reachable states are the sum of those of the parts and not their product, and each part is
explored in full. Each property of such a run is the property of the same subject in the modules, chosen
by `part`; those of the component the MC module extends (`RpcClient`, `Network`) are checked as they
stand, and its variables stay at their initial values when the part is another; so are `CacheExact` and
`NeverOffered` of `Explorer`, which speak of states where the caches are built, and in `MCRecords` those of
the other parts are not.

Definitions named `Fault...` are variants of the definition they precede with one plausible mistake;
no specification uses them. Each shows that a property would notice the mistake.

### GridDeployer

`known` is the map the caller holds, `request` what it asks for, `snapshot` what `GetDeployments` read,
`base`, `target` and `current` the arguments and the growing result of the running pass, `todo` the
nodes its loop has still to visit (a Go map: any order), `at`, `dl` and `cid` its locals. `live`,
`owner` and `hashed` are the chain's contracts; `stored` and `running` what nodes hold. A step is one
call with its error path: `CreateContract` / `CreateFails` (the chain may have created it all the same),
`DeploymentDeploy` / `DeploymentDeployFails`, then `UndoContract` / `UndoFails`, and so on; `Fail` ends a
pass, and starts the revert when it was the first. `Hash` abstracts the challenge: version, and the
workloads' versions and data without their names, as the code does, which is why `SameWorkloadsNames`
matters. `leaked` and `waited` record history for properties only: a leaked contract is one the code
reported as not cancelled, or one whose creation was never answered.

### BatchDeploy

A caller that, like tfrobot, asks for what has no contract, looks at the result and asks again.
`Prepare` is a goroutine that signs and appends: the order of the batch is any. `CreateContracts(k)`
is the extrinsic that creates the first `k` contracts, with an error if that is not all of them.
Each contract then has a goroutine that sends, waits and sets the id (`DeploymentDeploy`, `Wait` and
their failures). `BatchCancel` takes all failed contracts or none. `updateState` is
`updateStateFromDeployments` for each of the batch. If the two slices a batch is built from were in
different orders no id would be wrong, since a node refuses a deployment whose hash is not its
contract's: every deployment would fail instead.

### Outcome, Workloads, Deployments

`Outcome` gives what one `Deploy` may leave: the ids, the contracts made, and what the nodes have, when it
succeeds (`Succeeded`) and after each mixture of failures and reverts (`Failures`). `Workloads` turns a
deployment into the sequence of zos workloads and back; a field that is only copied is `data`, sizes are
numbers modulo `Word`, since the code multiplies them by a gigabyte without a check. `Deployments` gives
addresses (`UsedHosts`, `Assigned`, `AssignPrivateIPs` are `calculateNetworksUsedIPs`, `AssignPrivateIP`
and `assignPrivateIPs`), records what came of it (`Record`, `RecordAll`) and reads it back (`Sync`,
`Load`). `clean` is history: whether callers kept only addresses that are in use and every node could be
asked, without which the code cannot know what is free.

### Network

A subnet is its third octet. `AssignNodesIPs`, `AssignNodesWGKey`, `AssignPorts` and `GeneratedWith` are
`GenerateVersionlessDeployments`; `PeersOf` is the peer list each node is given, for accessible, hidden
and public nodes and the user's machine. The kind of a node (hidden, IPv4, IPv6) is what
`GetNodeEndpoint` finds. `Deploy` ends in `DeploySucceeds` or `DeployFails`, which leave any mixture a
failed and reverted `Deployer.Deploy` may (`LeftBehind`); `Load` is `LoadNetworkFromGrid`.

### Gateways, Kubernetes

`Gateways` has two kinds of object over one record: a name gateway has two contracts, an fqdn gateway
one. A contract of `chain` may be created, in its grace period or gone, because `IsValidContract`,
`InvalidateNameContract`, `Exists` and the project listing tell these apart. In
`Kubernetes` an address is a pair of node (its subnet) and host; `AssignNodesIPs` walks master and
workers in order; `RemoteWorkers` is the order `UpdateFromRemote` gives, which keeps the caller's. `BatchDeploy`
gives each cluster its addresses, then makes all contracts at once; what came of them is written by
`Written`, for each cluster under the node of its master. `split` is history: the clusters that were batch
deployed on several nodes, which lose contracts, and those a refused call left with one address for two
members, see below; they are left out of the properties after that. A caller that panicked calls no more.

### NodeFilter, Robot

`first` is the first page of the pages asked at once, `workers` the goroutine of each page with the nodes
it has still to look at and to send; `Place` puts a disk in the largest pool with room, on words of `Word`
bits that wrap as the code's unsigned ones do. `Robot` runs over the groups of a configuration: `Try`,
`FilterNodes`, `DeployNetworks`, `DeployMachines`, `TrialFails`, `UpdateFailed`, `GiveUp`. `Interrupt` is
the signal, which cancels every group. `live` is what is deployed, by project, name and node.

### RpcClient

`responses` is the map, `buffer` the one place of each call's channel, `closed` the channels closed.
`Transmit` lets up to `MaxCopies` copies of each kind of answer come back: duplicates, and late ones.
The deferred function is two steps, `CloseChannel` and `Unregister`, because `router` may run between.

### RelayConnection, Envelopes, LocalBus

`RelayConnection` has a program counter per relay for `Start` and `loop`, one for its `reader`, one per
sender. Channels are unbuffered, so a hand-over is one step of both sides (`TakesFrame`, `Forward`,
`Accept`). Deferred calls run in Go's order: `CloseOutputCh`, `CancelLocal`, `Disconnect`; then, for
`Start`, `CloseWriter` and `CloseOutput`. A send on a closed channel, and a second close, set `panicked`,
which stops everything; `reply` alone recovers. A sender tries `2N` relays: `NewPeer` makes a list of `N`
empty items and appends `N` more (`Attempts`).

`Envelopes` has, per twin, what the chain says of it, what it is itself, and what it has cached of each
other, in memory for ever or in a file for `Ttl`. A signature and a cipher are symbols that name their
keys. `NewPeer` compares what it reads of itself with what it is (`Differs`) and announces the
difference. `LocalBus` has the queues of redis, the single reader (`GetOne`), the channel of jobs, the
workers and their connections out of a pool of `PoolSize`.

### FarmerBot

`nodes` is the list of records, with duplicates if the code makes them; `held` and `copy` are the
copies a goroutine works on, `lock` the mutex. `powerOn` and `powerOff` are `Lock...`, `Call...`,
`Write...` with their error paths, and return to the step their caller names. `Sweep` deletes while it
ranges, as the code does. Records are read and written atomically here, although the code reads them
without the lock. Capacity is one unit per node. Which nodes are woken by demand or by the clock, and
when a claim or the 30 minutes after a change run out, are choices.

### Indexer

`queue` holds the nodes a finder has still to send, `asking` and `result` what each worker has,
`buffer`, `flushing` and `batch` the hand-over from batcher to upserter. `IsHealth` chooses between the
health indexer (a failed call means unhealthy; duplicates are removed) and the others (a failed call
means no result; a batch with two rows of one twin is refused by the table). Whether two equal readings
were made in the same second, and so compare equal, is a choice. One result per call is modelled, which
leaves the GPU indexer to `Explorer`; a query is one page.

### Explorer, Queries, ProxyApi

`Explorer` has the tables the chain's indexer writes (one action per kind of write and trigger), the
caches, and `Restart`, which builds the caches from the views. `cache[n]` is a row of `resources_cache`;
each `Reflect...` is the arithmetic of its trigger. `Queries` adds the queries as operators on that state:
`NodeTableQuery` is the join, `NodesMatching` the filters, `GetNodes` the ordered and paged answers (all
that ties allow), `NodeFromDBNode` the view of the answer. `ProxyApi` follows one call: the row it is
about may change (`Changed`) between the tries, `moments` collects what was true during the call,
`Replies` is what the server answers, `Decode` what each method of the client makes of it.

## 3. Runs

All runs end within four minutes on two workers.

| run | checks | bounds | distinct states |
|---|---|---|---|
| `GridDeployer_nodes` | `Bookkeeping`, `NoOrphanedContract`, `TargetReached`, `UpdatedInPlace`, `KeepsLedger` | 2 nodes, 1 workload of 2 kinds, 3 contracts, version 1 | 2.1M |
| `Clients_calls` | `Registered`, `Routed`, `Honest`, `AskedFor`, `RecordsRight`, `NothingLeftBehind`, `VersionStep`, `RetriesRight`, `EachEnds` | seven parts, below | 0.8M |
| `Deployers_life` | `Connected`, `DeployedRight`, `NothingOutOfSight`, `SubnetsDistinct`, `HeldUntilCancelled`, `ReadsBack` | a network on 3 nodes of 3 kinds; 3 gateways on 2 nodes; a cluster on 3 nodes; 3 to 5 calls, 1 failure | 1.0M |
| `Records_kept` | `CacheExact`, `NeverOffered`, `Listings`, `FarmsToo`, `MachinesRight`, `PeersAgree`, `Counted`, `ReadsBack`, `OneStaysOn` | five parts, below | 1.1M |
| `RelayConnection_sends` | `SendTruthful` | 2 relays, 1 sender, 1 frame each, 1 break | 4.6M |
| `RelayConnection_heals` | `HandledInOrder`, `NoneStuck` | 1 relay, 2 senders, 2 frames, 1 break | 0.5M |
| `RelayConnection_writeError` | `Survives` (violated) | 1 relay, 1 sender, 1 frame, 1 break, no shutdown | |
| `FarmerBot_requests` | `CopiesBounded`, `ExcludedLeftAlone` | 3 nodes, one excluded, 2 requests of any kind, 1 claim | 2.9M |
| `FarmerBot_rounds` | `RequestServed`, `FarmFollowed` | 2 nodes, one may leave, the other be rented, a `poweron` or `poweroff` request | 0.3M |
| `Indexer_health` | `RoundEnds`, `TableFollows` | 1 node, 2 workers, batches of 2 | 0.1M |
| `Indexer_new` | `NoneSkipped`, `NewNodesAsked` | 2 nodes, 1 worker, 1 restart | 0.1M |
| `Robot_retries` | `Recovers` (violated) | 1 retry, 1 fault | |

The parts of `Clients_calls`, and what each property says of them:

| part | instance | properties |
|---|---|---|
| `rpc` | 2 calls, 2 copies of each answer | `Registered`: the map has exactly the running calls |
| `bus` | 2 calls, 3 handlers under 3 routers, 1 worker, 1 connection, 1 failure | `Routed` |
| `api` | 2 proxies, 3 tries, 2 failures, rows that change twice | `Honest` |
| `filter` | 5 nodes in pages of 2, 2 wanted, 1 failure, 1 change of the listing | `AskedFor` |
| `versions` | 1 node, 2 workloads that change, appear and are renamed, 2 contracts, version 2 | `VersionStep`, `AskedFor` |
| `batch` | 2 deployments, 3 contracts | `RecordsRight`, `RetriesRight` |
| `robot` | 3 configurations, 3 nodes, 2 retries, 2 failures, a signal | `NothingLeftBehind`, `RetriesRight` |
| all | | `EachEnds`: a call that began ends |

The parts of `Records_kept`:

| part | instance | properties |
|---|---|---|
| `rows` | 2 nodes of a farm, 2 contracts, 1 rent, 1 address, 1 card, 3 writes or restarts | `CacheExact`, `NeverOffered`, `Listings`, `FarmsToo` |
| `status` | 2 nodes with all powers and ages of reports, 4 writes | `Listings`, `FarmsToo` |
| `vms` | 2 deployments of machines on 2 nodes, 3 calls, 2 contracts, 1 failure | `MachinesRight`, `ReadsBack` |
| `twins` | 2 peers, 2 relays, 3 starts, 2 calls, 1 loss | `PeersAgree` |
| `farm` | 2 nodes, one rentable, a `poweron` request, 1 failed call | `Counted`, `OneStaysOn` |

Why the bounds are enough. Two nodes let one fail after the other succeeded, in each of the deployer's
three loops, and three contracts let a revert create again what a pass deleted and fail at it. Two
deployments give every order of two goroutines and a batch that breaks off in the middle, and the third
contract a retry after it. Two calls share the map and the pool; two copies are the least for a
duplicate. Three pages of two let one be taken while the next is counted, and two nodes wanted let a call
return while others send. Three calls change a deployment, move it and read it back; a cluster needs five
to be built, moved, read and cancelled. Three kinds of node are every pairing the peers of a network
have, and three octets make subnets scarce. Two gateways of two projects that may take each other's name
are the least for the listing of a project to err. Two nodes in one farm let their rows share the farm's
caches; three writes are a contract, its report and its end, in every order, with a restart between.
Two peers that start three times have learnt of each other at different times, with other options. One
break lets frames and requests of the connection before be in hand while the next is made. Two relays
share the output channel and give a sender somewhere else to go; liveness is checked with one, since a
second adds no hand-over that a goroutine could wait in. Two nodes are the least of which one must stay
on; the third is the excluded one, and two requests let one node be deleted and included again. One node
with two finders and two workers lets one reading overtake another; batches of two let both be in one
batch. The counters that the code does not bound (contracts, versions, claims, requests, faults, breaks,
frames, restarts, writes, calls) are bounded by the constants `Max...`, in the guards; addresses by
`LastHost` and `LastOctet` (254 in the code), unsigned numbers by `Word`. Symmetry is used in
`GridDeployer_nodes` and `Records_kept`, which check no liveness.

`OneStaysOn` and `Counted` are checked with `poweron` requests only: with a `poweroff` or a `findnode`
request they do not hold (below). `StatusFails`, a `GetPowerTarget` that fails right after a failed
`SetNodePowerTarget`, is off in all runs for the same kind of reason: the record then stays "on" by
design of the error path (`farmerbot/internal/power.go:94-97`).

### Findings

Two runs expect a violation: each states what a document says of the program, and TLC shows the code
doing otherwise. `PROJECT.json` quotes the lines.

| run | what happens |
|---|---|
| `RelayConnection_writeError` | `loop` closes the channel its reader is sending on: panic |
| `Robot_retries` | after a search for nodes that failed, the retries look for none and fail |

Further disagreements were met in the same way. Their properties stand at the end of each module; no
run is kept for them, and each is shown in seconds by a copy of the named configuration with the
change given and the property alone. In a composed run the property is that of the part's instance, for
that part: `part = "net" => Net!ConnectedAgain`.

| property | configuration and change | what a document says | what the code does |
|---|---|---|---|
| `CreationVersionZero` | `GridDeployer_nodes` | `grid-client/zos/deployment.go:24-25`: "Version must be set to 0 on deployment creation" | a revert creates a deleted deployment again at the version it had (`deployer.go:94`), and `Wait` then expects workloads at version 0 |
| `HashesAgree` | `GridDeployer_nodes`, `MaxVersion = 2` | `zos/deployment.go:30-32`: the deployment hash "will match the hash attached to this contract" | the hash is written to the contract before the node takes the update (`deployer.go:239`); when the node fails, the revert finds the node as it was and skips it, and the contract keeps the hash of the failed update |
| `OkMeansWaited` | `GridDeployer_nodes` | `grid-client/docs/design.md:36`: "the function should only return after waiting for 4 minutes on all workloads to be StateOK" | a call that finds a deployment as it wants it (`deployer.go:210`) does not wait for it, though the wait of the call before failed |
| `ConnectedAgain` | `Deployers_life`, net | `grid-client/zos/network.go:10`: the access node "must be reachable from other nodes" | a public node taken in from outside by an earlier call is added without its endpoint (`workloads/network.go:594-598`), so its peers do not know where it is |
| `OnlyTheProject` | `Deployers_life`, gw | `grid-client/graphql/contracts.go:120`: "returns contracts for a project name" | name contracts are the project's if a gateway it still has on a node bears their name, whoever made them (`contracts.go:190`) |
| `DedicatedAgrees` | `Records_kept`, rows | `grid-proxy/internal/explorer/server.go:148`: "Set to true to get the dedicated nodes only" | the filter leaves out nodes with an extra fee, which the answer calls dedicated |
| `GpuCountExact` | `Records_kept`, rows | `grid-proxy/internal/explorer/db/setup.sql:473`: "increase the gpu_num in resources cache" | the view a restart uses joins on the card's id and counts a card once for every card of that id |
| `FailsOver` | `Clients_calls`, api | `grid-proxy/pkg/client/grid_client.go:457`: "failed to connect to endpoint, retrying" | the errors it retries on are those of a server, never of a client that cannot connect |
| `NotFoundIs404` | `Clients_calls`, api | `grid-proxy/internal/explorer/server.go:578`: "@Failure 404" | a contract that is not there is an internal error |
| `PingTruthful` | `Clients_calls`, api | `grid-proxy/internal/explorer/health.go`: "failed to call twins" | when all calls fail the channel is closed, which the select takes for an answer |
| `HandedPlain` | `Records_kept`, twins | `rmb-sdk-go/peer/peer.go:33`: "called with verified and decrypted incoming messages" | a peer that learnt of the other before it had a key wraps a nil error, and hands over the cipher |
| `AnnouncedAlways` | `Records_kept`, twins | the same comparison for both caches (`peer.go:222`) | with the cache of files a peer compares itself with the record it read before it last changed, and does not announce |
| `LateAnswerIgnored` | `Clients_calls`, rpc | `rmb-sdk-go/peer/rpc.go:73`: "client is not waiting anymore! just return then" | an answer routed between `close(ch)` and `delete(responses, id)` is sent on a closed channel, which panics in a `select` with a default too (`rpc.go:85`) |
| `Survives` | `RelayConnection_sends`, 2 relays, no sender | `rmb-sdk-go/peer/peer.go:144`: "You can close the connection by canceling the passed context" | each connection closes the output channel they share (`connection.go:170`): panic |
| `Survives` | `RelayConnection_sends`, 1 sender, no frames or breaks | `peer.go:146-147`: a call must not "outlive the directClient's context" | a call that began before and whose context ends with the peer's is sent on a closed writer (`connection.go:171`): panic |
| `NoneStuck` without its last disjuncts | `RelayConnection_sends`, no sender, `MayCancel = FALSE` | `peer.go:142`: "tries to reconnect if the connection broke" | `process` returns after a frame that does not decode (`peer.go:344`); nothing is received any more |
| `StaysUp`, `CountedIsUp` | `Records_kept`, farm, `Requests <- {"poweroff"}` or `{"findnode"}` | `farmerbot/internal/power.go:89`: "at least one node should be on in the farm" | a node put out by request is deleted and loaded again as on (`Seen`), and counts as the second node that is on; `findnode` claims a node whose power-off is being written |
| `ClaimKept` | `FarmerBot_requests` | `farmerbot/internal/types.go:163`: "those resources should not be overwritten until the timeout" | the loop writes an older copy of the record over a claim (`farmerbot.go:365`) |
| `StaysExcluded` | `FarmerBot_requests` | `farmerbot/README.md:210`: "it will be EXCLUDED from farmerbot management" | the next round adds it again (`farmerbot.go:383`) |
| `NewNodesAsked` | `Indexer_new`, `InOrder = FALSE`, `Registered = {}`, `Answers = {}` | `grid-proxy/internal/indexer/README.md:40`: "new node is added (check every 5m)" | a node that registers after one with a higher twin is never asked by the new finder (`finders.go:68`) |
| `OnePerTwin` | `Indexer_new`, 2 workers, `BatchSize = 2` | `grid-proxy/internal/indexer/indexer.go:99`: "to prevent having multiple data for the same twin" | two readings made in different seconds are both kept (`indexer.go:136`), and the table refuses the batch |

What no document speaks of, but a caller would not expect, is said where the properties make an exception
for it: a node found twice when the listing changes between pages and goroutines that stay when no storage
is asked for (`NoNodeTwice`, `NoneLeftSending` of `NodeFilter`), a public node without an id that
`GetPublicNode` adds (`PublicIsNode`), requests taken up after the deadline or by a router that stops
(`NotAfterDeadline`, `StopAnswers` of `LocalBus`), two handlers of one dotted topic (`OneEach`), clusters
batch deployed on several nodes, of which each keeps one contract, that of its last member, written under
the node of its master (`k8s_deployer.go:213-234`), and a cluster refused half-way through its addresses,
two members of which hold one (`k8s_deployer.go:456-477`; both are `split` in `Kubernetes`), a gateway whose
contract ran out of money and was forgotten by `Sync`, which a load may still find (`Forgotten` in
`Gateways`), a load that finds the subnets a failed call left, and an assignment that runs out of subnets when the user's machine has just
been given that of a node the network is to do without, and which it still holds (`SubnetsStep` and
`RanOut` in `Network`; `network.go:396` returns before `NodesIPRange` is replaced), and light machines whose logs are read twice
(`ByType` in `Workloads`).

### Fairness

* `Clients_calls`: weak fairness of `GoesOn`, the steps of the calls themselves: calls to the chain, to
  nodes and to the proxy have timeouts, `Wait` has its own, goroutines run. Nothing says a caller calls
  again, nor that an answer, a change or a failure comes. For `rpc` each call and its context's deadline,
  which callers set, are fair on their own.
* `RelayConnection`: goroutines run. Dialling is strongly fair: `Start` dials for ever and the relay is
  assumed reachable in the end; frames, breaks and deadlines are not fair.
* `FarmerBot`: the loop runs for ever and machines follow their power target (weak fairness); a request
  that came is served, strongly fair because it waits for the mutex, which Go hands to a waiter after a
  millisecond. Requests need never come, nor tenants. Where liveness is checked,
  calls fail only for a node that left or is down.
* `Indexer`: tickers tick, calls time out (`indexerCallTimeout`), a blocked sender of a Go channel is
  served in its turn (strong fairness of receives), and the database does not refuse every batch a given
  node is in. Without the last no indexer can work.
* `Robot_retries`: weak fairness of tfrobot's steps; failures are never fair.

Deadlock is checked in `GridDeployer_nodes` and in the runs of the farmerbot and the indexers. The
others may stop: a call is over, the bounds on calls are used up, a peer was shut down.

## 4. Proofs

The theorems hold for all values of the constants that satisfy the modules' assumptions: bounds are naturals,
the "none" values are outside the sets, nodes, relays, farms and the rows of a table are finite. The modules
that stand beside others in an MC module (`BatchDeploy`, `LocalBus`, `ProxyApi`, `Robot`, `Envelopes`,
`Network`, `Gateways`, `Kubernetes`) define their assumptions (`BoundAssumption`, `BusAssumption`,
`ApiAssumption`, `RobotAssumption`, `EnvelopesAssumption`, `NodeAssumption`, `GatewayAssumption`,
`ClusterAssumption`) and their theorems have them as hypotheses; `MCClients`, `MCRecords` and `MCDeployers`
assert them of their instances, and TLC evaluates them there. Each proof has the same plan: an invariant
`IInv` that implies the properties, a lemma per group of actions, one step per action.

| module | theorems | what a run checks of it |
|---|---|---|
| `GridDeployerProofs` | `NothingOrphaned`, `BookkeepingCorrect`, `InPlace`, `VersionsByOne`, `Reaches`, `ImplementsLedger` | `GridDeployer_nodes`; `VersionStep` of `Clients_calls` |
| `BatchDeployProofs` | `IdsAreOwn`, `TrackedExact`, `OkIsComplete`, `ImplementsLedger` | `RecordsRight`, `RetriesRight` of `Clients_calls` |
| `RelayConnectionProofs` | `FramesInOrder`, `SendTellsTruth` | `RelayConnection_heals`, `RelayConnection_sends` |
| `FarmerBotProofs` | `NodesNotPiledUp`, `ExcludedUntouched`; for `poweron` requests: `CountedAreUp`, `OneKeptOn` | `FarmerBot_requests`; `Counted`, `OneStaysOn` of `Records_kept` |
| `IndexerProofs` | `NothingSkipped` | `Indexer_new` |
| `CallsProofs` | `MapExact`, `WindowExact`; `AnswersAreOwn`, `KnownTopicsFound`, `RequestsOnce`, `CallsRouted`; `AnswersTrue`, `ServedUnlessBroken`, `HonestClient`; of the run: `RunInvariance`, `RunRouted`, `RunHonest`, `RunRecords`, `RunLeavesNothing`, `RunVersions`, `RunRetries` | all of `Clients_calls` but `AskedFor` and `EachEnds` |
| `ExplorerProofs` | `CacheIsExact`, `NodesNeverOffered`; `PeersUnderstand`; of the run: `RunInvariance`, `RunListings`, `RunPeers`, `RunCounted`, `RunKeepsOneOn` | `CacheExact`, `NeverOffered`, `Listings`, `PeersAgree`, `Counted`, `OneStaysOn` of `Records_kept` |
| `DeployersProofs` | `NothingUnaccounted`; `NetworkConnected`, `SubnetsNotShared`, `AllInSight`, `NetworkReadsBack`; of the run: `DeployersInvariance`, `RunDeployed`, `RunHeld`, `RunReadsBack` | the refinement in both deployers; all of `Deployers_life` |

A theorem "of the run" is about `MCSpec`, the specification of a composed run, for every value of the
constants its parts are given: each part keeps the invariant of its subject, and a step of one leaves the
variables of the others as they are. `CallsProofs` reaches the two deployers in it by an `INSTANCE` of their
proof modules, `ExplorerProofs` the farmerbot likewise.

All but `CallsProofs`, `DeployersProofs` and `ExplorerProofs` have `TypeCorrect`, or type correctness within
`Invariance`; in these three the types are part of the invariant of each subject (`IInv` of `RpcClient`,
`BusInv`, `ApiInv`, `RobotInv`, `PeersInv`, `RowsInv`, `AddressesInv`, `NetInv`, `GwInv`, `K8sInv`).

* `GridDeployerProofs`. `Invariance` proves `TypeOK`, `Bookkeeping` and `NoOrphanedContract` together: none is
  inductive alone. That no contract is orphaned needs to know, at the creation of one, that the node's place
  in `current` is free (else an id would be overwritten), which needs `Bookkeeping`: a pass creates only for
  nodes without a contract and deletes only nodes its target leaves out; and that needs, for the revert, that
  the snapshot holds every contract the caller had. One lemma per group of actions, one step per action.
  `InPlace` and `ImplementsLedger` are action properties from the same invariant: the latter maps each step to
  `Open`, `Close`, `Report` or a stutter of `ContractLedger`. `VersionsByOne` needs more (`Stepwise`): from
  the reading of a node to its answer, what is about to be sent has the version of what the node runs plus
  one, and a new contract's node runs nothing; nobody else writes to the node in between, and a contract that
  ends meanwhile only erases (`Erases`). `Reaches`, that a pass without an error reached its target, has
  `ReachInv`: a node runs what it stores (`AsStored`); of the nodes a pass has behind it each is as the target
  has it (`Progress`), by the loop it is in; and an update in hand touches only what has changed
  (`HandRight`). Its hypothesis is `NoneSwapped`. `Hash` ignores the names of workloads, as the code does, and
  so a caller who deals the same data out to the same names in another way gets no update: `deploy` finds the
  hash it had, and skips the node. Without it the theorem is false.
* `BatchDeployProofs`. Contracts, deployments, ids and goroutines are paired by their positions in slices that
  goroutines fill in any order. `Prepares` (the two slices agree, each deployment once) and `Made` (the i-th
  contract has the i-th body, and its id is set when its goroutine is done) are what `IdIsOwn` needs of a
  call; `Recorded` is the same of the caller's records after any number of calls. `Missing` says that a
  deployment which is not among those prepared, created or deployed is in the error, and so `OkMeansAll`;
  `Kept` that a live contract is in the call's hand, on record or reported, and so the ledger's steps: `Open`,
  `Close`, `Report`, and for `BatchCancel` all failed contracts or none.
* `RelayConnectionProofs`. `Ordered`: the frames of a relay are handled, then in `loop`'s hand, then in the
  reader's, each read after the ones before, and a connection that ends takes its frames with it. `Truthful`:
  a sender that awaits an answer is in the hands of the one loop that has its item, and a write it has not
  been told of is the one that loop is about to report. The exceptions are senders whose context has ended
  (`done`): for them an item may be offered to a loop nobody waits for.
* `FarmerBotProofs`. Goroutines work on copies of records and write them back by id, after the record may have
  been deleted. `Holds` says what each holds at which step, also across the call of `powerOn` or `powerOff` it
  returns from, `Left` that the loop counts no node off it has not counted on. Records are only added by an
  include, and `CopiesBounded` counts those that may still do so. What `Sweep`, which deletes while it ranges,
  leaves is a part of what was there, no node more often (`Within`): that is proved from the least index at
  which it would not be so, since the library's induction takes an operator as parameter. `ExcludedUntouched`
  follows from no actor holding an excluded node. `CountedAreUp` and `OneKeptOn` assume `PowerOnOnly`: no
  request but `poweron`, and a failed call to the chain followed by an answer. `Sole` is what they add: the
  loop alone adds nodes and powers them off, so that a record that says "on" (`Truthful`), and the copy the loop
  holds of one, are right about the target until `writeOff` has its turn; each managed node has one record, so
  that two records that are on, which `powerOff` asks for under the mutex, are of two nodes (`AnotherOn`), and
  as every writer waits for that mutex, the second is still on when the chain is called. `PowerOnOnly` cannot be
  weaker: with `poweroff` or `findnode` requests, or with `StatusFails`, TLC finds `CountedIsUp` violated, and
  with `includenode` beside `poweron`, which drops what the loop then adds again, `NoDuplicates`.
* `IndexerProofs`. `NothingSkipped`, under `InOrder`: the mark is the twin of a node (`MarkIsNode`), so that
  what registers later is above it. Without `InOrder` it is false (see the findings). `HighestIsUpperBound`
  gives the maximum of a set of twins as the least of its upper bounds.
* `CallsProofs`. Its subjects share no state, and stand in one module because a run composes them. For
  `RpcClient`: `MapExact` and `WindowExact` follow from `TypeOK` and the fact that only calls in or after
  their deferred function have a closed channel. For the bus: `Once` (a request is in one place: a queue, the
  reader, the channel, a worker, or ended), `Answered` (an answer, wherever it is, is right for the request in
  it) and `OnWay` (while nothing failed, a waiting call has its request or the answer on the way).
  `FoundServes` shows that the walk down the routers finds a handler exactly when one is registered under the
  topic, although routers are tried by the first name and the longest path wins. For the proxy: what the call
  asks for is at every moment among the `moments` of the call, and without a fault the endpoint it is at
  serves. For tfrobot (`RobotInv`): machines that are in hand are those of the group at work, one with a
  contract has its network where it is (`Machinery`), and one still to be deployed is put on a node that is
  not to be avoided (`Placing`); a group that passed is deployed whole, whatever the groups after it fail at
  (`PassedWhole`); and what is live is on record or reported (`Booked`). What a sequence of sequences flattens to is again proved from the
  least prefix at which it would not hold.
* `ExplorerProofs`. A trigger adds what one row changes; the view sums all rows. That both agree rests on
  `OneChanges`: the sum over the contracts of a node changes by what the one contract written shares in it
  (`Share`), wherever that contract stands in the order in which `MapThenSumSet` takes them. The sums are
  functions on the subsets of a finite set (`AddsUp`); that they exist, agree and grow by one member at a time
  is proved from a least subset that would not do, since the library's induction over finite sets takes an
  operator as parameter. `RowsInv` then says of every row that it `Fits` what is used and in all, names who
  rents (`Rented`, with `OnceRented`: one active rent per node, so that a deletion leaves none), and counts no
  fewer contracts than there are; of a node not listed, that it has no row, so that its triggers do nothing.
  `AddressesInv` says the same of farms: an address is of a farm that is there. `RunListings` shows that the
  filters, which are conditions on a join of tables, select exactly the nodes whose answer, put together in
  Go, shows what was asked for: the conditions for each status are compared with what `nodestatus` decides
  from target, power and the age of the report, those for who rents a node and whether it can be rented with the fields of
  the answer. Of the tables it needs only that they hold known states (`NodesKnown`). For the peers: a record
  that disagrees with the chain is at least as old as the last change of its twin (`Aged`); a call that is
  `Sure` was started when both sides had said what they are and goes by records younger than that, so that
  what it signs and addresses is what the other verifies and opens, for as long as the call lasts.
* `DeployersProofs`. The ledger: every live contract is held or reported. The network: `Held`, the caller has
  the contract of every deployment, and the state has some contract of every node that has one, which is why a
  load, that wants all it knows alive, reads all there is; `ReadBack`, after a call without error the caller's
  network is what its nodes have. `Assigned` is what `nextFreeIP` and `AssignNodesIPs` promise: nodes that
  stay keep their subnet, what is handed out is held by nobody. `Wired` says what deployments a generation
  made: `WiredReach` follows a packet through it, for two accessible nodes, hidden ones and the user's
  machine, and uses that a hidden node with a neighbour makes the network take a public node. `GeneratedWired`
  needs the exception of `Connected`: a public node from outside, taken by an earlier call, is not known by
  its address. Gateways and clusters go by what `Deployer.Deploy` leaves, and so by lemmas about `Outcome`
  first: an id that was held and is kept is the same, a new one is above all made before, no two nodes share
  one, and a contract that is neither in the ids before nor made by the call is as it was, after success and
  after every mixture of failures. For gateways (`GwInv`): of each name there is one contract on the chain
  (`ChainOk`), the ids a gateway has are of contracts of its own (`GwHandOk`), no two have one id of a name
  (`NameIdsApart`), and one deployed without error has both contracts with what it asked for (`OkRight`). That
  a name stays with its gateway is then that `InvalidateNameContract` gives up an id only when the contract is
  gone, renamed or not answered for. For clusters (`K8sInv`): a contract of the grid is of one cluster, and
  machines of one deployment have addresses of their own unless the cluster is in `split` (`GridOk`); each
  cluster `Stands`, which says what the caller's object owes the grid after each way a call may have ended:
  its ids are of its own contracts (`HandOk`), they are all there are of it (`Whole`), and after success the
  machines are those of its members, in the subnets of the network (`InOrder`). `AssignNodesIPs` is a walk
  over master and workers; that it keeps apart what was apart, at every step of it (`Stage`), is proved from
  the first place at which it would not. `UpdateFromRemote` gives the members the caller knows in his order
  (`Those`, `Before`): how many stand before a place in a set of places is what tells which it becomes. A
  batch numbers what it sends (`Numbers`), and each contract is of the deployment it was made for (`Sends`).
  `RunHeld` and `RunReadsBack` are action properties: of the invariant before a step, and what the step
  writes.

What stays with TLC:

* Liveness, which rests on fairness and `ENABLED`: `tlapm` does not reason about either.
* `AskedFor`, the nodes `FilterNodes` finds, and `NodeFilter` as a whole: its pages are goroutines whose
  results meet in one slice, over sizes that wrap at a word. (Its other half, `TargetReached`, is `Reaches`.)
* `FarmsToo` and `MachinesRight`: the first sums rows over farms, the second rests on the sequences that
  `Workloads` folds.
* What folds over sequences compute for every input (`Workloads`, `Queries`): induction over data.
* The modules without proofs: `NodeFilter`, `Workloads`, `Deployments`, and of `Queries` its orders, pages and
  statistics.
* Of `Explorer`: the number of cards, which is not what the view says (`GpuCountExact`).

## 5. Not modelled

* Arithmetic on capacities: the sums that `Deployer.Validate` compares, and the farmerbot's demand and
  thresholds. Whether there is room, and which nodes a demand wakes, are choices in the models, which
  covers every outcome of the sums but says nothing of the sums themselves.
* Calls of one deployer object that overlap: callers are not meant to make them, and nothing in the code
  guards the objects' fields.
* The price calculator, mycelium keys and seeds, and fields that are only copied from one structure to
  another: nothing to go wrong that a model would show.
* Filters of the proxy that compare one column with one value: only those that read a cache, a derived
  status, or two tables are in `Queries`.
* The certificate manager, the generators of test data, `gridify`, the commands of `grid-cli` other than
  those for clusters, `monitoring-bot`, `activation-service`, `user-contracts-mon` and `tools`: sequences
  of calls without state that lasts.
* Generated code (`types.pb.go`, `docs.go`).

`PROJECT.json` gives the reason for each.

## 6. Plan

What is left, the most useful first:

1. Theorems: `NoneMissed` and `PublicIsFound` of `NodeFilter`; that addresses are given once, in `Deployments`.
2. The farmerbot's selection of nodes for a demand, as a pure algorithm against its definition.
3. Two deployers of one account at once: the ids they give and the addresses they choose.
4. An abstract call service implemented by `RpcClient` and `LocalBus` alike; an abstract reliable link
   for `RelayConnection`.
