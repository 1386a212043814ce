----------------------------- MODULE MCClients ------------------------------
(***************************************************************************)
(* The calls a client makes, each kind on a small instance; a behaviour is *)
(* of one of them, chosen at its start, and the variables of the others    *)
(* stay as they are.                                                       *)
(*   "rpc"       two calls over the message bus                            *)
(*   "bus"       two calls over a local redis, and the routers             *)
(*   "api"       a call of the grid proxy, through the retrying client     *)
(*   "filter"    FilterNodes and GetPublicNode                             *)
(*   "versions"  Deploy, on one node that is asked for other workloads     *)
(*   "batch"     BatchDeploy of two deployments                            *)
(*   "robot"     tfrobot                                                   *)
(* The variables of RpcClient are at their start when the part is another. *)
(***************************************************************************)
EXTENDS RpcClient, TLC

CONSTANTS
  BusCall, Routers, Handlers, Commands, PoolSize, Workers, BusFaults,            \* LocalBus
  Proxies, ApiNode, Gateway, ApiContract, MaxTries, ApiFaults, ApiChanges,          \* ProxyApi
  n1, w1, w2, d1, d2, NoData, NoDl, NoNode,                                      \* GridDeployer
  BatchDl, BatchContracts,                                                       \* BatchDeploy
  Configs, RobotNode, MaxRetries, RobotFaults                                    \* Robot

VARIABLES
  part,
  kind, state, calls, late, bus, arrived, held, jobs, handling, leaving, queues, ended,  \* LocalBus
  billed, serving, database, active, call, moments,                                      \* ProxyApi
  listed, seen, phase, total, first, workers, disks, errors, public,                     \* NodeFilter
  owner, hashed, running, pass, request, snapshot, fetched, base, target, current,       \* GridDeployer
  at, dl, cid, waited,
  body, batch, contractsData, deploymentsSlice, worker, failedContracts, multiErr,       \* BatchDeploy
  tracked,
  conf, grp, trial, count, excluded, vms, passed, failed, output, interrupted,           \* Robot
  stage, created, live, stored, known, todo, outcome, leaked, ids,                       \* several deployers
  contracts, nodes, changes, faults                                                      \* several others

busOnly == <<kind, state, calls, late, bus, arrived, held, jobs, handling, leaving, queues, ended>>
apiOnly == <<billed, serving, database, active, call, moments>>
filterOnly == <<listed, seen, phase, total, first, workers, disks, errors, public>>
deployOnly == <<owner, hashed, running, pass, request, snapshot, fetched, base, target, current, at, dl, cid, waited>>
batchOnly == <<body, batch, contractsData, deploymentsSlice, worker, failedContracts, multiErr, tracked>>
robotOnly == <<conf, grp, trial, count, excluded, vms, passed, failed, output, interrupted>>
deployers == <<created, stored, known, todo, outcome>>
shared == <<stage, deployers, live, leaked, ids, contracts, nodes, changes, faults>>
mcVars == <<vars, part, busOnly, apiOnly, filterOnly, deployOnly, batchOnly, robotOnly, shared>>

-----------------------------------------------------------------------------
(* One handler of a dotted name on the root, and two below it.              *)
SomeRouters == {<<>>, <<"zos">>, <<"zos", "vm">>}
SomeHandlers == {[at |-> <<>>, as |-> <<"zos", "ping">>], [at |-> <<"zos">>, as |-> <<"ping">>],
                 [at |-> <<"zos", "vm">>, as |-> <<"list">>]}
SomeCommands == {<<"zos", "ping">>, <<"zos", "vm", "list">>, <<"zos", "vm">>}
Bus == INSTANCE LocalBus WITH
  Call <- BusCall, MaxFaults <- BusFaults, expired <- late

Api == INSTANCE ProxyApi WITH
  Node <- ApiNode, Contract <- ApiContract, MaxFaults <- ApiFaults, MaxChanges <- ApiChanges

(* Five nodes in pages of two, of which two have room.                      *)
Pool(type, size, used) == [type |-> type, size |-> size, used |-> used]
Pools == [n \in 1..5 |->
  CASE n = 1 -> <<Pool("ssd", 3, 0)>>
    [] n = 2 -> <<Pool("ssd", 2, 0), Pool("ssd", 1, 0)>>
    [] n = 3 -> <<Pool("ssd", 2, 0), Pool("hdd", 5, 0)>>
    [] OTHER -> <<Pool("ssd", 5, 1)>>]
Filter == INSTANCE NodeFilter WITH
  Node <- {1, 2, 3, 4, 5}, Ssd <- <<2>>, Hdd <- <<>>, Rootfs <- <<1>>, Wanted <- 2, AtOnce <- 2,
  Public <- {1, 2}, Preferred <- {2, 4}, Word <- 16, MaxFaults <- 1, MaxChanges <- 1

(* A workload changed, renamed, added: what a version assignment must tell apart. *)
Workload == {w1, w2}
Mixed ==
  {[w \in Workload |-> IF w = w1 THEN d1 ELSE NoData],
   [w \in Workload |-> IF w = w2 THEN d1 ELSE NoData],
   [w \in Workload |-> IF w = w1 THEN d2 ELSE d1]}
Versions == INSTANCE GridDeployerProofs WITH
  Node <- {n1}, Data <- {d1, d2}, Contents <- Mixed,
  MaxContracts <- 2, MaxVersion <- 2, RevertOnFailure <- TRUE, pc <- stage

Batch == INSTANCE BatchDeployProofs WITH Dl <- BatchDl, MaxContracts <- BatchContracts, pc <- stage

(* Groups of nodes and of machines, one of them larger than the grid.       *)
NodeGroup(name, size) == [name |-> name, count |-> size, cpu |-> 2, mem |-> 2, ssd |-> 2, ip4 |-> FALSE]
VmGroup(name, group, size) ==
  [name |-> name, group |-> group, count |-> size, cpu |-> 1, mem |-> 1, root |-> 1, disk |-> 0, ip4 |-> FALSE, key |-> TRUE]
SomeConfigs ==
  {[groups |-> <<NodeGroup("g", 2), NodeGroup("h", 1)>>, vms |-> <<VmGroup("v", "g", 2), VmGroup("w", "h", 1)>>],
   [groups |-> <<NodeGroup("g", 1)>>, vms |-> <<VmGroup("v", "g", 2), VmGroup("w", "none", 1)>>],
   [groups |-> <<NodeGroup("g", 1)>>, vms |-> <<VmGroup("v", "g", 3)>>]}
Rob == INSTANCE Robot WITH Node <- RobotNode, MaxFaults <- RobotFaults, pc <- stage

ASSUME Assumptions ==
  /\ Bus!BusAssumption /\ Api!ApiAssumption /\ Filter!FilterAssumption
  /\ NoData \notin {d1, d2} /\ NoNode # n1 /\ NoDl \notin Versions!Deployment
  /\ Batch!BoundAssumption /\ Batch!NoneAssumption /\ Rob!RobotAssumption

-----------------------------------------------------------------------------
NoBus ==
  /\ kind = "unused" /\ state = "unused" /\ calls = "unused" /\ late = "unused" /\ bus = "unused"
  /\ arrived = "unused" /\ held = "unused" /\ jobs = "unused" /\ handling = "unused"
  /\ leaving = "unused" /\ queues = "unused" /\ ended = "unused"
NoApi ==
  /\ billed = "unused" /\ serving = "unused" /\ database = "unused" /\ active = "unused"
  /\ call = "unused" /\ moments = "unused"
NoFilter ==
  /\ listed = "unused" /\ seen = "unused" /\ phase = "unused" /\ total = "unused" /\ first = "unused"
  /\ workers = "unused" /\ disks = "unused" /\ errors = "unused" /\ public = "unused"
NoDeploy ==
  /\ owner = "unused" /\ hashed = "unused" /\ running = "unused" /\ pass = "unused" /\ request = "unused"
  /\ snapshot = "unused" /\ fetched = "unused" /\ base = "unused" /\ target = "unused" /\ current = "unused"
  /\ at = "unused" /\ dl = "unused" /\ cid = "unused" /\ waited = "unused"
NoBatch ==
  /\ body = "unused" /\ batch = "unused" /\ contractsData = "unused" /\ deploymentsSlice = "unused"
  /\ worker = "unused" /\ failedContracts = "unused" /\ multiErr = "unused" /\ tracked = "unused"
NoRobot ==
  /\ conf = "unused" /\ grp = "unused" /\ trial = "unused" /\ count = "unused" /\ excluded = "unused"
  /\ vms = "unused" /\ passed = "unused" /\ failed = "unused" /\ output = "unused" /\ interrupted = "unused"
NoDeployers == created = "unused" /\ stored = "unused" /\ known = "unused" /\ todo = "unused" /\ outcome = "unused"
NoContracts == stage = "unused" /\ NoDeployers /\ live = "unused" /\ leaked = "unused" /\ ids = "unused"

MCInit ==
  /\ Init
  /\ \/ /\ part = "rpc" /\ NoBus /\ NoApi /\ NoFilter /\ NoDeploy /\ NoBatch /\ NoRobot /\ NoContracts
        /\ contracts = "unused" /\ nodes = "unused" /\ changes = "unused" /\ faults = "unused"
     \/ /\ part = "bus" /\ Bus!Init /\ NoApi /\ NoFilter /\ NoDeploy /\ NoBatch /\ NoRobot /\ NoContracts
        /\ contracts = "unused" /\ nodes = "unused" /\ changes = "unused"
     \/ /\ part = "api" /\ Api!Init /\ NoBus /\ NoFilter /\ NoDeploy /\ NoBatch /\ NoRobot /\ NoContracts
     \/ /\ part = "filter" /\ Filter!Init /\ NoBus /\ NoApi /\ NoDeploy /\ NoBatch /\ NoRobot /\ NoContracts
        /\ contracts = "unused"
     \/ /\ part = "versions" /\ Versions!Init /\ NoBus /\ NoApi /\ NoFilter /\ NoBatch /\ NoRobot
        /\ ids = "unused" /\ contracts = "unused" /\ nodes = "unused" /\ changes = "unused" /\ faults = "unused"
     \/ /\ part = "batch" /\ Batch!Init /\ NoBus /\ NoApi /\ NoFilter /\ NoDeploy /\ NoRobot
        /\ nodes = "unused" /\ changes = "unused" /\ faults = "unused"
     \/ /\ part = "robot" /\ Rob!Init /\ NoBus /\ NoApi /\ NoFilter /\ NoDeploy /\ NoBatch /\ NoDeployers
        /\ contracts = "unused" /\ nodes = "unused" /\ changes = "unused"

\* A step of one part.
InRpc(A) == part = "rpc" /\ A /\ UNCHANGED <<part, busOnly, apiOnly, filterOnly, deployOnly, batchOnly, robotOnly, shared>>
InBus(A) ==
  /\ part = "bus" /\ A /\ UNCHANGED <<vars, part, apiOnly, filterOnly, deployOnly, batchOnly, robotOnly>>
  /\ UNCHANGED <<stage, deployers, live, leaked, ids, contracts, nodes, changes>>
InApi(A) ==
  /\ part = "api" /\ A /\ UNCHANGED <<vars, part, busOnly, filterOnly, deployOnly, batchOnly, robotOnly>>
  /\ UNCHANGED <<stage, deployers, live, leaked, ids>>
InFilter(A) ==
  /\ part = "filter" /\ A /\ UNCHANGED <<vars, part, busOnly, apiOnly, deployOnly, batchOnly, robotOnly>>
  /\ UNCHANGED <<stage, deployers, live, leaked, ids, contracts>>
InVersions(A) ==
  /\ part = "versions" /\ A /\ UNCHANGED <<vars, part, busOnly, apiOnly, filterOnly, batchOnly, robotOnly>>
  /\ UNCHANGED <<ids, contracts, nodes, changes, faults>>
InBatch(A) ==
  /\ part = "batch" /\ A /\ UNCHANGED <<vars, part, busOnly, apiOnly, filterOnly, deployOnly, robotOnly>>
  /\ UNCHANGED <<nodes, changes, faults>>
InRobot(A) ==
  /\ part = "robot" /\ A /\ UNCHANGED <<vars, part, busOnly, apiOnly, filterOnly, deployOnly, batchOnly>>
  /\ UNCHANGED <<deployers, contracts, nodes, changes>>

MCNext ==
  \/ InRpc(Next) \/ InBus(Bus!Next) \/ InApi(Api!Next) \/ InFilter(Filter!Next)
  \/ InVersions(Versions!Next) \/ InBatch(Batch!Next) \/ InRobot(Rob!Next)

\* The fairness of each module: the calls that are made end, or their contexts do.
GoesOn ==
  \/ InBus(Bus!CallerStep) \/ InApi(Api!ClientStep) \/ InFilter(Filter!Steps)
  \/ InVersions(Versions!Deploy) \/ InBatch(Batch!Deploy) \/ InRobot(Rob!Step)

MCSpec ==
  /\ MCInit /\ [][MCNext]_mcVars /\ WF_mcVars(GoesOn)
  /\ \A c \in Calls : WF_mcVars(InRpc(CallStep(c))) /\ WF_mcVars(InRpc(ContextDone(c)))

-----------------------------------------------------------------------------
(* Properties: those of the modules, where they are explained.  Registered  *)
(* is RpcClient's own.                                                      *)

\* An answer is that of the handler that was called, and is given once.
Routed == part = "bus" => Bus!Routed

\* A call of the proxy that succeeds is right, and it fails for a reason.
Honest == part = "api" => Api!Honest

\* What a call was asked for is what it got: the nodes found fit, none was left out,
\* and the public one is one of them; the node runs what Deploy was given.
AskedFor ==
  CASE part = "filter" -> Filter!FoundFits /\ Filter!NoneMissed /\ Filter!PublicIsFound
    [] part = "versions" -> Versions!TargetReached
    [] OTHER -> TRUE

\* What the caller of a batch has on record is what runs on the nodes.
RecordsRight == part = "batch" => Batch!IdIsOwn /\ Batch!TrackedIsKnown

\* Versions go up one by one.
VersionStep == [][part = "versions" => Versions!OneVersion]_mcVars

\* A batch without an error is complete, and no contract slips out of the
\* ledger; a retry of tfrobot stays away from the nodes that failed.
RetriesRight ==
  [][CASE part = "batch" -> Batch!OkStep /\ (Batch!Ledger!Next \/ UNCHANGED Batch!Ledger!ledger)
       [] part = "robot" -> Rob!SkipStep [] OTHER -> TRUE]_mcVars

\* What tfrobot leaves on the grid is what it says it deployed.
NothingLeftBehind == part = "robot" => Rob!NothingLeftBehind

\* Every call ends, and leaves no goroutine that looks at storage.  (Over the two
\* buses each call is made once: then none waits for ever when some time none does.)
Busy ==
  CASE part = "rpc" -> ~panicked /\ \E c \in Calls : pc[c] = "wait"
    [] part = "bus" -> \E c \in DOMAIN calls : calls[c].phase \notin {"idle", "ok", "failed"}
    [] part = "api" -> call.phase = "sending"
    [] part = "filter" -> phase \in {"counting", "starting", "ranging"} \/ Filter!Running # {}
    [] part \in {"versions", "batch"} -> stage # "idle"
    [] part = "robot" -> stage \notin {"done", "killed"}
EachEnds == Busy ~> ~Busy
=============================================================================
