-------------------------------- MODULE Robot --------------------------------
(***************************************************************************)
(* tfrobot: mass deployment of groups of machines with retries             *)
(* (tfrobot/pkg/deployer/deployer.go), from a validated configuration      *)
(* (internal/parser). Groups are deployed one after the other; a trial of  *)
(* a group looks for nodes, gives each machine that has no contract a node *)
(* and deploys its network and then the machine. A signal may come at any  *)
(* time. BatchDeploy, Network and Gateways have the calls it makes; here a *)
(* call deploys some of what is asked.                                     *)
(***************************************************************************)
EXTENDS Integers, Sequences, SequencesExt, FiniteSets, Functions

CONSTANTS
  Configs,     \* configurations: groups of nodes and groups of machines
  Node,        \* node ids: the nodes a search may find
  MaxRetries,  \* Config.MaxRetries
  MaxFaults    \* bound: calls that fail without the signal

RobotAssumption ==
  /\ Node \subseteq Nat \ {0} /\ IsFiniteSet(Node)
  /\ \A c \in Configs :
       /\ c.groups \in Seq(Range(c.groups)) /\ c.vms \in Seq(Range(c.vms))
       /\ \A i \in DOMAIN c.vms : c.vms[i].count \in Nat

VARIABLES
  conf,        \* the configuration
  pc,
  grp,         \* the group at hand
  trial,
  count,       \* NodesCount of the group, as the trials change it
  excluded,    \* excludedNodes: of all groups so far
  ids,         \* the nodes the last search found
  vms,         \* the machines of the group, each with its network
  passed,      \* passedGroups
  failed,      \* groups with an error
  output,      \* groups that were loaded and written out
  interrupted, \* the context is cancelled
  live,        \* contracts on the chain
  leaked,      \* history: those whose cancellation failed
  faults

vars == <<conf, pc, grp, trial, count, excluded, ids, vms, passed, failed, output, interrupted, live, leaked, faults>>
local == <<grp, trial, count, excluded, ids, vms>>
ended == <<passed, failed, output>>
grid == <<live, leaked>>

(* Of the i-th machine of a group. *)
Contract(g, i, kind, node) == [group |-> g, vm |-> i, kind |-> kind, node |-> node]
Group == conf.groups[grp]
Fault == faults < MaxFaults /\ faults' = faults + 1
Fails == IF interrupted THEN UNCHANGED faults ELSE Fault

(***************************************************************************)
(* The configuration                                                       *)
(***************************************************************************)
(* validateVMs: what the groups of machines on a group of nodes take, when  *)
(* the i-th is reached, must be there. That the group of nodes is there is  *)
(* only asked until one was found.                                          *)
Before(vs, i, g) == SelectSeq(SubSeq(vs, 1, i), LAMBDA v : v.group = g.name)
Enough(vs, g) ==
  LET sum(used) == FoldLeftDomain(LAMBDA acc, i : acc + used[i], 0, used)
  IN  /\ \A i \in DOMAIN vs : vs[i].cpu <= g.cpu
      /\ sum([i \in DOMAIN vs |-> vs[i].mem * vs[i].count]) <= g.mem * g.count
      /\ sum([i \in DOMAIN vs |-> (vs[i].root + vs[i].disk) * vs[i].count]) <= g.ssd * g.count
      /\ sum([i \in DOMAIN vs |-> IF vs[i].ip4 THEN vs[i].count ELSE 0]) <= (IF g.ip4 THEN g.count ELSE 0)
ValidateVMs(gs, vs) ==
  \A i \in DOMAIN vs :
    /\ vs[i].key
    /\ \A g \in Range(gs) : g.name = vs[i].group => Enough(Before(vs, i, g), g)
    /\ \E j \in 1..i, g \in Range(gs) : vs[j].group = g.name

(* ValidateConfig: names of groups are distinct, and none has contracts.    *)
ValidateConfig(c) ==
  /\ c.groups # <<>> /\ c.vms # <<>>
  /\ \A i, j \in DOMAIN c.groups : c.groups[i].name = c.groups[j].name => i = j
  /\ \A i \in DOMAIN c.groups : c.groups[i].count > 0
  /\ ValidateVMs(c.groups, c.vms)

(* parseVMsGroup, buildDeployments: the machines of a group, in the order   *)
(* of the configuration, on the nodes in turn.                              *)
Machines(g) ==
  FlattenSeq([i \in DOMAIN conf.vms |->
    IF conf.vms[i].group = g.name THEN [k \in 1..conf.vms[i].count |-> <<conf.vms[i].name, k - 1>>] ELSE <<>>])
InTurn(nodes, i) == nodes[((i - 1) % Len(nodes)) + 1]
BuildDeployments(g, nodes) ==
  [i \in DOMAIN Machines(g) |-> [name |-> Machines(g)[i], node |-> InTurn(nodes, i), cid |-> FALSE, net |-> 0]]

(***************************************************************************)
(* RunDeployer                                                             *)
(***************************************************************************)
Init ==
  /\ conf \in {c \in Configs : ValidateConfig(c)}
  /\ pc = "next" /\ grp = 1 /\ trial = 0 /\ count = 0
  /\ excluded = {} /\ ids = <<>> /\ vms = <<>>
  /\ passed = {} /\ failed = {} /\ output = {}
  /\ interrupted = FALSE /\ live = {} /\ leaked = {} /\ faults = 0

(* The signal cancels the context.                                          *)
Interrupt ==
  /\ ~interrupted /\ pc \notin {"done", "killed"}
  /\ interrupted' = TRUE
  /\ UNCHANGED <<conf, pc, local, ended, grid, faults>>

NextGroup ==
  /\ pc = "next" /\ grp <= Len(conf.groups)
  /\ pc' = "try" /\ trial' = 1 /\ count' = Group.count /\ vms' = <<>> /\ ids' = <<>>
  /\ UNCHANGED <<conf, grp, excluded, ended, interrupted, grid, faults>>

(* retry.Do looks at the context before each trial.                         *)
Try ==
  /\ pc = "try"
  /\ pc' = IF interrupted THEN "giveUp" ELSE "filter"
  /\ UNCHANGED <<conf, local, ended, interrupted, grid, faults>>

(* getBlockedNodes                                                          *)
Blocked(ms) == {ms[i].node : i \in {i \in DOMAIN ms : ~ms[i].cid}}

(* A trial fails: the next one looks for as many nodes as were blocked,     *)
(* none of them again.                                                      *)
TrialFails(ms) ==
  /\ pc' = IF trial > MaxRetries THEN "giveUp" ELSE "try"
  /\ trial' = trial + 1
  /\ count' = Cardinality(Blocked(ms))
  /\ excluded' = excluded \cup Blocked(ms)
  /\ UNCHANGED grp

(* Fault: nodes that were blocked are found again. *)
FaultNodesFound == {s \in SetToAllKPermutations(Node) : Len(s) = count}

(* filterNodes finds the number asked for or fails; asked for none it fails.*)
NodesFound == {s \in SetToAllKPermutations(Node \ excluded) : Len(s) = count}
FilterNodes ==
  /\ pc = "filter" /\ count > 0
  /\ ids' \in NodesFound
  /\ IF vms = <<>>
     THEN pc' = "networks" /\ vms' = BuildDeployments(Group, ids')
     ELSE pc' = "update" /\ UNCHANGED vms
  /\ UNCHANGED <<conf, grp, trial, count, excluded, ended, interrupted, grid, faults>>
FilterFails ==
  /\ pc = "filter"
  /\ IF count = 0 \/ NodesFound = {} THEN UNCHANGED faults ELSE Fails
  /\ TrialFails(vms)
  /\ UNCHANGED <<conf, ids, vms, ended, interrupted, grid>>

(* updateFailedDeployments: the networks of machines without contract are   *)
(* cancelled, all or none, and those machines get another node, whether     *)
(* that failed or not.                                                      *)
NetworkOf(i) == Contract(Group.name, i, "network", vms[i].net)
Stale == {i \in DOMAIN vms : ~vms[i].cid /\ vms[i].net # 0}
UpdateFailed ==
  /\ pc = "update"
  /\ \E cancelled \in BOOLEAN :
       /\ IF cancelled \/ Stale = {} THEN UNCHANGED faults ELSE Fails
       /\ live' = IF cancelled THEN live \ {NetworkOf(i) : i \in Stale} ELSE live
       /\ vms' = [i \in DOMAIN vms |->
            LET net == IF cancelled /\ i \in Stale THEN 0 ELSE vms[i].net
            IN  [vms[i] EXCEPT !.net = net, !.node = IF vms[i].cid /\ net # 0 THEN @ ELSE InTurn(ids, i)]]
  /\ pc' = "networks"
  /\ UNCHANGED <<conf, grp, trial, count, excluded, ids, ended, interrupted, leaked>>

(* massDeploy: networks first. Of those that fail the contracts L could not *)
(* be cancelled.                                                            *)
DeployNetworks ==
  LET asked == {i \in DOMAIN vms : vms[i].net = 0}
      of(i) == Contract(Group.name, i, "network", vms[i].node)
  IN  /\ pc = "networks"
      /\ \E S \in SUBSET asked : \E L \in SUBSET (asked \ S) :
           /\ IF S = asked THEN UNCHANGED faults ELSE Fails
           /\ vms' = [i \in DOMAIN vms |-> IF i \in S THEN [vms[i] EXCEPT !.net = vms[i].node] ELSE vms[i]]
           /\ live' = live \cup {of(i) : i \in S \cup L}
           /\ leaked' = leaked \cup {of(i) : i \in L}
      /\ pc' = "machines"
      /\ UNCHANGED <<conf, grp, trial, count, excluded, ids, ended, interrupted>>

(* Fault: a machine whose network failed is passed over. *)
FaultPasses(asked, S) == S = {i \in asked : vms[i].net = vms[i].node}

(* Then machines: one whose network is not on its node is left out.         *)
Passes(asked, S) == S = asked /\ \A i \in DOMAIN vms : vms[i].net # 0
DeployMachines ==
  LET asked == {i \in DOMAIN vms : ~vms[i].cid}
      able  == {i \in asked : vms[i].net = vms[i].node}
      of(i) == Contract(Group.name, i, "machine", vms[i].node)
  IN  /\ pc = "machines"
      /\ \E S \in SUBSET able : \E L \in SUBSET (able \ S) :
           /\ IF S = able THEN UNCHANGED faults ELSE Fails
           /\ vms' = [i \in DOMAIN vms |-> IF i \in S THEN [vms[i] EXCEPT !.cid = TRUE] ELSE vms[i]]
           /\ live' = live \cup {of(i) : i \in S \cup L}
           /\ leaked' = leaked \cup {of(i) : i \in L}
           /\ IF Passes(asked, S)
              THEN /\ pc' = "next" /\ grp' = grp + 1
                   /\ passed' = passed \cup {[group |-> Group.name, vms |-> vms']}
                   /\ UNCHANGED <<trial, count, excluded>>
              ELSE TrialFails(vms') /\ UNCHANGED passed
      /\ UNCHANGED <<conf, ids, failed, output, interrupted>>

(* CancelByProjectName: a failure, which may leave any of the contracts, is *)
(* logged. The context is not asked.                                        *)
ContractsOf(gs) == {c \in live : c.group \in gs}
CancelByProjectName(gs) ==
  \E L \in SUBSET ContractsOf(gs) :
    /\ IF L = {} THEN UNCHANGED faults ELSE Fault
    /\ live' = (live \ ContractsOf(gs)) \cup L
    /\ leaked' = leaked \cup L

(* The group is out of trials, or the context is cancelled.                 *)
GiveUp ==
  /\ pc = "giveUp"
  /\ CancelByProjectName({Group.name})
  /\ failed' = failed \cup {Group.name}
  /\ pc' = "next" /\ grp' = grp + 1
  /\ UNCHANGED <<conf, trial, count, excluded, ids, vms, passed, output, interrupted>>

(* After the last group: everything is cancelled if the signal came.        *)
Finish ==
  /\ pc = "next" /\ grp > Len(conf.groups)
  /\ IF interrupted
     THEN pc' = "killed" /\ CancelByProjectName({g.name : g \in Range(conf.groups)})
     ELSE pc' = "load" /\ UNCHANGED <<grid, faults>>
  /\ UNCHANGED <<conf, local, ended, interrupted>>

(* loadAfterDeployment: groups are loaded concurrently, each with retries.  *)
(* What passed and cannot be loaded is an error, and stays deployed.        *)
Load ==
  /\ pc = "load"
  /\ \E S \in SUBSET {p.group : p \in passed} :
       /\ IF S = {p.group : p \in passed} THEN UNCHANGED faults ELSE Fails
       /\ output' = S
       /\ failed' = failed \cup ({p.group : p \in passed} \ S)
  /\ pc' = "done"
  /\ UNCHANGED <<conf, local, passed, interrupted, grid>>

Step ==
  \/ NextGroup \/ Try \/ FilterNodes \/ FilterFails \/ UpdateFailed \/ DeployNetworks \/ DeployMachines
  \/ GiveUp \/ Finish \/ Load
Next == Interrupt \/ Step

(* The program goes on: every call it waits for has a timeout.              *)
Spec == Init /\ [][Next]_vars /\ WF_vars(Step)

(***************************************************************************)
(* Properties                                                              *)
(***************************************************************************)
(* When tfrobot ends, what is deployed is what it says: of each group that  *)
(* passed, every machine it has, on its node and with its network there; of *)
(* the others, and after a signal of all, nothing, but for what it failed   *)
(* to cancel.                                                               *)
Kept(p) ==
  UNION {{Contract(p.group, i, "machine", p.vms[i].node), Contract(p.group, i, "network", p.vms[i].node)} :
           i \in DOMAIN p.vms}
Expected == IF pc = "killed" THEN {} ELSE UNION {Kept(p) : p \in passed}
Names(ms) == [i \in DOMAIN ms |-> ms[i].name]
NothingLeftBehind ==
  pc \in {"done", "killed"} =>
    /\ Expected \subseteq live /\ live \ leaked \subseteq Expected
    /\ pc = "done" => \A p \in passed : \E g \in Range(conf.groups) :
                        g.name = p.group /\ Names(p.vms) = Machines(g)

(* A retry stays away from every node on which something was not deployed.  *)
SkipStep == \A c \in live' \ live : c.node \notin excluded
SkipsBlocked == [][SkipStep]_vars

(* RunDeployer ends, whatever fails and whenever the signal comes.          *)
Ends == <>(pc \in {"done", "killed"})

(* tfrobot/README.md:5: "with support of multiple retries for failed        *)
(* deployments". A group for which nodes could not be searched once is not  *)
(* retried in earnest: the next trials look for as many nodes as were       *)
(* blocked, and nothing was.                                                *)
Recovers == <>(passed # {} \/ interrupted)
=============================================================================
