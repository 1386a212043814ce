---------------------------- MODULE GridDeployer ----------------------------
(***************************************************************************)
(* The contract-based deployer of the grid client                          *)
(* (grid-client/deployer/deployer.go): Deploy, deploy, Wait, and the       *)
(* version bookkeeping of an update.                                       *)
(*                                                                         *)
(* A caller holds a map from nodes to contract ids (NodeDeploymentID of a  *)
(* deployment, a network, a cluster...) and calls Deploy with the          *)
(* deployments it wants.  Deploy deletes, creates and updates, one node    *)
(* after the other in map order (any order), and each of its steps is a    *)
(* call to the chain or to a node that may fail, with or without having    *)
(* had its effect.  When a pass fails and the deployer reverts on failure  *)
(* it runs a second pass towards the deployments it read at the start.     *)
(*                                                                         *)
(* The chain and the nodes are outside the repository and modelled from    *)
(* how the deployer uses them: a contract holds a hash, a node takes a     *)
(* deployment only if its contract is live and holds that deployment's     *)
(* hash.                                                                   *)
(***************************************************************************)
EXTENDS Naturals, FiniteSets

CONSTANTS
  Node,             \* the nodes a caller deploys on
  Workload,         \* workload names
  Data,             \* what a workload asks for (type, size, flist, ...)
  Contents,         \* the workloads a caller may ask of a node
  NoData,           \* "no workload of that name"
  NoDl,             \* "no deployment on that node"
  NoNode,           \* "no node"
  MaxContracts,     \* bound: the chain refuses further contracts
  MaxVersion,       \* bound: the chain refuses an update beyond this version
  RevertOnFailure   \* Deployer.revertOnFailure

Content == [Workload -> Data \cup {NoData}]

ASSUME BoundsAssumption ==
  /\ MaxContracts \in Nat
  /\ MaxVersion \in Nat
ASSUME RevertAssumption == RevertOnFailure \in BOOLEAN
ASSUME ContentsAssumption == Contents \subseteq Content
ASSUME NoneAssumption == NoData \notin Data /\ NoNode \notin Node

ContractId == 1..MaxContracts
NoId == 0     \* absent from a map[uint32]uint64

(* A deployment carries a version, and a version per workload. *)
Deployment == [version: Nat, data: Content, wver: [Workload -> Nat]]
ASSUME NoDlAssumption == NoDl \notin Deployment

Present(dl) == {w \in Workload : dl.data[w] # NoData}

(* What a deployment's challenge covers: the version, and each workload's  *)
(* version and data.  Workload names are not part of it, which is why      *)
(* deploy compares them apart (SameWorkloadsNames).  Two deployments have  *)
(* equal hashes iff they have equal challenges.                            *)
WorkloadHash(dl, w) == <<dl.wver[w], dl.data[w]>>
Hash(dl) ==
  <<dl.version,
    [h \in {WorkloadHash(dl, w) : w \in Present(dl)} |->
       Cardinality({w \in Present(dl) : WorkloadHash(dl, w) = h})]>>

SameWorkloadsNames(d1, d2) == Present(d1) = Present(d2)

(* A deployment as the callers' GenerateVersionlessDeployments make it. *)
Fresh(c) == [version |-> 0, data |-> c, wver |-> [w \in Workload |-> 0]]

(* matchOldVersions: a workload takes the version its name had. *)
matchOldVersions(oldDl, newDl) ==
  [newDl EXCEPT
    !.version = oldDl.version,
    !.wver = [w \in Workload |->
                IF w \in Present(newDl) \cap Present(oldDl) THEN oldDl.wver[w] ELSE 0]]

(* assignVersions: the deployment's version is the old one plus one, and   *)
(* so is that of every workload that is new or whose hash changed.         *)
Changed(oldDl, newDl) ==
  {w \in Present(newDl) :
     w \notin Present(oldDl) \/ WorkloadHash(newDl, w) # WorkloadHash(oldDl, w)}

(* Fault: an update goes up by two versions. *)
FaultSkipVersion(oldDl, newDl) ==
  [version |-> oldDl.version + 2, data |-> newDl.data,
   wver |-> [w \in Workload |->
               IF w \in Changed(oldDl, newDl) THEN oldDl.version + 2 ELSE newDl.wver[w]]]

assignVersions(oldDl, newDl) ==
  [newDl EXCEPT
    !.version = oldDl.version + 1,
    !.wver = [w \in Workload |->
                IF w \in Changed(oldDl, newDl) THEN oldDl.version + 1 ELSE newDl.wver[w]]]

(* The deployment is already what is asked for: deploy skips the node. *)
Unchanged(oldDl, newDl) ==
  /\ Hash(oldDl) = Hash(matchOldVersions(oldDl, newDl))
  /\ SameWorkloadsNames(newDl, oldDl)

Updated(oldDl, newDl) == assignVersions(oldDl, matchOldVersions(oldDl, newDl))

VARIABLES
  (* the chain *)
  created,     \* contracts created so far: their ids are 1..created
  owner,       \* the node of a contract
  hashed,      \* the deployment whose hash the contract holds
  live,        \* contracts in state Created
  (* the nodes *)
  stored,      \* the deployment a node holds for a contract (DeploymentGet)
  running,     \* the workloads it runs for it
  (* the caller *)
  known,       \* node -> contract id, what the last Deploy returned
  (* one call of Deploy *)
  pc,          \* where it is
  pass,        \* "deploy", or "revert" for the second pass
  request,     \* the caller's newDeployments
  snapshot,    \* oldDeployments, as GetDeployments read them
  fetched,     \* oldErr = nil
  base,        \* the pass's oldDeployments (ids)
  target,      \* the pass's newDeployments
  current,     \* the pass's currentDeployments
  todo,        \* nodes the current loop has not visited
  at,          \* the node it is at
  dl,          \* the deployment it sends there
  cid,         \* and its contract
  outcome,     \* how the last call returned
  (* history *)
  waited,      \* contracts whose deployment a Wait has seen ok since the node took it
  leaked       \* contracts the code says must be cancelled manually, or created by
               \* a call whose answer was lost

chain == <<created, owner, hashed, live>>
nodes == <<stored, running>>
args == <<request, snapshot, fetched, pass, base, target>>
history == <<waited, leaked>>
vars == <<chain, nodes, known, pc, args, current, todo, at, dl, cid, outcome, history>>

NoIds == [n \in Node |-> NoId]
NoDls == [n \in Node |-> NoDl]
NoContent == [w \in Workload |-> NoData]

Outcome == {"none", "ok", "rejected", "error", "reverted", "revertFailed"}
Step == {"idle", "fetch", "validate", "deletions", "creations", "deploy", "undo",
         "waitCreation", "updates", "updateContract", "updateNode", "waitUpdate"}

TypeOK ==
  /\ created \in 0..MaxContracts
  /\ owner \in [ContractId -> Node \cup {NoNode}]
  /\ hashed \in [ContractId -> Deployment \cup {NoDl}]
  /\ live \subseteq 1..created
  /\ stored \in [ContractId -> Deployment \cup {NoDl}]
  /\ running \in [ContractId -> Content]
  /\ known \in [Node -> ContractId \cup {NoId}]
  /\ pc \in Step
  /\ pass \in {"deploy", "revert"}
  /\ request \in [Node -> Deployment \cup {NoDl}]
  /\ snapshot \in [Node -> Deployment \cup {NoDl}]
  /\ fetched \in BOOLEAN
  /\ base \in [Node -> ContractId \cup {NoId}]
  /\ target \in [Node -> Deployment \cup {NoDl}]
  /\ current \in [Node -> ContractId \cup {NoId}]
  /\ todo \subseteq Node
  /\ at \in Node \cup {NoNode}
  /\ dl \in Deployment \cup {NoDl}
  /\ cid \in ContractId \cup {NoId}
  /\ outcome \in Outcome
  /\ waited \subseteq ContractId
  /\ leaked \subseteq 1..created

Init ==
  /\ created = 0
  /\ owner = [c \in ContractId |-> NoNode]
  /\ hashed = [c \in ContractId |-> NoDl]
  /\ live = {}
  /\ stored = [c \in ContractId |-> NoDl]
  /\ running = [c \in ContractId |-> NoContent]
  /\ known = NoIds /\ base = NoIds /\ current = NoIds
  /\ request = NoDls /\ snapshot = NoDls /\ target = NoDls
  /\ pc = "idle" /\ pass = "deploy" /\ fetched = FALSE
  /\ todo = {} /\ at = NoNode /\ dl = NoDl /\ cid = NoId
  /\ outcome = "none"
  /\ waited = {} /\ leaked = {}
-----------------------------------------------------------------------------
(* The chain and the nodes. *)

(* A contract cancelled; its node forgets the deployment. *)
Cancelled(c) ==
  /\ live' = live \ {c}
  /\ stored' = [stored EXCEPT ![c] = NoDl]
  /\ running' = [running EXCEPT ![c] = NoContent]
  /\ waited' = waited \ {c}

(* A node takes a deployment only under a live contract with its hash. *)
Accepts(c) == c \in live /\ Hash(hashed[c]) = Hash(dl)

(* On an update a workload whose version is not the deployment's is left   *)
(* untouched; one that is gone is deleted.                                 *)
Applied(c) ==
  [w \in Workload |->
     IF w \in Present(dl) /\ stored[c] # NoDl /\ dl.wver[w] # dl.version
     THEN running[c][w] ELSE dl.data[w]]

Provisioned(c) ==
  /\ stored' = [stored EXCEPT ![c] = dl]
  /\ running' = [running EXCEPT ![c] = Applied(c)]
  /\ waited' = waited \ {c}

(* A contract ends with nobody here asking: cancelled from elsewhere, or   *)
(* out of funds.                                                           *)
ContractEnds(c) ==
  /\ c \in live
  /\ Cancelled(c)
  /\ UNCHANGED <<created, owner, hashed, known, pc, args, current, todo, at, dl, cid,
                 outcome, leaked>>
-----------------------------------------------------------------------------
(* How a pass of deploy ends. *)

Finish(ids, result) ==
  /\ known' = ids /\ outcome' = result /\ pc' = "idle" /\ pass' = "deploy"
  /\ snapshot' = NoDls /\ fetched' = FALSE /\ base' = NoIds /\ current' = NoIds
  /\ todo' = {} /\ at' = NoNode /\ dl' = NoDl /\ cid' = NoId
  /\ UNCHANGED <<request, target>>

(* Fault: a pass deletes every deployment and creates it anew. *)
FaultRecreate(p, ids, dls) ==
  /\ pass' = p /\ base' = [n \in Node |-> IF p = "revert" THEN NoId ELSE ids[n]]
  /\ target' = dls /\ current' = ids
  /\ todo' = {n \in Node : ids[n] # NoId /\ dls[n] = NoDl}
  /\ pc' = "deletions" /\ at' = NoNode /\ dl' = NoDl /\ cid' = NoId
  /\ UNCHANGED <<known, outcome, request>>

StartPass(p, ids, dls) ==
  /\ pass' = p /\ base' = ids /\ target' = dls /\ current' = ids
  /\ todo' = {n \in Node : ids[n] # NoId /\ dls[n] = NoDl}
  /\ pc' = "deletions" /\ at' = NoNode /\ dl' = NoDl /\ cid' = NoId
  /\ UNCHANGED <<known, outcome, request>>

Reverts == pass = "deploy" /\ RevertOnFailure /\ fetched

(* Fault: a revert that fails is reported as one that succeeded. *)
FaultFail(ids) ==
  \/ /\ Reverts
     /\ StartPass("revert", ids, snapshot)
     /\ UNCHANGED <<snapshot, fetched>>
  \/ ~Reverts /\ Finish(ids, IF pass = "deploy" THEN "error" ELSE "reverted")

(* The pass returns an error, with ids as its currentDeployments. *)
Fail(ids) ==
  \/ /\ Reverts
     /\ StartPass("revert", ids, snapshot)
     /\ UNCHANGED <<snapshot, fetched>>
  \/ /\ ~Reverts
     /\ Finish(ids, IF pass = "deploy" THEN "error" ELSE "revertFailed")

Succeed == Finish(current, IF pass = "deploy" THEN "ok" ELSE "reverted")
-----------------------------------------------------------------------------
(* Deploy. *)

Call(new) ==
  /\ pc = "idle"
  /\ request' = [n \in Node |-> IF new[n] = NoDl THEN NoDl ELSE Fresh(new[n])]
  /\ pc' = "fetch"
  /\ outcome' = "none" /\ target' = NoDls
  /\ UNCHANGED <<chain, nodes, known, pass, snapshot, fetched, base, current, todo, at,
                 dl, cid, history>>

(* GetDeployments: every known deployment is read from its node. *)
Fetch ==
  /\ pc = "fetch"
  /\ \A n \in Node : known[n] # NoId => stored[known[n]] # NoDl
  /\ snapshot' = [n \in Node |-> IF known[n] = NoId THEN NoDl ELSE stored[known[n]]]
  /\ fetched' = TRUE
  /\ pc' = "validate"
  /\ UNCHANGED <<chain, nodes, known, pass, request, base, target, current, todo, at, dl,
                 cid, outcome, history>>

(* ... or not (a node is down, a contract is gone): then no validation. *)
FetchFails ==
  /\ pc = "fetch"
  /\ \E n \in Node : known[n] # NoId
  /\ StartPass("deploy", known, request)
  /\ UNCHANGED <<chain, nodes, snapshot, fetched, history>>

Validate ==
  /\ pc = "validate"
  /\ StartPass("deploy", known, request)
  /\ UNCHANGED <<chain, nodes, snapshot, fetched, history>>

ValidateFails ==
  /\ pc = "validate"
  /\ Finish(known, "rejected")
  /\ UNCHANGED <<chain, nodes, history>>
-----------------------------------------------------------------------------
(* deploy: the deletions. *)

EnsureContractCanceled(c) ==
  IF c \in live THEN Cancelled(c) ELSE UNCHANGED <<live, nodes, waited>>

DeleteDeployment(n) ==
  /\ pc = "deletions" /\ n \in todo
  /\ EnsureContractCanceled(base[n])     \* ContractNotExists is not an error here
  /\ current' = [current EXCEPT ![n] = NoId]
  /\ todo' = todo \ {n}
  /\ UNCHANGED <<created, owner, hashed, known, pc, args, at, dl, cid, outcome, leaked>>

(* Fault: the node leaves currentDeployments before its contract is cancelled. *)
FaultForgetFirst(n) ==
  /\ pc = "deletions" /\ n \in todo
  /\ EnsureContractCanceled(base[n]) \/ UNCHANGED <<live, nodes, waited>>
  /\ Fail([current EXCEPT ![n] = NoId])
  /\ UNCHANGED <<created, owner, hashed, leaked>>

DeleteFails(n) ==
  /\ pc = "deletions" /\ n \in todo
  /\ EnsureContractCanceled(base[n]) \/ UNCHANGED <<live, nodes, waited>>
  /\ Fail(current)
  /\ UNCHANGED <<created, owner, hashed, leaked>>

DeletionsDone ==
  /\ pc = "deletions" /\ todo = {}
  /\ pc' = "creations"
  /\ todo' = {n \in Node : target[n] # NoDl /\ base[n] = NoId}
  /\ UNCHANGED <<chain, nodes, known, args, current, at, dl, cid, outcome, history>>
-----------------------------------------------------------------------------
(* deploy: the creations. *)

NewContract(n) ==
  LET c == created + 1 IN
  /\ c <= MaxContracts
  /\ created' = c
  /\ owner' = [owner EXCEPT ![c] = n]
  /\ hashed' = [hashed EXCEPT ![c] = target[n]]
  /\ live' = live \cup {c}

CreateContract(n) ==
  /\ pc = "creations" /\ n \in todo
  /\ NewContract(n)
  /\ at' = n /\ dl' = target[n] /\ cid' = created'
  /\ todo' = todo \ {n}
  /\ pc' = "deploy"
  /\ UNCHANGED <<nodes, known, args, current, outcome, history>>

(* Any of the calls up to CreateNodeContract fails; the last one possibly  *)
(* after the chain created the contract.                                   *)
CreateFails(n) ==
  /\ pc = "creations" /\ n \in todo
  /\ \/ UNCHANGED <<chain, leaked>>
     \/ NewContract(n) /\ leaked' = leaked \cup {created'}
  /\ Fail(current)
  /\ UNCHANGED <<nodes, waited>>

DeploymentDeploy ==
  /\ pc = "deploy"
  /\ Accepts(cid) /\ Provisioned(cid)
  /\ current' = [current EXCEPT ![at] = cid]
  /\ pc' = "waitCreation"
  /\ UNCHANGED <<chain, known, args, todo, at, dl, cid, outcome, leaked>>

DeploymentDeployFails ==
  /\ pc = "deploy"
  /\ (Accepts(cid) /\ Provisioned(cid)) \/ UNCHANGED <<nodes, waited>>
  /\ pc' = "undo"
  /\ UNCHANGED <<chain, known, args, current, todo, at, dl, cid, outcome, leaked>>

UndoContract ==
  /\ pc = "undo" /\ cid \in live
  /\ Cancelled(cid)
  /\ Fail(current)
  /\ UNCHANGED <<created, owner, hashed, leaked>>

(* "error cancelling contract ...; you must cancel it manually" *)
UndoFails ==
  /\ pc = "undo"
  /\ EnsureContractCanceled(cid) \/ UNCHANGED <<live, nodes, waited>>
  /\ leaked' = leaked \cup {cid}
  /\ Fail(current)
  /\ UNCHANGED <<created, owner, hashed>>

CreationsDone ==
  /\ pc = "creations" /\ todo = {}
  /\ pc' = "updates"
  /\ todo' = {n \in Node : target[n] # NoDl /\ base[n] # NoId}
  /\ UNCHANGED <<chain, nodes, known, args, current, at, dl, cid, outcome, history>>
-----------------------------------------------------------------------------
(* deploy: the updates. *)

OldDl(n) == stored[base[n]]

SkipUpdate(n) ==
  /\ pc = "updates" /\ n \in todo
  /\ OldDl(n) # NoDl /\ Unchanged(OldDl(n), target[n])
  /\ todo' = todo \ {n}
  /\ UNCHANGED <<chain, nodes, known, pc, args, current, at, dl, cid, outcome, history>>

PrepareUpdate(n) ==
  /\ pc = "updates" /\ n \in todo
  /\ OldDl(n) # NoDl /\ ~Unchanged(OldDl(n), target[n])
  /\ at' = n /\ cid' = base[n] /\ dl' = Updated(OldDl(n), target[n])
  /\ todo' = todo \ {n}
  /\ pc' = "updateContract"
  /\ UNCHANGED <<chain, nodes, known, args, current, outcome, history>>

PrepareUpdateFails(n) ==
  /\ pc = "updates" /\ n \in todo
  /\ Fail(current)
  /\ UNCHANGED <<chain, nodes, history>>

NewHash == cid \in live /\ dl.version <= MaxVersion /\ hashed' = [hashed EXCEPT ![cid] = dl]

UpdateNodeContract ==
  /\ pc = "updateContract"
  /\ NewHash
  /\ pc' = "updateNode"
  /\ UNCHANGED <<created, owner, live, nodes, known, args, current, todo, at, dl, cid,
                 outcome, history>>

UpdateNodeContractFails ==
  /\ pc = "updateContract"
  /\ NewHash \/ UNCHANGED hashed
  /\ Fail(current)
  /\ UNCHANGED <<created, owner, live, nodes, history>>

DeploymentUpdate ==
  /\ pc = "updateNode"
  /\ Accepts(cid) /\ Provisioned(cid)
  /\ current' = [current EXCEPT ![at] = cid]
  /\ pc' = "waitUpdate"
  /\ UNCHANGED <<chain, known, args, todo, at, dl, cid, outcome, leaked>>

DeploymentUpdateFails ==
  /\ pc = "updateNode"
  /\ (Accepts(cid) /\ Provisioned(cid)) \/ UNCHANGED <<nodes, waited>>
  /\ Fail(current)
  /\ UNCHANGED <<chain, leaked>>

UpdatesDone ==
  /\ pc = "updates" /\ todo = {}
  /\ Succeed
  /\ UNCHANGED <<chain, nodes, history>>
-----------------------------------------------------------------------------
(* Wait: the node reports every workload ok at the version expected of it, *)
(* zero on a creation, the assigned one on an update; a workload in error, *)
(* no progress for four minutes, or an unreachable node fails it.          *)

Expected == IF pc = "waitCreation" THEN [w \in Workload |-> 0] ELSE dl.wver

Wait ==
  /\ pc \in {"waitCreation", "waitUpdate"}
  /\ stored[cid] # NoDl
  /\ \A w \in Present(dl) : stored[cid].wver[w] = Expected[w]
  /\ pc' = IF pc = "waitCreation" THEN "creations" ELSE "updates"
  /\ at' = NoNode /\ dl' = NoDl /\ cid' = NoId
  /\ waited' = waited \cup {cid}
  /\ UNCHANGED <<chain, nodes, known, args, current, todo, outcome, leaked>>

WaitFails ==
  /\ pc \in {"waitCreation", "waitUpdate"}
  /\ Fail(current)
  /\ UNCHANGED <<chain, nodes, history>>
-----------------------------------------------------------------------------
(* The steps of Deploy, and everything. *)
Deploy ==
  \/ Fetch \/ FetchFails \/ Validate \/ ValidateFails
  \/ \E n \in Node : DeleteDeployment(n) \/ DeleteFails(n)
  \/ DeletionsDone
  \/ \E n \in Node : CreateContract(n) \/ CreateFails(n)
  \/ DeploymentDeploy \/ DeploymentDeployFails \/ UndoContract \/ UndoFails
  \/ CreationsDone
  \/ \E n \in Node : SkipUpdate(n) \/ PrepareUpdate(n) \/ PrepareUpdateFails(n)
  \/ UpdateNodeContract \/ UpdateNodeContractFails
  \/ DeploymentUpdate \/ DeploymentUpdateFails
  \/ Wait \/ WaitFails
  \/ UpdatesDone

Next ==
  \/ \E new \in [Node -> Contents \cup {NoDl}] : Call(new)
  \/ Deploy
  \/ \E c \in ContractId : ContractEnds(c)

Spec == Init /\ [][Next]_vars
(* Every call the deployer makes returns: it ends, or its context does. *)
FairSpec == Spec /\ WF_vars(Deploy)
-----------------------------------------------------------------------------
(* Safety. *)

(* Where the deployer would find a contract of its own: in the map the     *)
(* caller holds, in the one the running pass builds, or in its hand.       *)
Holder == IF pc \in {"idle", "fetch", "validate"} THEN known ELSE current
Held(c) == Holder[owner[c]] = c \/ (pc \in {"deploy", "undo"} /\ c = cid)

(* No contract is orphaned: whatever fails and however a revert ends, a    *)
(* live contract the deployer created is in the map it returns to the      *)
(* caller, or it has been reported as one to cancel manually (or the       *)
(* chain's answer to its creation was lost).  design.md: "every contract   *)
(* deletion or creation, should directly be reflected in the currentState".*)
NoOrphanedContract == \A c \in live \ leaked : Held(c)

(* Deploy keeps the promise of ContractLedger: it opens contracts one at a *)
(* time into its hand, and lets go of one only as it ends or is reported.  *)
Ledger == INSTANCE ContractLedger
  WITH Contract <- ContractId, opened <- 1..created,
       held <- {c \in live \ leaked : Held(c)}, reported <- leaked
KeepsLedger == Ledger!Spec

(* The bookkeeping of a call, which NoOrphanedContract above and           *)
(* UpdatedInPlace rest on: a pass keeps the contract of every node it is   *)
(* to update, creates only on nodes without one, and deletes only what its *)
(* target leaves out; the revert starts from a snapshot of every contract  *)
(* the caller had.                                                         *)
InHand == {"deploy", "undo", "waitCreation", "updateContract", "updateNode", "waitUpdate"}
Kept(n) == known[n] # NoId /\ request[n] # NoDl

PassBookkeeping(n) ==
  /\ Kept(n) => base[n] = known[n] /\ target[n] # NoDl
  /\ base[n] # NoId /\ target[n] # NoDl => current[n] = base[n]
  /\ pc = "deletions" =>
       /\ base[n] = NoId => current[n] = NoId
       /\ n \in todo => base[n] # NoId /\ target[n] = NoDl /\ current[n] = base[n]
  /\ pc \in {"creations", "deploy", "undo", "waitCreation"} /\ n \in todo =>
       base[n] = NoId /\ current[n] = NoId /\ target[n] # NoDl
  /\ pc \in {"updates", "updateContract", "updateNode", "waitUpdate"} /\ n \in todo =>
       base[n] # NoId /\ target[n] # NoDl

Bookkeeping ==
  /\ fetched => \A n \in Node : known[n] # NoId => snapshot[n] # NoDl
  /\ pc \notin {"idle", "fetch", "validate"} => \A n \in Node : PassBookkeeping(n)
  /\ pc \in InHand => dl \in Deployment /\ at \in Node \ todo /\ cid \in ContractId
  /\ pc \in {"deploy", "undo"} =>
       current[at] = NoId /\ base[at] = NoId /\ owner[cid] = at /\ cid \in 1..created
  /\ pc \in {"updateContract", "updateNode"} => cid = base[at] /\ target[at] # NoDl

(* A pass that returns no error has reached its target, the caller's       *)
(* deployments, or after a failure the ones read at the start: exactly the *)
(* target's nodes have a contract, and each node runs exactly the          *)
(* workloads asked of it (unless the contract has ended since).            *)
TargetReached ==
  outcome \in {"ok", "reverted"} =>
    \A n \in Node :
      /\ known[n] # NoId <=> target[n] # NoDl
      /\ known[n] \in live => running[known[n]] = target[n].data

(* zos/deployment.go: the version "has to be incremented with each call to *)
(* update".  A node never sees a deployment change under the same version, *)
(* nor skip one, whatever the passes before did and however they failed.   *)
OneVersion ==
  \A c \in ContractId :
    stored[c] # stored'[c] /\ stored[c] # NoDl /\ stored'[c] # NoDl =>
      stored'[c].version = stored[c].version + 1
VersionStep == [][OneVersion]_vars

(* A node that is in both the caller's map and its new deployments is      *)
(* updated in place: no failure, and no revert, gives it another contract  *)
(* (and so another public ip, or fresh disks).                             *)
UpdatedInPlace ==
  [][\A n \in Node :
       known[n] # NoId /\ known'[n] # known[n] => request[n] = NoDl]_vars

(* Deploy returns: the revert happens at most once and does not revert.    *)
DeployReturns == pc # "idle" ~> pc = "idle"

-----------------------------------------------------------------------------
(* Claims of the documentation the code does not keep. *)

(* zos/deployment.go: "Version must be set to 0 on deployment creation".   *)
(* A revert creates a deleted deployment again at the version it had.      *)
CreationVersionZero == pc = "deploy" => dl.version = 0

(* zos/deployment.go: the node validates that the deployment's hash is the *)
(* one attached to the contract.  After a call that ended without an error *)
(* (or with a successful revert), chain and node agree on each deployment. *)
HashesAgree ==
  outcome \in {"ok", "reverted"} =>
    \A n \in Node :
      known[n] \in live => Hash(hashed[known[n]]) = Hash(stored[known[n]])

(* design.md: after a creation or an update "the function should only      *)
(* return after waiting [...] on all workloads to be StateOK".             *)
OkMeansWaited ==
  outcome = "ok" => \A n \in Node : known[n] \in live => known[n] \in waited
=============================================================================
