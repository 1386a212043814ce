----------------------------- MODULE BatchDeploy -----------------------------
(***************************************************************************)
(* Batches of new deployments: Deployer.BatchDeploy                        *)
(* (grid-client/deployer/deployer.go), called and recorded by              *)
(* DeploymentDeployer (deployment_deployer.go) for a caller that, as       *)
(* tfrobot does, asks for what has no contract yet, looks at the result    *)
(* and asks again.                                                         *)
(*                                                                         *)
(* A goroutine per deployment signs it and appends it to the batch; one    *)
(* extrinsic creates the contracts, or those before the first that fails;  *)
(* a goroutine per contract sends the deployment to its node and waits;    *)
(* one extrinsic cancels the contracts of those that failed.               *)
(***************************************************************************)
EXTENDS Naturals, FiniteSets, Sequences

CONSTANTS
  Dl,             \* the deployments: their names are distinct
  MaxContracts,   \* bound: the chain refuses further contracts
  None

BoundAssumption == MaxContracts \in Nat
NoneAssumption == None \notin Dl

ContractId == 1..MaxContracts
NoId == 0

VARIABLES
  (* the chain and the nodes *)
  created,      \* contracts created so far: 1..created
  live,
  body,         \* the deployment whose hash and metadata a contract holds
  stored,       \* the deployment a node took for a contract
  (* the caller *)
  known,        \* Deployment.ContractID
  tracked,      \* State.CurrentNodeDeployments, all nodes together
  (* the call *)
  pc,
  batch,        \* the deployments asked for
  todo,         \* those whose goroutine has not run
  contractsData,       \* what the contracts are to hold
  deploymentsSlice,    \* the deployments, in the same order
  contracts,    \* the contracts created
  worker,       \* the goroutine of each
  ids,          \* deploymentsSlice[i].ContractID
  failedContracts,
  multiErr,
  outcome,
  (* history *)
  leaked        \* reported as not cancelled, or created and never answered

chain == <<created, live, body>>
caller == <<known, tracked>>
call == <<batch, todo, contractsData, deploymentsSlice, contracts, worker, ids>>
vars == <<chain, stored, caller, pc, call, failedContracts, multiErr, outcome, leaked>>

Elements(s) == {s[i] : i \in DOMAIN s}

TypeOK ==
  /\ created \in 0..MaxContracts
  /\ live \subseteq 1..created
  /\ body \in [ContractId -> Dl \cup {None}]
  /\ stored \in [ContractId -> Dl \cup {None}]
  /\ known \in [Dl -> ContractId \cup {NoId}]
  /\ tracked \subseteq ContractId
  /\ pc \in {"idle", "prepare", "create", "work", "cancel", "update"}
  /\ batch \subseteq Dl /\ todo \subseteq batch
  /\ contractsData \in Seq(Dl) /\ deploymentsSlice \in Seq(Dl)
  /\ contracts \in Seq(ContractId) /\ Len(contracts) <= Len(deploymentsSlice)
  /\ worker \in [DOMAIN contracts -> {"send", "wait", "ok", "failed"}]
  /\ ids \in [DOMAIN contracts -> ContractId \cup {NoId}]
  /\ failedContracts \subseteq Elements(contracts)
  /\ multiErr \in BOOLEAN
  /\ outcome \in {"none", "ok", "error"}
  /\ leaked \subseteq 1..created

Init ==
  /\ created = 0 /\ live = {}
  /\ body = [c \in ContractId |-> None] /\ stored = [c \in ContractId |-> None]
  /\ known = [d \in Dl |-> NoId] /\ tracked = {}
  /\ pc = "idle" /\ batch = {} /\ todo = {}
  /\ contractsData = <<>> /\ deploymentsSlice = <<>>
  /\ contracts = <<>> /\ worker = <<>> /\ ids = <<>>
  /\ failedContracts = {} /\ multiErr = FALSE /\ outcome = "none"
  /\ leaked = {}

Goto(from, to) == pc = from /\ pc' = to

(* A call over, its variables gone. *)
Over(err) ==
  /\ pc' = "idle"
  /\ outcome' = IF err THEN "error" ELSE "ok"
  /\ todo' = {} /\ contractsData' = <<>> /\ deploymentsSlice' = <<>>
  /\ contracts' = <<>> /\ worker' = <<>> /\ ids' = <<>>
  /\ failedContracts' = {} /\ multiErr' = FALSE
  /\ UNCHANGED batch
-----------------------------------------------------------------------------
(* The caller. *)

(* A batch that does not validate is deployed all the same, and so is the  *)
(* part of it, T, that could be generated: the error is kept for the end.  *)
Call(S, T) ==
  /\ Goto("idle", "prepare")
  /\ T # {} /\ T \subseteq S /\ \A d \in S : known[d] = NoId
  /\ batch' = S /\ todo' = T /\ outcome' = "none"
  /\ multiErr' \in BOOLEAN /\ (T # S => multiErr')
  /\ UNCHANGED <<chain, stored, caller, contractsData, deploymentsSlice, contracts, worker, ids,
                 failedContracts, leaked>>

Ended(S) ==
  /\ live' = live \ S
  /\ stored' = [c \in ContractId |-> IF c \in S THEN None ELSE stored[c]]

(* DeploymentDeployer.Cancel: a contract that is not there is no error.    *)
Cancel(d) ==
  /\ pc = "idle" /\ known[d] # NoId
  /\ Ended({known[d]})
  /\ known' = [known EXCEPT ![d] = NoId]
  /\ tracked' = tracked \ {known[d]}
  /\ UNCHANGED <<created, body, pc, call, failedContracts, multiErr, outcome, leaked>>

CancelFails(d) ==
  /\ pc = "idle" /\ known[d] # NoId
  /\ Ended({known[d]})       \* done, and the answer lost; or UNCHANGED vars
  /\ UNCHANGED <<created, body, caller, pc, call, failedContracts, multiErr, outcome, leaked>>
-----------------------------------------------------------------------------
(* The goroutines that prepare the batch. *)

Prepare(d) ==
  /\ pc = "prepare" /\ d \in todo
  /\ todo' = todo \ {d}
  /\ contractsData' = Append(contractsData, d)
  /\ deploymentsSlice' = Append(deploymentsSlice, d)
  /\ UNCHANGED <<chain, stored, caller, pc, batch, contracts, worker, ids, failedContracts,
                 multiErr, outcome, leaked>>

(* No client for a node, no signature, an invalid deployment: nothing is   *)
(* created, and the result is empty.                                       *)
PrepareFails ==
  /\ pc = "prepare" /\ todo # {}
  /\ Over(TRUE)
  /\ UNCHANGED <<chain, stored, caller, leaked>>

Prepared ==
  /\ Goto("prepare", "create") /\ todo = {}
  /\ UNCHANGED <<chain, stored, caller, call, failedContracts, multiErr, outcome, leaked>>
-----------------------------------------------------------------------------
(* BatchCreateContract: the first k of the batch. *)

NewContracts(k) ==
  /\ created + k <= MaxContracts
  /\ created' = created + k
  /\ live' = live \cup (created + 1)..created'
  /\ body' = [c \in ContractId |->
                IF c \in (created + 1)..created' THEN contractsData[c - created] ELSE body[c]]

(* With k smaller than the batch, k is the index the chain answers, with   *)
(* an error: the deployments from there on are left as they are.           *)
CreateContracts(k) ==
  /\ Goto("create", "work") /\ k \in 0..Len(contractsData)
  /\ NewContracts(k)
  /\ contracts' = [i \in 1..k |-> created + i]
  /\ worker' = [i \in 1..k |-> "send"]
  /\ ids' = [i \in 1..k |-> NoId]
  /\ multiErr' = (multiErr \/ k < Len(contractsData))
  /\ UNCHANGED <<stored, caller, batch, todo, contractsData, deploymentsSlice, failedContracts,
                 outcome, leaked>>

(* An error without an index, before or after the chain did its work.      *)
CreateContractsFails(k) ==
  /\ pc = "create" /\ k \in 0..Len(contractsData)
  /\ NewContracts(k)
  /\ leaked' = leaked \cup (created + 1)..created'
  /\ Over(TRUE)
  /\ UNCHANGED <<stored, caller>>
-----------------------------------------------------------------------------
(* The goroutine of a contract. *)

Becomes(i, s) == worker' = [worker EXCEPT ![i] = s]

(* A node takes a deployment for a live contract that holds its hash.      *)
Takes(i) ==
  /\ contracts[i] \in live /\ body[contracts[i]] = deploymentsSlice[i]
  /\ stored' = [stored EXCEPT ![contracts[i]] = deploymentsSlice[i]]

DeploymentDeploy(i) ==
  /\ pc = "work" /\ worker[i] = "send"
  /\ Takes(i)
  /\ Becomes(i, "wait")
  /\ UNCHANGED <<chain, caller, pc, batch, todo, contractsData, deploymentsSlice, contracts, ids,
                 failedContracts, multiErr, outcome, leaked>>

Failed(i) ==
  /\ Becomes(i, "failed")
  /\ multiErr' = TRUE
  /\ failedContracts' = failedContracts \cup {contracts[i]}

(* Fault: the ContractID is set before the node answers. *)
FaultSetIdEarly(i) ==
  /\ pc = "work" /\ worker[i] = "send"
  /\ Takes(i) \/ UNCHANGED stored
  /\ ids' = [ids EXCEPT ![i] = contracts[i]]
  /\ Failed(i)
  /\ UNCHANGED <<chain, caller, pc, batch, todo, contractsData, deploymentsSlice, contracts,
                 outcome, leaked>>

DeploymentDeployFails(i) ==
  /\ pc = "work" /\ worker[i] = "send"
  /\ Takes(i) \/ UNCHANGED stored
  /\ Failed(i)
  /\ UNCHANGED <<chain, caller, pc, batch, todo, contractsData, deploymentsSlice, contracts, ids,
                 outcome, leaked>>

Wait(i) ==
  /\ pc = "work" /\ worker[i] = "wait"
  /\ stored[contracts[i]] = deploymentsSlice[i]
  /\ Becomes(i, "ok")
  /\ ids' = [ids EXCEPT ![i] = contracts[i]]
  /\ UNCHANGED <<chain, stored, caller, pc, batch, todo, contractsData, deploymentsSlice,
                 contracts, failedContracts, multiErr, outcome, leaked>>

WaitFails(i) ==
  /\ pc = "work" /\ worker[i] = "wait"
  /\ Failed(i)
  /\ UNCHANGED <<chain, stored, caller, pc, batch, todo, contractsData, deploymentsSlice,
                 contracts, ids, outcome, leaked>>

WorkDone ==
  /\ pc = "work" /\ \A i \in DOMAIN worker : worker[i] \in {"ok", "failed"}
  /\ pc' = IF failedContracts = {} THEN "update" ELSE "cancel"
  /\ UNCHANGED <<chain, stored, caller, call, failedContracts, multiErr, outcome, leaked>>
-----------------------------------------------------------------------------
(* BatchCancelContract: a contract that has already ended fails it. *)

BatchCancel ==
  /\ Goto("cancel", "update")
  /\ failedContracts \subseteq live
  /\ Ended(failedContracts)
  /\ UNCHANGED <<created, body, caller, call, failedContracts, multiErr, outcome, leaked>>

(* "failed to cancel failed contracts ...", which may be done in part. *)
BatchCancelFails ==
  /\ Goto("cancel", "update")
  /\ \E S \in SUBSET failedContracts : Ended(S)
  /\ multiErr' = TRUE
  /\ leaked' = leaked \cup failedContracts
  /\ UNCHANGED <<created, body, caller, call, failedContracts, outcome>>

(* updateStateFromDeployments, for every deployment of the batch. *)
Index(d) == CHOOSE i \in DOMAIN ids : deploymentsSlice[i] = d
Got(d) == (\E i \in DOMAIN ids : deploymentsSlice[i] = d) /\ ids[Index(d)] # NoId

updateState ==
  /\ pc = "update"
  /\ known' = [d \in Dl |-> IF d \in batch /\ Got(d) THEN ids[Index(d)] ELSE known[d]]
  /\ tracked' = tracked \cup (Elements(ids) \ {NoId})
  /\ Over(multiErr)
  /\ UNCHANGED <<chain, stored, leaked>>
-----------------------------------------------------------------------------
ContractEnds(c) ==
  /\ c \in live
  /\ Ended({c})
  /\ UNCHANGED <<created, body, caller, pc, call, failedContracts, multiErr, outcome, leaked>>

Deploy ==
  \/ (\E d \in Dl : Prepare(d)) \/ PrepareFails \/ Prepared
  \/ \E k \in 0..Cardinality(Dl) : CreateContracts(k) \/ CreateContractsFails(k)
  \/ \E i \in DOMAIN worker :
       DeploymentDeploy(i) \/ DeploymentDeployFails(i) \/ Wait(i) \/ WaitFails(i)
  \/ WorkDone \/ BatchCancel \/ BatchCancelFails \/ updateState

Next ==
  \/ \E S \in SUBSET Dl : \E T \in SUBSET S : Call(S, T)
  \/ \E d \in Dl : Cancel(d) \/ CancelFails(d)
  \/ Deploy
  \/ \E c \in ContractId : ContractEnds(c)

Spec == Init /\ [][Next]_vars
(* The calls to the chain and to the nodes end. *)
FairSpec == Spec /\ WF_vars(Deploy)
-----------------------------------------------------------------------------
(* A contract the call still answers for: it is in neither the caller's    *)
(* record nor an error yet.                                                *)
InHand == IF pc = "idle" THEN {} ELSE Elements(contracts)
Held == {c \in live \ leaked : c \in InHand \/ \E d \in Dl : known[d] = c}

(* BatchDeploy's comment: "successful deployments should have ContractID   *)
(* fields set".  What a deployment's ContractID names, unless it has ended *)
(* since, is the contract made for that deployment, under which the node   *)
(* took it: however the goroutines interleave, and wherever the batch of   *)
(* contracts broke off.                                                    *)
IdIsOwn ==
  \A d \in Dl : known[d] \in live => body[known[d]] = d /\ stored[known[d]] = d

(* A call without an error leaves no deployment of its batch without a     *)
(* contract: a caller that retries on errors only misses nothing.          *)
OkStep == pc # "idle" /\ pc' = "idle" /\ outcome' = "ok" => \A d \in batch : known'[d] # NoId
OkMeansAll == [][OkStep]_vars

(* The plugin's state lists the contracts of the caller's deployments,     *)
(* neither one that was cancelled nor one that never worked.               *)
TrackedIsKnown == tracked = {known[d] : d \in Dl} \ {NoId}

(* BatchDeploy keeps the promise of ContractLedger. *)
Ledger == INSTANCE ContractLedger
  WITH Contract <- ContractId, opened <- 1..created, held <- Held, reported <- leaked
KeepsLedger == Ledger!Spec

(* The goroutines end, and so does the call. *)
BatchReturns == pc # "idle" ~> pc = "idle"
=============================================================================
