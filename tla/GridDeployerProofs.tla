------------------------- MODULE GridDeployerProofs -------------------------
(* Theorems about GridDeployer, for any nodes, workloads and bounds. *)
EXTENDS GridDeployer, TLAPS

(* matchOldVersions and assignVersions make deployments of deployments. *)
LEMMA UpdatedType ==
  ASSUME NEW o \in Deployment, NEW d \in Deployment
  PROVE  Updated(o, d) \in Deployment
<1>1. matchOldVersions(o, d) \in Deployment
  BY DEF matchOldVersions, Deployment
<1>2. ASSUME NEW m \in Deployment PROVE assignVersions(o, m) \in Deployment
  <2> DEFINE v == o.version + 1
             f == [w \in Workload |-> IF w \in Changed(o, m) THEN v ELSE m.wver[w]]
  <2>1. v \in Nat BY DEF Deployment
  <2>2. \A w \in Workload : m.wver[w] \in Nat BY DEF Deployment
  <2> HIDE DEF v
  <2>3. f \in [Workload -> Nat] BY <2>1, <2>2
  <2>4. assignVersions(o, m) = [m EXCEPT !.version = v, !.wver = f] BY DEF assignVersions, v
  <2> HIDE DEF f
  <2> QED BY <2>1, <2>3, <2>4 DEF Deployment
<1> QED BY <1>1, <1>2 DEF Updated

LEMMA FreshType == ASSUME NEW c \in Content PROVE Fresh(c) \in Deployment
  BY DEF Fresh, Deployment

LEMMA AppliedType ==
  ASSUME TypeOK, dl \in Deployment, NEW c \in ContractId
  PROVE  Applied(c) \in Content
  BY DEF Applied, Content, TypeOK, Deployment

LEMMA NonesType ==
  /\ NoContent \in Content
  /\ NoIds \in [Node -> ContractId \cup {NoId}]
  /\ NoDls \in [Node -> Deployment \cup {NoDl}]
  BY DEF NoContent, Content, NoIds, NoDls

LEMMA TypeInit == Init => TypeOK
<1> SUFFICES ASSUME Init PROVE TypeOK OBVIOUS
<1>1. created \in 0..MaxContracts BY BoundsAssumption DEF Init
<1>2. /\ owner \in [ContractId -> Node \cup {NoNode}]
      /\ hashed \in [ContractId -> Deployment \cup {NoDl}]
      /\ stored \in [ContractId -> Deployment \cup {NoDl}]
      /\ running \in [ContractId -> Content]
  BY NonesType DEF Init
<1> HIDE DEF ContractId
<1> QED BY <1>1, <1>2, NonesType DEF Init, TypeOK, Step, Outcome

(* What the two ways a pass ends leave well typed. *)
Control ==
  /\ known \in [Node -> ContractId \cup {NoId}]
  /\ pc \in Step
  /\ pass \in {"deploy", "revert"}
  /\ request \in [Node -> Deployment \cup {NoDl}]
  /\ snapshot \in [Node -> Deployment \cup {NoDl}]
  /\ fetched \in BOOLEAN
  /\ base \in [Node -> ContractId \cup {NoId}]
  /\ target \in [Node -> Deployment \cup {NoDl}]
  /\ current \in [Node -> ContractId \cup {NoId}]
  /\ todo \subseteq Node
  /\ at \in Node \cup {NoNode}
  /\ dl \in Deployment \cup {NoDl}
  /\ cid \in ContractId \cup {NoId}
  /\ outcome \in Outcome

World ==
  /\ created \in 0..MaxContracts
  /\ owner \in [ContractId -> Node \cup {NoNode}]
  /\ hashed \in [ContractId -> Deployment \cup {NoDl}]
  /\ live \subseteq 1..created
  /\ stored \in [ContractId -> Deployment \cup {NoDl}]
  /\ running \in [ContractId -> Content]
  /\ waited \subseteq ContractId
  /\ leaked \subseteq 1..created

LEMMA TypeSplit == TypeOK <=> Control /\ World
  BY DEF TypeOK, Control, World

LEMMA FinishType ==
  ASSUME Control, NEW ids \in [Node -> ContractId \cup {NoId}], NEW r \in Outcome,
         Finish(ids, r)
  PROVE  Control'
  BY NonesType DEF Control, Finish, Step

LEMMA StartPassType ==
  ASSUME Control, NEW ids \in [Node -> ContractId \cup {NoId}],
         NEW p \in {"deploy", "revert"}, NEW dls \in [Node -> Deployment \cup {NoDl}],
         StartPass(p, ids, dls), UNCHANGED <<snapshot, fetched>>
  PROVE  Control'
  BY DEF Control, StartPass, Step

LEMMA FailType ==
  ASSUME Control, NEW ids \in [Node -> ContractId \cup {NoId}], Fail(ids)
  PROVE  Control'
<1>1. CASE Reverts /\ StartPass("revert", ids, snapshot) /\ UNCHANGED <<snapshot, fetched>>
  BY <1>1, StartPassType DEF Control
<1>2. CASE ~Reverts /\ Finish(ids, IF pass = "deploy" THEN "error" ELSE "revertFailed")
  <2>1. (IF pass = "deploy" THEN "error" ELSE "revertFailed") \in Outcome BY DEF Outcome
  <2> QED BY <1>2, <2>1, FinishType
<1> QED BY <1>1, <1>2 DEF Fail

LEMMA CancelledType ==
  ASSUME World, NEW c \in ContractId, Cancelled(c), UNCHANGED <<created, owner, hashed>>
  PROVE  /\ live' \subseteq 1..created' /\ waited' \subseteq ContractId
         /\ stored' \in [ContractId -> Deployment \cup {NoDl}]
         /\ running' \in [ContractId -> Content]
  BY NonesType DEF World, Cancelled

LEMMA EnsureType ==
  ASSUME World, NEW c, EnsureContractCanceled(c) \/ UNCHANGED <<live, nodes, waited>>,
         UNCHANGED <<created, owner, hashed>>, leaked' \subseteq 1..created
  PROVE  World'
<1>1. CASE c \in live /\ Cancelled(c)
  <2>1. c \in ContractId BY <1>1, BoundsAssumption DEF World, ContractId
  <2> QED BY <1>1, <2>1, CancelledType DEF World
<1>2. CASE UNCHANGED <<live, nodes, waited>>
  BY <1>2 DEF World, nodes
<1> QED BY <1>1, <1>2 DEF EnsureContractCanceled

LEMMA NewContractType ==
  ASSUME World, Control, NEW n \in Node, target[n] # NoDl, NewContract(n),
         UNCHANGED <<nodes, waited>>, leaked' \subseteq 1..created'
  PROVE  World' /\ created' \in ContractId /\ created' = created + 1
         /\ created' \notin live
<1>1. created' = created + 1 /\ created' \in 1..MaxContracts
  BY BoundsAssumption DEF NewContract, World
<1>2. live' \subseteq 1..created' /\ created' \notin live
  BY <1>1, BoundsAssumption DEF NewContract, World
<1>3. target[n] \in Deployment BY DEF Control
<1>4. owner' \in [ContractId -> Node \cup {NoNode}] /\ hashed' \in [ContractId -> Deployment \cup {NoDl}]
  BY <1>3 DEF NewContract, World
<1> QED BY <1>1, <1>2, <1>4, BoundsAssumption DEF World, nodes, ContractId

LEMMA ProvisionedType ==
  ASSUME TypeOK, dl \in Deployment, cid \in ContractId,
         (Accepts(cid) /\ Provisioned(cid)) \/ UNCHANGED <<nodes, waited>>,
         UNCHANGED <<chain, leaked>>
  PROVE  World'
<1>1. World BY TypeSplit
<1>2. Applied(cid) \in Content BY AppliedType
<1>3. CASE Provisioned(cid)
  <2> HIDE DEF ContractId
  <2> QED BY <1>1, <1>2, <1>3 DEF World, Provisioned, chain
<1>4. CASE UNCHANGED <<nodes, waited>> BY <1>1, <1>4 DEF World, nodes, chain
<1> QED BY <1>3, <1>4

(***************************************************************************)
(* The inductive invariant.                                                *)
(***************************************************************************)
IInv == TypeOK /\ Bookkeeping /\ NoOrphanedContract

Calling == pc \notin {"idle", "fetch", "validate"}

LEMMA InitIInv == Init => IInv
<1> SUFFICES ASSUME Init PROVE Bookkeeping /\ NoOrphanedContract
  BY TypeInit DEF IInv
<1> QED BY DEF Init, Bookkeeping, InHand, NoOrphanedContract

(* A pass that fails leaves its currentDeployments with whoever comes      *)
(* next: the caller or the revert.                                         *)
LEMMA FailHolder ==
  ASSUME Control, NEW ids, Fail(ids) PROVE Holder' = ids /\ pc' \in {"idle", "deletions"}
  BY DEF Fail, StartPass, Finish, Holder

LEMMA KeptCurrent ==
  ASSUME Bookkeeping, Calling, NEW n \in Node, Kept(n)
  PROVE  current[n] = known[n]
  BY DEF Bookkeeping, PassBookkeeping, Calling, Kept

LEMMA FailBookkeeping ==
  ASSUME TypeOK, Bookkeeping, Calling, Fail(current)
  PROVE  Bookkeeping'
<1>1. CASE Reverts /\ StartPass("revert", current, snapshot) /\ UNCHANGED <<snapshot, fetched>>
  <2>1. /\ UNCHANGED <<known, request, snapshot, fetched>> /\ pc' = "deletions"
        /\ base' = current /\ current' = current /\ target' = snapshot
        /\ todo' = {n \in Node : current[n] # NoId /\ snapshot[n] = NoDl}
    BY <1>1 DEF StartPass
  <2>2. \A n \in Node : known[n] # NoId => snapshot[n] # NoDl
    BY <1>1 DEF Bookkeeping, Reverts
  <2>3. ASSUME NEW n \in Node PROVE PassBookkeeping(n)'
    <3>1. Kept(n)' => base'[n] = known'[n] /\ target'[n] # NoDl
      BY <2>1, <2>2, KeptCurrent DEF Kept
    <3> QED BY <2>1, <3>1 DEF PassBookkeeping
  <2> QED BY <2>1, <2>2, <2>3 DEF Bookkeeping, InHand
<1>2. CASE ~Reverts /\ Finish(current, IF pass = "deploy" THEN "error" ELSE "revertFailed")
  BY <1>2 DEF Finish, Bookkeeping, InHand
<1> QED BY <1>1, <1>2 DEF Fail

(* A failing step keeps the invariant if every live contract that is not   *)
(* leaked is one the pass had in currentDeployments.                       *)
LEMMA FailStep ==
  ASSUME IInv, Calling, Fail(current), World',
         \A c \in live' \ leaked' : owner'[c] = owner[c] /\ current[owner[c]] = c
  PROVE  IInv'
<1>1. TypeOK'
  <2>1. Control' BY FailType, TypeSplit DEF IInv, Control
  <2> QED BY <2>1, TypeSplit DEF TypeOK, Control, World
<1>2. Bookkeeping' BY FailBookkeeping DEF IInv
<1>3. NoOrphanedContract'
  BY FailHolder, TypeSplit DEF IInv, NoOrphanedContract, Held
<1> QED BY <1>1, <1>2, <1>3 DEF IInv

(* Out of the steps that hold a contract in hand, every contract is in     *)
(* currentDeployments.                                                     *)
LEMMA CurrentHolds ==
  ASSUME IInv, Calling, NEW c \in live \ leaked, pc \notin {"deploy", "undo"} \/ c # cid
  PROVE  current[owner[c]] = c
  BY DEF IInv, NoOrphanedContract, Held, Holder, Calling

-----------------------------------------------------------------------------
(* One lemma per operation. *)

LEMMA CallStep ==
  ASSUME IInv, NEW new \in [Node -> Contents \cup {NoDl}], Call(new) PROVE IInv'
<1>1. TypeOK'
  <2>1. request' \in [Node -> Deployment \cup {NoDl}]
    BY FreshType, ContentsAssumption DEF Call
  <2> QED BY <2>1, NonesType DEF IInv, TypeOK, Call, chain, nodes, history, Step, Outcome
<1>2. Bookkeeping'
  BY DEF IInv, Call, Bookkeeping, InHand
<1>3. NoOrphanedContract'
  BY DEF IInv, Call, NoOrphanedContract, Held, Holder, chain, history
<1> QED BY <1>1, <1>2, <1>3 DEF IInv

LEMMA FetchStep == ASSUME IInv, Fetch PROVE IInv'
<1>1. snapshot' \in [Node -> Deployment \cup {NoDl}]
      /\ \A n \in Node : known[n] # NoId => snapshot'[n] # NoDl
  BY DEF IInv, TypeOK, Fetch
<1>2. TypeOK'
  BY <1>1 DEF IInv, TypeOK, Fetch, chain, nodes, history, Step, Outcome
<1>3. Bookkeeping'
  BY <1>1 DEF IInv, Fetch, Bookkeeping, InHand
<1>4. NoOrphanedContract'
  BY DEF IInv, Fetch, NoOrphanedContract, Held, Holder, chain, history
<1> QED BY <1>2, <1>3, <1>4 DEF IInv

LEMMA StartStep ==
  ASSUME IInv, pc \in {"fetch", "validate"}, StartPass("deploy", known, request),
         UNCHANGED <<chain, nodes, snapshot, fetched, history>>
  PROVE  IInv'
<1>1. TypeOK'
  <2>1. Control' BY StartPassType, TypeSplit DEF IInv, Control
  <2>2. World' BY TypeSplit DEF IInv, World, chain, nodes, history
  <2> QED BY <2>1, <2>2 DEF TypeOK, Control, World
<1>2. Bookkeeping'
  <2>1. ASSUME NEW n \in Node PROVE PassBookkeeping(n)'
    BY DEF StartPass, PassBookkeeping, Kept
  <2> QED BY <2>1 DEF IInv, StartPass, Bookkeeping, InHand
<1>3. NoOrphanedContract'
  BY DEF IInv, StartPass, NoOrphanedContract, Held, Holder, chain, history
<1> QED BY <1>1, <1>2, <1>3 DEF IInv

LEMMA RejectStep == ASSUME IInv, ValidateFails PROVE IInv'
<1>1. TypeOK'
  <2>1. "rejected" \in Outcome BY DEF Outcome
  <2>2. Control' BY <2>1, FinishType, TypeSplit DEF IInv, Control, ValidateFails
  <2>3. World' BY TypeSplit DEF IInv, World, ValidateFails, chain, nodes, history
  <2> QED BY <2>2, <2>3 DEF TypeOK, Control, World
<1>2. Bookkeeping' BY DEF ValidateFails, Finish, Bookkeeping, InHand
<1>3. NoOrphanedContract'
  BY DEF IInv, ValidateFails, Finish, NoOrphanedContract, Held, Holder, chain, history
<1> QED BY <1>1, <1>2, <1>3 DEF IInv

LEMMA DeleteStep == ASSUME IInv, NEW n \in Node, DeleteDeployment(n) PROVE IInv'
<1>1. TypeOK'
  <2>1. World'
    BY EnsureType, TypeSplit DEF IInv, DeleteDeployment, World
  <2>2. Control'
    BY TypeSplit DEF IInv, Control, DeleteDeployment, args
  <2> QED BY <2>1, <2>2 DEF TypeOK, Control, World
<1>2. current[n] = base[n] /\ target[n] = NoDl
  BY DEF IInv, Bookkeeping, PassBookkeeping, DeleteDeployment
<1>3. Bookkeeping'
  <2>1. ASSUME NEW m \in Node PROVE PassBookkeeping(m)'
    <3>1. PassBookkeeping(m) BY DEF IInv, Bookkeeping, DeleteDeployment
    <3> QED BY <1>2, <3>1 DEF IInv, TypeOK, PassBookkeeping, Kept, DeleteDeployment, args
  <2> QED BY <2>1 DEF IInv, DeleteDeployment, Bookkeeping, InHand, args
<1>4. NoOrphanedContract'
  <2> SUFFICES ASSUME NEW c \in live' \ leaked' PROVE Held(c)'
    BY DEF NoOrphanedContract
  <2>1. c \in live /\ c \notin leaked /\ c # base[n] /\ owner' = owner /\ pc' = pc /\ pc = "deletions"
    BY DEF DeleteDeployment, EnsureContractCanceled, Cancelled
  <2>2. current[owner[c]] = c BY <2>1, CurrentHolds DEF Calling
  <2>3. owner[c] # n BY <1>2, <2>1, <2>2
  <2>4. current'[owner[c]] = c BY <2>2, <2>3 DEF IInv, TypeOK, DeleteDeployment
  <2> QED BY <2>1, <2>4 DEF Held, Holder
<1> QED BY <1>1, <1>3, <1>4 DEF IInv

LEMMA DeleteFailsStep == ASSUME IInv, NEW n \in Node, DeleteFails(n) PROVE IInv'
<1>1. World' BY EnsureType, TypeSplit DEF IInv, DeleteFails, World
<1>2. \A c \in live' \ leaked' : c \in live \ leaked /\ owner'[c] = owner[c]
  BY DEF DeleteFails, EnsureContractCanceled, Cancelled
<1>3. Calling /\ pc = "deletions" BY DEF DeleteFails, Calling
<1> QED BY <1>1, <1>2, <1>3, CurrentHolds, FailStep DEF DeleteFails

LEMMA LoopStep == ASSUME IInv, DeletionsDone \/ CreationsDone PROVE IInv'
<1>1. TypeOK'
  BY DEF IInv, TypeOK, DeletionsDone, CreationsDone, chain, nodes, args, history, Step
<1>2. Bookkeeping'
  <2>1. ASSUME NEW n \in Node PROVE PassBookkeeping(n)'
    <3>1. PassBookkeeping(n) BY DEF IInv, Bookkeeping, DeletionsDone, CreationsDone
    <3> QED BY <3>1 DEF PassBookkeeping, Kept, DeletionsDone, CreationsDone, args
  <2> QED BY <2>1 DEF IInv, DeletionsDone, CreationsDone, Bookkeeping, InHand, args
<1>3. NoOrphanedContract'
  BY DEF IInv, DeletionsDone, CreationsDone, NoOrphanedContract, Held, Holder, chain, history
<1> QED BY <1>1, <1>2, <1>3 DEF IInv

LEMMA CreateStep == ASSUME IInv, NEW n \in Node, CreateContract(n) PROVE IInv'
<1>1. n \in todo /\ base[n] = NoId /\ current[n] = NoId /\ target[n] # NoDl
      /\ pc = "creations"
  BY DEF IInv, Bookkeeping, PassBookkeeping, CreateContract
<1>2. World' /\ created' \in ContractId /\ created' = created + 1 /\ created' \notin live
  <2>1. leaked \subseteq 1..(created + 1)
    BY BoundsAssumption DEF IInv, TypeOK
  <2> QED BY <1>1, <2>1, NewContractType, TypeSplit DEF IInv, CreateContract, history, NewContract
<1>3. TypeOK'
  <2>1. Control'
    BY <1>2, TypeSplit DEF IInv, Control, CreateContract, args, Step
  <2> QED BY <2>1, <1>2 DEF TypeOK, Control, World
<1>4. Bookkeeping'
  <2>1. ASSUME NEW m \in Node PROVE PassBookkeeping(m)'
    <3>1. PassBookkeeping(m) BY <1>1 DEF IInv, Bookkeeping
    <3> QED BY <1>1, <3>1 DEF PassBookkeeping, Kept, CreateContract, args
  <2>2. dl' \in Deployment /\ at' \in Node \ todo' /\ cid' \in ContractId /\ cid' \in 1..created'
    BY <1>1, <1>2 DEF IInv, TypeOK, CreateContract, ContractId
  <2>3. current'[at'] = NoId /\ base'[at'] = NoId /\ owner'[cid'] = at'
    BY <1>1, <1>2 DEF IInv, TypeOK, CreateContract, NewContract, args
  <2> QED BY <1>1, <2>1, <2>2, <2>3 DEF IInv, CreateContract, Bookkeeping, InHand, args
<1>5. NoOrphanedContract'
  <2> SUFFICES ASSUME NEW c \in live' \ leaked', c # cid' PROVE Held(c)'
    BY DEF NoOrphanedContract, Held, CreateContract
  <2>1. c \in live \ leaked /\ owner'[c] = owner[c]
    BY <1>2 DEF IInv, TypeOK, CreateContract, NewContract, history
  <2>2. current[owner[c]] = c BY <1>1, <2>1, CurrentHolds DEF Calling
  <2> QED BY <2>1, <2>2 DEF Held, Holder, CreateContract
<1> QED BY <1>3, <1>4, <1>5 DEF IInv

LEMMA CreateFailsStep == ASSUME IInv, NEW n \in Node, CreateFails(n) PROVE IInv'
<1>1. target[n] # NoDl /\ pc = "creations" /\ Calling
  BY DEF IInv, Bookkeeping, PassBookkeeping, CreateFails, Calling
<1>2. CASE UNCHANGED <<chain, leaked>>
  <2>1. World' BY <1>2, TypeSplit DEF IInv, World, CreateFails, chain, nodes
  <2> QED BY <1>1, <1>2, <2>1, CurrentHolds, FailStep DEF CreateFails, chain
<1>3. CASE NewContract(n) /\ leaked' = leaked \cup {created'}
  <2>1. leaked' \subseteq 1..created' /\ created' = created + 1
    BY <1>3, BoundsAssumption DEF IInv, TypeOK, NewContract
  <2>2. World' BY <1>1, <1>3, <2>1, NewContractType, TypeSplit DEF IInv, CreateFails
  <2>3. \A c \in live' \ leaked' : c \in live \ leaked /\ owner'[c] = owner[c]
    BY <1>3, <2>1 DEF IInv, TypeOK, NewContract
  <2> QED BY <1>1, <2>2, <2>3, CurrentHolds, FailStep DEF CreateFails
<1> QED BY <1>2, <1>3 DEF CreateFails

LEMMA DeploySendStep == ASSUME IInv, DeploymentDeploy PROVE IInv'
<1>1. /\ dl \in Deployment /\ at \in Node \ todo /\ cid \in 1..created /\ cid \in ContractId
      /\ current[at] = NoId /\ base[at] = NoId /\ owner[cid] = at /\ pc = "deploy"
  BY BoundsAssumption DEF IInv, TypeOK, Bookkeeping, InHand, DeploymentDeploy, ContractId
<1>2. TypeOK'
  <2>1. World' BY <1>1, ProvisionedType DEF IInv, DeploymentDeploy
  <2>2. Control' BY <1>1, TypeSplit DEF IInv, Control, DeploymentDeploy, args, Step
  <2> QED BY <2>1, <2>2 DEF TypeOK, Control, World
<1>3. Bookkeeping'
  <2>1. ASSUME NEW n \in Node PROVE PassBookkeeping(n)'
    <3>1. PassBookkeeping(n) BY <1>1 DEF IInv, Bookkeeping
    <3> QED BY <1>1, <3>1 DEF IInv, TypeOK, PassBookkeeping, Kept, DeploymentDeploy, args
  <2> QED BY <1>1, <2>1 DEF IInv, DeploymentDeploy, Bookkeeping, InHand, args, chain
<1>4. NoOrphanedContract'
  <2> SUFFICES ASSUME NEW c \in live \ leaked PROVE current'[owner[c]] = c
    BY DEF NoOrphanedContract, Held, Holder, DeploymentDeploy, chain
  <2>1. CASE c = cid BY <1>1, <2>1 DEF IInv, TypeOK, DeploymentDeploy
  <2>2. CASE c # cid
    <3>1. current[owner[c]] = c BY <1>1, <2>2, CurrentHolds DEF Calling
    <3>2. c # NoId BY DEF IInv, TypeOK, NoId
    <3> QED BY <1>1, <3>1, <3>2 DEF IInv, TypeOK, DeploymentDeploy
  <2> QED BY <2>1, <2>2
<1> QED BY <1>2, <1>3, <1>4 DEF IInv

LEMMA DeploySendFailsStep == ASSUME IInv, DeploymentDeployFails PROVE IInv'
<1>1. dl \in Deployment /\ cid \in ContractId /\ pc = "deploy"
  BY BoundsAssumption DEF IInv, TypeOK, Bookkeeping, InHand, DeploymentDeployFails, ContractId
<1>2. TypeOK'
  <2>1. World' BY <1>1, ProvisionedType DEF IInv, DeploymentDeployFails
  <2>2. Control' BY TypeSplit DEF IInv, Control, DeploymentDeployFails, args, Step
  <2> QED BY <2>1, <2>2 DEF TypeOK, Control, World
<1>3. Bookkeeping'
  <2>1. ASSUME NEW n \in Node PROVE PassBookkeeping(n)'
    <3>1. PassBookkeeping(n) BY <1>1 DEF IInv, Bookkeeping
    <3> QED BY <1>1, <3>1 DEF PassBookkeeping, Kept, DeploymentDeployFails, args
  <2> QED BY <1>1, <2>1
     DEF IInv, DeploymentDeployFails, Bookkeeping, InHand, args, chain
<1>4. NoOrphanedContract'
  BY <1>1 DEF IInv, NoOrphanedContract, Held, Holder, DeploymentDeployFails, chain
<1> QED BY <1>2, <1>3, <1>4 DEF IInv

LEMMA UndoStep == ASSUME IInv, UndoContract \/ UndoFails PROVE IInv'
<1>1. pc = "undo" /\ Calling /\ cid \in 1..created
  BY DEF IInv, Bookkeeping, InHand, UndoContract, UndoFails, Calling
<1>2. World'
  <2>1. leaked' \subseteq 1..created BY <1>1 DEF IInv, TypeOK, UndoContract, UndoFails
  <2> QED BY <2>1, EnsureType, TypeSplit
          DEF IInv, UndoContract, UndoFails, EnsureContractCanceled
<1>3. \A c \in live' \ leaked' : c \in live \ leaked /\ owner'[c] = owner[c] /\ c # cid
  BY DEF UndoContract, UndoFails, EnsureContractCanceled, Cancelled
<1> QED BY <1>1, <1>2, <1>3, CurrentHolds, FailStep DEF UndoContract, UndoFails

LEMMA SkipStep == ASSUME IInv, NEW n \in Node, SkipUpdate(n) PROVE IInv'
<1>1. TypeOK' BY DEF IInv, TypeOK, SkipUpdate, chain, nodes, args, history
<1>2. Bookkeeping'
  <2>1. ASSUME NEW m \in Node PROVE PassBookkeeping(m)'
    <3>1. PassBookkeeping(m) BY DEF IInv, Bookkeeping, SkipUpdate
    <3> QED BY <3>1 DEF PassBookkeeping, Kept, SkipUpdate, args
  <2> QED BY <2>1 DEF IInv, SkipUpdate, Bookkeeping, InHand, args
<1>3. NoOrphanedContract'
  BY DEF IInv, SkipUpdate, NoOrphanedContract, Held, Holder, chain, history
<1> QED BY <1>1, <1>2, <1>3 DEF IInv

LEMMA PrepareStep == ASSUME IInv, NEW n \in Node, PrepareUpdate(n) PROVE IInv'
<1>1. n \in todo /\ base[n] # NoId /\ target[n] # NoDl /\ pc = "updates" /\ OldDl(n) # NoDl
  BY DEF IInv, Bookkeeping, PassBookkeeping, PrepareUpdate
<1>2. base[n] \in ContractId /\ target[n] \in Deployment /\ OldDl(n) \in Deployment
  BY <1>1 DEF IInv, TypeOK, OldDl
<1>3. dl' \in Deployment BY <1>2, UpdatedType DEF PrepareUpdate
<1>4. TypeOK'
  BY <1>2, <1>3 DEF IInv, TypeOK, PrepareUpdate, chain, nodes, args, history, Step
<1>5. Bookkeeping'
  <2>1. ASSUME NEW m \in Node PROVE PassBookkeeping(m)'
    <3>1. PassBookkeeping(m) BY <1>1 DEF IInv, Bookkeeping
    <3> QED BY <1>1, <3>1 DEF PassBookkeeping, Kept, PrepareUpdate, args
  <2> QED BY <1>1, <1>2, <1>3, <2>1
     DEF IInv, TypeOK, PrepareUpdate, Bookkeeping, InHand, args, chain
<1>6. NoOrphanedContract'
  BY <1>1 DEF IInv, PrepareUpdate, NoOrphanedContract, Held, Holder, chain, history
<1> QED BY <1>4, <1>5, <1>6 DEF IInv

LEMMA PrepareFailsStep == ASSUME IInv, NEW n \in Node, PrepareUpdateFails(n) PROVE IInv'
<1>1. World' BY TypeSplit DEF IInv, World, PrepareUpdateFails, chain, nodes, history
<1>2. Calling /\ pc = "updates" BY DEF PrepareUpdateFails, Calling
<1> QED BY <1>1, <1>2, CurrentHolds, FailStep DEF PrepareUpdateFails, chain, history

LEMMA NewHashType ==
  ASSUME IInv, pc = "updateContract", NewHash \/ UNCHANGED hashed,
         UNCHANGED <<created, owner, live, nodes, history>>
  PROVE  World'
<1>1. cid \in ContractId /\ dl \in Deployment BY DEF IInv, Bookkeeping, InHand
<1>2. hashed' \in [ContractId -> Deployment \cup {NoDl}]
  BY <1>1 DEF IInv, TypeOK, NewHash
<1> QED BY <1>2, TypeSplit DEF IInv, World, nodes, history

LEMMA UpdateContractStep == ASSUME IInv, UpdateNodeContract PROVE IInv'
<1>1. TypeOK'
  <2>1. World' BY NewHashType DEF UpdateNodeContract
  <2>2. Control' BY TypeSplit DEF IInv, Control, UpdateNodeContract, args, Step
  <2> QED BY <2>1, <2>2 DEF TypeOK, Control, World
<1>2. Bookkeeping'
  <2>1. ASSUME NEW n \in Node PROVE PassBookkeeping(n)'
    <3>1. PassBookkeeping(n) BY DEF IInv, Bookkeeping, UpdateNodeContract
    <3> QED BY <3>1 DEF PassBookkeeping, Kept, UpdateNodeContract, args
  <2> QED BY <2>1 DEF IInv, UpdateNodeContract, Bookkeeping, InHand, args
<1>3. NoOrphanedContract'
  BY DEF IInv, UpdateNodeContract, NoOrphanedContract, Held, Holder, history
<1> QED BY <1>1, <1>2, <1>3 DEF IInv

LEMMA UpdateContractFailsStep == ASSUME IInv, UpdateNodeContractFails PROVE IInv'
<1>1. World' BY NewHashType DEF UpdateNodeContractFails
<1>2. Calling /\ pc = "updateContract" BY DEF UpdateNodeContractFails, Calling
<1> QED BY <1>1, <1>2, CurrentHolds, FailStep DEF UpdateNodeContractFails, history

LEMMA UpdateSendStep == ASSUME IInv, DeploymentUpdate PROVE IInv'
<1>1. /\ dl \in Deployment /\ at \in Node \ todo /\ cid \in ContractId
      /\ target[at] # NoDl /\ cid = base[at] /\ pc = "updateNode"
  BY DEF IInv, Bookkeeping, InHand, DeploymentUpdate
<1>2. current[at] = cid
  BY <1>1 DEF IInv, TypeOK, Bookkeeping, PassBookkeeping, NoId, ContractId
<1>3. current' = current BY <1>1, <1>2 DEF IInv, TypeOK, DeploymentUpdate
<1>4. TypeOK'
  <2>1. World' BY <1>1, ProvisionedType DEF IInv, DeploymentUpdate
  <2>2. Control' BY <1>1, TypeSplit DEF IInv, Control, DeploymentUpdate, args, Step
  <2> QED BY <2>1, <2>2 DEF TypeOK, Control, World
<1>5. Bookkeeping'
  <2>1. ASSUME NEW n \in Node PROVE PassBookkeeping(n)'
    <3>1. PassBookkeeping(n) BY <1>1 DEF IInv, Bookkeeping
    <3> QED BY <1>1, <1>3, <3>1 DEF PassBookkeeping, Kept, DeploymentUpdate, args
  <2> QED BY <1>1, <2>1 DEF IInv, DeploymentUpdate, Bookkeeping, InHand, args
<1>6. NoOrphanedContract'
  BY <1>1, <1>3 DEF IInv, DeploymentUpdate, NoOrphanedContract, Held, Holder, chain
<1> QED BY <1>4, <1>5, <1>6 DEF IInv

LEMMA UpdateSendFailsStep == ASSUME IInv, DeploymentUpdateFails PROVE IInv'
<1>1. dl \in Deployment /\ cid \in ContractId /\ pc = "updateNode" /\ Calling
  BY DEF IInv, Bookkeeping, InHand, DeploymentUpdateFails, Calling
<1>2. World' BY <1>1, ProvisionedType DEF IInv, DeploymentUpdateFails
<1> QED BY <1>1, <1>2, CurrentHolds, FailStep DEF DeploymentUpdateFails, chain

LEMMA DoneStep == ASSUME IInv, UpdatesDone PROVE IInv'
<1>1. TypeOK'
  <2>1. (IF pass = "deploy" THEN "ok" ELSE "reverted") \in Outcome BY DEF Outcome
  <2>2. Control'
    BY <2>1, FinishType, TypeSplit DEF IInv, Control, UpdatesDone, Succeed
  <2>3. World' BY TypeSplit DEF IInv, World, UpdatesDone, chain, nodes, history
  <2> QED BY <2>2, <2>3 DEF TypeOK, Control, World
<1>2. Bookkeeping' BY DEF UpdatesDone, Succeed, Finish, Bookkeeping, InHand
<1>3. NoOrphanedContract'
  BY DEF IInv, UpdatesDone, Succeed, Finish, NoOrphanedContract, Held, Holder, chain, history
<1> QED BY <1>1, <1>2, <1>3 DEF IInv

LEMMA WaitStep == ASSUME IInv, Wait PROVE IInv'
<1>1. cid \in ContractId /\ pc \in {"waitCreation", "waitUpdate"}
  BY DEF IInv, Bookkeeping, InHand, Wait
<1>2. TypeOK'
  BY <1>1 DEF IInv, TypeOK, Wait, chain, nodes, args, Step
<1>3. Bookkeeping'
  <2>1. ASSUME NEW n \in Node PROVE PassBookkeeping(n)'
    <3>1. PassBookkeeping(n) BY <1>1 DEF IInv, Bookkeeping
    <3> QED BY <1>1, <3>1 DEF PassBookkeeping, Kept, Wait, args
  <2> QED BY <1>1, <2>1 DEF IInv, Wait, Bookkeeping, InHand, args
<1>4. NoOrphanedContract'
  BY <1>1 DEF IInv, Wait, NoOrphanedContract, Held, Holder, chain
<1> QED BY <1>2, <1>3, <1>4 DEF IInv

LEMMA WaitFailsStep == ASSUME IInv, WaitFails PROVE IInv'
<1>1. World' BY TypeSplit DEF IInv, World, WaitFails, chain, nodes, history
<1>2. Calling /\ pc \notin {"deploy", "undo"} BY DEF WaitFails, Calling
<1> QED BY <1>1, <1>2, CurrentHolds, FailStep DEF WaitFails, chain, history

LEMMA EndsStep == ASSUME IInv, NEW c \in ContractId, ContractEnds(c) PROVE IInv'
<1>1. TypeOK'
  <2>1. World'
    BY CancelledType, TypeSplit DEF IInv, ContractEnds, World, Cancelled
  <2>2. Control' BY TypeSplit DEF IInv, Control, ContractEnds, args
  <2> QED BY <2>1, <2>2 DEF TypeOK, Control, World
<1>2. Bookkeeping'
  <2>1. ASSUME NEW n \in Node, PassBookkeeping(n) PROVE PassBookkeeping(n)'
    BY <2>1 DEF PassBookkeeping, Kept, ContractEnds, args
  <2> QED BY <2>1 DEF IInv, ContractEnds, Bookkeeping, InHand, args
<1>3. NoOrphanedContract'
  BY DEF IInv, ContractEnds, Cancelled, NoOrphanedContract, Held, Holder
<1> QED BY <1>1, <1>2, <1>3 DEF IInv

LEMMA StutterStep == ASSUME IInv, UNCHANGED vars PROVE IInv'
  BY DEF IInv, TypeOK, Bookkeeping, PassBookkeeping, Kept, InHand, NoOrphanedContract, Held,
     Holder, vars, chain, nodes, args, history

LEMMA NextStep == IInv /\ [Next]_vars => IInv'
<1> SUFFICES ASSUME IInv, [Next]_vars PROVE IInv' OBVIOUS
<1>1. CASE \E new \in [Node -> Contents \cup {NoDl}] : Call(new) BY <1>1, CallStep
<1>2. CASE Deploy
  <2>1. CASE FetchFails \/ Validate
    <3>1. pc \in {"fetch", "validate"} /\ StartPass("deploy", known, request)
          /\ UNCHANGED <<chain, nodes, snapshot, fetched, history>>
      BY <2>1 DEF FetchFails, Validate
    <3> QED BY <3>1, StartStep
  <2> QED
    BY <1>2, <2>1, FetchStep, RejectStep, DeleteStep, DeleteFailsStep, LoopStep, CreateStep,
       CreateFailsStep, DeploySendStep, DeploySendFailsStep, UndoStep, SkipStep, PrepareStep,
       PrepareFailsStep, UpdateContractStep, UpdateContractFailsStep, UpdateSendStep,
       UpdateSendFailsStep, DoneStep, WaitStep, WaitFailsStep
    DEF Deploy
<1>3. CASE \E c \in ContractId : ContractEnds(c) BY <1>3, EndsStep
<1>4. CASE UNCHANGED vars BY <1>4, StutterStep
<1> QED BY <1>1, <1>2, <1>3, <1>4 DEF Next

-----------------------------------------------------------------------------
(* The theorems. *)

(* deploy's maps, loops and hand stay consistent in every reachable state, *)
(* for any nodes, contents and bounds.                                     *)
THEOREM Invariance == Spec => []IInv
<1>1. Init => IInv BY InitIInv
<1>2. IInv /\ [Next]_vars => IInv' BY NextStep
<1> QED BY <1>1, <1>2, PTL DEF Spec

(* Every variable of the deployer keeps to its type.                       *)
THEOREM TypeCorrect == Spec => []TypeOK
<1>1. IInv => TypeOK BY DEF IInv
<1> QED BY <1>1, Invariance, PTL

(* A pass updates in place what it is to keep, creates only where there is *)
(* no contract, and can always revert to what it read.                     *)
THEOREM BookkeepingCorrect == Spec => []Bookkeeping
<1>1. IInv => Bookkeeping BY DEF IInv
<1> QED BY <1>1, Invariance, PTL

(* However its calls fail, Deploy never loses a contract it created.       *)
THEOREM NothingOrphaned == Spec => []NoOrphanedContract
<1>1. IInv => NoOrphanedContract BY DEF IInv
<1> QED BY <1>1, Invariance, PTL

(* The caller's map changes only when a call ends, and then it becomes the *)
(* pass's currentDeployments.                                              *)
LEMMA FailKnown == ASSUME Fail(current) PROVE known' = known \/ known' = current
  BY DEF Fail, StartPass, Finish

LEMMA KnownStep ==
  ASSUME [Next]_vars PROVE known' = known \/ (Calling /\ known' = current)
<1>1. CASE \E new \in [Node -> Contents \cup {NoDl}] : Call(new) BY <1>1 DEF Call
<1>2. CASE Deploy
  <2>1. CASE Fetch \/ FetchFails \/ Validate \/ ValidateFails
    BY <2>1 DEF Fetch, FetchFails, Validate, ValidateFails, StartPass, Finish
  <2>2. ASSUME NEW n \in Node,
               DeleteDeployment(n) \/ CreateContract(n) \/ SkipUpdate(n) \/ PrepareUpdate(n)
        PROVE  known' = known
    BY <2>2 DEF DeleteDeployment, CreateContract, SkipUpdate, PrepareUpdate
  <2>3. ASSUME NEW n \in Node, DeleteFails(n) \/ CreateFails(n) \/ PrepareUpdateFails(n)
        PROVE  Calling /\ Fail(current)
    BY <2>3 DEF DeleteFails, CreateFails, PrepareUpdateFails, Calling
  <2>4. CASE UndoContract \/ UndoFails \/ UpdateNodeContractFails \/ DeploymentUpdateFails
             \/ WaitFails
    <3>1. Calling /\ Fail(current)
      BY <2>4 DEF UndoContract, UndoFails, UpdateNodeContractFails, DeploymentUpdateFails,
         WaitFails, Calling
    <3> QED BY <3>1, FailKnown
  <2>5. CASE UpdatesDone BY <2>5 DEF UpdatesDone, Succeed, Finish, Calling
  <2>6. CASE DeletionsDone \/ DeploymentDeploy \/ DeploymentDeployFails \/ CreationsDone
             \/ UpdateNodeContract \/ DeploymentUpdate \/ Wait
    BY <2>6 DEF DeletionsDone, DeploymentDeploy, DeploymentDeployFails, CreationsDone,
       UpdateNodeContract, DeploymentUpdate, Wait
  <2> QED BY <1>2, <2>1, <2>2, <2>3, <2>4, <2>5, <2>6, FailKnown DEF Deploy
<1>3. CASE \E c \in ContractId : ContractEnds(c) BY <1>3 DEF ContractEnds
<1>4. CASE UNCHANGED vars BY <1>4 DEF vars
<1> QED BY <1>1, <1>2, <1>3, <1>4 DEF Next

(* A node in both the caller's map and its new deployments keeps its       *)
(* contract through Deploy, failures and revert included.                  *)
THEOREM InPlace == Spec => UpdatedInPlace
<1> DEFINE A == \A n \in Node : known[n] # NoId /\ known'[n] # known[n] => request[n] = NoDl
<1>1. IInv /\ [Next]_vars => A
  <2> SUFFICES ASSUME IInv, [Next]_vars, NEW n \in Node,
                      known[n] # NoId, known'[n] # known[n], request[n] # NoDl
               PROVE  FALSE
    OBVIOUS
  <2>1. Calling /\ known' = current BY KnownStep
  <2>2. current[n] = known[n] BY <2>1, KeptCurrent DEF IInv, Kept
  <2> QED BY <2>1, <2>2
<1> QED BY <1>1, Invariance, PTL DEF Spec, UpdatedInPlace
-----------------------------------------------------------------------------
(* The refinement of ContractLedger.  By the invariant, what is held is    *)
(* what is live and not reported, so a step matters only for what it does  *)
(* to the chain's contracts and to leaked.                                 *)

Unseen == live \ leaked

LEMMA HeldIsUnseen == ASSUME NoOrphanedContract PROVE {c \in live \ leaked : Held(c)} = Unseen
  BY DEF NoOrphanedContract, Unseen

(* One contract more, perhaps in nobody's hand; one less; one reported.    *)
Opened == /\ created' = created + 1 /\ created' \in ContractId
          /\ live' = live \cup {created'}
          /\ leaked' = leaked \/ leaked' = leaked \cup {created'}
Closed == \E c \in ContractId : created' = created /\ live' = live \ {c} /\ leaked' = leaked
Reported == /\ cid \in 1..created /\ created' = created
            /\ live' = live \/ live' = live \ {cid}
            /\ leaked' = leaked \cup {cid}
Silent == UNCHANGED <<created, live, leaked>>

LEMMA EnsureCloses ==
  ASSUME NEW c \in ContractId, EnsureContractCanceled(c) \/ UNCHANGED <<live, nodes, waited>>
  PROVE  live' = live \/ live' = live \ {c}
  BY DEF EnsureContractCanceled, Cancelled

LEMMA StepKinds ==
  ASSUME IInv, [Next]_vars PROVE Opened \/ Closed \/ Reported \/ Silent
<1>1. CASE \E new \in [Node -> Contents \cup {NoDl}] : Call(new)
  BY <1>1 DEF Call, Silent, chain, history
<1>2. CASE Deploy
  <2>1. CASE Fetch \/ FetchFails \/ Validate \/ ValidateFails \/ DeletionsDone \/ CreationsDone
             \/ UpdatesDone \/ Wait \/ WaitFails
    BY <2>1 DEF Fetch, FetchFails, Validate, ValidateFails, DeletionsDone, CreationsDone,
       UpdatesDone, Wait, WaitFails, Silent, chain, history
  <2>2. ASSUME NEW n \in Node, DeleteDeployment(n) \/ DeleteFails(n)
        PROVE  Closed \/ Silent
    <3>1. n \in todo /\ pc = "deletions" BY <2>2 DEF DeleteDeployment, DeleteFails
    <3>2. base[n] \in ContractId
      BY <3>1 DEF IInv, Bookkeeping, PassBookkeeping, TypeOK
    <3>3. /\ EnsureContractCanceled(base[n]) \/ UNCHANGED <<live, nodes, waited>>
          /\ UNCHANGED <<created, leaked>>
      BY <2>2 DEF DeleteDeployment, DeleteFails
    <3> QED BY <3>2, <3>3, EnsureCloses DEF Closed, Silent
  <2>3. ASSUME NEW n \in Node, CreateContract(n) \/ CreateFails(n)
        PROVE  Opened \/ Silent
    <3>1. CASE NewContract(n)
      <4>1. created' = created + 1 /\ created' \in ContractId
        BY <3>1 DEF NewContract, IInv, TypeOK, ContractId
      <4>2. live' = live \cup {created'} BY <3>1 DEF NewContract
      <4>3. leaked' = leaked \/ leaked' = leaked \cup {created'}
        BY <2>3 DEF CreateContract, CreateFails, history, chain
      <4> QED BY <4>1, <4>2, <4>3 DEF Opened
    <3>2. CASE UNCHANGED <<chain, leaked>> BY <3>2 DEF Silent, chain
    <3> QED BY <2>3, <3>1, <3>2 DEF CreateContract, CreateFails
  <2>4. CASE DeploymentDeploy \/ DeploymentDeployFails \/ DeploymentUpdate
             \/ DeploymentUpdateFails \/ UpdateNodeContract \/ UpdateNodeContractFails
    BY <2>4 DEF DeploymentDeploy, DeploymentDeployFails, DeploymentUpdate,
       DeploymentUpdateFails, UpdateNodeContract, UpdateNodeContractFails, Silent, chain, history
  <2>5. CASE UndoContract
    <3>1. cid \in ContractId BY <2>5 DEF UndoContract, IInv, Bookkeeping, InHand
    <3> QED BY <2>5, <3>1 DEF UndoContract, Cancelled, Closed
  <2>6. CASE UndoFails
    <3>1. cid \in ContractId /\ cid \in 1..created
      BY <2>6 DEF UndoFails, IInv, Bookkeeping, InHand
    <3>2. live' = live \/ live' = live \ {cid} BY <2>6, <3>1, EnsureCloses DEF UndoFails
    <3> QED BY <2>6, <3>1, <3>2 DEF UndoFails, Reported
  <2>7. ASSUME NEW n \in Node, SkipUpdate(n) \/ PrepareUpdate(n) \/ PrepareUpdateFails(n)
        PROVE  Silent
    BY <2>7 DEF SkipUpdate, PrepareUpdate, PrepareUpdateFails, Silent, chain, history
  <2> QED BY <1>2, <2>1, <2>2, <2>3, <2>4, <2>5, <2>6, <2>7 DEF Deploy
<1>3. CASE \E c \in ContractId : ContractEnds(c)
  BY <1>3 DEF ContractEnds, Cancelled, Closed
<1>4. CASE UNCHANGED vars BY <1>4 DEF vars, chain, history, Silent
<1> QED BY <1>1, <1>2, <1>3, <1>4 DEF Next

LEMMA LedgerStep ==
  ASSUME IInv, IInv', [Next]_vars PROVE [Ledger!Next]_(Ledger!ledger)
<1> DEFINE held == {c \in live \ leaked : Held(c)}
<1>1. held = Unseen /\ held' = Unseen'
  <2>1. NoOrphanedContract /\ NoOrphanedContract' BY DEF IInv
  <2>2. held' = Unseen' BY <2>1 DEF NoOrphanedContract, Unseen
  <2> QED BY <2>1, <2>2, HeldIsUnseen
<1> HIDE DEF held
<1>2. created \in Nat /\ created <= MaxContracts /\ live \subseteq 1..created
      /\ leaked \subseteq 1..created
  BY BoundsAssumption DEF IInv, TypeOK
<1>3. CASE Opened
  <2> DEFINE S == {created'}
             R == IF leaked' = leaked THEN {} ELSE S
  <2>1. S \in SUBSET ContractId /\ R \in SUBSET ContractId /\ R \subseteq S
    BY <1>3 DEF Opened
  <2>2. S \cap (1..created) = {} /\ 1..created' = (1..created) \cup S
    BY <1>2, <1>3 DEF Opened
  <2>3. live' = live \cup S /\ leaked' = leaked \cup R BY <1>3 DEF Opened
  <2>4. created' \notin leaked BY <1>2, <1>3 DEF Opened
  <2>5. Unseen' = Unseen \cup (S \ R) BY <1>2, <1>3, <2>3, <2>4 DEF Opened, Unseen
  <2>6. Ledger!Open(S, R) BY <1>1, <2>1, <2>2, <2>3, <2>5 DEF Ledger!Open, held
  <2> QED BY <2>1, <2>6 DEF Ledger!Next
<1>4. CASE Closed
  <2>1. PICK c \in ContractId : created' = created /\ live' = live \ {c} /\ leaked' = leaked
    BY <1>4 DEF Closed
  <2>2. Unseen' = Unseen \ {c} BY <2>1 DEF Unseen
  <2>3. Ledger!Close({c}) BY <1>1, <2>1, <2>2 DEF Ledger!Close, held
  <2> QED BY <2>1, <2>3 DEF Ledger!Next
<1>5. CASE Reported
  <2> DEFINE T == IF live' = live THEN {} ELSE {cid}
  <2>1. cid \in ContractId BY <1>2, <1>5, BoundsAssumption DEF Reported, ContractId
  <2>2. Unseen' = Unseen \ {cid} /\ live' = live \ T BY <1>5 DEF Reported, Unseen
  <2>3. Ledger!Report({cid}, T) BY <1>1, <1>5, <2>2 DEF Ledger!Report, Reported, held
  <2>4. {cid} \in SUBSET ContractId /\ T \in SUBSET ContractId BY <2>1
  <2> QED BY <2>3, <2>4 DEF Ledger!Next
<1>6. CASE Silent
  <2>1. Unseen' = Unseen BY <1>6 DEF Silent, Unseen
  <2> QED BY <1>1, <1>6, <2>1 DEF Silent, Ledger!ledger, held
<1> QED BY <1>3, <1>4, <1>5, <1>6, StepKinds

(* However its calls fail and its reverts end, Deploy implements           *)
(* ContractLedger: a contract it opened is held, has ended or was reported.*)
THEOREM ImplementsLedger == Spec => KeepsLedger
<1>1. Init => Ledger!Init BY DEF Init, Ledger!Init
<1>2. IInv /\ IInv' /\ [Next]_vars => [Ledger!Next]_(Ledger!ledger) BY LedgerStep
<1> QED BY <1>1, <1>2, Invariance, PTL DEF Spec, KeepsLedger, Ledger!Spec
-----------------------------------------------------------------------------
(* Versions.  What deploy is about to send goes one version above what its *)
(* node has, and to a new contract's node it is the first: nobody else     *)
(* writes to the node in between, and a contract's end only erases.        *)
Stepwise ==
  /\ \A c \in ContractId : c \notin 1..created => stored[c] = NoDl
  /\ pc = "deploy" => stored[cid] = NoDl
  /\ pc \in {"updateContract", "updateNode"} /\ stored[cid] # NoDl =>
       dl.version = stored[cid].version + 1

LEMMA UpdatedVersion ==
  ASSUME NEW o \in Deployment, NEW d \in Deployment PROVE Updated(o, d).version = o.version + 1
<1>1. matchOldVersions(o, d) \in Deployment BY DEF matchOldVersions, Deployment
<1>2. ASSUME NEW m \in Deployment PROVE assignVersions(o, m).version = o.version + 1
  BY DEF assignVersions, Deployment
<1> QED BY <1>1, <1>2 DEF Updated

(* A step that moves no deployment but erases some, and leaves deploy or   *)
(* stays in place.                                                         *)
Erases == \A c \in ContractId : stored'[c] = stored[c] \/ stored'[c] = NoDl
Stays == UNCHANGED <<pc, dl, cid>>
Leaves == pc' \notin {"deploy", "updateContract", "updateNode"}

LEMMA ErasesStep ==
  ASSUME IInv, Stepwise, Erases, created' = created \/ created' = created + 1, Stays \/ Leaves
  PROVE  Stepwise'
<1>1. created \in Nat BY BoundsAssumption DEF IInv, TypeOK
<1>2. \A c \in ContractId : c \notin 1..created' => stored'[c] = NoDl
  BY <1>1 DEF Stepwise, Erases, ContractId
<1>3. CASE Leaves BY <1>2, <1>3 DEF Stepwise, Leaves
<1>4. CASE Stays
  <2>1. pc \in {"deploy", "updateContract", "updateNode"} => cid \in ContractId
    BY DEF IInv, Bookkeeping, InHand
  <2> QED BY <1>2, <1>4, <2>1 DEF Stepwise, Erases, Stays
<1> QED BY <1>3, <1>4

LEMMA FailLeaves == ASSUME NEW ids, Fail(ids) PROVE Leaves
  BY DEF Fail, StartPass, Finish, Leaves

LEMMA CancelledErases ==
  ASSUME IInv, NEW c, EnsureContractCanceled(c) \/ Cancelled(c) \/ UNCHANGED <<live, nodes, waited>>
  PROVE  Erases
  BY DEF IInv, TypeOK, EnsureContractCanceled, Cancelled, Erases, nodes

LEMMA ProvisionedVersion ==
  ASSUME IInv, Stepwise, pc \in {"deploy", "updateNode"},
         (Accepts(cid) /\ Provisioned(cid)) \/ UNCHANGED <<nodes, waited>>,
         UNCHANGED created, Leaves
  PROVE  Stepwise' /\ OneVersion
<1>1. CASE UNCHANGED nodes
  <2>1. Erases BY <1>1 DEF Erases, nodes
  <2> QED BY <1>1, <2>1, ErasesStep DEF OneVersion, nodes
<1>2. CASE Accepts(cid) /\ Provisioned(cid)
  <2>1. cid \in ContractId /\ dl \in Deployment BY DEF IInv, Bookkeeping, InHand
  <2>2. cid \in 1..created BY <1>2 DEF IInv, TypeOK, Accepts
  <2>3. stored' = [stored EXCEPT ![cid] = dl] BY <1>2 DEF Provisioned
  <2>4. Stepwise' BY <2>1, <2>2, <2>3 DEF IInv, TypeOK, Stepwise, Leaves
  <2>5. OneVersion BY <2>1, <2>3 DEF IInv, TypeOK, Stepwise, OneVersion
  <2> QED BY <2>4, <2>5
<1> QED BY <1>1, <1>2

LEMMA ErasesVersion == ASSUME Erases PROVE OneVersion
  BY DEF Erases, OneVersion

(* The steps of Deploy, by what they do to the deployments of the nodes.   *)
LEMMA VersionInductive ==
  ASSUME IInv, Stepwise, [Next]_vars PROVE Stepwise' /\ OneVersion
<1>1. CASE \E new \in [Node -> Contents \cup {NoDl}] : Call(new)
  BY <1>1, ErasesStep, ErasesVersion DEF Call, Erases, Leaves, nodes, chain
<1>2. CASE Deploy
  <2>1. CASE Fetch \/ FetchFails \/ Validate \/ ValidateFails
    BY <2>1, ErasesStep, ErasesVersion
       DEF Fetch, FetchFails, Validate, ValidateFails, StartPass, Finish, Erases, Leaves, nodes, chain
  <2>2. ASSUME NEW n \in Node, DeleteDeployment(n) \/ DeleteFails(n) PROVE Stepwise' /\ OneVersion
    <3>1. Erases BY <2>2, CancelledErases DEF DeleteDeployment, DeleteFails
    <3>2. created' = created /\ (Stays \/ Leaves)
      BY <2>2, FailLeaves DEF DeleteDeployment, DeleteFails, Stays
    <3> QED BY <3>1, <3>2, ErasesStep, ErasesVersion
  <2>3. CASE DeletionsDone \/ CreationsDone \/ UpdatesDone
    BY <2>3, ErasesStep, ErasesVersion
       DEF DeletionsDone, CreationsDone, UpdatesDone, Succeed, Finish, Erases, Leaves, nodes, chain
  <2>4. ASSUME NEW n \in Node, CreateContract(n) PROVE Stepwise' /\ OneVersion
    <3>1. created \in Nat BY BoundsAssumption DEF IInv, TypeOK
    <3>2. created' = created + 1 /\ cid' = created' /\ stored' = stored /\ pc' = "deploy" /\ created' \in ContractId
      BY <2>4, <3>1 DEF CreateContract, NewContract, nodes, ContractId
    <3>3. Stepwise' BY <3>1, <3>2 DEF Stepwise, ContractId
    <3> QED BY <3>2, <3>3 DEF OneVersion
  <2>5. ASSUME NEW n \in Node, CreateFails(n) PROVE Stepwise' /\ OneVersion
    <3>1. (created' = created \/ created' = created + 1) /\ Erases
      BY <2>5 DEF CreateFails, NewContract, chain, nodes, Erases
    <3> QED BY <2>5, <3>1, FailLeaves, ErasesStep, ErasesVersion DEF CreateFails
  <2>6. CASE DeploymentDeploy \/ DeploymentDeployFails
    BY <2>6, ProvisionedVersion DEF DeploymentDeploy, DeploymentDeployFails, chain, Leaves
  <2>7. CASE DeploymentUpdate \/ DeploymentUpdateFails
    BY <2>7, FailLeaves, ProvisionedVersion DEF DeploymentUpdate, DeploymentUpdateFails, chain, Leaves
  <2>8. CASE UndoContract \/ UndoFails
    <3>1. Erases BY <2>8, CancelledErases DEF UndoContract, UndoFails
    <3> QED BY <2>8, <3>1, FailLeaves, ErasesStep, ErasesVersion DEF UndoContract, UndoFails
  <2>9. ASSUME NEW n \in Node, PrepareUpdate(n) PROVE Stepwise' /\ OneVersion
    <3>1. target[n] \in Deployment /\ base[n] # NoId
      BY <2>9 DEF IInv, TypeOK, Bookkeeping, PassBookkeeping, PrepareUpdate
    <3>2. OldDl(n) \in Deployment BY <2>9, <3>1 DEF IInv, TypeOK, PrepareUpdate, OldDl
    <3>3. dl'.version = stored[cid'].version + 1
      BY <2>9, <3>1, <3>2, UpdatedVersion DEF PrepareUpdate, OldDl
    <3>4. pc' = "updateContract" /\ stored' = stored /\ created' = created
      BY <2>9 DEF PrepareUpdate, nodes, chain
    <3> QED BY <3>3, <3>4 DEF Stepwise, OneVersion
  <2>10. ASSUME NEW n \in Node, SkipUpdate(n) \/ PrepareUpdateFails(n) PROVE Stepwise' /\ OneVersion
    <3>1. created' = created /\ Erases /\ (Stays \/ Leaves)
      BY <2>10, FailLeaves DEF SkipUpdate, PrepareUpdateFails, chain, nodes, Erases, Stays
    <3> QED BY <3>1, ErasesStep, ErasesVersion
  <2>11. CASE UpdateNodeContract
    BY <2>11 DEF UpdateNodeContract, nodes, Stepwise, OneVersion
  <2>12. CASE UpdateNodeContractFails \/ WaitFails
    BY <2>12, FailLeaves, ErasesStep, ErasesVersion
       DEF UpdateNodeContractFails, WaitFails, nodes, chain, Erases
  <2>13. CASE Wait
    BY <2>13, ErasesStep, ErasesVersion DEF Wait, nodes, chain, Erases, Leaves
  <2> QED BY <1>2, <2>1, <2>2, <2>3, <2>4, <2>5, <2>6, <2>7, <2>8, <2>9, <2>10, <2>11, <2>12, <2>13
          DEF Deploy
<1>3. CASE \E c \in ContractId : ContractEnds(c)
  <2>1. Erases BY <1>3, CancelledErases DEF ContractEnds
  <2> QED BY <1>3, <2>1, ErasesStep, ErasesVersion DEF ContractEnds, Stays
<1>4. CASE UNCHANGED vars
  BY <1>4, ErasesStep, ErasesVersion DEF vars, nodes, chain, Erases, Stays
<1> QED BY <1>1, <1>2, <1>3, <1>4 DEF Next

(* However calls fail and whatever reverts follow, a node sees each        *)
(* deployment change by one version at a time.                             *)
THEOREM VersionsByOne == Spec => VersionStep
<1>1. Init => Stepwise BY DEF Init, Stepwise
<1>2. IInv /\ Stepwise /\ [Next]_vars => Stepwise' /\ OneVersion BY VersionInductive
<1> QED BY <1>1, <1>2, Invariance, PTL DEF Spec, VersionStep
-----------------------------------------------------------------------------
(* What is reached. The hash of a deployment has no names, so an update    *)
(* that deals the same data out to the same names in another way is taken  *)
(* for no update: the theorem is for callers who ask for no such thing.    *)
DataIn(c) == {c[w] : w \in {w \in Workload : c[w] # NoData}}
NamesIn(c) == {w \in Workload : c[w] # NoData}
NoneSwapped == \A c, e \in Contents : NamesIn(c) = NamesIn(e) /\ DataIn(c) = DataIn(e) => c = e

(* A node runs what it stores, which somebody asked for, under a contract  *)
(* that lives.                                                             *)
AsStored ==
  \A c \in ContractId : stored[c] # NoDl => c \in live /\ running[c] = stored[c].data /\ stored[c].data \in Contents
AsAsked ==
  \A n \in Node : /\ request[n] # NoDl => request[n].data \in Contents
                  /\ snapshot[n] # NoDl => snapshot[n].data \in Contents
                  /\ target[n] # NoDl => target[n].data \in Contents
OwnedBy(ids) == \A n \in Node : ids[n] # NoId => ids[n] \in 1..created /\ owner[ids[n]] = n
Owned == OwnedBy(known) /\ OwnedBy(current) /\ OwnedBy(base)

(* The part of a pass that is behind it.                                   *)
Creating == {"creations", "deploy", "undo", "waitCreation"}
Right(n) == current[n] \in live => stored[current[n]] # NoDl /\ stored[current[n]].data = target[n].data
Settled(n) ==
  /\ target[n] = NoDl => current[n] = NoId \/ (pc = "deletions" /\ n \in todo)
  /\ target[n] # NoDl /\ base[n] = NoId =>
       \/ pc = "deletions" \/ (pc \in Creating /\ n \in todo) \/ (pc \in {"deploy", "undo"} /\ n = at)
       \/ current[n] # NoId /\ Right(n)
  /\ target[n] # NoDl /\ base[n] # NoId =>
       \/ pc \in Creating \cup {"deletions"} \/ n \in todo
       \/ (pc \in {"updateContract", "updateNode"} /\ n = at) \/ Right(n)
Progress == Calling => \A n \in Node : Settled(n)

(* What is in hand: a workload that is not to be touched is as it was.     *)
Untouched(o) == \A w \in Present(dl) : dl.wver[w] # dl.version => dl.data[w] = o.data[w]
HandRight ==
  /\ pc \in {"deploy", "undo"} => dl = target[at]
  /\ pc \in {"updateContract", "updateNode"} =>
       dl.data = target[at].data /\ (stored[cid] # NoDl => Untouched(stored[cid]))

Ended == outcome \in {"ok", "reverted"} => pc = "idle"
ReachInv == AsStored /\ AsAsked /\ Owned /\ Progress /\ HandRight /\ Ended /\ TargetReached
LEMMA HashTells ==
  ASSUME NoneSwapped, NEW o \in Deployment, NEW d \in Deployment, o.data \in Contents, d.data \in Contents,
         Unchanged(o, d)
  PROVE  o.data = d.data
<1> DEFINE m == matchOldVersions(o, d)
           S(e) == {WorkloadHash(e, w) : w \in Present(e)}
<1>1. m.data = d.data BY DEF matchOldVersions, Deployment
<1>2. Hash(o)[2] = Hash(m)[2] /\ DOMAIN Hash(o)[2] = S(o) /\ DOMAIN Hash(m)[2] = S(m) BY DEF Unchanged, Hash
<1>3. S(o) = S(m) BY <1>2
<1>4. NamesIn(o.data) = Present(o) /\ NamesIn(d.data) = Present(d) /\ Present(m) = Present(d)
  BY <1>1 DEF NamesIn, Present
<1>5. ASSUME NEW e, NEW f, S(e) = S(f), NEW w \in Present(e)
      PROVE  \E v \in Present(f) : f.data[v] = e.data[w]
  <2>1. WorkloadHash(e, w) \in S(f) BY <1>5
  <2>2. PICK v \in Present(f) : WorkloadHash(e, w) = WorkloadHash(f, v) BY <2>1
  <2> QED BY <2>2 DEF WorkloadHash
<1>6. S(m) = S(o) BY <1>3
<1>7. \A w \in Present(o) : \E v \in Present(m) : m.data[v] = o.data[w] BY <1>3, <1>5
<1>8. \A w \in Present(m) : \E v \in Present(o) : o.data[v] = m.data[w]
  <2> HIDE DEF m
  <2> QED BY <1>5, <1>6
<1>9. DataIn(o.data) = DataIn(d.data)
  <2>1. DataIn(o.data) = {o.data[w] : w \in Present(o)} /\ DataIn(d.data) = {d.data[w] : w \in Present(d)}
    BY DEF DataIn, Present
  <2> QED BY <1>1, <1>4, <1>7, <1>8, <2>1
<1>10. NamesIn(o.data) = NamesIn(d.data) BY <1>4 DEF Unchanged, SameWorkloadsNames
<1> QED BY <1>9, <1>10 DEF NoneSwapped

(* What an update sends leaves alone what has not changed.                 *)
LEMMA UpdatedUntouched ==
  ASSUME NEW o \in Deployment, NEW d \in Deployment
  PROVE  /\ Updated(o, d).data = d.data
         /\ \A w \in Present(Updated(o, d)) : Updated(o, d).wver[w] # Updated(o, d).version => d.data[w] = o.data[w]
<1> DEFINE m == matchOldVersions(o, d)
           u == assignVersions(o, m)
<1>1. m \in Deployment /\ m.data = d.data BY DEF matchOldVersions, Deployment
<1>2. /\ u.data = m.data /\ u.version = o.version + 1
      /\ \A w \in Workload : u.wver[w] = IF w \in Changed(o, m) THEN o.version + 1 ELSE m.wver[w]
  BY <1>1 DEF assignVersions, Deployment
<1>3. Present(u) = Present(m) BY <1>2 DEF Present
<1>4. ASSUME NEW w \in Present(u), u.wver[w] # u.version PROVE d.data[w] = o.data[w]
  <2>1. w \in Present(m) /\ w \notin Changed(o, m) BY <1>2, <1>3, <1>4 DEF Present
  <2>2. WorkloadHash(m, w) = WorkloadHash(o, w) BY <2>1 DEF Changed
  <2> QED BY <1>1, <2>2 DEF WorkloadHash
<1> QED BY <1>1, <1>2, <1>4 DEF Updated

(* A step that leaves alone, or ends, each contract there is.              *)
Shrinks ==
  \A c \in ContractId :
    /\ \/ stored'[c] = stored[c] /\ running'[c] = running[c] /\ (c \in live => c \in live')
       \/ stored'[c] = NoDl /\ c \notin live'
    /\ c \in live' /\ c \in 1..created => c \in live
Grows == created' \in {created, created + 1} /\ \A c \in 1..created : owner'[c] = owner[c]

LEMMA StoredKept == ASSUME AsStored, Shrinks PROVE AsStored'
BY DEF AsStored, Shrinks

LEMMA RightKept ==
  ASSUME Shrinks, NEW n \in Node, OwnedBy(current), current[n] # NoId, current'[n] = current[n],
         target'[n] = target[n], Right(n), created \in 0..MaxContracts
  PROVE  Right(n)'
<1>1. current[n] \in 1..created /\ current[n] \in ContractId BY BoundsAssumption DEF OwnedBy, ContractId
<1> QED BY <1>1 DEF Right, Shrinks

LEMMA OwnedKept ==
  ASSUME Grows, NEW ids, OwnedBy(ids), created \in Nat
  PROVE  \A n \in Node : ids[n] # NoId => ids[n] \in 1..created' /\ owner'[ids[n]] = n
BY DEF Grows, OwnedBy

LEMMA EndedShrinks ==
  ASSUME IInv, NEW c \in ContractId, EnsureContractCanceled(c) \/ Cancelled(c) \/ UNCHANGED <<live, nodes, waited>>
  PROVE  Shrinks
BY DEF IInv, TypeOK, EnsureContractCanceled, Cancelled, Shrinks, nodes

LEMMA NewShrinks ==
  ASSUME IInv, NEW n \in Node, NewContract(n), UNCHANGED nodes PROVE Shrinks /\ Grows
<1>1. created \in Nat BY DEF IInv, TypeOK
<1>2. Grows BY <1>1 DEF IInv, TypeOK, NewContract, Grows
<1>3. Shrinks BY <1>1 DEF NewContract, Shrinks, nodes
<1> QED BY <1>2, <1>3
LEMMA CallingNotEnded == ASSUME ReachInv, Calling PROVE outcome \notin {"ok", "reverted"}
BY DEF ReachInv, Ended, Calling

(* A pass begins with all of it ahead.                                     *)
LEMMA StartProgress ==
  ASSUME NEW p, NEW ids, NEW dls, StartPass(p, ids, dls) PROVE Progress' /\ HandRight'
<1>1. pc' = "deletions" /\ current' = ids /\ target' = dls
      /\ todo' = {n \in Node : ids[n] # NoId /\ dls[n] = NoDl}
  BY DEF StartPass
<1>2. ASSUME NEW n \in Node PROVE Settled(n)' BY <1>1 DEF Settled, Creating
<1> QED BY <1>1, <1>2 DEF Progress, HandRight

LEMMA FailReach ==
  ASSUME IInv, ReachInv, Calling, Fail(current), AsStored', Grows PROVE ReachInv'
<1>1. created \in Nat BY DEF IInv, TypeOK
<1>2. outcome \notin {"ok", "reverted"} BY CallingNotEnded
<1>3. CASE StartPass("revert", current, snapshot) /\ UNCHANGED <<snapshot, fetched>>
  <2>1. Progress' /\ HandRight' BY <1>3, StartProgress
  <2>2. AsAsked' BY <1>3 DEF ReachInv, AsAsked, StartPass
  <2>3. Owned' BY <1>1, <1>3, OwnedKept DEF ReachInv, Owned, OwnedBy, StartPass
  <2>4. Ended' /\ TargetReached' BY <1>2, <1>3 DEF Ended, TargetReached, StartPass
  <2> QED BY <2>1, <2>2, <2>3, <2>4 DEF ReachInv
<1>4. CASE Finish(current, IF pass = "deploy" THEN "error" ELSE "revertFailed")
  <2>1. Progress' /\ HandRight' BY <1>4 DEF Finish, Progress, HandRight, Calling
  <2>2. AsAsked' BY <1>4 DEF ReachInv, AsAsked, Finish, NoDls
  <2>3. Owned' BY <1>1, <1>4, OwnedKept DEF ReachInv, Owned, OwnedBy, Finish, NoIds
  <2>4. Ended' /\ TargetReached' BY <1>4 DEF Ended, TargetReached, Finish
  <2> QED BY <2>1, <2>2, <2>3, <2>4 DEF ReachInv
<1> QED BY <1>3, <1>4 DEF Fail

LEMMA FailShrinks ==
  ASSUME IInv, ReachInv, Calling, Fail(current), Shrinks, Grows PROVE ReachInv'
BY StoredKept, FailReach DEF ReachInv

LEMMA SameGrows == ASSUME UNCHANGED <<created, owner>> PROVE Grows
BY DEF Grows

LEMMA SameShrinks == ASSUME UNCHANGED <<stored, running, live>> PROVE Shrinks
BY DEF Shrinks

(* The steps that fail. *)
LEMMA FailsReach ==
  ASSUME IInv, ReachInv,
         \/ \E n \in Node : DeleteFails(n) \/ CreateFails(n) \/ PrepareUpdateFails(n)
         \/ UndoContract \/ UndoFails \/ UpdateNodeContractFails \/ WaitFails
  PROVE  ReachInv'
<1>1. ASSUME NEW n \in Node, DeleteFails(n) PROVE ReachInv'
  <2>1. base[n] \in ContractId BY <1>1 DEF DeleteFails, IInv, TypeOK, Bookkeeping, PassBookkeeping
  <2> QED BY <1>1, <2>1, EndedShrinks, SameGrows, FailShrinks DEF DeleteFails, Calling
<1>2. ASSUME NEW n \in Node, CreateFails(n) PROVE ReachInv'
  BY <1>2, NewShrinks, SameShrinks, SameGrows, FailShrinks DEF CreateFails, Calling, chain, nodes
<1>3. ASSUME NEW n \in Node, PrepareUpdateFails(n) PROVE ReachInv'
  BY <1>3, SameShrinks, SameGrows, FailShrinks DEF PrepareUpdateFails, Calling, chain, nodes
<1>4. CASE UndoContract \/ UndoFails
  <2>1. cid \in ContractId BY <1>4 DEF UndoContract, UndoFails, IInv, Bookkeeping, InHand
  <2> QED BY <1>4, <2>1, EndedShrinks, SameGrows, FailShrinks DEF UndoContract, UndoFails, Calling
<1>5. CASE UpdateNodeContractFails
  BY <1>5, SameShrinks, SameGrows, FailShrinks DEF UpdateNodeContractFails, Calling, nodes
<1>6. CASE WaitFails
  BY <1>6, SameShrinks, SameGrows, FailShrinks DEF WaitFails, Calling, chain, nodes
<1> QED BY <1>1, <1>2, <1>3, <1>4, <1>5, <1>6

(* The steps around the passes. *)
LEMMA AroundReach ==
  ASSUME IInv, ReachInv,
         \/ \E new \in [Node -> Contents \cup {NoDl}] : Call(new)
         \/ Fetch \/ FetchFails \/ Validate \/ ValidateFails
  PROVE  ReachInv'
<1>1. Shrinks /\ Grows
  BY SameShrinks, SameGrows DEF Call, Fetch, FetchFails, Validate, ValidateFails, chain, nodes
<1>2. AsStored' BY <1>1, StoredKept DEF ReachInv
<1>3. created \in Nat BY DEF IInv, TypeOK
<1>4. Owned'
  BY <1>1, <1>3, OwnedKept
  DEF ReachInv, Owned, OwnedBy, Call, Fetch, FetchFails, Validate, ValidateFails, StartPass, Finish, NoIds
<1>5. CASE \E new \in [Node -> Contents \cup {NoDl}] : Call(new)
  <2> PICK new \in [Node -> Contents \cup {NoDl}] : Call(new) BY <1>5
  <2>1. Progress' /\ HandRight' /\ Ended' /\ TargetReached' /\ UNCHANGED snapshot
    BY DEF Call, Progress, HandRight, Ended, TargetReached, Calling
  <2>2. AsAsked'
    <3>1. \A n \in Node : new[n] # NoDl => Fresh(new[n]).data \in Contents BY DEF Fresh
    <3> QED BY <3>1 DEF ReachInv, AsAsked, Call, NoDls
  <2> QED BY <1>2, <1>4, <2>1, <2>2 DEF ReachInv
<1>6. ASSUME pc \in {"fetch", "validate"} PROVE outcome \notin {"ok", "reverted"} BY <1>6 DEF ReachInv, Ended
<1>7. CASE Fetch
  <2>1. Progress' /\ HandRight' /\ Ended' /\ TargetReached'
    BY <1>6, <1>7 DEF Fetch, Progress, HandRight, Ended, TargetReached, Calling
  <2>2. AsAsked' BY <1>7 DEF ReachInv, AsAsked, AsStored, Fetch, IInv, TypeOK
  <2> QED BY <1>2, <1>4, <2>1, <2>2 DEF ReachInv
<1>8. CASE FetchFails \/ Validate
  <2>1. StartPass("deploy", known, request) /\ UNCHANGED snapshot /\ pc \in {"fetch", "validate"}
    BY <1>8 DEF FetchFails, Validate
  <2>2. Progress' /\ HandRight' BY <2>1, StartProgress
  <2>3. AsAsked' BY <2>1 DEF ReachInv, AsAsked, StartPass
  <2>4. Ended' /\ TargetReached' BY <1>6, <2>1 DEF Ended, TargetReached, StartPass
  <2> QED BY <1>2, <1>4, <2>2, <2>3, <2>4 DEF ReachInv
<1>9. CASE ValidateFails
  <2>1. Finish(known, "rejected") BY <1>9 DEF ValidateFails
  <2>2. Progress' /\ HandRight' BY <2>1 DEF Finish, Progress, HandRight, Calling
  <2>3. AsAsked' BY <2>1 DEF ReachInv, AsAsked, Finish, NoDls
  <2>4. Ended' /\ TargetReached' BY <2>1 DEF Ended, TargetReached, Finish
  <2> QED BY <1>2, <1>4, <2>2, <2>3, <2>4 DEF ReachInv
<1> QED BY <1>5, <1>7, <1>8, <1>9

(* In the steps of a pass that do not end it, what is asked stays.         *)
Passing == Calling /\ Calling' /\ UNCHANGED <<known, request, snapshot, target, base, outcome>>

LEMMA PassingReach ==
  ASSUME IInv, ReachInv, Passing, Grows, OwnedBy(current)', AsStored', HandRight', \A n \in Node : Settled(n)'
  PROVE  ReachInv'
<1>1. outcome \notin {"ok", "reverted"} BY CallingNotEnded DEF Passing
<1>2. created \in Nat BY DEF IInv, TypeOK
<1>3. AsAsked' BY DEF ReachInv, AsAsked, Passing
<1>4. Owned' BY <1>2, OwnedKept DEF ReachInv, Owned, OwnedBy, Passing
<1>5. Ended' /\ TargetReached' BY <1>1 DEF Ended, TargetReached, Passing
<1> QED BY <1>3, <1>4, <1>5 DEF ReachInv, Progress
LEMMA DeleteReach == ASSUME IInv, ReachInv, NEW n \in Node, DeleteDeployment(n) PROVE ReachInv'
<1>1. base[n] \in ContractId /\ target[n] = NoDl /\ pc = "deletions" /\ n \in todo
  BY DEF DeleteDeployment, IInv, TypeOK, Bookkeeping, PassBookkeeping
<1>2. Shrinks /\ Grows BY <1>1, EndedShrinks, SameGrows DEF DeleteDeployment
<1>3. AsStored' BY <1>2, StoredKept DEF ReachInv
<1>4. current' = [current EXCEPT ![n] = NoId] /\ current \in [Node -> ContractId \cup {NoId}]
  BY DEF DeleteDeployment, IInv, TypeOK
<1>5. OwnedBy(current)' BY <1>4 DEF ReachInv, Owned, OwnedBy, DeleteDeployment
<1>6. Passing /\ HandRight' BY <1>1 DEF DeleteDeployment, Passing, Calling, HandRight, args
<1>7. ASSUME NEW m \in Node PROVE Settled(m)'
  <2>1. Settled(m) BY <1>1 DEF ReachInv, Progress, Calling
  <2>2. pc' = "deletions" /\ target' = target /\ todo' = todo \ {n} BY <1>1 DEF DeleteDeployment, args
  <2> QED BY <1>1, <1>4, <2>1, <2>2 DEF Settled, Creating
<1> QED BY <1>2, <1>3, <1>5, <1>6, <1>7, PassingReach

LEMMA LoopReach ==
  ASSUME IInv, ReachInv,
         DeletionsDone \/ CreationsDone \/ Wait
  PROVE  ReachInv'
<1>1. Shrinks /\ Grows BY SameShrinks, SameGrows DEF DeletionsDone, CreationsDone, Wait, chain, nodes
<1>2. AsStored' BY <1>1, StoredKept DEF ReachInv
<1>3. UNCHANGED <<current, target, base, stored, live, created, owner>> /\ Calling /\ created \in 0..MaxContracts
  BY DEF DeletionsDone, CreationsDone, Wait, chain, nodes, args, Calling, IInv, TypeOK
<1>4. OwnedBy(current)' BY <1>3 DEF ReachInv, Owned, OwnedBy
<1>5. Passing /\ HandRight'
  BY DEF DeletionsDone, CreationsDone, Wait, Passing, Calling, HandRight, args
<1>6. ASSUME NEW m \in Node PROVE Settled(m)'
  <2>1. Settled(m) /\ PassBookkeeping(m) BY <1>3 DEF ReachInv, Progress, IInv, Bookkeeping, Calling
  <2>2. Right(m)' = Right(m) BY <1>3 DEF Right
  <2>3. CASE DeletionsDone BY <1>3, <2>1, <2>2, <2>3 DEF Settled, Creating, DeletionsDone
  <2>4. CASE CreationsDone BY <1>3, <2>1, <2>2, <2>4 DEF Settled, Creating, CreationsDone
  <2>5. CASE Wait
    <3>1. pc \in {"waitCreation", "waitUpdate"} /\ todo' = todo
          /\ pc' = IF pc = "waitCreation" THEN "creations" ELSE "updates"
      BY <2>5 DEF Wait
    <3> QED BY <1>3, <2>1, <2>2, <3>1 DEF Settled, Creating
  <2> QED BY <2>3, <2>4, <2>5
<1> QED BY <1>1, <1>2, <1>4, <1>5, <1>6, PassingReach

LEMMA CreateReach == ASSUME IInv, ReachInv, NEW n \in Node, CreateContract(n) PROVE ReachInv'
<1>1. Shrinks /\ Grows BY NewShrinks DEF CreateContract
<1>2. AsStored' BY <1>1, StoredKept DEF ReachInv
<1>3. current' = current /\ target' = target /\ base' = base /\ pc = "creations" /\ pc' = "deploy"
      /\ at' = n /\ dl' = target[n] /\ todo' = todo \ {n} /\ created \in 0..MaxContracts
  BY DEF CreateContract, args, IInv, TypeOK
<1>4. OwnedBy(current)'
  <2>1. OwnedBy(current) /\ created \in Nat BY <1>3, BoundsAssumption DEF ReachInv, Owned
  <2> QED BY <1>1, <1>3, <2>1 DEF OwnedBy, Grows
<1>5. Passing /\ HandRight' BY <1>3 DEF CreateContract, Passing, Calling, HandRight, args
<1>6. ASSUME NEW m \in Node PROVE Settled(m)'
  <2>1. Settled(m) /\ PassBookkeeping(m) BY <1>3 DEF ReachInv, Progress, IInv, Bookkeeping, Calling
  <2>2. current[m] # NoId /\ Right(m) => Right(m)' BY <1>1, <1>3, RightKept DEF ReachInv, Owned
  <2> QED BY <1>3, <2>1, <2>2 DEF Settled, Creating
<1> QED BY <1>1, <1>2, <1>4, <1>5, <1>6, PassingReach

(* A node that takes what is in hand runs it, and no other node's contract *)
(* is touched.                                                             *)
LEMMA TakenRight ==
  ASSUME IInv, ReachInv, Stepwise, pc \in {"deploy", "updateNode"}, Accepts(cid), Provisioned(cid), UNCHANGED chain
  PROVE  /\ AsStored' /\ stored'[cid].data = target[at].data /\ stored'[cid] # NoDl /\ Grows
         /\ \A m \in Node : m # at /\ current'[m] = current[m] /\ current[m] # NoId /\ UNCHANGED target /\ Right(m)
                            => Right(m)'
<1>1. cid \in ContractId /\ dl \in Deployment /\ cid \in live /\ at \in Node
  BY DEF IInv, Bookkeeping, InHand, Accepts
<1>2. stored' = [stored EXCEPT ![cid] = dl] /\ running' = [running EXCEPT ![cid] = Applied(cid)] /\ live' = live
      /\ created' = created /\ owner' = owner
      /\ stored \in [ContractId -> Deployment \cup {NoDl}] /\ running \in [ContractId -> Content]
  BY DEF Provisioned, chain, IInv, TypeOK
<1>3. dl.data = target[at].data /\ target[at] # NoDl
      /\ (stored[cid] # NoDl => Untouched(stored[cid]) /\ running[cid] = stored[cid].data)
  BY <1>1, NoDlAssumption DEF ReachInv, HandRight, Stepwise, IInv, Bookkeeping, AsStored
<1>4. dl.data \in Contents /\ dl # NoDl BY <1>1, <1>3, NoDlAssumption DEF ReachInv, AsAsked
<1>5. Applied(cid) = dl.data
  <2>1. ASSUME NEW w \in Workload PROVE Applied(cid)[w] = dl.data[w]
    BY <1>3 DEF Applied, Untouched
  <2>2. dl.data \in [Workload -> Data \cup {NoData}] /\ DOMAIN Applied(cid) = Workload
    BY <1>1 DEF Deployment, Content, Applied
  <2>3. Applied(cid) \in Content BY <1>1, AppliedType DEF IInv
  <2> QED BY <2>1, <2>2, <2>3 DEF Content
<1>6. AsStored' BY <1>1, <1>2, <1>4, <1>5 DEF ReachInv, AsStored
<1>7. stored'[cid].data = target[at].data /\ stored'[cid] # NoDl BY <1>1, <1>2, <1>3, <1>4
<1>8. owner[cid] = at BY <1>1 DEF ReachInv, Owned, OwnedBy, IInv, Bookkeeping, NoId, ContractId
<1>9. ASSUME NEW m \in Node, m # at, current'[m] = current[m], current[m] # NoId, UNCHANGED target, Right(m)
      PROVE  Right(m)'
  <2>1. current[m] # cid /\ current[m] \in ContractId
    BY <1>8, <1>9 DEF ReachInv, Owned, OwnedBy, IInv, TypeOK
  <2>2. stored'[current[m]] = stored[current[m]] BY <1>1, <1>2, <2>1
  <2> QED BY <1>2, <1>9, <2>2 DEF Right
<1> QED BY <1>2, <1>6, <1>7, <1>9, SameGrows
LEMMA SendReach ==
  ASSUME IInv, ReachInv, Stepwise, DeploymentDeploy \/ DeploymentDeployFails \/ DeploymentUpdate
  PROVE  ReachInv'
<1>1. pc \in {"deploy", "updateNode"} /\ UNCHANGED <<chain, target, base, todo, at, dl>> /\ at \in Node
      /\ cid \in ContractId /\ current \in [Node -> ContractId \cup {NoId}] /\ cid # NoId
      /\ target[at] # NoDl /\ owner[cid] = at /\ cid \in 1..created
  <2>1. pc \in {"deploy", "updateNode"} /\ UNCHANGED <<chain, target, base, todo, at, dl>>
    BY DEF DeploymentDeploy, DeploymentDeployFails, DeploymentUpdate, args
  <2>2. at \in Node /\ cid \in ContractId /\ dl \in Deployment /\ cid # NoId
    BY <2>1 DEF IInv, Bookkeeping, InHand, ContractId, NoId
  <2>3. target[at] # NoDl BY <2>1, <2>2, NoDlAssumption DEF ReachInv, HandRight, IInv, Bookkeeping
  <2>4. owner[cid] = at /\ cid \in 1..created
    BY <2>1, <2>2 DEF ReachInv, Owned, OwnedBy, IInv, Bookkeeping
  <2> QED BY <2>1, <2>2, <2>3, <2>4 DEF IInv, TypeOK
<1>2. Passing /\ HandRight'
  BY <1>1 DEF DeploymentDeploy, DeploymentDeployFails, DeploymentUpdate, Passing, Calling, HandRight, args, ReachInv
<1>3. Grows /\ chain' = chain /\ live' = live BY <1>1, SameGrows DEF chain
<1>4. OwnedBy(current)'
  <2>1. OwnedBy(current) /\ owner' = owner /\ created' = created BY <1>1 DEF ReachInv, Owned, chain
  <2>2. current' = current \/ current' = [current EXCEPT ![at] = cid]
    BY DEF DeploymentDeploy, DeploymentDeployFails, DeploymentUpdate
  <2> QED BY <1>1, <2>1, <2>2 DEF OwnedBy
<1>5. CASE Accepts(cid) /\ Provisioned(cid)
  <2>1. /\ AsStored' /\ stored'[cid].data = target[at].data /\ stored'[cid] # NoDl
        /\ \A m \in Node : m # at /\ current'[m] = current[m] /\ current[m] # NoId /\ Right(m) => Right(m)'
    BY <1>1, <1>5, TakenRight
  <2>2. ASSUME NEW m \in Node PROVE Settled(m)'
    <3>1. Settled(m) /\ PassBookkeeping(m)
      BY <1>1 DEF ReachInv, Progress, IInv, Bookkeeping, Calling
    <3>2. CASE m # at
      <4>1. current'[m] = current[m]
        BY <1>1, <3>2 DEF DeploymentDeploy, DeploymentDeployFails, DeploymentUpdate
      <4>2. current[m] # NoId /\ Right(m) => Right(m)' BY <2>1, <3>2, <4>1
      <4>3. target[m] # NoDl /\ base[m] # NoId => current[m] # NoId BY <3>1 DEF PassBookkeeping
      <4> QED
        BY <1>1, <3>1, <3>2, <4>1, <4>2, <4>3
        DEF Settled, Creating, DeploymentDeploy, DeploymentDeployFails, DeploymentUpdate
    <3>3. CASE m = at /\ pc' = "undo"
      <4>1. pc = "deploy" BY <1>1, <3>3 DEF DeploymentDeploy, DeploymentDeployFails, DeploymentUpdate
      <4>2. base[at] = NoId BY <4>1 DEF IInv, Bookkeeping
      <4> QED BY <1>1, <3>3, <4>1, <4>2 DEF Settled, Creating
    <3>4. CASE m = at /\ pc' # "undo"
      <4>1. current'[m] = cid
        BY <1>1, <3>4 DEF DeploymentDeploy, DeploymentDeployFails, DeploymentUpdate
      <4>2. Right(m)' BY <1>1, <2>1, <3>4, <4>1 DEF Right
      <4> QED BY <1>1, <3>4, <4>1, <4>2 DEF Settled
    <3> QED BY <3>2, <3>3, <3>4
  <2> QED BY <1>2, <1>3, <1>4, <2>1, <2>2, PassingReach
<1>6. CASE UNCHANGED <<nodes, waited>> /\ DeploymentDeployFails
  <2>1. Shrinks BY <1>3, <1>6, SameShrinks DEF nodes
  <2>2. AsStored' BY <2>1, StoredKept DEF ReachInv
  <2>3. pc = "deploy" /\ pc' = "undo" /\ current' = current BY <1>6 DEF DeploymentDeployFails
  <2>4. ASSUME NEW m \in Node PROVE Settled(m)'
    <3>1. Settled(m) BY <2>3 DEF ReachInv, Progress, Calling
    <3>2. Right(m) => Right(m)' BY <1>1, <1>3, <1>6, <2>3 DEF Right, nodes
    <3> QED BY <1>1, <2>3, <3>1, <3>2 DEF Settled, Creating
  <2> QED BY <1>2, <1>3, <1>4, <2>2, <2>4, PassingReach
<1> QED BY <1>5, <1>6 DEF DeploymentDeploy, DeploymentDeployFails, DeploymentUpdate

LEMMA UpdateFailsReach == ASSUME IInv, ReachInv, Stepwise, DeploymentUpdateFails PROVE ReachInv'
<1>1. pc = "updateNode" /\ Fail(current) /\ UNCHANGED chain BY DEF DeploymentUpdateFails
<1>2. CASE Accepts(cid) /\ Provisioned(cid)
  <2>1. AsStored' /\ Grows BY <1>1, <1>2, TakenRight
  <2> QED BY <1>1, <2>1, FailReach DEF Calling
<1>3. CASE UNCHANGED <<nodes, waited>>
  BY <1>1, <1>3, SameShrinks, SameGrows, FailShrinks DEF nodes, chain, Calling
<1> QED BY <1>2, <1>3 DEF DeploymentUpdateFails

LEMMA UpdatesReach ==
  ASSUME NoneSwapped, IInv, ReachInv,
         \/ \E n \in Node : SkipUpdate(n) \/ PrepareUpdate(n)
         \/ UpdateNodeContract
  PROVE  ReachInv'
<1>1. Shrinks /\ Grows
  BY SameShrinks, SameGrows DEF SkipUpdate, PrepareUpdate, UpdateNodeContract, chain, nodes
<1>2. AsStored' BY <1>1, StoredKept DEF ReachInv
<1>3. UNCHANGED <<current, target, base, stored, live, created, owner>> /\ Calling /\ pc \notin Creating
      /\ pc # "deletions" /\ created \in 0..MaxContracts
  BY DEF SkipUpdate, PrepareUpdate, UpdateNodeContract, chain, nodes, args, Calling, Creating, IInv, TypeOK
<1>4. OwnedBy(current)' BY <1>3 DEF ReachInv, Owned, OwnedBy
<1>5. Passing BY DEF SkipUpdate, PrepareUpdate, UpdateNodeContract, Passing, Calling, args
<1>6. CASE UpdateNodeContract
  <2>1. HandRight' BY <1>6 DEF UpdateNodeContract, HandRight, Untouched, Present, nodes, args, ReachInv
  <2>2. ASSUME NEW m \in Node PROVE Settled(m)'
    <3>1. Settled(m) BY <1>3 DEF ReachInv, Progress
    <3>2. Right(m)' = Right(m) BY <1>3 DEF Right
    <3> QED BY <1>3, <1>6, <3>1, <3>2 DEF Settled, Creating, UpdateNodeContract
  <2> QED BY <1>1, <1>2, <1>4, <1>5, <2>1, <2>2, PassingReach
<1>7. ASSUME NEW n \in Node, SkipUpdate(n) \/ PrepareUpdate(n) PROVE ReachInv'
  <2>1. target[n] # NoDl /\ base[n] # NoId /\ pc = "updates" /\ n \in todo /\ current[n] = base[n]
    BY <1>7 DEF SkipUpdate, PrepareUpdate, IInv, Bookkeeping, PassBookkeeping
  <2>2. target[n] \in Deployment /\ OldDl(n) \in Deployment /\ target[n].data \in Contents
        /\ OldDl(n).data \in Contents /\ OldDl(n) # NoDl
    BY <1>7, <2>1 DEF SkipUpdate, PrepareUpdate, IInv, TypeOK, OldDl, ReachInv, AsAsked, AsStored
  <2>3. CASE SkipUpdate(n)
    <3>1. OldDl(n).data = target[n].data BY <2>2, <2>3, HashTells DEF SkipUpdate
    <3>2. Right(n) BY <2>1, <2>2, <3>1 DEF Right, OldDl
    <3>3. HandRight' BY <2>3 DEF SkipUpdate, HandRight
    <3>4. ASSUME NEW m \in Node PROVE Settled(m)'
      <4>1. Settled(m) BY <1>3 DEF ReachInv, Progress
      <4>2. Right(m)' = Right(m) BY <1>3 DEF Right
      <4> QED BY <1>3, <2>1, <2>3, <3>2, <4>1, <4>2 DEF Settled, Creating, SkipUpdate
    <3> QED BY <1>1, <1>2, <1>4, <1>5, <3>3, <3>4, PassingReach
  <2>4. CASE PrepareUpdate(n)
    <3>1. pc' = "updateContract" /\ at' = n /\ cid' = base[n] /\ dl' = Updated(OldDl(n), target[n])
          /\ todo' = todo \ {n} /\ target' = target /\ stored' = stored
      BY <2>4 DEF PrepareUpdate, args, nodes
    <3>2. HandRight'
      <4>1. dl'.data = target[n].data
            /\ \A w \in Present(dl') : dl'.wver[w] # dl'.version => dl'.data[w] = OldDl(n).data[w]
        BY <2>2, <3>1, UpdatedUntouched
      <4> QED BY <3>1, <4>1 DEF HandRight, Untouched, OldDl, Present
    <3>3. ASSUME NEW m \in Node PROVE Settled(m)'
      <4>1. Settled(m) BY <1>3 DEF ReachInv, Progress
      <4>2. Right(m)' = Right(m) BY <1>3 DEF Right
      <4> QED BY <1>3, <2>1, <3>1, <4>1, <4>2 DEF Settled, Creating
    <3> QED BY <1>1, <1>2, <1>4, <1>5, <3>2, <3>3, PassingReach
  <2> QED BY <1>7, <2>3, <2>4
<1> QED BY <1>6, <1>7

LEMMA DoneReach == ASSUME IInv, ReachInv, UpdatesDone PROVE ReachInv'
<1>1. Shrinks /\ Grows BY SameShrinks, SameGrows DEF UpdatesDone, chain, nodes
<1>2. AsStored' BY <1>1, StoredKept DEF ReachInv
<1>3. pc = "updates" /\ todo = {} /\ Finish(current, IF pass = "deploy" THEN "ok" ELSE "reverted")
      /\ UNCHANGED <<chain, nodes>> /\ created \in Nat
  BY DEF UpdatesDone, Succeed, IInv, TypeOK
<1>4. Progress' /\ HandRight' /\ Ended' BY <1>3 DEF Finish, Progress, HandRight, Ended, Calling
<1>5. AsAsked' BY <1>3 DEF ReachInv, AsAsked, Finish, NoDls
<1>6. Owned' BY <1>1, <1>3, OwnedKept DEF ReachInv, Owned, OwnedBy, Finish, NoIds
<1>7. TargetReached'
  <2>1. known' = current /\ target' = target /\ live' = live /\ stored' = stored /\ running' = running
    BY <1>3 DEF Finish, chain, nodes
  <2>2. ASSUME NEW n \in Node
        PROVE  (current[n] # NoId <=> target[n] # NoDl)
               /\ (current[n] \in live => running[current[n]] = target[n].data)
    <3>1. Settled(n) /\ PassBookkeeping(n) BY <1>3 DEF ReachInv, Progress, IInv, Bookkeeping, Calling
    <3>2. target[n] = NoDl => current[n] = NoId BY <1>3, <3>1 DEF Settled
    <3>3. target[n] # NoDl => current[n] # NoId /\ Right(n)
      BY <1>3, <3>1 DEF Settled, PassBookkeeping, Creating
    <3>4. current[n] \in live => current[n] \in ContractId /\ current[n] # NoId
      BY DEF IInv, TypeOK, ContractId, NoId
    <3> QED BY <3>2, <3>3, <3>4 DEF Right, ReachInv, AsStored
  <2> QED BY <2>1, <2>2 DEF TargetReached
<1> QED BY <1>2, <1>4, <1>5, <1>6, <1>7 DEF ReachInv

LEMMA EndsReach == ASSUME IInv, ReachInv, NEW c \in ContractId, ContractEnds(c) PROVE ReachInv'
<1>1. Shrinks /\ Grows /\ live' \subseteq live BY EndedShrinks, SameGrows DEF ContractEnds, Cancelled
<1>2. AsStored' BY <1>1, StoredKept DEF ReachInv
<1>3. UNCHANGED <<pc, known, current, target, base, request, snapshot, created, owner, todo, at, dl, cid, outcome>>
      /\ created \in 0..MaxContracts
  BY DEF ContractEnds, args, IInv, TypeOK
<1>4. AsAsked' /\ Owned' /\ Ended' BY <1>3 DEF ReachInv, AsAsked, Owned, OwnedBy, Ended
<1>5. Progress'
  <2>1. ASSUME Calling, NEW m \in Node PROVE Settled(m)'
    <3>1. Settled(m) /\ PassBookkeeping(m) BY <2>1 DEF ReachInv, Progress, IInv, Bookkeeping, Calling
    <3>2. current[m] # NoId /\ Right(m) => Right(m)' BY <1>1, <1>3, RightKept DEF ReachInv, Owned
    <3>3. target[m] # NoDl /\ base[m] # NoId => current[m] # NoId BY <3>1 DEF PassBookkeeping
    <3> QED BY <1>3, <3>1, <3>2, <3>3 DEF Settled
  <2> QED BY <1>3, <2>1 DEF Progress, Calling
<1>6. HandRight'
  <2>1. pc \in {"updateContract", "updateNode"} => cid \in ContractId BY DEF IInv, Bookkeeping, InHand
  <2>2. pc \in {"updateContract", "updateNode"} => stored'[cid] = stored[cid] \/ stored'[cid] = NoDl
    BY <1>1, <2>1 DEF Shrinks
  <2> QED BY <1>3, <2>2 DEF ReachInv, HandRight, Untouched, Present
<1>7. TargetReached'
  <2>1. ASSUME NEW n \in Node, known[n] \in live', running[known[n]] = target[n].data
        PROVE  running'[known[n]] = target[n].data
    <3>1. known[n] \in ContractId BY <1>1, <2>1 DEF IInv, TypeOK, ContractId, NoId
    <3> QED BY <1>1, <2>1, <3>1 DEF Shrinks
  <2> QED BY <1>1, <1>3, <2>1 DEF ReachInv, TargetReached
<1> QED BY <1>2, <1>4, <1>5, <1>6, <1>7 DEF ReachInv

LEMMA ReachNext == ASSUME NoneSwapped, IInv, ReachInv, Stepwise, [Next]_vars PROVE ReachInv'
<1>1. CASE \E new \in [Node -> Contents \cup {NoDl}] : Call(new) BY <1>1, AroundReach
<1>2. CASE Deploy
  BY <1>2, AroundReach, DeleteReach, FailsReach, LoopReach, CreateReach, SendReach, UpdateFailsReach,
     UpdatesReach, DoneReach
  DEF Deploy
<1>3. CASE \E c \in ContractId : ContractEnds(c) BY <1>3, EndsReach
<1>4. CASE UNCHANGED vars
  BY <1>4 DEF ReachInv, AsStored, AsAsked, Owned, OwnedBy, Progress, Calling, Settled, Right, Creating,
     HandRight, Untouched, Present, Ended, TargetReached, vars, chain, nodes, args, history
<1> QED BY <1>1, <1>2, <1>3, <1>4 DEF Next

LEMMA ReachInit == Init => ReachInv
BY DEF Init, ReachInv, AsStored, AsAsked, Owned, OwnedBy, NoIds, NoDls, Progress, Calling, HandRight, Ended,
   TargetReached

(* A call that returns no error, or that reverted, leaves on each node     *)
(* just what was asked of it, and a contract on just the nodes asked.      *)
THEOREM Reaches == NoneSwapped => (Spec => []TargetReached)
<1> SUFFICES ASSUME NoneSwapped PROVE Spec => []TargetReached OBVIOUS
<1>1. Init => ReachInv /\ Stepwise BY ReachInit DEF Init, Stepwise
<1>2. IInv /\ ReachInv /\ Stepwise /\ [Next]_vars => ReachInv' /\ Stepwise'
  BY ReachNext, VersionInductive
<1>3. ReachInv => TargetReached BY DEF ReachInv
<1> QED BY <1>1, <1>2, <1>3, Invariance, PTL DEF Spec
=============================================================================
