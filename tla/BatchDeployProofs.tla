-------------------------- MODULE BatchDeployProofs --------------------------
(* Theorems about BatchDeploy, for any deployments and any of their orders. *)
EXTENDS BatchDeploy, SequenceTheorems, TLAPS

(***************************************************************************)
(* The inductive invariant.  BatchDeploy pairs contracts, deployments, ids *)
(* and goroutines by their position in slices that goroutines have filled  *)
(* in any order: everything rests on the slices agreeing.                  *)
(***************************************************************************)

(* The batch as it was prepared: each deployment once.                     *)
Prepares ==
  /\ contractsData = deploymentsSlice
  /\ \A i \in DOMAIN deploymentsSlice : deploymentsSlice[i] \in batch \ todo
  /\ \A i, j \in DOMAIN deploymentsSlice : deploymentsSlice[i] = deploymentsSlice[j] => i = j
  /\ pc = "idle" => deploymentsSlice = <<>>
  /\ pc \in {"idle", "prepare", "create"} => contracts = <<>>
  /\ pc # "prepare" => todo = {}

(* The i-th contract is the i-th deployment's, new to the caller, and its  *)
(* id is set when its goroutine has seen the node take the deployment.     *)
ContractOf(i) ==
  /\ contracts[i] \in 1..created /\ body[contracts[i]] = deploymentsSlice[i]
  /\ \A d \in Dl : known[d] # contracts[i]
  /\ ids[i] = IF worker[i] = "ok" THEN contracts[i] ELSE NoId
  /\ worker[i] = "failed" <=> contracts[i] \in failedContracts
  /\ worker[i] \in {"wait", "ok"} /\ contracts[i] \in live =>
       stored[contracts[i]] = deploymentsSlice[i]
Made == \A i \in DOMAIN contracts : ContractOf(i)

(* What the caller has on record.                                          *)
RecordOf(d) ==
  /\ known[d] # NoId => known[d] \in 1..created /\ body[known[d]] = d
  /\ known[d] \in live => stored[known[d]] = d
  /\ pc # "idle" /\ d \in batch => known[d] = NoId
Recorded == (\A d \in Dl : RecordOf(d)) /\ TrackedIsKnown

(* A deployment that is missing from what was prepared, created or         *)
(* deployed is in the error.                                               *)
Missing ==
  /\ pc # "idle" /\ ~multiErr => batch = todo \cup Elements(deploymentsSlice)
  /\ pc \in {"work", "cancel", "update"} /\ ~multiErr =>
       DOMAIN contracts = DOMAIN deploymentsSlice
  /\ failedContracts # {} => multiErr
  /\ pc \in {"cancel", "update"} => \A i \in DOMAIN worker : worker[i] \in {"ok", "failed"}

(* A live contract is in the call's hand, on record, or reported; those    *)
(* that failed are cancelled or reported before the call lets go of them.  *)
Unseen == live \ leaked
Kept ==
  /\ Unseen \subseteq InHand \cup {known[d] : d \in Dl}
  /\ pc = "update" => failedContracts \cap Unseen = {}

IInv == TypeOK /\ Prepares /\ Made /\ Recorded /\ Missing /\ Kept

LEMMA FunctionIsSeq ==
  ASSUME NEW S, NEW n \in Nat, NEW f \in [1..n -> S] PROVE f \in Seq(S) /\ Len(f) = n
<1>1. f \in Seq(S) BY SeqDef
<1>2. 1..Len(f) = 1..n /\ Len(f) \in Nat BY <1>1, LenProperties
<1> QED BY <1>1, <1>2

LEMMA EmptyCall ==
  ASSUME NEW s, s = <<>>, NEW S
  PROVE  s \in Seq(S) /\ Len(s) = 0 /\ DOMAIN s = {} /\ Elements(s) = {} /\ s \in [DOMAIN s -> S]
<1>1. s \in Seq(S) /\ Len(s) = 0 BY EmptySeq
<1>2. DOMAIN s = {} BY <1>1, LenProperties
<1> QED BY <1>1, <1>2 DEF Elements

LEMMA SlicesType ==
  ASSUME TypeOK
  PROVE  /\ DOMAIN contractsData = 1..Len(contractsData) /\ Len(contractsData) \in Nat
         /\ DOMAIN deploymentsSlice = 1..Len(deploymentsSlice) /\ Len(deploymentsSlice) \in Nat
         /\ DOMAIN contracts = 1..Len(contracts) /\ Len(contracts) \in Nat
         /\ DOMAIN contracts \subseteq DOMAIN deploymentsSlice
         /\ DOMAIN worker = DOMAIN contracts /\ DOMAIN ids = DOMAIN contracts
         /\ \A i \in DOMAIN deploymentsSlice : deploymentsSlice[i] \in Dl
         /\ \A i \in DOMAIN contracts : contracts[i] \in ContractId
<1>1. /\ contractsData \in Seq(Dl) /\ deploymentsSlice \in Seq(Dl) /\ contracts \in Seq(ContractId)
      /\ Len(contracts) <= Len(deploymentsSlice)
      /\ worker \in [DOMAIN contracts -> {"send", "wait", "ok", "failed"}]
      /\ ids \in [DOMAIN contracts -> ContractId \cup {NoId}]
  BY DEF TypeOK
<1>2. /\ DOMAIN contractsData = 1..Len(contractsData) /\ Len(contractsData) \in Nat
      /\ DOMAIN deploymentsSlice = 1..Len(deploymentsSlice) /\ Len(deploymentsSlice) \in Nat
      /\ DOMAIN contracts = 1..Len(contracts) /\ Len(contracts) \in Nat
  BY <1>1, LenProperties
<1>3. \A i \in DOMAIN deploymentsSlice : deploymentsSlice[i] \in Dl BY <1>1, <1>2, ElementOfSeq
<1>4. \A i \in DOMAIN contracts : contracts[i] \in ContractId BY <1>1, <1>2, ElementOfSeq
<1> QED BY <1>1, <1>2, <1>3, <1>4

LEMMA InitIInv == ASSUME BoundAssumption, Init PROVE IInv
<1>1. TypeOK
  <2>1. /\ contractsData \in Seq(Dl) /\ deploymentsSlice \in Seq(Dl) /\ contracts \in Seq(ContractId)
        /\ Len(contracts) <= Len(deploymentsSlice)
        /\ worker \in [DOMAIN contracts -> {"send", "wait", "ok", "failed"}]
        /\ ids \in [DOMAIN contracts -> ContractId \cup {NoId}]
    BY EmptyCall DEF Init
  <2>2. /\ created \in 0..MaxContracts /\ live \subseteq 1..created
        /\ body \in [ContractId -> Dl \cup {None}] /\ stored \in [ContractId -> Dl \cup {None}]
        /\ known \in [Dl -> ContractId \cup {NoId}] /\ tracked \subseteq ContractId
        /\ leaked \subseteq 1..created
    BY DEF Init, BoundAssumption
  <2>3. /\ pc \in {"idle", "prepare", "create", "work", "cancel", "update"}
        /\ batch \subseteq Dl /\ todo \subseteq batch
        /\ failedContracts \subseteq Elements(contracts)
        /\ multiErr \in BOOLEAN /\ outcome \in {"none", "ok", "error"}
    BY DEF Init
  <2> QED BY <2>1, <2>2, <2>3 DEF TypeOK
<1>2. DOMAIN contracts = {} /\ DOMAIN deploymentsSlice = {} BY EmptyCall DEF Init
<1>3. Prepares BY <1>2 DEF Init, Prepares
<1>4. Made BY <1>2 DEF Made
<1>5. Recorded BY DEF Init, Recorded, RecordOf, TrackedIsKnown
<1>6. Missing BY DEF Init, Missing
<1>7. Kept BY DEF Init, Kept, Unseen
<1> QED BY <1>1, <1>3, <1>4, <1>5, <1>6, <1>7 DEF IInv

(* The call is over: only what it leaves with the caller matters.          *)
LEMMA OverStep ==
  ASSUME BoundAssumption, IInv, NEW err \in BOOLEAN, Over(err),
         created' \in 0..MaxContracts, live' \subseteq 1..created', leaked' \subseteq 1..created',
         body' \in [ContractId -> Dl \cup {None}], known' \in [Dl -> ContractId \cup {NoId}],
         tracked' \subseteq ContractId, UNCHANGED stored,
         Recorded', Unseen' \subseteq {known'[d] : d \in Dl}
  PROVE  IInv'
<1>1. /\ pc' = "idle" /\ todo' = {} /\ contractsData' = <<>> /\ deploymentsSlice' = <<>>
      /\ contracts' = <<>> /\ worker' = <<>> /\ ids' = <<>>
      /\ failedContracts' = {} /\ multiErr' = FALSE /\ batch' = batch
      /\ outcome' \in {"ok", "error"}
  BY DEF Over
<1>2. /\ contractsData' \in Seq(Dl) /\ deploymentsSlice' \in Seq(Dl)
      /\ contracts' \in Seq(ContractId) /\ Len(contracts') <= Len(deploymentsSlice')
      /\ worker' \in [DOMAIN contracts' -> {"send", "wait", "ok", "failed"}]
      /\ ids' \in [DOMAIN contracts' -> ContractId \cup {NoId}]
  BY <1>1, EmptyCall
<1>3. TypeOK' BY <1>1, <1>2 DEF IInv, TypeOK
<1>4. DOMAIN contracts' = {} /\ DOMAIN deploymentsSlice' = {} BY <1>1, EmptyCall
<1>5. Prepares' BY <1>1, <1>4 DEF Prepares
<1>6. Made' BY <1>4 DEF Made
<1>7. Missing' BY <1>1 DEF Missing
<1>8. Kept' BY <1>1 DEF Kept
<1> QED BY <1>3, <1>5, <1>6, <1>7, <1>8 DEF IInv

LEMMA Distinct ==
  ASSUME IInv, NEW i \in DOMAIN contracts, NEW j \in DOMAIN contracts, contracts[i] = contracts[j]
  PROVE  i = j
<1>1. deploymentsSlice[i] = deploymentsSlice[j] BY DEF IInv, Made, ContractOf
<1> QED BY <1>1, SlicesType DEF IInv, Prepares

(* One goroutine moves on.                                                 *)
LEMMA GoroutineStep ==
  ASSUME BoundAssumption, IInv, pc = "work",
         NEW i \in DOMAIN worker, worker[i] \in {"send", "wait"},
         NEW to \in {"wait", "ok", "failed"}, Becomes(i, to),
         Takes(i) \/ UNCHANGED stored, to = "wait" => Takes(i),
         to = "ok" => worker[i] = "wait",
         ids' = IF to = "ok" THEN [ids EXCEPT ![i] = contracts[i]] ELSE ids,
         failedContracts' = IF to = "failed" THEN failedContracts \cup {contracts[i]}
                            ELSE failedContracts,
         multiErr' = IF to = "failed" THEN TRUE ELSE multiErr,
         UNCHANGED <<chain, caller, pc, batch, todo, contractsData, deploymentsSlice, contracts,
                     outcome, leaked>>
  PROVE  IInv'
<1> USE DEF chain, caller
<1>1. /\ i \in DOMAIN contracts /\ i \in DOMAIN deploymentsSlice /\ i \in DOMAIN ids
      /\ contracts[i] \in ContractId /\ deploymentsSlice[i] \in Dl
      /\ DOMAIN worker = DOMAIN contracts /\ DOMAIN ids = DOMAIN contracts
  BY SlicesType DEF IInv
<1>2. /\ worker' = [worker EXCEPT ![i] = to]
      /\ worker' \in [DOMAIN contracts -> {"send", "wait", "ok", "failed"}]
      /\ ids' \in [DOMAIN contracts -> ContractId \cup {NoId}]
  BY <1>1 DEF IInv, TypeOK, Becomes
<1>3. /\ \A c \in ContractId \ {contracts[i]} : stored'[c] = stored[c]
      /\ to = "wait" => stored'[contracts[i]] = deploymentsSlice[i]
      /\ to = "ok" => stored'[contracts[i]] = deploymentsSlice[i] \/ UNCHANGED stored
      /\ stored' \in [ContractId -> Dl \cup {None}]
  BY <1>1 DEF IInv, TypeOK, Takes
<1>4. TypeOK'
  <2>1. failedContracts' \subseteq Elements(contracts) /\ multiErr' \in BOOLEAN
    BY <1>1 DEF IInv, TypeOK, Elements
  <2> QED BY <1>2, <1>3, <2>1 DEF IInv, TypeOK, Elements
<1>5. Prepares' BY DEF IInv, Prepares
<1>6. Made'
  <2> SUFFICES ASSUME NEW j \in DOMAIN contracts PROVE ContractOf(j)'
    BY DEF Made
  <2>1. ContractOf(j) BY DEF IInv, Made
  <2>2. contracts[j] \in ContractId BY SlicesType DEF IInv
  <2>3. CASE j = i BY <1>1, <1>2, <1>3, <2>1, <2>3 DEF ContractOf, IInv, TypeOK
  <2>4. CASE j # i
    <3>1. contracts[j] # contracts[i] BY <1>1, <2>4, Distinct
    <3>2. worker'[j] = worker[j] /\ ids'[j] = ids[j] BY <1>1, <1>2, <2>4 DEF IInv, TypeOK
    <3>3. stored'[contracts[j]] = stored[contracts[j]] BY <1>3, <2>2, <3>1
    <3> QED BY <2>1, <3>1, <3>2, <3>3 DEF ContractOf
  <2> QED BY <2>3, <2>4
<1>7. Recorded'
  <2>1. \A d \in Dl : known[d] # NoId => known[d] \in ContractId \ {contracts[i]}
    BY <1>1 DEF IInv, TypeOK, Made, ContractOf
  <2>2. 0 \notin live BY DEF IInv, TypeOK, BoundAssumption
  <2> QED BY <1>3, <2>1, <2>2 DEF IInv, Recorded, RecordOf, TrackedIsKnown, NoId
<1>8. Missing' BY DEF IInv, Missing
<1>9. Kept' BY DEF IInv, Kept, Unseen, InHand
<1> QED BY <1>4, <1>5, <1>6, <1>7, <1>8, <1>9 DEF IInv

LEMMA WorkStep ==
  ASSUME BoundAssumption, IInv, NEW i \in DOMAIN worker,
         DeploymentDeploy(i) \/ DeploymentDeployFails(i) \/ Wait(i) \/ WaitFails(i)
  PROVE  IInv'
<1>1. CASE DeploymentDeploy(i) BY <1>1, GoroutineStep DEF DeploymentDeploy
<1>2. CASE DeploymentDeployFails(i) BY <1>2, GoroutineStep DEF DeploymentDeployFails, Failed
<1>3. CASE Wait(i) BY <1>3, GoroutineStep DEF Wait
<1>4. CASE WaitFails(i) BY <1>4, GoroutineStep DEF WaitFails, Failed
<1> QED BY <1>1, <1>2, <1>3, <1>4

(***************************************************************************)
(* Contracts end.                                                          *)
(***************************************************************************)

LEMMA EndedKeeps ==
  ASSUME IInv, NEW S, Ended(S)
  PROVE  /\ live' = live \ S /\ stored' \in [ContractId -> Dl \cup {None}]
         /\ \A c \in ContractId \ S : stored'[c] = stored[c]
  BY DEF IInv, TypeOK, Ended

LEMMA EndedStep ==
  ASSUME BoundAssumption, IInv, NEW S, Ended(S),
         UNCHANGED <<created, body, caller, call, failedContracts, outcome>>,
         \/ UNCHANGED <<pc, leaked, multiErr>>
         \/ Goto("cancel", "update") /\ failedContracts \subseteq S /\ UNCHANGED <<leaked, multiErr>>
         \/ Goto("cancel", "update") /\ multiErr' = TRUE /\ leaked' = leaked \cup failedContracts
  PROVE  IInv'
<1> USE DEF caller, call, Goto
<1>1. /\ live' = live \ S /\ stored' \in [ContractId -> Dl \cup {None}]
      /\ \A c \in ContractId \ S : stored'[c] = stored[c]
  BY EndedKeeps
<1>2. live \subseteq ContractId /\ NoId \notin live
  BY DEF IInv, TypeOK, ContractId, NoId, BoundAssumption
<1>3. failedContracts \subseteq 1..created
  BY SlicesType DEF IInv, TypeOK, Made, ContractOf, Elements
<1>4. TypeOK'
  <2>1. leaked' \subseteq 1..created /\ multiErr' \in BOOLEAN
        /\ pc' \in {"idle", "prepare", "create", "work", "cancel", "update"}
    BY <1>3 DEF IInv, TypeOK
  <2> QED BY <1>1, <2>1 DEF IInv, TypeOK, Elements
<1>5. Prepares' BY DEF IInv, Prepares
<1>6. Made'
  <2> SUFFICES ASSUME NEW i \in DOMAIN contracts PROVE ContractOf(i)' BY DEF Made
  <2>1. ContractOf(i) /\ contracts[i] \in ContractId BY SlicesType DEF IInv, Made
  <2> QED BY <1>1, <2>1 DEF ContractOf
<1>7. Recorded'
  <2>1. \A d \in Dl : known[d] \in live' => stored'[known[d]] = stored[known[d]] BY <1>1, <1>2
  <2> QED BY <1>1, <2>1 DEF IInv, Recorded, RecordOf, TrackedIsKnown
<1>8. Missing' BY DEF IInv, Missing, Elements
<1>9. Kept' BY <1>1 DEF IInv, Kept, Unseen, InHand, Elements
<1> QED BY <1>4, <1>5, <1>6, <1>7, <1>8, <1>9 DEF IInv

LEMMA EndsStep ==
  ASSUME BoundAssumption, IInv,
         \/ (\E d \in Dl : CancelFails(d)) \/ (\E c \in ContractId : ContractEnds(c))
         \/ BatchCancel \/ BatchCancelFails
  PROVE  IInv'
  BY EndedStep DEF CancelFails, ContractEnds, BatchCancel, BatchCancelFails, call, caller

LEMMA CancelStep == ASSUME BoundAssumption, IInv, NEW d \in Dl, Cancel(d) PROVE IInv'
<1> USE DEF call
<1>1. /\ live' = live \ {known[d]} /\ stored' \in [ContractId -> Dl \cup {None}]
      /\ \A c \in ContractId \ {known[d]} : stored'[c] = stored[c]
  BY EndedKeeps DEF Cancel
<1>2. /\ known' = [known EXCEPT ![d] = NoId] /\ tracked' = tracked \ {known[d]}
      /\ known' \in [Dl -> ContractId \cup {NoId}] /\ known[d] # NoId /\ pc = "idle"
      /\ UNCHANGED <<created, body, pc, call, failedContracts, multiErr, outcome, leaked>>
  BY DEF Cancel, IInv, TypeOK
<1>3. live \subseteq ContractId /\ NoId \notin live
  BY DEF IInv, TypeOK, ContractId, NoId, BoundAssumption
<1>4. \A e \in Dl \ {d} : known'[e] = known[e] /\ known[e] # known[d]
  <2>1. \A e \in Dl : known[e] # NoId => body[known[e]] = e BY DEF IInv, Recorded, RecordOf
  <2>2. ASSUME NEW e \in Dl, known[e] = known[d] PROVE e = d
    <3>1. known[e] # NoId BY <1>2, <2>2
    <3>2. body[known[e]] = e /\ body[known[d]] = d BY <1>2, <2>1, <3>1
    <3> QED BY <2>2, <3>2
  <2> QED BY <1>2, <2>2 DEF IInv, TypeOK
<1>5. TypeOK'
  <2>1. live' \subseteq 1..created /\ tracked' \subseteq ContractId /\ UNCHANGED created
    BY <1>1, <1>2 DEF IInv, TypeOK
  <2>2. Elements(contracts)' = Elements(contracts) BY <1>2 DEF Elements
  <2> QED BY <1>1, <1>2, <2>1, <2>2 DEF IInv, TypeOK
<1>6. DOMAIN contracts = {} BY <1>2, EmptyCall DEF IInv, Prepares
<1>7. Prepares' /\ Made' BY <1>2, <1>6 DEF IInv, Prepares, Made
<1>8. Recorded'
  <2>1. \A e \in Dl : RecordOf(e)'
    <3>1. RecordOf(d)' BY <1>2, <1>3, <1>1 DEF IInv, TypeOK, RecordOf
    <3>2. ASSUME NEW e \in Dl \ {d} PROVE RecordOf(e)'
      BY <1>1, <1>2, <1>3, <1>4 DEF IInv, Recorded, RecordOf
    <3> QED BY <3>1, <3>2
  <2>2. TrackedIsKnown' BY <1>2, <1>4 DEF IInv, TypeOK, Recorded, TrackedIsKnown
  <2> QED BY <2>1, <2>2 DEF Recorded
<1>9. Missing' BY <1>2 DEF IInv, Missing, Elements
<1>10. Kept'
  <2>1. InHand = {} /\ InHand' = {} BY <1>2 DEF InHand
  <2> QED BY <1>1, <1>2, <1>4, <2>1 DEF IInv, Kept, Unseen
<1> QED BY <1>5, <1>7, <1>8, <1>9, <1>10 DEF IInv

(***************************************************************************)
(* A call begins, and its batch is prepared.                               *)
(***************************************************************************)

LEMMA NoContractsYet ==
  ASSUME IInv, pc \in {"idle", "prepare", "create"}
  PROVE  DOMAIN contracts = {} /\ failedContracts = {} /\ InHand = {}
<1>1. DOMAIN contracts = {} /\ Elements(contracts) = {} BY EmptyCall DEF IInv, Prepares
<1> QED BY <1>1 DEF IInv, TypeOK, InHand

LEMMA CallStep ==
  ASSUME IInv, NEW S \in SUBSET Dl, NEW T \in SUBSET S, Call(S, T) PROVE IInv'
<1>1. /\ pc = "idle" /\ pc' = "prepare" /\ batch' = S /\ todo' = T /\ outcome' = "none"
      /\ multiErr' \in BOOLEAN /\ (T # S => multiErr') /\ \A d \in S : known[d] = NoId
      /\ UNCHANGED <<created, live, body, stored, known, tracked, contractsData, deploymentsSlice,
                     contracts, worker, ids, failedContracts, leaked>>
  BY DEF Call, Goto, chain, caller
<1>2. DOMAIN deploymentsSlice = {} /\ Elements(deploymentsSlice) = {}
  BY <1>1, EmptyCall DEF IInv, Prepares
<1>3. DOMAIN contracts = {} /\ failedContracts = {} /\ InHand = {} BY <1>1, NoContractsYet
<1>4. TypeOK' BY <1>1 DEF IInv, TypeOK, Elements
<1>5. Prepares' BY <1>1, <1>2 DEF IInv, Prepares
<1>6. Made' BY <1>1, <1>3 DEF Made
<1>7. Recorded' BY <1>1 DEF IInv, Recorded, RecordOf, TrackedIsKnown
<1>8. Missing'
  <2>1. Elements(deploymentsSlice)' = {} BY <1>1, <1>2 DEF Elements
  <2> QED BY <1>1, <1>3, <2>1 DEF Missing
<1>9. Kept' BY <1>1, <1>3 DEF IInv, Kept, Unseen, InHand
<1> QED BY <1>4, <1>5, <1>6, <1>7, <1>8, <1>9 DEF IInv

LEMMA PrepareStep == ASSUME IInv, NEW d \in Dl, Prepare(d) PROVE IInv'
<1> DEFINE n == Len(deploymentsSlice) + 1
<1>1. /\ pc = "prepare" /\ d \in todo /\ todo' = todo \ {d}
      /\ contractsData' = Append(contractsData, d)
      /\ deploymentsSlice' = Append(deploymentsSlice, d)
      /\ UNCHANGED <<created, live, body, stored, known, tracked, pc, batch, contracts, worker, ids,
                     failedContracts, multiErr, outcome, leaked>>
  BY DEF Prepare, chain, caller
<1>2. contractsData = deploymentsSlice /\ deploymentsSlice \in Seq(Dl)
  BY DEF IInv, TypeOK, Prepares
<1>3. /\ deploymentsSlice' \in Seq(Dl) /\ Len(deploymentsSlice') = n
      /\ DOMAIN deploymentsSlice' = 1..n /\ DOMAIN deploymentsSlice = 1..(n - 1) /\ n \in Nat \ {0}
      /\ deploymentsSlice'[n] = d
      /\ \A i \in 1..(n - 1) : deploymentsSlice'[i] = deploymentsSlice[i]
  <2>1. Len(deploymentsSlice) \in Nat /\ DOMAIN deploymentsSlice = 1..Len(deploymentsSlice)
    BY <1>2, LenProperties
  <2>2. deploymentsSlice' \in Seq(Dl) /\ Len(deploymentsSlice') = n
    BY <1>1, <1>2, AppendProperties
  <2>3. DOMAIN deploymentsSlice' = 1..n BY <2>2, LenProperties
  <2> QED BY <1>1, <1>2, <2>1, <2>2, <2>3, AppendProperties
<1> HIDE DEF n
<1>4. DOMAIN contracts = {} /\ failedContracts = {} /\ InHand = {} BY <1>1, NoContractsYet
<1>5. TypeOK'
  <2>1. contractsData' \in Seq(Dl) /\ todo' \subseteq batch
    BY <1>1, <1>2, <1>3 DEF IInv, TypeOK
  <2>2. Len(contracts) <= Len(deploymentsSlice')
    <3>1. Len(contracts) \in Nat /\ Len(contracts) <= Len(deploymentsSlice)
          /\ Len(deploymentsSlice) \in Nat
      BY SlicesType DEF IInv, TypeOK
    <3> QED BY <1>3, <3>1 DEF n
  <2> QED BY <1>1, <1>3, <2>1, <2>2 DEF IInv, TypeOK, Elements
<1>6. Prepares'
  <2>1. \A i \in 1..(n - 1) : deploymentsSlice[i] \in batch \ todo
    BY <1>3 DEF IInv, Prepares
  <2>2. d \in batch BY <1>1 DEF IInv, TypeOK
  <2>3. \A i \in 1..n : deploymentsSlice'[i] \in batch \ todo'
    BY <1>1, <1>3, <2>1, <2>2
  <2>4. \A i, j \in 1..n : deploymentsSlice'[i] = deploymentsSlice'[j] => i = j
    <3>1. \A i, j \in 1..(n - 1) : deploymentsSlice[i] = deploymentsSlice[j] => i = j
      BY <1>3 DEF IInv, Prepares
    <3>2. \A i \in 1..(n - 1) : deploymentsSlice[i] # d BY <1>1, <2>1
    <3>3. \A i \in 1..n : i # n => i \in 1..(n - 1) BY <1>3
    <3> QED BY <1>3, <3>1, <3>2, <3>3
  <2> QED BY <1>1, <1>2, <1>3, <2>3, <2>4 DEF IInv, Prepares
<1>7. Made' BY <1>1, <1>4 DEF Made
<1>8. Recorded' BY <1>1 DEF IInv, Recorded, RecordOf, TrackedIsKnown
<1>9. Missing'
  <2>1. Elements(deploymentsSlice') = Elements(deploymentsSlice) \cup {d}
    <3>1. \A i \in 1..n : i # n => i \in 1..(n - 1) BY <1>3
    <3>2. n \in 1..n /\ 1..(n - 1) \subseteq 1..n BY <1>3
    <3> QED BY <1>3, <3>1, <3>2 DEF Elements
  <2> QED BY <1>1, <1>4, <2>1 DEF IInv, Missing
<1>10. Kept' BY <1>1 DEF IInv, Kept, Unseen, InHand
<1> QED BY <1>5, <1>6, <1>7, <1>8, <1>9, <1>10 DEF IInv

LEMMA PreparedStep == ASSUME IInv, Prepared PROVE IInv'
<1>1. /\ pc = "prepare" /\ pc' = "create" /\ todo = {}
      /\ UNCHANGED <<created, live, body, stored, known, tracked, batch, todo, contractsData,
                     deploymentsSlice, contracts, worker, ids, failedContracts, multiErr, outcome,
                     leaked>>
  BY DEF Prepared, Goto, chain, caller, call
<1>2. DOMAIN contracts = {} /\ failedContracts = {} /\ InHand = {} BY <1>1, NoContractsYet
<1>3. TypeOK' BY <1>1 DEF IInv, TypeOK, Elements
<1>4. Prepares' BY <1>1 DEF IInv, Prepares
<1>5. Made' BY <1>1, <1>2 DEF Made
<1>6. Recorded' BY <1>1 DEF IInv, Recorded, RecordOf, TrackedIsKnown
<1>7. Missing' BY <1>1, <1>2 DEF IInv, Missing, Elements
<1>8. Kept' BY <1>1 DEF IInv, Kept, Unseen, InHand
<1> QED BY <1>3, <1>4, <1>5, <1>6, <1>7, <1>8 DEF IInv

LEMMA PrepareFailsStep == ASSUME BoundAssumption, IInv, PrepareFails PROVE IInv'
<1>1. /\ pc = "prepare" /\ Over(TRUE)
      /\ UNCHANGED <<created, live, body, stored, known, tracked, leaked>>
  BY DEF PrepareFails, chain, caller
<1>2. InHand = {} BY <1>1, NoContractsYet
<1>3. Recorded' BY <1>1 DEF IInv, Recorded, RecordOf, TrackedIsKnown, Over
<1>4. Unseen' \subseteq {known'[d] : d \in Dl} BY <1>1, <1>2 DEF IInv, Kept, Unseen
<1> QED BY <1>1, <1>3, <1>4, OverStep DEF IInv, TypeOK

(***************************************************************************)
(* The contracts are created.                                              *)
(***************************************************************************)

LEMMA NewContractsType ==
  ASSUME BoundAssumption, IInv, NEW k \in 0..Len(contractsData), NewContracts(k)
  PROVE  /\ k \in Nat /\ created \in Nat /\ created' = created + k /\ created' \in 0..MaxContracts
         /\ live' = live \cup (created + 1)..created' /\ live' \subseteq 1..created'
         /\ 1..created \subseteq 1..created' /\ 1..created \subseteq ContractId
         /\ (1..created) \cap ((created + 1)..created') = {}
         /\ (created + 1)..created' \subseteq ContractId /\ (created + 1)..created' \subseteq 1..created'
         /\ body' \in [ContractId -> Dl \cup {None}]
         /\ \A c \in 1..created : body'[c] = body[c]
         /\ \A i \in 1..k : created + i \in (created + 1)..created'
                            /\ body'[created + i] = contractsData[i]
<1>1. k \in Nat /\ Len(contractsData) \in Nat BY SlicesType DEF IInv
<1>2. /\ created \in Nat /\ created' = created + k /\ created' \in 0..MaxContracts
      /\ live' = live \cup (created + 1)..created'
      /\ body' = [c \in ContractId |->
                    IF c \in (created + 1)..created' THEN contractsData[c - created] ELSE body[c]]
  BY <1>1 DEF IInv, TypeOK, BoundAssumption, NewContracts
<1>3. /\ 1..created \subseteq 1..created' /\ 1..created \subseteq ContractId
      /\ (1..created) \cap ((created + 1)..created') = {}
      /\ (created + 1)..created' \subseteq ContractId /\ (created + 1)..created' \subseteq 1..created'
  BY <1>1, <1>2 DEF BoundAssumption, ContractId
<1>4. live' \subseteq 1..created' BY <1>2, <1>3 DEF IInv, TypeOK
<1>5. \A c \in (created + 1)..created' : contractsData[c - created] \in Dl
  <2> SUFFICES ASSUME NEW c \in (created + 1)..created' PROVE contractsData[c - created] \in Dl
    OBVIOUS
  <2>1. c - created \in 1..Len(contractsData) BY <1>1, <1>2
  <2> QED BY <2>1, ElementOfSeq DEF IInv, TypeOK
<1>6. body' \in [ContractId -> Dl \cup {None}] BY <1>2, <1>5 DEF IInv, TypeOK
<1>7. \A c \in 1..created : body'[c] = body[c] BY <1>2, <1>3
<1>8. ASSUME NEW i \in 1..k
      PROVE  created + i \in (created + 1)..created' /\ body'[created + i] = contractsData[i]
  <2>1. created + i \in (created + 1)..created' /\ created + i - created = i BY <1>1, <1>2
  <2> QED BY <1>2, <1>3, <2>1
<1> QED BY <1>1, <1>2, <1>3, <1>4, <1>6, <1>7, <1>8

(* Contracts the caller knows are older than those just created.           *)
LEMMA NewIsUnknown ==
  ASSUME BoundAssumption, IInv, NEW k \in 0..Len(contractsData), NewContracts(k)
  PROVE  \A d \in Dl : /\ known[d] \notin (created + 1)..created'
                       /\ known[d] \in live' => known[d] \in live
                       /\ known[d] # NoId => body'[known[d]] = d /\ known[d] \in 1..created'
<1> SUFFICES ASSUME NEW d \in Dl
             PROVE  /\ known[d] \notin (created + 1)..created'
                    /\ known[d] \in live' => known[d] \in live
                    /\ known[d] # NoId => body'[known[d]] = d /\ known[d] \in 1..created'
  OBVIOUS
<1>1. known[d] # NoId => known[d] \in 1..created /\ body[known[d]] = d
  BY DEF IInv, Recorded, RecordOf
<1>2. created \in Nat /\ NoId \notin (created + 1)..created' BY NewContractsType DEF NoId
<1> QED BY <1>1, <1>2, NewContractsType

LEMMA CreateFailsStep ==
  ASSUME BoundAssumption, IInv, NEW k, CreateContractsFails(k) PROVE IInv'
<1>1. /\ pc = "create" /\ k \in 0..Len(contractsData) /\ NewContracts(k) /\ Over(TRUE)
      /\ leaked' = leaked \cup (created + 1)..created'
      /\ UNCHANGED <<stored, known, tracked>>
  BY DEF CreateContractsFails, caller
<1>2. InHand = {} BY <1>1, NoContractsYet
<1>3. Recorded'
  <2>1. \A d \in Dl : RecordOf(d)'
    BY <1>1, NewIsUnknown DEF IInv, Recorded, RecordOf, Over
  <2> QED BY <1>1, <2>1 DEF IInv, Recorded, TrackedIsKnown
<1>4. Unseen' \subseteq {known'[d] : d \in Dl}
  BY <1>1, <1>2, NewContractsType DEF IInv, Kept, Unseen
<1>5. /\ created' \in 0..MaxContracts /\ live' \subseteq 1..created' /\ leaked' \subseteq 1..created'
      /\ body' \in [ContractId -> Dl \cup {None}]
  BY <1>1, NewContractsType DEF IInv, TypeOK
<1> QED BY <1>1, <1>3, <1>4, <1>5, OverStep DEF IInv, TypeOK

LEMMA CreateStep ==
  ASSUME BoundAssumption, IInv, NEW k, CreateContracts(k) PROVE IInv'
<1>1. /\ pc = "create" /\ pc' = "work" /\ k \in 0..Len(contractsData) /\ NewContracts(k)
      /\ contracts' = [i \in 1..k |-> created + i]
      /\ worker' = [i \in 1..k |-> "send"] /\ ids' = [i \in 1..k |-> NoId]
      /\ multiErr' = (multiErr \/ k < Len(contractsData))
      /\ UNCHANGED <<stored, known, tracked, batch, todo, contractsData, deploymentsSlice,
                     failedContracts, outcome, leaked>>
  BY DEF CreateContracts, Goto, caller
<1>2. DOMAIN contracts = {} /\ failedContracts = {} /\ InHand = {} BY <1>1, NoContractsYet
<1>3. contractsData = deploymentsSlice /\ todo = {} BY <1>1 DEF IInv, Prepares
<1>4. k \in Nat /\ contracts' \in [1..k -> ContractId]
      /\ \A i \in 1..k : contracts'[i] \in (created + 1)..created'
  BY <1>1, NewContractsType
<1>5. contracts' \in Seq(ContractId) /\ Len(contracts') = k /\ DOMAIN contracts' = 1..k
  BY <1>4, FunctionIsSeq
<1>6. TypeOK'
  <2>1. Len(contracts') <= Len(deploymentsSlice') BY <1>1, <1>3, <1>5, SlicesType DEF IInv
  <2>2. worker' \in [DOMAIN contracts' -> {"send", "wait", "ok", "failed"}]
        /\ ids' \in [DOMAIN contracts' -> ContractId \cup {NoId}]
    BY <1>1, <1>5
  <2>3. /\ created' \in 0..MaxContracts /\ live' \subseteq 1..created' /\ leaked' \subseteq 1..created'
        /\ body' \in [ContractId -> Dl \cup {None}]
    BY <1>1, NewContractsType DEF IInv, TypeOK
  <2>4. multiErr' \in BOOLEAN BY <1>1 DEF IInv, TypeOK
  <2> QED BY <1>1, <1>2, <1>5, <2>1, <2>2, <2>3, <2>4 DEF IInv, TypeOK
<1>7. Prepares' BY <1>1 DEF IInv, Prepares
<1>8. Made'
  <2> SUFFICES ASSUME NEW i \in 1..k PROVE ContractOf(i)' BY <1>5 DEF Made
  <2>1. /\ contracts'[i] = created + i /\ worker'[i] = "send" /\ ids'[i] = NoId BY <1>1
  <2>2. created + i \in 1..created' /\ body'[created + i] = deploymentsSlice[i]
    BY <1>1, <1>3, NewContractsType
  <2>3. \A d \in Dl : known[d] # created + i BY <1>1, NewContractsType, NewIsUnknown
  <2> QED BY <1>1, <1>2, <2>1, <2>2, <2>3 DEF ContractOf
<1>9. Recorded'
  <2>1. \A d \in Dl : RecordOf(d)'
    BY <1>1, NewIsUnknown DEF IInv, Recorded, RecordOf
  <2> QED BY <1>1, <2>1 DEF IInv, Recorded, TrackedIsKnown
<1>10. Missing'
  <2>1. ~multiErr' => k = Len(deploymentsSlice)
    <3>1. ~multiErr' => ~(k < Len(contractsData)) BY <1>1
    <3>2. k <= Len(contractsData) /\ Len(contractsData) \in Nat /\ k \in Nat
      BY <1>1, <1>4, SlicesType DEF IInv
    <3> QED BY <1>3, <3>1, <3>2
  <2>2. ~multiErr' => DOMAIN contracts' = DOMAIN deploymentsSlice' BY <1>1, <1>5, <2>1, SlicesType DEF IInv
  <2> QED BY <1>1, <1>2, <2>2 DEF IInv, Missing, Elements
<1>11. Kept'
  <2>1. (created + 1)..created' \subseteq Elements(contracts')
    <3> SUFFICES ASSUME NEW c \in (created + 1)..created' PROVE c \in Elements(contracts') OBVIOUS
    <3>1. c - created \in 1..k /\ created + (c - created) = c BY <1>1, NewContractsType
    <3> QED BY <1>1, <1>5, <3>1 DEF Elements
  <2>2. InHand' = Elements(contracts') BY <1>1 DEF InHand
  <2>3. Unseen' \subseteq Unseen \cup (created + 1)..created'
    BY <1>1, NewContractsType DEF Unseen
  <2> QED BY <1>1, <1>2, <2>1, <2>2, <2>3 DEF IInv, Kept
<1> QED BY <1>6, <1>7, <1>8, <1>9, <1>10, <1>11 DEF IInv

(***************************************************************************)
(* The call ends.                                                          *)
(***************************************************************************)

LEMMA DoneStep == ASSUME IInv, WorkDone \/ UNCHANGED vars PROVE IInv'
<1>1. CASE WorkDone
  <2>1. /\ pc = "work" /\ pc' \in {"cancel", "update"}
        /\ pc' = "update" => failedContracts = {}
        /\ \A i \in DOMAIN worker : worker[i] \in {"ok", "failed"}
        /\ UNCHANGED <<created, live, body, stored, known, tracked, batch, todo, contractsData,
                       deploymentsSlice, contracts, worker, ids, failedContracts, multiErr,
                       outcome, leaked>>
    BY <1>1 DEF WorkDone, chain, caller, call
  <2>2. TypeOK' BY <2>1 DEF IInv, TypeOK, Elements
  <2>3. Prepares' BY <2>1 DEF IInv, Prepares
  <2>4. Made' BY <2>1 DEF IInv, Made, ContractOf
  <2>5. Recorded' BY <2>1 DEF IInv, Recorded, RecordOf, TrackedIsKnown
  <2>6. Missing' BY <2>1 DEF IInv, Missing, Elements
  <2>7. Kept' BY <2>1 DEF IInv, Kept, Unseen, InHand, Elements
  <2> QED BY <2>2, <2>3, <2>4, <2>5, <2>6, <2>7 DEF IInv
<1>2. CASE UNCHANGED vars
  BY <1>2 DEF IInv, TypeOK, Prepares, Made, ContractOf, Recorded, RecordOf, TrackedIsKnown, Missing,
              Kept, Unseen, InHand, Elements, vars, chain, caller, call
<1> QED BY <1>1, <1>2

(* The deployment at a position is found there.                            *)
LEMMA IndexIs ==
  ASSUME IInv, NEW i \in DOMAIN ids
  PROVE  Index(deploymentsSlice[i]) = i /\ deploymentsSlice[i] \in batch
<1>1. \A j \in DOMAIN ids : deploymentsSlice[j] = deploymentsSlice[i] => j = i
  BY SlicesType DEF IInv, Prepares
<1>2. deploymentsSlice[i] \in batch BY SlicesType DEF IInv, Prepares
<1> QED BY <1>1, <1>2 DEF Index

(* What updateState records: the contracts whose goroutines were content.  *)
LEMMA UpdateStateKnown ==
  ASSUME IInv, updateState, NEW d \in Dl
  PROVE  \/ /\ known'[d] = known[d]
            /\ ~\E i \in DOMAIN ids : deploymentsSlice[i] = d /\ worker[i] = "ok"
         \/ \E i \in DOMAIN contracts : /\ deploymentsSlice[i] = d /\ worker[i] = "ok"
                                        /\ known'[d] = contracts[i] /\ known[d] = NoId
<1>1. known'[d] = IF d \in batch /\ Got(d) THEN ids[Index(d)] ELSE known[d]
  BY DEF updateState
<1>2. \A i \in DOMAIN ids : ContractOf(i) /\ contracts[i] \in ContractId
  BY SlicesType DEF IInv, Made
<1>3. CASE d \in batch /\ Got(d)
  <2>1. PICK i \in DOMAIN ids : deploymentsSlice[i] = d BY <1>3 DEF Got
  <2>2. Index(d) = i /\ ids[i] # NoId BY <1>3, <2>1, IndexIs DEF Got
  <2>3. ids[i] = contracts[i] /\ worker[i] = "ok" BY <1>2, <2>2 DEF ContractOf
  <2>4. known[d] = NoId BY <1>3 DEF IInv, Recorded, RecordOf, updateState
  <2> QED BY <1>1, <1>3, <2>1, <2>2, <2>3, <2>4, SlicesType DEF IInv
<1>4. CASE ~(d \in batch /\ Got(d))
  <2>1. ASSUME NEW i \in DOMAIN ids, deploymentsSlice[i] = d, worker[i] = "ok" PROVE FALSE
    <3>1. Index(d) = i /\ d \in batch BY <2>1, IndexIs
    <3>2. ids[i] = contracts[i] /\ contracts[i] # NoId
      BY <1>2, <2>1 DEF ContractOf, ContractId, NoId
    <3> QED BY <1>4, <2>1, <3>1, <3>2 DEF Got
  <2> QED BY <1>1, <1>4, <2>1
<1> QED BY <1>3, <1>4

LEMMA UpdateStateStep == ASSUME BoundAssumption, IInv, updateState PROVE IInv'
<1>1. /\ pc = "update" /\ tracked' = tracked \cup (Elements(ids) \ {NoId}) /\ Over(multiErr)
      /\ UNCHANGED <<created, live, body, stored, leaked>>
  BY DEF updateState, chain
<1>2. \A i \in DOMAIN contracts : ContractOf(i) /\ contracts[i] \in ContractId /\ deploymentsSlice[i] \in Dl
  BY SlicesType DEF IInv, Made
<1>3. DOMAIN ids = DOMAIN contracts /\ DOMAIN worker = DOMAIN contracts BY SlicesType DEF IInv
<1>4. known' \in [Dl -> ContractId \cup {NoId}]
  <2>1. \A d \in Dl : known'[d] \in ContractId \cup {NoId}
    BY <1>2, UpdateStateKnown DEF IInv, TypeOK
  <2>2. known' = [d \in Dl |-> known'[d]] BY DEF updateState
  <2> QED BY <2>1, <2>2
<1>5. \A d \in Dl : RecordOf(d)'
  <2> SUFFICES ASSUME NEW d \in Dl PROVE RecordOf(d)' OBVIOUS
  <2>1. RecordOf(d) BY DEF IInv, Recorded
  <2>2. CASE known'[d] = known[d] BY <1>1, <2>1, <2>2 DEF RecordOf, Over
  <2>3. CASE \E i \in DOMAIN contracts :
               deploymentsSlice[i] = d /\ worker[i] = "ok" /\ known'[d] = contracts[i]
    <3>1. PICK i \in DOMAIN contracts :
            deploymentsSlice[i] = d /\ worker[i] = "ok" /\ known'[d] = contracts[i]
      BY <2>3
    <3>2. /\ contracts[i] \in 1..created /\ body[contracts[i]] = d
          /\ contracts[i] \in live => stored[contracts[i]] = d
      BY <1>2, <3>1 DEF ContractOf
    <3> QED BY <1>1, <3>1, <3>2 DEF RecordOf, Over
  <2> QED BY <2>2, <2>3, UpdateStateKnown
<1>6. TrackedIsKnown'
  <2>1. \A c \in Elements(ids) \ {NoId} : \E d \in Dl : known'[d] = c
    <3> SUFFICES ASSUME NEW i \in DOMAIN ids, ids[i] # NoId PROVE \E d \in Dl : known'[d] = ids[i]
      BY DEF Elements
    <3>1. worker[i] = "ok" /\ ids[i] = contracts[i] BY <1>2, <1>3 DEF ContractOf
    <3>2. deploymentsSlice[i] \in Dl BY <1>2, <1>3
    <3>3. \A j \in DOMAIN contracts : deploymentsSlice[j] = deploymentsSlice[i] => j = i
      BY SlicesType, <1>3 DEF IInv, Prepares
    <3>4. known'[deploymentsSlice[i]] = contracts[i]
      BY <3>1, <3>2, <3>3, UpdateStateKnown
    <3> QED BY <3>1, <3>2, <3>4
  <2>2. \A d \in Dl : known[d] # NoId => known'[d] = known[d] BY UpdateStateKnown
  <2>3. \A d \in Dl : known'[d] # known[d] => known'[d] \in Elements(ids)
    <3> SUFFICES ASSUME NEW d \in Dl, known'[d] # known[d] PROVE known'[d] \in Elements(ids)
      OBVIOUS
    <3>1. PICK i \in DOMAIN contracts : worker[i] = "ok" /\ known'[d] = contracts[i]
      BY UpdateStateKnown
    <3>2. ids[i] = contracts[i] BY <1>2, <3>1 DEF ContractOf
    <3> QED BY <1>3, <3>1, <3>2 DEF Elements
  <2>4. tracked = {known[d] : d \in Dl} \ {NoId} BY DEF IInv, Recorded, TrackedIsKnown
  <2> QED BY <1>1, <2>1, <2>2, <2>3, <2>4 DEF TrackedIsKnown
<1>7. Unseen' \subseteq {known'[d] : d \in Dl}
  <2> SUFFICES ASSUME NEW c \in Unseen PROVE \E d \in Dl : known'[d] = c BY <1>1 DEF Unseen
  <2>1. c # NoId BY DEF Unseen, IInv, TypeOK, BoundAssumption, NoId
  <2>2. CASE \E d \in Dl : known[d] = c
    BY <2>1, <2>2, UpdateStateKnown
  <2>3. CASE c \in Elements(contracts)
    <3>1. PICK i \in DOMAIN contracts : contracts[i] = c BY <2>3 DEF Elements
    <3>2. worker[i] # "failed" BY <1>1, <1>2, <3>1 DEF IInv, Kept, ContractOf
    <3>3. worker[i] = "ok" BY <1>1, <1>3, <3>2 DEF IInv, Missing
    <3>4. \A j \in DOMAIN contracts : deploymentsSlice[j] = deploymentsSlice[i] => j = i
      BY SlicesType DEF IInv, Prepares
    <3>5. known'[deploymentsSlice[i]] = c
      BY <1>2, <1>3, <3>1, <3>3, <3>4, UpdateStateKnown
    <3> QED BY <1>2, <3>5
  <2> QED BY <2>2, <2>3 DEF IInv, Kept, InHand
<1>8. tracked' \subseteq ContractId
  BY <1>1, <1>3 DEF IInv, TypeOK, Elements
<1> QED BY <1>1, <1>4, <1>5, <1>6, <1>7, <1>8, OverStep DEF IInv, TypeOK, Recorded

LEMMA NextStep == BoundAssumption /\ IInv /\ [Next]_vars => IInv'
<1> SUFFICES ASSUME BoundAssumption, IInv, [Next]_vars PROVE IInv' OBVIOUS
<1>1. CASE Deploy
  BY <1>1, PrepareStep, PrepareFailsStep, PreparedStep, CreateStep, CreateFailsStep, WorkStep, DoneStep,
     EndsStep, UpdateStateStep DEF Deploy
<1> QED BY <1>1, CallStep, CancelStep, EndsStep, DoneStep DEF Next
-----------------------------------------------------------------------------
(* BatchDeploy pairs contracts, deployments and goroutines correctly at    *)
(* every step, for any batch and wherever it breaks off.                   *)
THEOREM Invariance == BoundAssumption => (Spec => []IInv)
<1> SUFFICES ASSUME BoundAssumption PROVE Spec => []IInv OBVIOUS
<1>1. Init => IInv BY InitIInv
<1>2. IInv /\ [Next]_vars => IInv' BY NextStep
<1> QED BY <1>1, <1>2, PTL DEF Spec

(* Every state is one of BatchDeploy's: its slices have the lengths its    *)
(* indices need, and its contracts are contracts of the chain.             *)
THEOREM TypeCorrect == BoundAssumption => (Spec => []TypeOK)
<1> SUFFICES ASSUME BoundAssumption PROVE Spec => []TypeOK OBVIOUS
<1>1. IInv => TypeOK BY DEF IInv
<1> QED BY <1>1, Invariance, PTL

LEMMA OwnRecord == ASSUME BoundAssumption, IInv PROVE IdIsOwn /\ TrackedIsKnown
<1>1. ASSUME NEW d \in Dl, known[d] \in live PROVE body[known[d]] = d /\ stored[known[d]] = d
  <2>1. known[d] # NoId BY <1>1 DEF IInv, TypeOK, BoundAssumption, NoId
  <2> QED BY <1>1, <2>1 DEF IInv, Recorded, RecordOf
<1> QED BY <1>1 DEF IdIsOwn, IInv, Recorded

(* The ContractID that a deployment is left with is the contract made for  *)
(* that deployment, under which its node took it.                          *)
THEOREM IdsAreOwn == BoundAssumption => (Spec => []IdIsOwn)
<1> SUFFICES ASSUME BoundAssumption PROVE Spec => []IdIsOwn OBVIOUS
<1>1. IInv => IdIsOwn BY OwnRecord
<1> QED BY <1>1, Invariance, PTL

(* The plugin's state lists exactly the contracts of the caller's          *)
(* deployments.                                                            *)
THEOREM TrackedExact == BoundAssumption => (Spec => []TrackedIsKnown)
<1> SUFFICES ASSUME BoundAssumption PROVE Spec => []TrackedIsKnown OBVIOUS
<1>1. IInv => TrackedIsKnown BY OwnRecord
<1> QED BY <1>1, Invariance, PTL
-----------------------------------------------------------------------------
(* A call without an error. *)

(* Only the update of the state ends a call without an error. *)
LEMMA OkIsUpdate ==
  ASSUME IInv, [Next]_vars, pc # "idle", pc' = "idle", outcome' = "ok"
  PROVE  updateState /\ ~multiErr
<1>1. Deploy
  BY DEF Next, Call, Goto, Cancel, CancelFails, ContractEnds, vars
<1>2. ASSUME NEW d \in Dl, Prepare(d) PROVE FALSE BY <1>2 DEF Prepare
<1>3. ASSUME NEW i \in DOMAIN worker,
             DeploymentDeploy(i) \/ DeploymentDeployFails(i) \/ Wait(i) \/ WaitFails(i)
      PROVE  FALSE
  BY <1>3 DEF DeploymentDeploy, DeploymentDeployFails, Wait, WaitFails
<1>4. ASSUME NEW k, CreateContracts(k) \/ CreateContractsFails(k) PROVE FALSE
  BY <1>4 DEF CreateContracts, CreateContractsFails, Over, Goto
<1>5. ~(PrepareFails \/ Prepared \/ WorkDone \/ BatchCancel \/ BatchCancelFails)
  BY DEF PrepareFails, Prepared, WorkDone, BatchCancel, BatchCancelFails, Over, Goto
<1>6. updateState BY <1>1, <1>2, <1>3, <1>4, <1>5 DEF Deploy
<1> QED BY <1>6 DEF updateState, Over, IInv, TypeOK

(* A batch without an error has all its deployments created, and the       *)
(* goroutine of each has seen its node take it.                            *)
LEMMA OkIsAll ==
  ASSUME BoundAssumption, IInv, updateState, ~multiErr, NEW d \in batch PROVE known'[d] # NoId
<1>1. pc = "update" BY DEF updateState
<1>2. d \in Elements(deploymentsSlice) BY <1>1 DEF IInv, Missing, Prepares
<1>3. PICK i \in DOMAIN deploymentsSlice : deploymentsSlice[i] = d BY <1>2 DEF Elements
<1>4. i \in DOMAIN contracts BY <1>1, <1>3 DEF IInv, Missing
<1>5. worker[i] = "ok"
  <2>1. failedContracts = {} BY DEF IInv, Missing
  <2>2. worker[i] # "failed" BY <1>4, <2>1 DEF IInv, Made, ContractOf
  <2> QED BY <1>1, <1>4, <2>2, SlicesType DEF IInv, Missing
<1>6. contracts[i] # NoId BY <1>4, SlicesType DEF IInv, BoundAssumption, ContractId, NoId
<1>7. d \in Dl BY DEF IInv, TypeOK
<1>8. \A j \in DOMAIN contracts : deploymentsSlice[j] = deploymentsSlice[i] => j = i
  BY <1>3, SlicesType DEF IInv, Prepares
<1>9. known'[d] = contracts[i]
  <2>1. DOMAIN ids = DOMAIN contracts BY SlicesType DEF IInv
  <2> QED BY <1>3, <1>4, <1>5, <1>7, <1>8, <2>1, UpdateStateKnown
<1> QED BY <1>6, <1>9

(* A caller that retries on errors only misses nothing: a call without an  *)
(* error leaves every deployment of its batch with a contract.             *)
THEOREM OkIsComplete == BoundAssumption => (Spec => OkMeansAll)
<1> SUFFICES ASSUME BoundAssumption PROVE Spec => OkMeansAll OBVIOUS
<1>1. IInv /\ [Next]_vars => OkStep BY OkIsUpdate, OkIsAll DEF OkStep
<1> QED BY <1>1, Invariance, PTL DEF Spec, OkMeansAll
-----------------------------------------------------------------------------
(* The refinement of ContractLedger.  By the invariant what is held is     *)
(* what is live and not reported, so a step matters only for what it does  *)
(* to the chain's contracts and to leaked.                                 *)

LEMMA HeldIsUnseen == ASSUME IInv PROVE Held = Unseen BY DEF IInv, Kept, Held, Unseen

Ends(S) == /\ live' = live \ S /\ UNCHANGED <<created, leaked>>
Opens(k) ==
  /\ created' = created + k /\ created' <= MaxContracts
  /\ live' = live \cup (created + 1)..created'
  /\ leaked' = leaked \/ leaked' = leaked \cup (created + 1)..created'
Reports(T) ==
  /\ live' = live \ T /\ leaked' = leaked \cup failedContracts /\ UNCHANGED created
Silent == UNCHANGED <<created, live, leaked>>

LEMMA StepKinds ==
  ASSUME IInv, [Next]_vars
  PROVE  \/ Silent \/ \E S \in SUBSET ContractId : Ends(S)
         \/ \E k \in Nat : Opens(k)
         \/ \E T \in SUBSET failedContracts : Reports(T)
<1>0. /\ \A d \in Dl : known[d] # NoId => known[d] \in ContractId
      /\ failedContracts \subseteq ContractId
  BY SlicesType DEF IInv, TypeOK, Elements
<1> USE DEF chain
<1>1. CASE \E S \in SUBSET Dl : \E T \in SUBSET S : Call(S, T)
  BY <1>1 DEF Call, Silent
<1>2. ASSUME NEW d \in Dl, Cancel(d) \/ CancelFails(d) PROVE \E S \in SUBSET ContractId : Ends(S)
  <2>1. {known[d]} \in SUBSET ContractId BY <1>0, <1>2 DEF Cancel, CancelFails
  <2>2. Ends({known[d]}) BY <1>2 DEF Cancel, CancelFails, Ended, Ends
  <2> QED BY <2>1, <2>2
<1>3. CASE \E c \in ContractId : ContractEnds(c)
  <2>1. PICK c \in ContractId : ContractEnds(c) BY <1>3
  <2> QED BY <2>1 DEF ContractEnds, Ended, Ends
<1>4. CASE \/ \E d \in Dl : Prepare(d)
           \/ PrepareFails \/ Prepared \/ WorkDone \/ updateState \/ UNCHANGED vars
  BY <1>4 DEF Prepare, PrepareFails, Prepared, WorkDone, updateState, vars, Silent
<1>5. ASSUME NEW i \in DOMAIN worker,
             DeploymentDeploy(i) \/ DeploymentDeployFails(i) \/ Wait(i) \/ WaitFails(i)
      PROVE  Silent
  BY <1>5 DEF DeploymentDeploy, DeploymentDeployFails, Wait, WaitFails, Silent
<1>6. ASSUME NEW k \in 0..Cardinality(Dl), CreateContracts(k) \/ CreateContractsFails(k)
      PROVE  \E n \in Nat : Opens(n)
  <2>1. k \in Nat BY <1>6, SlicesType DEF IInv, CreateContracts, CreateContractsFails
  <2>2. /\ created' = created + k /\ created + k <= MaxContracts
        /\ live' = live \cup (created + 1)..created'
    BY <1>6 DEF CreateContracts, CreateContractsFails, NewContracts
  <2>3. leaked' = leaked \/ leaked' = leaked \cup (created + 1)..created'
    BY <1>6 DEF CreateContracts, CreateContractsFails
  <2> QED BY <2>1, <2>2, <2>3 DEF Opens
<1>7. CASE BatchCancel
  <2>1. Ends(failedContracts) BY <1>7 DEF BatchCancel, Ended, Ends
  <2> QED BY <1>0, <2>1
<1>8. CASE BatchCancelFails
  <2>1. PICK T \in SUBSET failedContracts : Ended(T) BY <1>8 DEF BatchCancelFails
  <2>2. Reports(T) BY <1>8, <2>1 DEF BatchCancelFails, Ended, Reports
  <2> QED BY <2>2
<1> QED BY <1>1, <1>2, <1>3, <1>4, <1>5, <1>6, <1>7, <1>8 DEF Next, Deploy

LEMMA LedgerStep ==
  ASSUME BoundAssumption, IInv, IInv', [Next]_vars PROVE [Ledger!Next]_(Ledger!ledger)
<1>1. Held = Unseen /\ Held' = Unseen'
  <2>1. Held' = Unseen' BY DEF IInv, Kept, Held, Unseen
  <2> QED BY <2>1, HeldIsUnseen
<1>2. /\ created \in Nat /\ created <= MaxContracts /\ MaxContracts \in Nat
      /\ live \subseteq 1..created /\ leaked \subseteq 1..created
  BY DEF IInv, TypeOK, BoundAssumption
<1>3. failedContracts \subseteq 1..created
  BY DEF IInv, TypeOK, Elements, Made, ContractOf
<1>4. ASSUME NEW k \in Nat, Opens(k) PROVE Ledger!Next
  <2> DEFINE S == (created + 1)..created'
             R == IF leaked' = leaked THEN {} ELSE S
  <2>1. S \subseteq ContractId BY <1>2, <1>4 DEF Opens, ContractId
  <2>2. R \subseteq S BY <1>4 DEF Opens
  <2>3. S \cap (1..created) = {} /\ 1..created' = (1..created) \cup S BY <1>2, <1>4 DEF Opens
  <2>4. live' = live \cup S BY <1>4 DEF Opens
  <2>5. leaked' = leaked \cup R BY <1>4 DEF Opens
  <2> HIDE DEF S, R
  <2>6. Unseen' = Unseen \cup (S \ R) BY <1>2, <2>2, <2>3, <2>4, <2>5 DEF Unseen
  <2>7. Ledger!Open(S, R) BY <1>1, <2>2, <2>3, <2>4, <2>5, <2>6 DEF Ledger!Open
  <2> QED BY <2>1, <2>2, <2>7 DEF Ledger!Next
<1>5. ASSUME NEW S \in SUBSET ContractId, Ends(S) PROVE Ledger!Next
  <2>1. Unseen' = Unseen \ S BY <1>5 DEF Ends, Unseen
  <2>2. Ledger!Close(S) BY <1>1, <1>5, <2>1 DEF Ledger!Close, Ends
  <2> QED BY <2>2 DEF Ledger!Next
<1>6. ASSUME NEW T \in SUBSET failedContracts, Reports(T) PROVE Ledger!Next
  <2>1. Unseen' = Unseen \ failedContracts BY <1>6 DEF Reports, Unseen
  <2>2. Ledger!Report(failedContracts, T)
    BY <1>1, <1>3, <1>6, <2>1 DEF Ledger!Report, Reports
  <2>3. failedContracts \in SUBSET ContractId /\ T \in SUBSET ContractId
    BY <1>2, <1>3 DEF ContractId
  <2> QED BY <2>2, <2>3 DEF Ledger!Next
<1>7. CASE Silent
  <2>1. Unseen' = Unseen BY <1>7 DEF Silent, Unseen
  <2> QED BY <1>1, <1>7, <2>1 DEF Silent, Ledger!ledger
<1> QED BY <1>4, <1>5, <1>6, <1>7, StepKinds

(* A batch keeps the promise of ContractLedger: wherever it breaks off, a  *)
(* contract it opened is on record, has ended or was reported.             *)
THEOREM ImplementsLedger == BoundAssumption => (Spec => KeepsLedger)
<1> SUFFICES ASSUME BoundAssumption PROVE Spec => KeepsLedger OBVIOUS
<1>1. Init => Ledger!Init BY DEF Init, Ledger!Init, Held
<1>2. IInv /\ IInv' /\ [Next]_vars => [Ledger!Next]_(Ledger!ledger) BY LedgerStep
<1> QED BY <1>1, <1>2, Invariance, PTL DEF Spec, KeepsLedger, Ledger!Spec
=============================================================================
