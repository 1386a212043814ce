---------------------------- MODULE IndexerProofs ----------------------------
(* Theorems about Indexer, for any number of nodes, workers and batches.   *)
EXTENDS Indexer, WellFoundedInduction, SequenceTheorems, TLAPS

(* A set of twins has a highest one: the least of its upper bounds.        *)
LEMMA HighestIsUpperBound ==
  ASSUME NEW S \in SUBSET Twin
  PROVE  Highest(S) \in S \cup {0} /\ \A u \in S : u <= Highest(S)
<1> DEFINE Bounds == {n \in Nat : \A u \in S : u <= n}
<1>1. \A u \in S : u \in Nat /\ u <= MaxTwin BY BoundsAssumption DEF Twin
<1>2. MaxTwin \in Bounds BY <1>1, BoundsAssumption
<1>3. PICK m \in Bounds : \A n \in Bounds : ~(n < m)
  <2>1. PICK m \in Bounds : \A n \in Bounds : ~(<<n, m>> \in OpToRel(<, Nat))
    BY <1>2, NatLessThanWellFounded, WFMin
  <2>2. \A n \in Bounds : n < m => <<n, m>> \in OpToRel(<, Nat) BY DEF OpToRel
  <2> QED BY <2>1, <2>2
<1>4. m \in S \cup {0}
  <2> SUFFICES ASSUME m \notin S, m # 0 PROVE FALSE OBVIOUS
  <2>1. m - 1 \in Nat /\ \A u \in S : u <= m - 1 BY <1>1
  <2> QED BY <1>3, <2>1
<1> QED BY <1>4 DEF Highest

(***************************************************************************)
(* Type correctness, of the pipeline's two ends and of its middle.         *)
(***************************************************************************)
Finding ==
  /\ nodes \subseteq Twin /\ up \subseteq nodes
  /\ queue \in [Finder -> SUBSET nodes]
  /\ latestCheckedID \in 0..MaxTwin
  /\ first \subseteq nodes /\ found \subseteq nodes
Working ==
  /\ asking \in [Worker -> Twin \cup {None}]
  /\ result \in [Worker -> Value \cup {None}]
  /\ \A w \in Worker : result[w] # None => asking[w] # None
Batching ==
  /\ buffer \in Seq(Item) /\ Len(buffer) <= BatchSize
  /\ flushing => buffer # <<>>
  /\ Len(buffer) = BatchSize => flushing
  /\ batch \in Seq(Item) /\ Len(batch) <= BatchSize
Rest ==
  /\ answer \in [Twin -> Answers \cup {"none"}]
  /\ row \in [Twin -> Value \cup {None}]
  /\ restarts \in 0..MaxRestarts

LEMMA TypeSplit == TypeOK <=> Finding /\ Working /\ Batching /\ Rest
  BY DEF TypeOK, Finding, Working, Batching, Rest

LEMMA HighestType == ASSUME NEW S \in SUBSET Twin PROVE Highest(S) \in 0..MaxTwin
<1>1. Highest(S) \in S \cup {0} BY HighestIsUpperBound
<1>2. S \subseteq 1..MaxTwin /\ MaxTwin \in Nat BY BoundsAssumption DEF Twin
<1>3. Highest(S) \in 0..MaxTwin
  <2>1. CASE Highest(S) = 0 BY <2>1, <1>2
  <2>2. CASE Highest(S) \in 1..MaxTwin BY <2>2, <1>2
  <2> QED BY <1>1, <1>2, <2>1, <2>2
<1> QED BY <1>3

LEMMA EmptyBatches ==
  ASSUME NEW s, s = <<>>
  PROVE  s \in Seq(Item) /\ Len(s) <= BatchSize /\ Len(s) # BatchSize
<1>1. s \in Seq(Item) /\ Len(s) = 0 BY EmptySeq
<1> QED BY <1>1, BoundsAssumption

LEMMA InitType == Init => TypeOK
<1> SUFFICES ASSUME Init PROVE TypeOK OBVIOUS
<1>1. Finding
  <2>1. Highest(Registered) \in 0..MaxTwin BY HighestType, RegisteredAssumption
  <2> QED BY <2>1, RegisteredAssumption, BoundsAssumption DEF Init, Finding
<1>2. Working BY DEF Init, Working
<1>3. Batching BY EmptyBatches DEF Init, Batching
<1>4. Rest BY BoundsAssumption DEF Init, Rest
<1> QED BY <1>1, <1>2, <1>3, <1>4, TypeSplit

LEMMA QueryType ==
  ASSUME TypeOK, QueryUp \/ QueryUpFails \/ QueryHealthy \/ QueryNew PROVE TypeOK'
<1>1. latestCheckedID' \in 0..MaxTwin
  BY HighestType DEF TypeOK, QueryUp, QueryUpFails, QueryHealthy, QueryNew
<1>2. queue' \in [Finder -> SUBSET nodes]
  BY DEF TypeOK, QueryUp, QueryUpFails, QueryHealthy, QueryNew, Queue
<1>3. UNCHANGED <<grid, row, workers, buffer, flushing, batch, restarts, history>>
  BY DEF QueryUp, QueryUpFails, QueryHealthy, QueryNew
<1> QED BY <1>1, <1>2, <1>3 DEF TypeOK, grid, workers, history

LEMMA WorkerType == ASSUME TypeOK, NEW w \in Worker, WorkerStep(w) PROVE TypeOK'
<1> USE DEF grid, finders, workers, history
<1>1. CASE \E f \in Finder : TakeID(f, w)
  <2>1. PICK f \in Finder : TakeID(f, w) BY <1>1
  <2>2. PICK t \in queue[f] :
          /\ queue' = [queue EXCEPT ![f] = @ \ {t}] /\ asking' = [asking EXCEPT ![w] = t]
          /\ found' = IF f = "new" THEN found \cup {t} ELSE found
    BY <2>1 DEF TakeID
  <2>3. t \in nodes /\ t \in Twin /\ t # None BY NoneAssumption DEF TypeOK
  <2>4. queue' \in [Finder -> SUBSET nodes] /\ found' \subseteq nodes BY <2>2, <2>3 DEF TypeOK
  <2>5. asking' \in [Worker -> Twin \cup {None}]
        /\ \A v \in Worker : result[v] # None => asking'[v] # None
    BY <2>2, <2>3 DEF TypeOK
  <2> QED BY <2>1, <2>4, <2>5 DEF TypeOK, TakeID
<1>2. CASE Get(w) BY <1>2 DEF Get, Value, TypeOK
<1>3. CASE GetFails(w) BY <1>3 DEF GetFails, TypeOK
<1>4. CASE Collect(w)
  <2> DEFINE item == [twin |-> asking[w], value |-> result[w]]
  <2>1. item \in Item BY <1>4 DEF TypeOK, Collect, Item
  <2>2. buffer \in Seq(Item) /\ Len(buffer) < BatchSize /\ Len(buffer) \in Nat
    BY <1>4, LenProperties, BoundsAssumption DEF TypeOK, Collect
  <2>3. /\ Append(buffer, item) \in Seq(Item) /\ Len(Append(buffer, item)) = Len(buffer) + 1
        /\ Append(buffer, item) # <<>>
    BY <2>1, <2>2, AppendProperties
  <2>4. buffer' = Append(buffer, item) \/ buffer' = buffer BY <1>4 DEF Collect
  <2>5. flushing' <=> Len(buffer') >= BatchSize BY <1>4 DEF Collect
  <2> HIDE DEF item
  <2>6. Batching'
    <3>1. UNCHANGED batch /\ ~flushing BY <1>4 DEF Collect
    <3>2. CASE buffer' = Append(buffer, item)
      <4>1. /\ buffer' \in Seq(Item) /\ Len(buffer') <= BatchSize /\ buffer' # <<>>
            /\ Len(buffer') = BatchSize => flushing'
        BY <2>2, <2>3, <2>5, <3>2, BoundsAssumption
      <4> QED BY <3>1, <4>1 DEF TypeOK, Batching
    <3>3. CASE buffer' = buffer
      <4>1. ~flushing' BY <2>2, <2>5, <3>3, BoundsAssumption
      <4> QED BY <2>2, <3>1, <3>3, <4>1, BoundsAssumption DEF TypeOK, Batching
    <3> QED BY <2>4, <3>2, <3>3
  <2>7. Working' BY <1>4 DEF TypeOK, Working, Collect
  <2>8. Finding' /\ Rest' BY <1>4 DEF TypeOK, Finding, Rest, Collect
  <2> QED BY <2>6, <2>7, <2>8 DEF TypeOK, Finding, Working, Batching, Rest
<1> QED BY <1>1, <1>2, <1>3, <1>4 DEF WorkerStep

LEMMA BatchType ==
  ASSUME TypeOK, Tick \/ HandOver \/ Upsert \/ UpsertFails PROVE TypeOK'
<1>1. Batching'
  BY EmptyBatches, BoundsAssumption DEF TypeOK, Batching, Tick, HandOver, Upsert, UpsertFails
<1>2. Finding' /\ Working'
  BY TypeSplit
  DEF Finding, Working, Tick, HandOver, Upsert, UpsertFails, grid, finders, workers, history
<1>3. Rest'
  <2>1. \A x \in Rows(batch) : x.value \in Value
    <3>1. DOMAIN batch = 1..Len(batch) BY LenProperties DEF TypeOK
    <3>2. \A i \in DOMAIN batch : batch[i] \in Item BY <3>1, ElementOfSeq DEF TypeOK
    <3> QED BY <3>2 DEF Rows, Firsts, Item
  <2>2. CASE Upsert
    <3>1. \A t \in Twin : (\E x \in Rows(batch) : x.twin = t)
                            => (CHOOSE x \in Rows(batch) : x.twin = t) \in Rows(batch)
      OBVIOUS
    <3>2. row' \in [Twin -> Value \cup {None}] BY <2>1, <2>2, <3>1 DEF Upsert, TypeOK
    <3> QED BY <2>2, <3>2, TypeSplit DEF Upsert, Rest, grid
  <2> QED BY <2>2, TypeSplit DEF Rest, Tick, HandOver, UpsertFails, grid
<1> QED BY <1>1, <1>2, <1>3, TypeSplit DEF TypeOK, Finding, Working, Batching, Rest

LEMMA WorldType ==
  ASSUME TypeOK,
         Restart \/ (\E t \in Twin : Register(t) \/ ReportsUp(t) \/ Changes(t)) \/ UNCHANGED vars
  PROVE  TypeOK'
<1> USE DEF grid, finders, workers, history
<1>1. CASE Restart
  <2>1. Highest(nodes) \in 0..MaxTwin BY HighestType DEF TypeOK
  <2>2. Finding' BY <1>1, <2>1, BoundsAssumption DEF TypeOK, Finding, Restart
  <2>3. Working' BY <1>1 DEF Working, Restart
  <2>4. Batching' BY <1>1, EmptyBatches DEF Batching, Restart
  <2>5. Rest' BY <1>1, BoundsAssumption DEF TypeOK, Rest, Restart
  <2> QED BY <2>2, <2>3, <2>4, <2>5 DEF TypeOK, Finding, Working, Batching, Rest
<1>2. CASE \E t \in Twin : Register(t)
  <2>1. Finding' BY <1>2 DEF TypeOK, Finding, Register
  <2> QED BY <1>2, <2>1 DEF TypeOK, Finding, Register
<1>3. CASE \E t \in Twin : ReportsUp(t) BY <1>3 DEF TypeOK, ReportsUp
<1>4. CASE \E t \in Twin : Changes(t) BY <1>4 DEF TypeOK, Changes
<1>5. CASE UNCHANGED vars BY <1>5 DEF TypeOK, vars
<1> QED BY <1>1, <1>2, <1>3, <1>4, <1>5

(* Type correctness of the pipeline, from the finders to the table.        *)
THEOREM TypeCorrect == Spec => []TypeOK
<1>1. TypeOK /\ [Next]_vars => TypeOK'
  BY QueryType, WorkerType, BatchType, WorldType DEF Next
<1> QED BY <1>1, InitType, PTL DEF Spec

(***************************************************************************)
(* The new finder.                                                         *)
(***************************************************************************)

(* latestCheckedID is the twin of a node, so that what registers later, if *)
(* in order, is above it.                                                  *)
MarkIsNode == "new" \in Finder => latestCheckedID \in nodes \cup {0}
SearchInv == TypeOK /\ MarkIsNode /\ NoneSkipped

LEMMA SearchInit == Init => SearchInv
<1> SUFFICES ASSUME Init PROVE MarkIsNode /\ NoneSkipped BY InitType DEF SearchInv
<1>1. MarkIsNode BY HighestIsUpperBound, RegisteredAssumption DEF Init, MarkIsNode
<1>2. NoneSkipped BY DEF Init, NoneSkipped
<1> QED BY <1>1, <1>2

LEMMA QueryNewStep == ASSUME SearchInv, QueryNew PROVE (MarkIsNode /\ NoneSkipped)'
<1> DEFINE newIDs == {t \in nodes : t > latestCheckedID}
<1>1. /\ queue["new"] = {} /\ queue' = [queue EXCEPT !["new"] = newIDs]
      /\ latestCheckedID' = Highest(newIDs) /\ newIDs # {}
      /\ UNCHANGED <<nodes, first, found>>
  BY DEF QueryNew, Queue, grid, history
<1>2. newIDs \in SUBSET Twin BY DEF SearchInv, TypeOK
<1>3. Highest(newIDs) \in newIDs \cup {0} BY <1>2, HighestIsUpperBound
<1>4. queue'["new"] = newIDs BY <1>1 DEF QueryNew, SearchInv, TypeOK
<1>5. ASSUME NEW t \in nodes \ first PROVE t \in found \cup newIDs
  <2>1. t \in Nat /\ latestCheckedID \in Nat BY BoundsAssumption DEF SearchInv, TypeOK, Twin
  <2> QED BY <1>1, <2>1 DEF SearchInv, NoneSkipped, QueryNew
<1> QED BY <1>1, <1>3, <1>4, <1>5 DEF MarkIsNode, NoneSkipped

LEMMA TakeIDStep ==
  ASSUME SearchInv, NEW f \in Finder, NEW w \in Worker, TakeID(f, w)
  PROVE  (MarkIsNode /\ NoneSkipped)'
<1>1. PICK t \in queue[f] : /\ queue' = [queue EXCEPT ![f] = @ \ {t}]
                            /\ found' = IF f = "new" THEN found \cup {t} ELSE found
  BY DEF TakeID
<1>2. UNCHANGED <<nodes, first, latestCheckedID>> BY DEF TakeID, grid
<1>3. ASSUME "new" \in Finder PROVE found \cup queue["new"] = found' \cup queue'["new"]
  BY <1>1, <1>3 DEF SearchInv, TypeOK
<1> QED BY <1>2, <1>3 DEF SearchInv, MarkIsNode, NoneSkipped

LEMMA RestartStep == ASSUME SearchInv, Restart PROVE (MarkIsNode /\ NoneSkipped)'
<1>1. Highest(nodes) \in nodes \cup {0} BY HighestIsUpperBound DEF SearchInv, TypeOK
<1> QED BY <1>1 DEF Restart, MarkIsNode, NoneSkipped, grid

LEMMA RegisterStep ==
  ASSUME SearchInv, InOrder, NEW t \in Twin, Register(t) PROVE (MarkIsNode /\ NoneSkipped)'
<1>1. /\ \A u \in nodes : u < t
      /\ nodes' = nodes \cup {t} /\ UNCHANGED <<queue, latestCheckedID, first, found>>
  BY DEF Register, finders, history
<1>2. "new" \in Finder => ~(t <= latestCheckedID)
  <2>1. t \in Nat /\ t > 0 /\ latestCheckedID \in Nat
    BY BoundsAssumption DEF SearchInv, TypeOK, Twin
  <2> QED BY <1>1, <2>1 DEF SearchInv, MarkIsNode
<1> QED BY <1>1, <1>2 DEF SearchInv, MarkIsNode, NoneSkipped

LEMMA OtherStep ==
  ASSUME SearchInv, UNCHANGED <<nodes, latestCheckedID, first, found>>,
         "new" \in Finder => UNCHANGED queue \/ queue'["new"] = queue["new"]
  PROVE  (MarkIsNode /\ NoneSkipped)'
  BY DEF SearchInv, MarkIsNode, NoneSkipped

LEMMA SearchNext == InOrder /\ SearchInv /\ [Next]_vars => SearchInv'
<1> SUFFICES ASSUME InOrder, SearchInv, [Next]_vars PROVE SearchInv' OBVIOUS
<1> USE DEF grid, finders, history
<1>1. TypeOK' BY QueryType, WorkerType, BatchType, WorldType DEF SearchInv, Next
<1>2. CASE QueryUp \/ QueryUpFails \/ QueryHealthy
  <2>1. "new" \in Finder => queue'["new"] = queue["new"]
    BY <1>2 DEF SearchInv, TypeOK, QueryUp, QueryUpFails, QueryHealthy, Queue, Finder
  <2>2. UNCHANGED <<nodes, latestCheckedID, first, found>>
    BY <1>2 DEF QueryUp, QueryUpFails, QueryHealthy
  <2> QED BY <1>1, <2>1, <2>2, OtherStep DEF SearchInv
<1>3. ASSUME NEW w \in Worker, WorkerStep(w) PROVE SearchInv'
  <2>1. CASE Get(w) \/ GetFails(w) \/ Collect(w)
    BY <1>1, <2>1, OtherStep DEF SearchInv, Get, GetFails, Collect
  <2> QED BY <1>1, <1>3, <2>1, TakeIDStep DEF SearchInv, WorkerStep
<1>4. CASE Tick \/ HandOver \/ Upsert \/ UpsertFails \/ UNCHANGED vars
  BY <1>1, <1>4, OtherStep DEF SearchInv, Tick, HandOver, Upsert, UpsertFails, vars
<1>5. ASSUME NEW t \in Twin, Register(t) \/ ReportsUp(t) \/ Changes(t) PROVE SearchInv'
  BY <1>1, <1>5, RegisterStep, OtherStep DEF SearchInv, ReportsUp, Changes
<1> QED BY <1>1, <1>2, <1>3, <1>4, <1>5, QueryNewStep, RestartStep DEF SearchInv, Next

(* The new finder passes over no node that registered since the start of   *)
(* the proxy, if nodes register in the order of their twins.               *)
THEOREM NothingSkipped == InOrder => (Spec => []NoneSkipped)
<1> SUFFICES ASSUME InOrder PROVE Spec => []NoneSkipped OBVIOUS
<1>1. SearchInv /\ [Next]_vars => SearchInv' BY SearchNext
<1>2. SearchInv => NoneSkipped BY DEF SearchInv
<1> QED BY <1>1, <1>2, SearchInit, PTL DEF Spec
=============================================================================
