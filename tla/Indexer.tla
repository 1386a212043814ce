------------------------------- MODULE Indexer -------------------------------
(***************************************************************************)
(* The node indexers of the grid proxy (grid-proxy/internal/indexer): a    *)
(* pipeline of goroutines that asks the nodes for data and keeps the       *)
(* answers in the proxy's database.                                        *)
(*                                                                         *)
(*  finders --idChan--> workers --resultChan--> batch --batchChan--> upsert *)
(*                                                                         *)
(* The channels are unbuffered: a send is one step with its receive, and a *)
(* goroutine whose receiver is busy waits.  An indexer's Work says which   *)
(* finders feed it, what a failed call means, and how a batch is written;  *)
(* here it is the health indexer's or one like dmi's.  Ticks of a finder   *)
(* and of the buffer may come at any time; a finder takes one only when it *)
(* has sent the last round.  Nodes answer with one of two values.          *)
(***************************************************************************)
EXTENDS Naturals, FiniteSets, Sequences

CONSTANTS
  MaxTwin,       \* bound: the twins of the nodes are 1..MaxTwin
  Registered,    \* the nodes there are when the proxy starts for the first time
  Worker,
  BatchSize,
  Answers,       \* what the nodes may answer
  IsHealth,      \* HealthWork, or a work that fails with its call
  InOrder,       \* nodes register in the order of their twins
  MaxRestarts,   \* bound: restarts of the proxy
  None

Twin == 1..MaxTwin
ASSUME BoundsAssumption == MaxTwin \in Nat /\ MaxRestarts \in Nat /\ BatchSize \in Nat \ {0}
ASSUME RegisteredAssumption == Registered \subseteq Twin
ASSUME WorkAssumption == IsHealth \in BOOLEAN /\ InOrder \in BOOLEAN

(* What a node answers, "none" when the call fails, and what is recorded.  *)
Value == {"good", "bad"}
Answer == Value \cup {"none"}
ASSUME AnswersAssumption == Answers \subseteq Answer
ASSUME NoneAssumption == None \notin Twin /\ None \notin Value
Item == [twin: Twin, value: Value]

(* Finders of the work. *)
Finder == IF IsHealth THEN {"up", "healthy"} ELSE {"up", "new"}

VARIABLES
  (* the grid *)
  nodes,      \* registered
  up,         \* those reported up
  answer,
  (* the database *)
  row,        \* node -> what the indexer's table says, None without a row
  (* the proxy *)
  queue,      \* finder -> the twins it still has to send
  latestCheckedID,
  asking,     \* worker -> the twin it works on
  result,     \* worker -> the value it has to send
  buffer,
  flushing,   \* batch waits for upsert to take its buffer
  batch,      \* what upsert works on
  restarts,
  (* history *)
  first,      \* the nodes at the last start
  found       \* the twins the new finder has sent since

grid == <<nodes, up, answer>>
finders == <<queue, latestCheckedID>>
workers == <<asking, result>>
history == <<first, found>>
vars == <<grid, row, finders, workers, buffer, flushing, batch, restarts, history>>

TypeOK ==
  /\ nodes \subseteq Twin /\ up \subseteq nodes
  /\ answer \in [Twin -> Answers \cup {"none"}]
  /\ row \in [Twin -> Value \cup {None}]
  /\ queue \in [Finder -> SUBSET nodes]
  /\ latestCheckedID \in 0..MaxTwin
  /\ asking \in [Worker -> Twin \cup {None}]
  /\ result \in [Worker -> Value \cup {None}]
  /\ \A w \in Worker : result[w] # None => asking[w] # None
  /\ buffer \in Seq(Item) /\ Len(buffer) <= BatchSize
  /\ flushing => buffer # <<>>
  /\ Len(buffer) = BatchSize => flushing
  /\ batch \in Seq(Item) /\ Len(batch) <= BatchSize
  /\ restarts \in 0..MaxRestarts
  /\ first \subseteq nodes /\ found \subseteq nodes

Highest(S) == CHOOSE t \in S \cup {0} : \A u \in S : u <= t

Init ==
  /\ nodes = Registered /\ up = {}
  /\ answer = [t \in Twin |-> "none"] /\ row = [t \in Twin |-> None]
  /\ queue = [f \in Finder |-> {}]
  /\ latestCheckedID \in {0, Highest(Registered)}
  /\ asking = [w \in Worker |-> None] /\ result = [w \in Worker |-> None]
  /\ buffer = <<>> /\ flushing = FALSE /\ batch = <<>>
  /\ restarts = 0
  /\ first = Registered /\ found = {}
-----------------------------------------------------------------------------
(* The finders. *)

Queue(f, S) == queue[f] = {} /\ queue' = [queue EXCEPT ![f] = S]

(* A query of a table may miss some rows: an error ends the paging. *)
QueryUp ==
  /\ "up" \in Finder /\ Queue("up", up)
  /\ UNCHANGED <<grid, row, latestCheckedID, workers, buffer, flushing, batch, restarts, history>>
QueryUpFails ==
  /\ "up" \in Finder /\ \E S \in SUBSET up : Queue("up", S)
  /\ UNCHANGED <<grid, row, latestCheckedID, workers, buffer, flushing, batch, restarts, history>>

(* Fault: only nodes that are up are asked again. *)
FaultQueryHealthy ==
  /\ "healthy" \in Finder /\ Queue("healthy", {t \in up : row[t] = "good"})
  /\ UNCHANGED <<grid, row, latestCheckedID, workers, buffer, flushing, batch, restarts, history>>
QueryHealthy ==
  /\ "healthy" \in Finder /\ Queue("healthy", {t \in nodes : row[t] = "good"})
  /\ UNCHANGED <<grid, row, latestCheckedID, workers, buffer, flushing, batch, restarts, history>>

(* Fault: the next search begins one twin too far. *)
FaultQueryNew ==
  /\ "new" \in Finder
  /\ LET newIDs == {t \in nodes : t > latestCheckedID} IN
       newIDs # {} /\ Queue("new", newIDs) /\ latestCheckedID' = Highest(newIDs) + 1
  /\ UNCHANGED <<grid, row, workers, buffer, flushing, batch, restarts, history>>
QueryNew ==
  /\ "new" \in Finder
  /\ LET newIDs == {t \in nodes : t > latestCheckedID} IN
       newIDs # {} /\ Queue("new", newIDs) /\ latestCheckedID' = Highest(newIDs)
  /\ UNCHANGED <<grid, row, workers, buffer, flushing, batch, restarts, history>>
-----------------------------------------------------------------------------
(* The workers: get. *)

TakeID(f, w) ==
  /\ asking[w] = None
  /\ \E t \in queue[f] :
       /\ queue' = [queue EXCEPT ![f] = @ \ {t}]
       /\ asking' = [asking EXCEPT ![w] = t]
       /\ found' = IF f = "new" THEN found \cup {t} ELSE found
  /\ UNCHANGED <<grid, row, latestCheckedID, result, buffer, flushing, batch, restarts, first>>

(* HealthWork.Get: a node that does not answer is not healthy. *)
Get(w) ==
  /\ asking[w] # None /\ result[w] = None
  /\ answer[asking[w]] # "none" \/ IsHealth
  /\ result' = [result EXCEPT ![w] = IF answer[asking[w]] = "good" THEN "good" ELSE "bad"]
  /\ UNCHANGED <<grid, row, finders, asking, buffer, flushing, batch, restarts, history>>

GetFails(w) ==
  /\ asking[w] # None /\ result[w] = None
  /\ answer[asking[w]] = "none" /\ ~IsHealth
  /\ asking' = [asking EXCEPT ![w] = None]
  /\ UNCHANGED <<grid, row, finders, result, buffer, flushing, batch, restarts, history>>
-----------------------------------------------------------------------------
(* The batcher. *)

(* isUnique compares whole results, the second of their making included:   *)
(* of two equal readings of a node, the later may or may not be a copy.    *)
MayBeCopy(item) == \E i \in DOMAIN buffer : buffer[i] = item

Collect(w) ==
  /\ ~flushing /\ result[w] # None
  /\ LET item == [twin |-> asking[w], value |-> result[w]] IN
       \/ buffer' = Append(buffer, item)
       \/ MayBeCopy(item) /\ UNCHANGED buffer
  /\ flushing' = (Len(buffer') >= BatchSize)
  /\ asking' = [asking EXCEPT ![w] = None] /\ result' = [result EXCEPT ![w] = None]
  /\ UNCHANGED <<grid, row, finders, batch, restarts, history>>

Tick ==
  /\ ~flushing /\ buffer # <<>>
  /\ flushing' = TRUE
  /\ UNCHANGED <<grid, row, finders, workers, buffer, batch, restarts, history>>

(* Fault: the batcher does not go back to its results. *)
FaultHandOver ==
  /\ flushing /\ batch = <<>>
  /\ batch' = buffer /\ buffer' = <<>>
  /\ UNCHANGED <<grid, row, finders, workers, flushing, restarts, history>>
HandOver ==
  /\ flushing /\ batch = <<>>
  /\ batch' = buffer /\ buffer' = <<>> /\ flushing' = FALSE
  /\ UNCHANGED <<grid, row, finders, workers, restarts, history>>
-----------------------------------------------------------------------------
(* The upserter. *)

(* removeDuplicates keeps the first report of a twin. *)
Firsts(s) == {i \in DOMAIN s : \A j \in 1..(i - 1) : s[j].twin # s[i].twin}
Rows(s) == {s[i] : i \in IF IsHealth THEN Firsts(s) ELSE DOMAIN s}

(* The table has a row per twin: an insert that would touch one twice is   *)
(* refused as a whole.                                                     *)
Accepted(s) == IsHealth \/ Firsts(s) = DOMAIN s

Upsert ==
  /\ batch # <<>> /\ Accepted(batch)
  /\ row' = [t \in Twin |-> IF \E x \in Rows(batch) : x.twin = t
                            THEN (CHOOSE x \in Rows(batch) : x.twin = t).value
                            ELSE row[t]]
  /\ batch' = <<>>
  /\ UNCHANGED <<grid, finders, workers, buffer, flushing, restarts, history>>

UpsertFails ==
  /\ batch # <<>>
  /\ batch' = <<>>
  /\ UNCHANGED <<grid, row, finders, workers, buffer, flushing, restarts, history>>
-----------------------------------------------------------------------------
(* The proxy stops and starts again, and what is in the pipeline is gone.  *)
Restart ==
  /\ restarts < MaxRestarts
  /\ restarts' = restarts + 1
  /\ queue' = [f \in Finder |-> {}]
  /\ latestCheckedID' \in {0, Highest(nodes)}
  /\ asking' = [w \in Worker |-> None] /\ result' = [w \in Worker |-> None]
  /\ buffer' = <<>> /\ flushing' = FALSE /\ batch' = <<>>
  /\ first' = nodes /\ found' = {}
  /\ UNCHANGED <<grid, row>>

(* A twin is made before its node registers with it. *)
Register(t) ==
  /\ t \notin nodes
  /\ InOrder => \A u \in nodes : u < t
  /\ nodes' = nodes \cup {t}
  /\ UNCHANGED <<up, answer, row, finders, workers, buffer, flushing, batch, restarts, history>>

ReportsUp(t) ==
  /\ t \in nodes
  /\ up' = IF t \in up THEN up \ {t} ELSE up \cup {t}
  /\ UNCHANGED <<nodes, answer, row, finders, workers, buffer, flushing, batch, restarts, history>>

Changes(t) ==
  /\ \E a \in Answers \ {answer[t]} : answer' = [answer EXCEPT ![t] = a]
  /\ UNCHANGED <<nodes, up, row, finders, workers, buffer, flushing, batch, restarts, history>>

WorkerStep(w) == (\E f \in Finder : TakeID(f, w)) \/ Get(w) \/ GetFails(w) \/ Collect(w)

Next ==
  \/ QueryUp \/ QueryUpFails \/ QueryHealthy \/ QueryNew
  \/ \E w \in Worker : WorkerStep(w)
  \/ Tick \/ HandOver
  \/ Upsert \/ UpsertFails
  \/ Restart
  \/ \E t \in Twin : Register(t) \/ ReportsUp(t) \/ Changes(t)

Spec == Init /\ [][Next]_vars

(* Tickers tick and goroutines run; calls end, by their timeout at the     *)
(* latest; a blocked sender is served in its turn; the database does not   *)
(* fail every query, nor every batch a node is in.                         *)
UpsertOf(t) == (\E i \in DOMAIN batch : batch[i].twin = t) /\ Upsert
FairSpec ==
  /\ Spec
  /\ SF_vars(QueryUp) /\ WF_vars(QueryHealthy) /\ WF_vars(QueryNew)
  /\ \A f \in Finder : SF_vars(\E w \in Worker : TakeID(f, w))
  /\ \A w \in Worker : WF_vars(Get(w) \/ GetFails(w)) /\ SF_vars(Collect(w))
  /\ WF_vars(Tick) /\ WF_vars(HandOver) /\ WF_vars(Upsert \/ UpsertFails)
  /\ \A t \in Twin : SF_vars(UpsertOf(t))
-----------------------------------------------------------------------------
(* The table follows the nodes: one that stops being healthy for good, up  *)
(* or down, is not recorded healthy for ever ...                           *)
UnhealthyShown ==
  \A t \in Twin : <>[](answer[t] # "good") => <>[](row[t] # "good")

(* ... and one that stays up and healthy is recorded so, however readings  *)
(* overtake each other, batches fail, and the proxy restarts.              *)
HealthyShown ==
  \A t \in Twin : <>[](t \in up /\ answer[t] = "good") => <>[](row[t] = "good")
TableFollows == UnhealthyShown /\ HealthyShown

(* Whatever calls and batches fail, the pipeline never stands still: a     *)
(* finder can always send the nodes of its round.                          *)
RoundEnds == \A f \in Finder : queue[f] # {} ~> queue[f] = {}

(* The invariant behind NewNodesAsked below: the new finder's search does  *)
(* not pass over a node, whatever registers between two of its ticks.      *)
NoneSkipped ==
  "new" \in Finder =>
    \A t \in nodes \ first : t <= latestCheckedID => t \in found \cup queue["new"]

(* README.md: "new node is added (check every 5m)": the new finder asks    *)
(* every node registered since the proxy started.  This holds if nodes     *)
(* register in the order of their twins.                                   *)
NewNodesAsked == "new" \in Finder => \A t \in Twin : t \in nodes ~> t \in first \cup found

(* indexer.go, of isUnique: "to prevent having multiple data for the same  *)
(* twin from different finders".                                           *)
OnePerTwin == Firsts(batch) = DOMAIN batch
=============================================================================
