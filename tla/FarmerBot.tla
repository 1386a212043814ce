------------------------------ MODULE FarmerBot ------------------------------
(***************************************************************************)
(* The farmerbot (farmerbot/internal): one goroutine goes round the nodes  *)
(* of a farm every five minutes (iterateOnNodes), refreshes what the bot   *)
(* knows of each and turns nodes on and off by the power target the chain  *)
(* keeps; each RMB request (findnode, includenode, poweroff, poweron) is   *)
(* served by a goroutine of its own.  They share state.nodes.  A mutex     *)
(* guards each write of it, and powerOn and powerOff up to their call to   *)
(* the chain; reads are not guarded, and every write replaces a whole      *)
(* record by a copy that was read earlier.                                 *)
(*                                                                         *)
(* The chain and the machines are outside the repository.  A node's        *)
(* capacity is one unit: it is used or it is not.  Times (claims of        *)
(* 30 minutes, wake-up hours, months) are choices.                         *)
(***************************************************************************)
EXTENDS Naturals, FiniteSets, Sequences, SequencesExt

CONSTANTS
  Node,           \* the nodes of the farm
  Excluded,       \* Config.ExcludedNodes
  Included,       \* Config.IncludedNodes
  NeverShutDown,  \* Config.NeverShutDownNodes
  Leavers,        \* nodes that may leave the farm
  Rentable,       \* nodes on which tenants make contracts
  Tenancies,      \* the contracts they make
  ContinueOnErr,  \* Config.ContinueOnPoweringOnErr
  Loop,           \* the goroutine of Run
  Handler,        \* goroutines that serve requests
  Requests,       \* the requests that come
  StatusFails,    \* GetPowerTarget may fail after SetNodePowerTarget failed
  MaxRequests,    \* bound: requests
  MaxClaims,      \* bound: claims of findnode
  MaxFaults,      \* bound: failures of the chain and of nodes that are up
  None

ASSUME ConfigAssumption ==
  /\ Excluded \subseteq Node /\ Included \subseteq Node
  /\ NeverShutDown \subseteq Node /\ Leavers \subseteq Node /\ Rentable \subseteq Node
  /\ {ContinueOnErr, StatusFails} \subseteq BOOLEAN
ASSUME TenancyAssumption == Tenancies \subseteq {"none", "deployed", "rented"}
ASSUME ActorsAssumption == Loop \notin Handler /\ None \notin Node \cup Handler \cup {Loop}
ASSUME FiniteAssumption == IsFiniteSet(Node) /\ IsFiniteSet(Handler)
ASSUME BoundsAssumption == {MaxRequests, MaxClaims, MaxFaults} \subseteq Nat
ASSUME RequestsAssumption == Requests \subseteq {"findnode", "includenode", "poweroff", "poweron"}

Actor == Handler \cup {Loop}
Claim == 0..MaxClaims      \* 0: never claimed

(* The nodes the loop goes round, and those includenode accepts. *)
Managed == {n \in Node \ Excluded : Included = {} \/ n \in Included}

(* Fault: the excluded nodes are not looked up. *)
FaultIncludable(n) == Excluded # {} \/ n \in Included
Includable(n) == n \notin Excluded /\ (Excluded # {} \/ n \in Included)

(* types.go node, as far as power management looks at it. *)
PowerState == {"on", "wakingUp", "off", "shuttingDown"}
Tenant == {"none", "deployed", "rented"}
View == [id: Node, power: PowerState, tenant: Tenant, used: BOOLEAN, claim: Claim]

VARIABLES
  (* the chain and the machines *)
  power,       \* state a node reports, and the target the bot sets
  tenant,      \* the contracts on a node
  farm,        \* the nodes in the farm
  (* state.go *)
  nodes,       \* state.nodes
  lock,        \* who holds state.m
  expired,     \* claims whose 30 minutes are over
  (* every goroutine's locals *)
  pc,
  node,        \* the node it deals with
  held,        \* the copy the caller of powerOn or updateNode holds
  copy,        \* powerOn's and powerOff's own copy
  ret,         \* where powerOn and powerOff return to
  (* the loop's locals *)
  todo,        \* farmNodes still to come
  offer,       \* nodes still to power on, or off
  left,        \* nodesLeftOnline
  (* counters, and the answers findnode gave *)
  requests, claims, faults, promised

chain == <<power, tenant, farm>>
round == <<todo, offer, left>>
count == <<requests, claims, faults, promised>>
vars == <<chain, nodes, lock, expired, pc, node, held, copy, ret, round, count>>

Step == {"idle", "lockOn", "callOn", "writeOn", "lockOff", "callOff", "writeOff", "writeOffErr",
         "claim", "delete", "load", "add", "sleep", "next", "refresh", "store", "wake",
         "reset", "periodic", "manage", "raise", "lower", "restore"}
UpDown == {"up", "down"}
-----------------------------------------------------------------------------
Ids(s) == {s[i].id : i \in DOMAIN s}
First(s, n) == CHOOSE i \in DOMAIN s : s[i].id = n /\ \A j \in 1..(i - 1) : s[j].id # n
View1(s, n) == s[First(s, n)]                       \* getNode
Copies(s, n) == Cardinality({i \in DOMAIN s : s[i].id = n})
On(s) == {i \in DOMAIN s : s[i].power = "on"}       \* filterNodesPower
LiveClaim(v) == v.claim # 0 /\ v.claim \notin expired

updateNode(s, v) == IF v.id \in Ids(s) THEN [s EXCEPT ![First(s, v.id)] = v] ELSE s
deleteNode(s, n) == IF n \in Ids(s) THEN RemoveAt(s, First(s, n)) ELSE s

(* Fault: the nodes that are still in the farm are deleted. *)
FaultSweep(s) == SelectSeq(s, LAMBDA v : v.id \notin farm)

(* iterateOnNodes ranges over state.nodes and deletes from it in place:    *)
(* the entry after a deleted one moves to its index and is not visited.    *)
Sweep(s) ==
  LET after[i \in 0..Len(s)] ==
        IF i = 0 THEN s
        ELSE IF i <= Len(after[i - 1]) /\ after[i - 1][i].id \notin farm
             THEN RemoveAt(after[i - 1], First(after[i - 1], after[i - 1][i].id))
             ELSE after[i - 1]
  IN after[Len(s)]

(* The power state getNode and update make of the chain's, and when they   *)
(* leave out the calls to the node.                                         *)
Seen(p) ==
  CASE p = [state |-> "up", target |-> "up"] -> "on"
    [] p = [state |-> "down", target |-> "up"] -> "wakingUp"
    [] p = [state |-> "up", target |-> "down"] -> "shuttingDown"
    [] OTHER -> "off"
SkipsRmb(s) == s \in {"off", "wakingUp"} /\ ContinueOnErr
Answers(n) == power[n].state = "up"

getNode(n) ==
  [id |-> n, power |-> Seen(power[n]), tenant |-> tenant[n],
   used |-> ~SkipsRmb(Seen(power[n])) /\ tenant[n] = "deployed", claim |-> 0]
Loadable(n) == n \in farm /\ (SkipsRmb(Seen(power[n])) \/ Answers(n))

(* update reads the contracts, the power and the resources, in this order; *)
(* k of the three came through.                                            *)
Refreshed(v, k) ==
  LET power1 == IF k >= 2 THEN Seen(power[v.id]) ELSE v.power
      stats  == k = 3 /\ ~SkipsRmb(power1) /\ ~LiveClaim(v)
  IN [v EXCEPT !.tenant = IF k >= 1 THEN tenant[v.id] ELSE @,
               !.power = power1,
               !.used = IF stats THEN tenant[v.id] = "deployed" ELSE @]

(* newState: every managed node could be loaded, and there are at least 2. *)
Init ==
  /\ farm = Node
  /\ power \in [Node -> [state: UpDown, target: UpDown]]
  /\ tenant \in [Node -> Tenancies \cup {"none"}]
  /\ \A n \in Node \ Rentable : tenant[n] = "none"
  /\ \A n \in Managed : Loadable(n)
  /\ Cardinality(Managed) >= 2
  /\ LET order == SetToSeq(Managed) IN nodes = [i \in DOMAIN order |-> getNode(order[i])]
  /\ lock = None /\ expired = {}
  /\ pc = [a \in Actor |-> IF a = Loop THEN "sleep" ELSE "idle"]
  /\ node = [a \in Actor |-> None] /\ ret = [a \in Actor |-> None]
  /\ held = [a \in Actor |-> None] /\ copy = [a \in Actor |-> None]
  /\ todo = {} /\ offer = {} /\ left = 0
  /\ requests = 0 /\ claims = 0 /\ faults = 0 /\ promised = {}
-----------------------------------------------------------------------------
At(a, s) == pc[a] = s

(* Locals do not outlive a request, a node of the loop, or powerOn. *)
Goto(a, s) ==
  LET over == s \in {"idle", "sleep", "next", "manage", "raise", "lower"}
  IN /\ pc' = [pc EXCEPT ![a] = s]
     /\ copy' = [copy EXCEPT ![a] = None]
     /\ node' = [node EXCEPT ![a] = IF over THEN None ELSE @]
     /\ held' = [held EXCEPT ![a] = IF over THEN None ELSE @]
     /\ ret' = [ret EXCEPT ![a] = IF over THEN None ELSE @]
Hold(a, s, v) ==
  /\ pc' = [pc EXCEPT ![a] = s] /\ held' = [held EXCEPT ![a] = v]
  /\ UNCHANGED <<copy, node, ret>>
Work(a, s, v) ==
  /\ pc' = [pc EXCEPT ![a] = s] /\ copy' = [copy EXCEPT ![a] = v]
  /\ UNCHANGED <<node, held, ret>>
Call(a, s, n, v, r) ==
  /\ pc' = [pc EXCEPT ![a] = s] /\ node' = [node EXCEPT ![a] = n]
  /\ held' = [held EXCEPT ![a] = v] /\ ret' = [ret EXCEPT ![a] = r]
  /\ UNCHANGED copy

(* What the callers of powerOn and powerOff do with an error: requests     *)
(* answer it, the loop logs it and goes on.                                *)
OnError(r) == CASE r \in {"claim", "delete"} -> "idle" [] r = "lower" -> "restore" [] OTHER -> r
Returns(a) == Goto(a, ret[a])
Fails(a) == Goto(a, OnError(ret[a]))

Costs(b) == faults' = IF b THEN faults + 1 ELSE faults
MayFail == faults < MaxFaults

(* SetNodePowerTarget: done, refused, or done but reported as failed.      *)
SetTarget(n, t) == power' = [power EXCEPT ![n].target = t]
-----------------------------------------------------------------------------
(* powerOn.  The mutex is held from the lookup to the call's answer; the   *)
(* copy is written after it is released and taken again.                   *)

LockOn(a) ==
  /\ At(a, "lockOn") /\ lock = None
  /\ \/ /\ node[a] \notin Ids(nodes)
        /\ Fails(a) /\ UNCHANGED lock
     \/ /\ node[a] \in Ids(nodes)
        /\ View1(nodes, node[a]).power \in {"on", "wakingUp"}
        /\ Returns(a) /\ UNCHANGED lock
     \/ /\ node[a] \in Ids(nodes)
        /\ View1(nodes, node[a]).power \notin {"on", "wakingUp"}
        /\ lock' = a
        /\ Work(a, "callOn", View1(nodes, node[a]))
  /\ UNCHANGED <<chain, nodes, expired, round, count>>

(* Fault: the mutex is not released. *)
FaultCallOn(a) ==
  /\ At(a, "callOn") /\ node[a] \in farm
  /\ SetTarget(node[a], "up")
  /\ Work(a, "writeOn", [copy[a] EXCEPT !.power = "wakingUp"])
  /\ UNCHANGED <<lock, tenant, farm, nodes, expired, round, count>>

CallOn(a) ==
  /\ At(a, "callOn")
  /\ node[a] \in farm
  /\ SetTarget(node[a], "up")
  /\ Work(a, "writeOn", [copy[a] EXCEPT !.power = "wakingUp"])
  /\ lock' = None
  /\ UNCHANGED <<tenant, farm, nodes, expired, round, count>>

CallOnFails(a) ==
  /\ At(a, "callOn")
  /\ \/ node[a] \notin farm /\ Costs(FALSE) /\ UNCHANGED power
     \/ node[a] \in farm /\ MayFail /\ Costs(TRUE) /\ UNCHANGED power
     \/ node[a] \in farm /\ MayFail /\ Costs(TRUE) /\ SetTarget(node[a], "up")
  /\ Fails(a)
  /\ lock' = None
  /\ UNCHANGED <<tenant, farm, nodes, expired, round, requests, claims, promised>>

WriteOn(a) ==
  /\ At(a, "writeOn") /\ lock = None
  /\ nodes' = updateNode(nodes, copy[a])
  /\ IF node[a] \in Ids(nodes) THEN Returns(a) ELSE Fails(a)
  /\ UNCHANGED <<chain, lock, expired, round, count>>
-----------------------------------------------------------------------------
(* powerOff. *)

Spare(v) ==
  /\ v.id \notin NeverShutDown
  /\ v.tenant = "none" /\ ~v.used /\ ~LiveClaim(v)

(* Fault: the node itself may be the last one that is on. *)
FaultOthersOn == On(nodes) # {}
OthersOn == Cardinality(On(nodes)) >= 2

LockOff(a) ==
  /\ At(a, "lockOff") /\ lock = None
  /\ LET known == node[a] \in Ids(nodes)
         v     == View1(nodes, node[a])
         down  == known /\ v.power \in {"off", "shuttingDown"}
     IN \/ down /\ Returns(a) /\ UNCHANGED lock
        \/ ~down /\ Fails(a) /\ UNCHANGED lock      \* a guard, or 30 minutes not over
        \/ /\ known /\ ~down /\ Spare(v) /\ OthersOn
           /\ lock' = a
           /\ Work(a, "callOff", v)
  /\ UNCHANGED <<chain, nodes, expired, round, count>>

(* Fault: the record stays "on" until the next refresh. *)
FaultCallOff(a) ==
  /\ At(a, "callOff") /\ node[a] \in farm
  /\ SetTarget(node[a], "down")
  /\ Work(a, "writeOff", copy[a])
  /\ lock' = None
  /\ UNCHANGED <<tenant, farm, nodes, expired, round, count>>

CallOff(a) ==
  /\ At(a, "callOff")
  /\ node[a] \in farm
  /\ SetTarget(node[a], "down")
  /\ Work(a, "writeOff", [copy[a] EXCEPT !.power = "shuttingDown"])
  /\ lock' = None
  /\ UNCHANGED <<tenant, farm, nodes, expired, round, count>>

(* After an error powerOff asks for the node's power: a node that is going *)
(* down all the same is recorded, and the error returned.                  *)
CallOffFails(a) ==
  /\ At(a, "callOff")
  /\ \/ node[a] \notin farm /\ Costs(FALSE) /\ UNCHANGED power
     \/ node[a] \in farm /\ MayFail /\ Costs(TRUE) /\ UNCHANGED power
     \/ node[a] \in farm /\ MayFail /\ Costs(TRUE) /\ SetTarget(node[a], "down")
  /\ \/ "down" \in {power'[node[a]].state, power'[node[a]].target}
        /\ node[a] \in farm
        /\ Work(a, "writeOffErr", [copy[a] EXCEPT !.power = "shuttingDown"])
     \/ /\ \/ "down" \notin {power'[node[a]].state, power'[node[a]].target}
           \/ node[a] \notin farm
           \/ StatusFails
        /\ Fails(a)
  /\ lock' = None
  /\ UNCHANGED <<tenant, farm, nodes, expired, round, requests, claims, promised>>

WriteOff(a) ==
  /\ At(a, "writeOff") \/ At(a, "writeOffErr")
  /\ lock = None
  /\ nodes' = updateNode(nodes, copy[a])
  /\ IF At(a, "writeOff") /\ node[a] \in Ids(nodes) THEN Returns(a) ELSE Fails(a)
  /\ UNCHANGED <<chain, lock, expired, round, count>>
-----------------------------------------------------------------------------
(* Run: a round of iterateOnNodes.  A round whose GetNodes fails does      *)
(* nothing; shouldWakeUp and the first of the month are choices.           *)

FetchNodes ==
  /\ At(Loop, "sleep") /\ lock = None
  /\ nodes' = Sweep(nodes)
  /\ todo' = Managed \cap farm
  /\ Goto(Loop, "next")
  /\ UNCHANGED <<chain, lock, expired, offer, left, count>>

(* Fault: it does not ask whether the node is there. *)
FaultNextNode(n) ==
  /\ At(Loop, "next") /\ n \in todo
  /\ todo' = todo \ {n}
  /\ Call(Loop, "load", n, None, None)
  /\ UNCHANGED <<chain, nodes, lock, expired, offer, left, count>>

(* addOrUpdateNode.                                                        *)
NextNode(n) ==
  /\ At(Loop, "next") /\ n \in todo
  /\ todo' = todo \ {n}
  /\ IF n \in Ids(nodes)
     THEN Call(Loop, "refresh", n, View1(nodes, n), None)
     ELSE Call(Loop, "load", n, None, None)
  /\ UNCHANGED <<chain, nodes, lock, expired, offer, left, count>>

(* How far update comes: a node that left fails at once, a node that does  *)
(* not answer after its power was read.                                    *)
Refresh ==
  /\ At(Loop, "refresh")
  /\ \E k \in 0..3 :
       LET v    == Refreshed(held[Loop], k)
           hung == k = 2 /\ ~Answers(v.id) /\ ~SkipsRmb(v.power)
       IN /\ v.id \notin farm => k = 0
          /\ k = 3 => Answers(v.id) \/ SkipsRmb(v.power)
          /\ Costs(k < 3 /\ v.id \in farm /\ ~hung) /\ faults' <= MaxFaults
          /\ Hold(Loop, "store", v)
  /\ UNCHANGED <<chain, nodes, lock, expired, round, requests, claims, promised>>

Store ==
  /\ At(Loop, "store") /\ lock = None
  /\ nodes' = updateNode(nodes, held[Loop])
  /\ Hold(Loop, "wake", None)
  /\ UNCHANGED <<chain, lock, expired, round, count>>

(* state.go getNode, for the loop and for includenode. *)
Load(a) ==
  /\ At(a, "load") /\ Loadable(node[a])
  /\ Hold(a, "add", getNode(node[a]))
  /\ UNCHANGED <<chain, nodes, lock, expired, round, count>>

LoadFails(a) ==
  /\ At(a, "load")
  /\ Loadable(node[a]) => MayFail
  /\ Costs(Loadable(node[a]))
  /\ IF a = Loop THEN Hold(a, "wake", None) ELSE Goto(a, "idle")
  /\ UNCHANGED <<chain, nodes, lock, expired, round, requests, claims, promised>>

Add(a) ==
  /\ At(a, "add") /\ lock = None
  /\ nodes' = Append(nodes, held[a])
  /\ IF a = Loop THEN Hold(a, "wake", None) ELSE Goto(a, "idle")
  /\ UNCHANGED <<chain, lock, expired, round, count>>

MustBeOn(v) == v.id \in NeverShutDown \/ v.tenant = "rented"

(* A node that is not found reads as the zero record, which is "on". *)
Wake ==
  /\ At(Loop, "wake")
  /\ IF node[Loop] \notin Ids(nodes) THEN Goto(Loop, "next")
     ELSE LET v == View1(nodes, node[Loop])
          IN IF v.power = "off" /\ MustBeOn(v)
             THEN Call(Loop, "lockOn", v.id, v, "reset")
             ELSE Hold(Loop, "reset", v)
  /\ UNCHANGED <<chain, nodes, lock, expired, round, count>>

(* On the first of the month the record Wake read is written back. *)
Reset ==
  /\ At(Loop, "reset")
  /\ \/ UNCHANGED nodes
     \/ lock = None /\ nodes' = updateNode(nodes, held[Loop])
  /\ Hold(Loop, "periodic", held[Loop])
  /\ UNCHANGED <<chain, lock, expired, round, count>>

(* shouldWakeUp: the record Wake read is written back, then powerOn. *)
WakePeriodic ==
  /\ At(Loop, "periodic") /\ held[Loop].power = "off" /\ lock = None
  /\ nodes' = updateNode(nodes, held[Loop])
  /\ Call(Loop, "lockOn", node[Loop], None, "next")
  /\ UNCHANGED <<chain, lock, expired, round, count>>

LetSleep ==
  /\ At(Loop, "periodic")
  /\ Goto(Loop, "next")
  /\ UNCHANGED <<chain, nodes, lock, expired, round, count>>

(* manageNodesPower.  Which off nodes selectNodesToPowerOn finds for the   *)
(* demand (none, if it fails), and whether the rest of the farm can do     *)
(* without a node, are choices.                                            *)
RaisePower ==
  /\ At(Loop, "next") /\ todo = {}
  /\ \E S \in SUBSET {n \in Ids(nodes) : \E i \in DOMAIN nodes : nodes[i].id = n /\ nodes[i].power = "off"} :
       offer' = S
  /\ Goto(Loop, "raise")
  /\ UNCHANGED <<chain, nodes, lock, expired, todo, left, count>>

PowerOnOne ==
  /\ At(Loop, "raise")
  /\ \E n \in offer : offer' = offer \ {n} /\ Call(Loop, "lockOn", n, None, "raise")
  /\ UNCHANGED <<chain, nodes, lock, expired, todo, left, count>>

(* resourceUsageTooLow: canShutDown filters, powerOff checks again. *)
LowerPower ==
  /\ At(Loop, "next") /\ todo = {}
  /\ offer' = {n \in Ids(nodes) : \E i \in DOMAIN nodes :
                 nodes[i].id = n /\ nodes[i].power = "on" /\ Spare(nodes[i])}
  /\ left' = Cardinality(On(nodes))
  /\ left' > 1 /\ offer' # {}
  /\ Goto(Loop, "lower")
  /\ UNCHANGED <<chain, nodes, lock, expired, todo, count>>

PowerOffOne ==
  /\ At(Loop, "lower") /\ left # 1
  /\ \E n \in offer :
       /\ offer' = offer \ {n}
       /\ Call(Loop, "lockOff", n, None, "lower") \/ Goto(Loop, "lower")
  /\ left' = left - 1
  /\ UNCHANGED <<chain, nodes, lock, expired, todo, count>>

PowerOffFailed ==
  /\ At(Loop, "restore")
  /\ left' = left + 1
  /\ Goto(Loop, "lower")
  /\ UNCHANGED <<chain, nodes, lock, expired, todo, offer, count>>

EndRound ==
  /\ \/ At(Loop, "next") /\ todo = {}
     \/ At(Loop, "raise") /\ offer = {}
     \/ At(Loop, "lower") /\ (offer = {} \/ left = 1)
  /\ offer' = {} /\ left' = 0
  /\ Goto(Loop, "sleep")
  /\ UNCHANGED <<chain, nodes, lock, expired, todo, count>>
-----------------------------------------------------------------------------
(* The requests.  One that is refused at once changes nothing. *)

Request(h, r) ==
  /\ At(h, "idle") /\ r \in Requests /\ requests < MaxRequests
  /\ requests' = requests + 1
  /\ UNCHANGED <<chain, nodes, lock, expired, round, faults, promised>>

(* findNode: the options asked for may leave any node with room as the     *)
(* first of the sorted candidates.                                         *)
FindNode(h) ==
  /\ Request(h, "findnode") /\ claims < MaxClaims
  /\ claims' = claims + 1
  /\ \E i \in DOMAIN nodes :
       LET v == [nodes[i] EXCEPT !.used = TRUE, !.claim = claims + 1]
       IN /\ nodes[i].tenant # "rented" /\ ~nodes[i].used
          /\ IF v.power \in {"off", "shuttingDown"}
             THEN Call(h, "lockOn", v.id, v, "claim")
             ELSE Call(h, "claim", v.id, v, None)

ClaimNode(h) ==
  /\ At(h, "claim") /\ lock = None
  /\ nodes' = updateNode(nodes, held[h])
  /\ promised' = IF node[h] \in Ids(nodes)
                 THEN promised \cup {<<node[h], held[h].claim>>} ELSE promised
  /\ Goto(h, "idle")
  /\ UNCHANGED <<chain, lock, expired, round, requests, claims, faults>>

IncludeNode(h, n) ==
  /\ Request(h, "includenode") /\ UNCHANGED claims
  /\ n \notin Ids(nodes) /\ Includable(n)
  /\ Call(h, "load", n, None, None)

PowerOff(h, n) ==
  /\ Request(h, "poweroff") /\ UNCHANGED claims
  /\ Call(h, "lockOff", n, None, "delete")

PowerOn(h, n) ==
  /\ Request(h, "poweron") /\ UNCHANGED claims
  /\ Call(h, "lockOn", n, None, "delete")

DeleteNode(h) ==
  /\ At(h, "delete") /\ lock = None
  /\ nodes' = deleteNode(nodes, node[h])
  /\ Goto(h, "idle")
  /\ UNCHANGED <<chain, lock, expired, round, count>>
-----------------------------------------------------------------------------
(* The machines follow their target; contracts come and go; nodes leave;   *)
(* claims run out.                                                         *)
bot == <<nodes, lock, pc, node, held, copy, ret, round, count>>

NodeFollows(n) ==
  /\ power[n].state # power[n].target
  /\ power' = [power EXCEPT ![n].state = power[n].target]
  /\ UNCHANGED <<tenant, farm, expired, bot>>

TenantChanges(n) ==
  /\ n \in farm \cap Rentable
  /\ \E t \in (Tenancies \cup {"none"}) \ {tenant[n]} :
       /\ "none" \in {t, tenant[n]}
       /\ tenant' = [tenant EXCEPT ![n] = t]
  /\ UNCHANGED <<power, farm, expired, bot>>

Leave(n) ==
  /\ n \in farm \cap Leavers
  /\ farm' = farm \ {n}
  /\ UNCHANGED <<power, tenant, expired, bot>>

ClaimExpires(c) ==
  /\ c \in (1..claims) \ expired
  /\ expired' = expired \cup {c}
  /\ UNCHANGED <<chain, bot>>
-----------------------------------------------------------------------------
PowerCall(a) ==
  \/ LockOn(a) \/ CallOn(a) \/ CallOnFails(a) \/ WriteOn(a)
  \/ LockOff(a) \/ CallOff(a) \/ CallOffFails(a) \/ WriteOff(a)

LoopStep ==
  \/ FetchNodes \/ (\E n \in Node : NextNode(n)) \/ Refresh \/ Store
  \/ Load(Loop) \/ LoadFails(Loop) \/ Add(Loop)
  \/ Wake \/ Reset \/ WakePeriodic \/ LetSleep
  \/ RaisePower \/ PowerOnOne \/ LowerPower \/ PowerOffOne \/ PowerOffFailed \/ EndRound
  \/ PowerCall(Loop)

Serve(h) ==
  \/ ClaimNode(h) \/ Load(h) \/ LoadFails(h) \/ Add(h) \/ DeleteNode(h)
  \/ PowerCall(h)

Ask(h) == FindNode(h) \/ \E n \in Node : IncludeNode(h, n) \/ PowerOff(h, n) \/ PowerOn(h, n)

World ==
  \/ \E n \in Node : NodeFollows(n) \/ TenantChanges(n) \/ Leave(n)
  \/ \E c \in Claim : ClaimExpires(c)

Next == LoopStep \/ (\E h \in Handler : Serve(h) \/ Ask(h)) \/ World

Spec == Init /\ [][Next]_vars

(* The loop runs for ever; a request that came is served.  Strong fairness *)
(* where a request waits for the mutex, which Go hands to a waiter after   *)
(* a millisecond.  A machine reaches its power target in the end.          *)
FairSpec ==
  /\ Spec
  /\ WF_vars(LoopStep)
  /\ \A h \in Handler : SF_vars(Serve(h))
  /\ \A n \in Node : WF_vars(NodeFollows(n))
-----------------------------------------------------------------------------
(* Types; and the mutex is held exactly by who calls the chain. *)
TypeOK ==
  /\ power \in [Node -> [state: UpDown, target: UpDown]]
  /\ tenant \in [Node -> Tenant] /\ farm \subseteq Node
  /\ nodes \in Seq(View)
  /\ lock \in Actor \cup {None} /\ expired \subseteq Claim
  /\ pc \in [Actor -> Step]
  /\ node \in [Actor -> Node \cup {None}]
  /\ held \in [Actor -> View \cup {None}] /\ copy \in [Actor -> View \cup {None}]
  /\ ret \in [Actor -> Step \cup {None}]
  /\ todo \subseteq Node /\ offer \subseteq Node /\ left \in Nat
  /\ requests \in 0..MaxRequests /\ claims \in Claim /\ faults \in 0..MaxFaults
  /\ promised \subseteq Node \X Claim
  /\ \A a \in Actor : lock = a <=> pc[a] \in {"callOn", "callOff"}

(* The bot manages no node twice, and none that is excluded. *)
NoDuplicates ==
  /\ \A i, j \in DOMAIN nodes : nodes[i].id = nodes[j].id => i = j
  /\ Ids(nodes) \cap Excluded = {}

(* A node that the bot counts as on has its target up, save while powerOff *)
(* has yet to write what it did: this is what lets powerOff's check of two *)
(* nodes keep one of them on.                                              *)
CountedIsUp ==
  \A i \in DOMAIN nodes :
    nodes[i].power = "on" =>
      \/ power[nodes[i].id].target = "up"
      \/ \E a \in Actor : node[a] = nodes[i].id /\ pc[a] \in {"writeOff", "writeOffErr"}

(* "At least one node should be on in the farm": no step leaves a farm of  *)
(* which some managed node is to be up without one.                        *)
SomeUp == \E n \in Managed : power[n].target = "up"
StaysUp == SomeUp => SomeUp'
KeepsOneOn == [][StaysUp]_vars

(* The bot never sets the power target of a node its configuration        *)
(* excludes, whatever is asked of it.                                      *)
LeftAlone == \A n \in Excluded : power'[n].target = power[n].target
ExcludedLeftAlone == [][LeftAlone]_vars

(* includenode looks a node up and adds it in two steps, as the loop does: *)
(* a node may be managed twice.  Never more often than there are           *)
(* goroutines that add.                                                    *)
Adding(n) == {a \in Actor : node[a] = n /\ pc[a] \in {"load", "add"}}
CopiesBounded ==
  \A n \in Node : Copies(nodes, n) + Cardinality(Adding(n)) <= Cardinality(Actor)

(* A request that was taken up is answered: no path keeps the mutex. *)
RequestServed == \A h \in Handler : pc[h] # "idle" ~> pc[h] = "idle"

(* A rented node of the farm that is to be down is turned on again. *)
RentedComesUp ==
  \A n \in Managed :
    tenant[n] = "rented" /\ n \in farm
      ~> tenant[n] # "rented" \/ n \notin farm \/ power[n].target = "up"

(* A node that left the farm is dropped. *)
VanishedDropped == \A n \in Node : n \notin farm ~> n \notin Ids(nodes)

(* What happens to a farm, the bot follows. *)
FarmFollowed == RentedComesUp /\ VanishedDropped

(* types.go: claimed resources "should not be overwritten until the       *)
(* timeout": while a claim findnode promised runs, the node has one.       *)
ClaimKept ==
  \A p \in promised :
    p[2] \notin expired /\ p[1] \in Ids(nodes) => LiveClaim(View1(nodes, p[1]))

(* README: after poweron or poweroff a node "will be EXCLUDED from        *)
(* farmerbot management": the loop, which began with every managed node,   *)
(* never adds one.                                                         *)
StaysExcluded == [][At(Loop, "add") => Ids(nodes') \subseteq Ids(nodes)]_vars
=============================================================================
