------------------------------- MODULE Gateways -------------------------------
(***************************************************************************)
(* The gateways of a twin: grid-client/deployer/gateway_name_deployer.go   *)
(* and gateway_fqdn_deployer.go, their workloads, the part of              *)
(* subi/substrate_manager.go they use, and the listing and cancelling of   *)
(* all contracts of a project (graphql/contracts.go).                      *)
(*                                                                         *)
(* A name gateway needs a name contract beside the contract of its node;   *)
(* an fqdn gateway brings its domain. Backends, the passthrough flag and   *)
(* the network of a gateway are one opaque field, data.                    *)
(***************************************************************************)
EXTENDS Outcome, Sequences, TLC

CONSTANTS
  Gateway,    \* the gateway objects of the callers
  FqdnKind,   \* those that are GatewayFQDNProxy, the others are GatewayNameProxy
  Project,    \* the project of a gateway
  GwName, Data,
  Node, PublicNode,  \* nodes, and those with an ipv4 address in their public config
  MaxIds, MaxCalls, MaxFaults

(* A gateway is of a project of its own, which the callers name after it:   *)
(* at most a name gateway and an fqdn gateway share one.                    *)
GatewayAssumption ==
  /\ FqdnKind \subseteq Gateway /\ PublicNode \subseteq Node /\ DOMAIN Project = Gateway
  /\ Node \subseteq Nat \ {0} /\ IsFiniteSet(Node)
  /\ \A g, h \in Gateway : g # h /\ Project[g] = Project[h] => (g \in FqdnKind <=> h \notin FqdnKind)

NoName == ""
NoDomain == "none"
Empty == <<>>

VARIABLES
  gws,      \* the gateways in the callers' hands
  chain,    \* contract -> the contract, with the deployment of its node
  tracked,  \* State.CurrentNodeDeployments
  made, status, calls, faults

vars == <<gws, chain, tracked, made, status, calls, faults>>

NewGateway == [name |-> NoName, data |-> "none", fqdn |-> NoDomain, node |-> 0,
               ids |-> Empty, nameId |-> 0, cid |-> 0]

(***************************************************************************)
(* The workloads                                                           *)
(***************************************************************************)
(* The domain of a name gateway is made by its node.                        *)
Domain(name, node) == name \o "." \o ToString(node)

(* Validate of the deployer: an fqdn gateway needs a valid domain and a     *)
(* node with an address.                                                    *)
Valid(g, gw) ==
  /\ gw.name # NoName /\ gw.node # 0 /\ gw.data # "bad"
  /\ g \in FqdnKind => gw.fqdn # "bad" /\ gw.node \in PublicNode

(* ZosWorkload and GenerateMetadata, as the contract of the node has them.  *)
NodeContract(g, gw, state) ==
  [type |-> "node", node |-> gw.node, name |-> gw.name, project |-> Project[g], created |-> TRUE,
   wl |-> [type |-> IF g \in FqdnKind THEN "fqdn" ELSE "name", name |-> gw.name, data |-> gw.data,
           fqdn |-> IF g \in FqdnKind THEN gw.fqdn ELSE Domain(gw.name, gw.node), state |-> state]]
NameContract(name) ==
  [type |-> "name", node |-> 0, name |-> name, project |-> NoName, created |-> TRUE, wl |-> Empty]

(* Fault: the domain is not read back. *)
FaultFromWorkload(gw, wl) == [gw EXCEPT !.name = wl.name, !.data = wl.data]

(* NewGatewayNameProxyFromZosWorkload, NewGatewayFQDNProxyFromZosWorkload.  *)
FromWorkload(gw, wl) == [gw EXCEPT !.name = wl.name, !.data = wl.data, !.fqdn = wl.fqdn]
Blank(gw) == [gw EXCEPT !.name = NoName, !.data = "none", !.fqdn = NoDomain]

(***************************************************************************)
(* The chain, as SubstrateImpl shows it                                    *)
(***************************************************************************)
Exists(id) == id \in DOMAIN chain
IsValidContract(id) == Exists(id) /\ chain[id].created
DeleteInvalidContracts(ids) == [n \in {n \in DOMAIN ids : IsValidContract(ids[n])} |-> ids[n]]
Registered(c, name) == \E id \in DOMAIN c : c[id].type = "name" /\ c[id].name = name

(* InvalidateNameContract: a contract of another name is cancelled. The id  *)
(* is zero when it is gone, not valid, cancelled, and when the chain did    *)
(* not answer: [id, chain, ok].                                             *)
InvalidateNameContract(c, id, name) ==
  IF id = 0 THEN {[id |-> 0, chain |-> c, ok |-> TRUE]}
  ELSE {[id |-> 0, chain |-> c, ok |-> FALSE]}
    \cup {IF id \notin DOMAIN c \/ ~c[id].created THEN [id |-> 0, chain |-> c, ok |-> TRUE]
          ELSE IF c[id].name # name THEN [id |-> 0, chain |-> Without(c, {id}), ok |-> TRUE]
          ELSE [id |-> id, chain |-> c, ok |-> TRUE]}

(* The name contract of a gateway before it is deployed: the one it has, or *)
(* a new one, if the name is free.                                          *)
Named(g, gw, c, m) ==
  IF g \in FqdnKind THEN {[id |-> gw.nameId, chain |-> c, made |-> m, ok |-> TRUE]}
  ELSE {IF ~r.ok \/ (r.id = 0 /\ Registered(r.chain, gw.name))
          THEN [id |-> r.id, chain |-> r.chain, made |-> m, ok |-> FALSE]
        ELSE IF r.id # 0 THEN [id |-> r.id, chain |-> r.chain, made |-> m, ok |-> TRUE]
        ELSE [id |-> m + 1, chain |-> Over(Single(m + 1, NameContract(gw.name)), r.chain), made |-> m + 1, ok |-> TRUE] :
          r \in InvalidateNameContract(c, gw.nameId, gw.name)}

Init ==
  /\ gws = [g \in Gateway |-> NewGateway]
  /\ chain = Empty
  /\ tracked = [n \in Node |-> {}]
  /\ made = 0
  /\ status = [g \in Gateway |-> "new"]
  /\ calls = 0 /\ faults = 0

(***************************************************************************)
(* The deployers                                                           *)
(***************************************************************************)
Ends(g, how) == status' = [status EXCEPT ![g] = how]
Track(t, node, ids) == IF node \in DOMAIN ids THEN [t EXCEPT ![node] = @ \cup {ids[node]}] ELSE t

Refused(g, gw) ==
  /\ ~Valid(g, gw)
  /\ gws' = [gws EXCEPT ![g] = gw]
  /\ Ends(g, "refused")
  /\ UNCHANGED <<chain, tracked, made>>

NotNamed(g, gw, r) ==
  /\ ~r.ok
  /\ gws' = [gws EXCEPT ![g] = [gw EXCEPT !.nameId = r.id]]
  /\ chain' = r.chain /\ made' = r.made
  /\ Ends(g, "unnamed")
  /\ UNCHANGED tracked

(* The end of Deploy without error: the contract is recorded.               *)
DeploySucceeds(g, gw, r) ==
  LET new == Single(gw.node, NodeContract(g, gw, "ok"))
      out == Succeeded(gw.ids, r.chain, new, r.made)
  IN  /\ r.ok /\ Succeeds(gw.ids, r.chain, new)
      /\ gws' = [gws EXCEPT ![g] = [gw EXCEPT !.ids = out.ids, !.nameId = r.id, !.cid = out.ids[gw.node]]]
      /\ chain' = out.grid /\ made' = out.made
      /\ tracked' = Track(tracked, gw.node, out.ids)
      /\ Ends(g, "ok")

(* After an error the name contract is cancelled, its id stays. A name      *)
(* gateway records nothing then, an fqdn gateway what there is.             *)
DeployFails(g, gw, r) ==
  /\ r.ok /\ faults < MaxFaults
  /\ \E out \in Failures(gw.ids, r.chain, Single(gw.node, NodeContract(g, gw, "error")), r.made), cancelled \in BOOLEAN :
       LET known == g \in FqdnKind /\ gw.node \in DOMAIN out.ids
       IN  /\ gws' = [gws EXCEPT ![g] = [gw EXCEPT !.ids = out.ids, !.nameId = r.id,
                                                 !.cid = IF known THEN out.ids[gw.node] ELSE @]]
           /\ chain' = IF g \notin FqdnKind /\ cancelled THEN Without(out.grid, {r.id}) ELSE out.grid
           /\ made' = out.made
           /\ tracked' = IF known THEN Track(tracked, gw.node, out.ids) ELSE tracked
  /\ Ends(g, "failed")

Deploy(g, gw) ==
  \/ Refused(g, gw)
  \/ /\ Valid(g, gw)
     /\ \E r \in Named(g, gw, chain, made) : NotNamed(g, gw, r) \/ DeploySucceeds(g, gw, r) \/ DeployFails(g, gw, r)

(* BatchDeploy of two gateways that have no contract yet: the first one     *)
(* without a name ends the call, name contracts made before stay.           *)
BatchUnnamed(g, gw, h, hw, r, s) ==
  /\ ~s.ok
  /\ gws' = [gws EXCEPT ![g] = [gw EXCEPT !.nameId = r.id], ![h] = [hw EXCEPT !.nameId = s.id]]
  /\ chain' = s.chain /\ made' = s.made
  /\ status' = [status EXCEPT ![g] = "unnamed", ![h] = "unnamed"]
  /\ UNCHANGED tracked

BatchEnds(g, gw, h, hw, r, s, done) ==
  LET cg == s.made + 1
      ch == s.made + 2
      idsOf(k, node, id) == IF k \in done THEN Single(node, id) ELSE Empty
      cidOf(k, id, before) == IF k \in done THEN id ELSE before
      end(k) == IF k \in done THEN "ok" ELSE "failed"
      idG == idsOf(g, gw.node, cg)
      idH == idsOf(h, hw.node, ch)
      new == Over(idsOf(g, cg, NodeContract(g, gw, "ok")), idsOf(h, ch, NodeContract(h, hw, "ok")))
  IN  /\ s.ok /\ (done # {g, h} => faults < MaxFaults)
      /\ gws' = [gws EXCEPT ![g] = [gw EXCEPT !.ids = idG, !.nameId = r.id, !.cid = cidOf(g, cg, gw.cid)],
                            ![h] = [hw EXCEPT !.ids = idH, !.nameId = s.id, !.cid = cidOf(h, ch, hw.cid)]]
      /\ chain' = Over(new, s.chain) /\ made' = s.made + 2
      /\ tracked' = Track(Track(tracked, gw.node, idG), hw.node, idH)
      /\ status' = [status EXCEPT ![g] = end(g), ![h] = end(h)]

Seconds(h, hw, r) ==
  IF Valid(h, hw) THEN Named(h, hw, r.chain, r.made) ELSE {[r EXCEPT !.ok = FALSE, !.id = hw.nameId]}

BatchDeploy(g, gw, h, hw) ==
  /\ Valid(g, gw) /\ gws[g].ids = Empty /\ gws[h].ids = Empty
  /\ \E r \in Named(g, gw, chain, made) :
       \/ NotNamed(g, gw, r)
       \/ /\ r.ok
          /\ \E s \in Seconds(h, hw, r) :
               BatchUnnamed(g, gw, h, hw, r, s) \/ \E done \in SUBSET {g, h} : BatchEnds(g, gw, h, hw, r, s, done)

(* Fault: the id of the name contract is forgotten, cancelled or not. *)
FaultCancel(g, named) ==
  LET gw == gws[g]
  IN  /\ gw.node # 0
      /\ chain' = Without(chain, {gw.cid} \cup (IF named THEN {gw.nameId} ELSE {}))
      /\ gws' = [gws EXCEPT ![g].cid = 0, ![g].ids = Without(@, {gw.node}), ![g].nameId = 0]
      /\ tracked' = [tracked EXCEPT ![gw.node] = @ \ {gw.cid}]
      /\ Ends(g, "cancelled")
      /\ UNCHANGED made

(* Cancel: the deployment, then the name. An fqdn gateway is validated.     *)
Cancel(g, named) ==
  LET gw == gws[g]
      id == IF gw.node \in DOMAIN gw.ids THEN gw.ids[gw.node] ELSE 0
      both == g \notin FqdnKind /\ named
  IN  /\ gw.node # 0 /\ (g \in FqdnKind => Valid(g, gw))
      /\ chain' = Without(chain, {id} \cup (IF both THEN {gw.nameId} ELSE {}))
      /\ gws' = [gws EXCEPT ![g].cid = 0, ![g].ids = Without(@, {gw.node}), ![g].nameId = IF both THEN 0 ELSE @]
      /\ tracked' = [tracked EXCEPT ![gw.node] = @ \ {id}]
      /\ Ends(g, IF both \/ g \in FqdnKind \/ gw.nameId = 0 THEN "cancelled" ELSE "failed")
      /\ UNCHANGED made

(* Sync: what is not valid is forgotten, then the fields are those of the   *)
(* workload of its name, or blank.                                          *)
Sync(g) ==
  LET gw  == gws[g]
      ids == DeleteInvalidContracts(gw.ids)
      nid == IF g \notin FqdnKind /\ IsValidContract(gw.nameId) THEN gw.nameId ELSE 0
      up  == gw.node \in DOMAIN ids /\ chain[ids[gw.node]].wl.name = gw.name /\ chain[ids[gw.node]].wl.state = "ok"
      now == [gw EXCEPT !.ids = ids, !.nameId = nid, !.cid = IF nid = 0 /\ ids = Empty THEN 0 ELSE @]
  IN  /\ gw.node # 0
      /\ gws' = [gws EXCEPT ![g] = IF up THEN FromWorkload(now, chain[ids[gw.node]].wl) ELSE Blank(now)]
      /\ Ends(g, "synced")
      /\ UNCHANGED <<chain, tracked, made>>

(* LoadGatewayNameFromGrid, LoadGatewayFQDNFromGrid, from the contracts     *)
(* GetNodeContractsByTypeAndName finds on the chain for the project: the    *)
(* first of the type and name.                                              *)
Load(g, name) ==
  /\ gws[g] = NewGateway \/ (status[g] = "ok" /\ gws[g].name = name)
  /\ \E id \in DOMAIN chain :
       LET c == chain[id]
       IN  /\ c.type = "node" /\ c.project = Project[g] /\ c.name = name
           /\ c.wl.type = (IF g \in FqdnKind THEN "fqdn" ELSE "name")
           /\ g \notin FqdnKind => Registered(chain, name)
           /\ gws' = [gws EXCEPT ![g] = [FromWorkload(NewGateway, c.wl) EXCEPT !.node = c.node, !.cid = id,
                        !.ids = Single(c.node, id),
                        !.nameId = IF g \in FqdnKind THEN 0
                                   ELSE CHOOSE i \in DOMAIN chain : chain[i].type = "name" /\ chain[i].name = name]]
           /\ tracked' = [tracked EXCEPT ![c.node] = {id}]
  /\ Ends(g, "loaded")
  /\ UNCHANGED <<chain, made>>

(***************************************************************************)
(* Projects                                                                *)
(***************************************************************************)
(* ListContractsOfProjectName: node contracts by their metadata, and the    *)
(* name contracts of the name gateways found on their nodes.                *)
NodeContractsOf(project) == {id \in DOMAIN chain : chain[id].type = "node" /\ chain[id].project = project}
NameContractsOf(project) ==
  {id \in DOMAIN chain : chain[id].type = "name" /\
     \E i \in NodeContractsOf(project) : chain[i].wl.type = "name" /\ chain[i].wl.name = chain[id].name}
ListContractsOfProjectName(project, noGateways) ==
  NodeContractsOf(project) \cup (IF noGateways THEN {} ELSE NameContractsOf(project))

(* CancelByProjectName, whose contracts fit one batch here.                 *)
CancelByProjectName(project, noGateways) ==
  /\ chain' = Without(chain, ListContractsOfProjectName(project, noGateways))
  /\ status' = [g \in Gateway |->
                  IF Project[g] = project \/ (g \notin FqdnKind /\ gws[g].nameId \notin DOMAIN chain')
                    THEN "gone" ELSE status[g]]
  /\ UNCHANGED <<gws, tracked, made>>

(* A contract runs out of money, or ends.                                   *)
GracePeriod(id) == Exists(id) /\ chain' = [chain EXCEPT ![id].created = FALSE]
ContractEnds(id) == Exists(id) /\ chain' = Without(chain, {id})

Asked(g, name, data, fqdn, node) ==
  [gws[g] EXCEPT !.name = name, !.data = data, !.fqdn = IF g \in FqdnKind THEN fqdn ELSE @, !.node = node]

Call(action) ==
  /\ calls < MaxCalls /\ made + 3 <= MaxIds
  /\ action
  /\ calls' = calls + 1
  /\ faults' = faults + (IF \E g \in Gateway : status'[g] = "failed" /\ status'[g] # status[g] THEN 1 ELSE 0)
  /\ faults' <= MaxFaults

Next ==
  \/ \E g \in Gateway, name \in GwName, data \in Data, fqdn \in {"domain", "bad"}, node \in Node :
       Call(Deploy(g, Asked(g, name, data, fqdn, node)))
  \/ \E g, h \in Gateway, name, other \in GwName, node, place \in Node :
       g # h /\ name # other /\ Call(BatchDeploy(g, Asked(g, name, "x", "domain", node), h, Asked(h, other, "x", "domain", place)))
  \/ \E g \in Gateway : (\E named \in BOOLEAN : Call(Cancel(g, named))) \/ Call(Sync(g))
  \/ \E g \in Gateway, name \in GwName : Call(Load(g, name))
  \/ \E p \in {Project[g] : g \in Gateway}, noGateways \in BOOLEAN : Call(CancelByProjectName(p, noGateways))
  \/ /\ faults < MaxFaults /\ faults' = faults + 1
     /\ \E id \in DOMAIN chain : GracePeriod(id) \/ ContractEnds(id)
     /\ status' = [g \in Gateway |-> "stale"]
     /\ UNCHANGED <<gws, tracked, made, calls>>

Spec == Init /\ [][Next]_vars

(***************************************************************************)
(* Properties                                                              *)
(***************************************************************************)
(* A name gateway that was deployed without error has a contract for the    *)
(* name it runs under, after any renames, moves and failures before; and    *)
(* every gateway has one contract, on the node it was asked for.            *)
HasItsName ==
  \A g \in Gateway : status[g] = "ok" =>
    /\ g \notin FqdnKind =>
         IsValidContract(gws[g].nameId) /\ chain[gws[g].nameId] = NameContract(gws[g].name)
    /\ {id \in DOMAIN chain : chain[id].type = "node" /\ \E n \in DOMAIN gws[g].ids : gws[g].ids[n] = id}
         = {gws[g].cid}
    /\ chain[gws[g].cid].node = gws[g].node /\ chain[gws[g].cid].wl.name = gws[g].name

(* A name contract that a caller has does not slip from its hands while it  *)
(* lives, unless the chain does not answer when it is looked at: then the   *)
(* gateway's id of it becomes zero.                                         *)
NameStep ==
  \A g \in Gateway :
    LET id == gws[g].nameId
    IN  id # 0 /\ IsValidContract(id) /\ id \in DOMAIN chain' /\ chain'[id].created =>
          gws'[g].nameId = id \/ status'[g] = "unnamed"
NameKept == [][NameStep]_vars

(* Reading a gateway back right after it was deployed, with Sync or from    *)
(* the contracts of its project, gives what was deployed; but a contract    *)
(* that ran out of money, and that Sync forgot before another was made, is  *)
(* still listed, and may be the one that is loaded.                         *)
OfGateway(g, c) ==
  /\ c.type = "node" /\ c.project = Project[g] /\ c.name = gws[g].name
  /\ c.wl.type = (IF g \in FqdnKind THEN "fqdn" ELSE "name")
Forgotten(g) == {id \in DOMAIN chain : OfGateway(g, chain[id])} \ {gws[g].cid}
ReadStep ==
  \A g \in Gateway :
    status[g] = "ok" /\ (status'[g] = "synced" \/ (status'[g] = "loaded" /\ Forgotten(g) = {})) =>
      \A f \in DOMAIN NewGateway :
        gws'[g][f] = IF f = "fqdn" /\ g \notin FqdnKind THEN Domain(gws[g].name, gws[g].node) ELSE gws[g][f]
ReadsBack == [][ReadStep]_vars

(* Cancelling a project leaves the name contracts of other projects alone.  *)
(* This does not hold: a name contract is taken for the project's by the    *)
(* name of a gateway one of its nodes still has.                            *)
OnlyTheProject ==
  [][\A g \in Gateway :
       status[g] = "ok" /\ status'[g] = "gone" => gws[g].cid \notin DOMAIN chain']_vars
=============================================================================
