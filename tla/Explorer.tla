------------------------------ MODULE Explorer ------------------------------
(***************************************************************************)
(* The database of the grid proxy.  The chain's indexer writes the tables  *)
(* of nodes, farms, contracts and public addresses; the proxy's own        *)
(* indexers write what they ask of the nodes (node_gpu, health_report).    *)
(* The proxy reads two tables of its own, resources_cache and              *)
(* public_ips_cache: Initialize builds them from a view, and from then on  *)
(* the triggers of internal/explorer/db/setup.sql keep them, one           *)
(* increment per written row.  A restart builds them again.                *)
(*                                                                         *)
(* One resource stands for the four that the code treats alike: memory,    *)
(* the one of which a tenth, and at least Reserved, is kept for the node.  *)
(* A trigger and the write that fires it are one action, as they are one   *)
(* transaction.                                                            *)
(***************************************************************************)
EXTENDS Integers, FiniteSets, FiniteSetsExt

CONSTANTS
    Node,         \* node ids, positive integers, also the ids of their twins
    Farm,         \* farms
    FarmOf,       \* the farm each node is in
    Contract,     \* ids of node contracts
    Rent,         \* ids of rent contracts
    Twin,         \* twins that rent nodes, positive integers
    Ip,           \* public addresses
    IpFarm,       \* the farm each address belongs to
    Gpu,          \* ids of graphics cards: a slot and a model, not unique
    Total,        \* amounts of memory a node may have
    Report,       \* amounts of memory a contract may use
    Powers,       \* of none, on, off, goingOff, comingOn: a node's state and target
    Ages,         \* of fresh, late, old: within 80 minutes, a day, or later
    Reserved,     \* the least amount kept for the node itself
    MaxWrites     \* bound on the writes of a behaviour

NoRow == -1
Active == {"Created", "GracePeriod"}

ASSUME ExplorerAssumption ==
    /\ Node \subseteq Nat \ {0} /\ Twin \subseteq Nat \ {0}
    /\ FarmOf \in [Node -> Farm] /\ IpFarm \in [Ip -> Farm]
    /\ IsFiniteSet(Contract) /\ IsFiniteSet(Ip)
    /\ Total \subseteq Nat /\ Total # {} /\ Report \subseteq Nat /\ Report # {}
    /\ Powers \subseteq {"none", "on", "off", "goingOff", "comingOn"}
    /\ Ages \subseteq {"fresh", "late", "old"}
    /\ Reserved \in Nat /\ MaxWrites \in Nat

VARIABLES
    farms,        \* farm: farm -> shared, dedicated, or none when it has no row
    nodes,        \* node: node -> its row; ids are not used twice
    totals,       \* node_resources_total: node -> memory, or NoRow
    contracts,    \* node_contract joined with contract_resources
    rents,        \* rent_contract
    ips,          \* public_ip: address -> contract holding it, 0 free, NoRow
    gpus,         \* node_gpu: rows [twin, id, contract]
    health,       \* health_report: node -> yes, no, or none
    cache,        \* resources_cache: node -> its row
    ipsCache,     \* public_ips_cache: farm -> its row
    built,        \* the cache tables exist
    writes        \* writes so far

tables == <<farms, nodes, totals, contracts, rents, ips, gpus, health>>
vars == <<tables, cache, ipsCache, built, writes>>

-----------------------------------------------------------------------------
(* The view the caches are built from.                                     *)

Listed(n) == nodes[n].row = "here"
ContractsOn(n) == {c \in Contract : contracts[c].state \in Active /\ contracts[c].node = n}
RentsOf(n) == {r \in Rent : rents[r].state \in Active /\ rents[r].node = n}
GpusOf(n) == {g \in gpus : g.twin = n}
Coalesce(x) == IF x = NoRow THEN 0 ELSE x
Used(n) == MapThenSumSet(LAMBDA c : Coalesce(contracts[c].report), ContractsOn(n))

\* GREATEST(mru / 10, 2 GiB): a missing total leaves the second.
Kept(total) ==
    IF total # NoRow /\ total \div 10 > Reserved THEN total \div 10 ELSE Reserved

\* The cards of a node are joined with every card of the same id, wherever it
\* is, and counted after the join.
JoinedGpus(n) == Cardinality({p \in GpusOf(n) \X gpus : p[1].id = p[2].id})

NoCacheRow == [total |-> NoRow, free |-> 0, used |-> 0, renter |-> 0, rent |-> 0,
               count |-> 0, gpus |-> 0, fee |-> 0]

ViewRow(n) ==
    LET held == RentsOf(n)
        r    == CHOOSE x \in held : TRUE
    IN  [total  |-> Coalesce(totals[n]),
         free   |-> Coalesce(totals[n]) - Used(n) - Kept(totals[n]),
         used   |-> Used(n) + Kept(totals[n]),
         renter |-> IF held = {} THEN 0 ELSE rents[r].twin,
         rent   |-> IF held = {} THEN 0 ELSE r,
         count  |-> Cardinality(ContractsOn(n)),
         gpus   |-> JoinedGpus(n),
         fee    |-> nodes[n].fee]

ResourcesCacheView ==
    [n \in Node |-> IF Listed(n) THEN ViewRow(n) ELSE NoCacheRow]

IpsOf(f) == {i \in Ip : ips[i] # NoRow /\ IpFarm[i] = f}
NoIpsRow == [free |-> NoRow, total |-> NoRow]
PublicIpsView ==
    [f \in Farm |->
        IF farms[f] = "none" THEN NoIpsRow
        ELSE [free |-> Cardinality({i \in IpsOf(f) : ips[i] = 0}),
              total |-> Cardinality(IpsOf(f))]]

\* The server starts on tables the indexers filled earlier; the rows that are
\* there from the start are like those the actions below write.
NoContract == [node |-> 0, state |-> "None", report |-> NoRow]
Held == {[node |-> n, state |-> "Created", report |-> u] :
            n \in Node, u \in {NoRow, CHOOSE u \in Report : TRUE}}
Init ==
    /\ farms \in [Farm -> {"none", "shared", "dedicated"}]
    /\ nodes \in [Node -> [row : {"future", "here"}, power : {"none"}, age : {"fresh"}, fee : {0}]]
    /\ \A n \in Node : Listed(n) => farms[FarmOf[n]] # "none"
    /\ totals = [n \in Node |-> IF Listed(n) THEN CHOOSE t \in Total : TRUE ELSE NoRow]
    /\ contracts \in [Contract -> {NoContract} \cup {h \in Held : Listed(h.node)}]
    /\ rents = [r \in Rent |-> [node |-> 0, twin |-> 0, state |-> "None"]]
    /\ ips = [i \in Ip |-> NoRow]
    /\ gpus \in SUBSET {[twin |-> n, id |-> g, contract |-> 0] : n \in {n \in Node : Listed(n)}, g \in Gpu}
    /\ health = [n \in Node |-> "none"]
    /\ built = TRUE /\ writes = 0
    /\ cache = ResourcesCacheView /\ ipsCache = PublicIpsView

-----------------------------------------------------------------------------
(* Triggers.  Each changes the cache row of one node or farm, when there   *)
(* is one; an error is swallowed, so a write is never refused.             *)

Cached(n) == built /\ n \in Node /\ cache[n].total # NoRow
Reflect(n, row) == cache' = IF Cached(n) THEN [cache EXCEPT ![n] = row] ELSE cache
Count(n) == Cardinality(ContractsOn(n))

\* reflect_node_changes: a row is made from the view, or removed.
ReflectInsert(n) == cache' = IF built THEN [cache EXCEPT ![n] = ViewRow(n)'] ELSE cache
ReflectDelete(n) == cache' = [cache EXCEPT ![n] = NoCacheRow]

\* reflect_total_resources_changes
ReflectTotal(n, old, new) ==
    Reflect(n, [cache[n] EXCEPT
        !.total = new,
        !.free = @ + Kept(old) - Kept(new) + (new - Coalesce(old)),
        !.used = @ - Kept(old) + Kept(new)])

\* reflect_contract_resources_changes
ReflectReport(n, old, new) ==
    Reflect(n, [cache[n] EXCEPT !.used = @ + (new - Coalesce(old)),
                                !.free = @ - (new - Coalesce(old))])

\* A fault: the contracts are counted before the insert.
FaultReflectContract(n) == Reflect(n, [cache[n] EXCEPT !.count = Count(n)])

\* reflect_node_contract_changes, of an insert: the contracts are counted.
ReflectContract(n) == Reflect(n, [cache[n] EXCEPT !.count = Count(n)'])

\* A fault: the reported resources are not given back.
FaultReflectDeleted(n, report) ==
    IF report = NoRow THEN UNCHANGED cache
    ELSE Reflect(n, [cache[n] EXCEPT !.used = @ - report, !.count = Count(n)'])

\* reflect_node_contract_changes, of a contract set to Deleted.  The row is
\* joined with the reported resources: no report, no change, count included.
ReflectDeleted(n, report) ==
    IF report = NoRow THEN UNCHANGED cache
    ELSE Reflect(n, [cache[n] EXCEPT !.used = @ - report, !.free = @ + report,
                                     !.count = Count(n)'])

\* reflect_rent_contract_changes
ReflectRent(n, twin, r) == Reflect(n, [cache[n] EXCEPT !.renter = twin, !.rent = r])

\* reflect_node_gpu_count_change, once for each row: an update counts nothing.
ReflectGpus(n, inserted, deleted) ==
    Reflect(n, [cache[n] EXCEPT !.gpus = @ + inserted - deleted])

\* reflect_public_ip_changes
ReflectIp(f, free, total) ==
    ipsCache' = IF built /\ ipsCache[f].total # NoRow
                THEN [ipsCache EXCEPT ![f] = [free |-> @.free + free, total |-> @.total + total]]
                ELSE ipsCache

-----------------------------------------------------------------------------
(* Writes of the chain's indexer.                                          *)

Write == writes < MaxWrites /\ writes' = writes + 1 /\ UNCHANGED built

InsertFarm(f) ==
    /\ Write /\ farms[f] = "none"
    /\ \E kind \in {"shared", "dedicated"} : farms' = [farms EXCEPT ![f] = kind]
    /\ ipsCache' = IF built THEN [ipsCache EXCEPT ![f] = [free |-> 0, total |-> 0]] ELSE ipsCache
    /\ UNCHANGED <<nodes, totals, contracts, rents, ips, gpus, health, cache>>

DeleteFarm(f) ==
    /\ Write /\ farms[f] # "none"
    /\ IpsOf(f) = {} /\ \A n \in Node : Listed(n) => FarmOf[n] # f
    /\ farms' = [farms EXCEPT ![f] = "none"]
    /\ ipsCache' = [ipsCache EXCEPT ![f] = NoIpsRow]
    /\ UNCHANGED <<nodes, totals, contracts, rents, ips, gpus, health, cache>>

InsertNode(n) ==
    /\ Write /\ nodes[n].row = "future" /\ farms[FarmOf[n]] # "none"
    /\ nodes' = [nodes EXCEPT ![n] = [row |-> "here", power |-> "none", age |-> "fresh", fee |-> 0]]
    /\ UNCHANGED <<farms, totals, contracts, rents, ips, gpus, health, ipsCache>>
    /\ ReflectInsert(n)

\* What the proxy's indexers found on the node stays.
DeleteNode(n) ==
    /\ Write /\ Listed(n) /\ ContractsOn(n) = {} /\ RentsOf(n) = {}
    /\ nodes' = [nodes EXCEPT ![n].row = "gone"]
    /\ totals' = [totals EXCEPT ![n] = NoRow]
    /\ ReflectDelete(n)
    /\ UNCHANGED <<farms, contracts, rents, ips, gpus, health, ipsCache>>

\* The node reports, its power changes, or its farmer sets a fee: the trigger
\* is for the country only.
UpdateNode(n, row) ==
    /\ Write /\ Listed(n) /\ row # nodes[n]
    /\ nodes' = [nodes EXCEPT ![n] = row]
    /\ UNCHANGED <<farms, totals, contracts, rents, ips, gpus, health, cache, ipsCache>>

UpdatePower(n) == \E p \in Powers : UpdateNode(n, [nodes[n] EXCEPT !.power = p])
UpdateFee(n) == \E fee \in {0, 1} : UpdateNode(n, [nodes[n] EXCEPT !.fee = fee])
UpdateAge(n) == \E age \in Ages : UpdateNode(n, [nodes[n] EXCEPT !.age = age])

SetTotal(n, total) ==
    /\ Write /\ Listed(n) /\ total # totals[n]
    /\ totals' = [totals EXCEPT ![n] = total]
    /\ ReflectTotal(n, totals[n], total)
    /\ UNCHANGED <<farms, nodes, contracts, rents, ips, gpus, health, ipsCache>>

InsertContract(c, n) ==
    /\ Write /\ contracts[c].state = "None" /\ Listed(n)
    /\ contracts' = [contracts EXCEPT ![c] = [node |-> n, state |-> "Created", report |-> NoRow]]
    /\ ReflectContract(n)
    /\ UNCHANGED <<farms, nodes, totals, rents, ips, gpus, health, ipsCache>>

\* The node reports what a contract uses, only while it has it.
ReportResources(c, report) ==
    /\ Write /\ contracts[c].state \in Active /\ report # contracts[c].report
    /\ contracts' = [contracts EXCEPT ![c].report = report]
    /\ ReflectReport(contracts[c].node, contracts[c].report, report)
    /\ UNCHANGED <<farms, nodes, totals, rents, ips, gpus, health, ipsCache>>

UpdateContract(c) ==
    /\ Write /\ contracts[c].state \in Active
    /\ \E state \in {"Created", "GracePeriod", "Deleted"} \ {contracts[c].state} :
        /\ contracts' = [contracts EXCEPT ![c].state = state]
        /\ IF state = "Deleted" THEN ReflectDeleted(contracts[c].node, contracts[c].report)
           ELSE UNCHANGED cache
    /\ UNCHANGED <<farms, nodes, totals, rents, ips, gpus, health, ipsCache>>

\* The chain lets a node be rented once at a time.
InsertRent(r, n, twin) ==
    /\ Write /\ rents[r].state = "None" /\ Listed(n) /\ RentsOf(n) = {}
    /\ rents' = [rents EXCEPT ![r] = [node |-> n, twin |-> twin, state |-> "Created"]]
    /\ ReflectRent(n, twin, r)
    /\ UNCHANGED <<farms, nodes, totals, contracts, ips, gpus, health, ipsCache>>

UpdateRent(r) ==
    /\ Write /\ rents[r].state \in Active
    /\ \E state \in {"Created", "GracePeriod", "Deleted"} \ {rents[r].state} :
        /\ rents' = [rents EXCEPT ![r].state = state]
        /\ IF state = "Deleted" THEN ReflectRent(rents[r].node, 0, 0) ELSE UNCHANGED cache
    /\ UNCHANGED <<farms, nodes, totals, contracts, ips, gpus, health, ipsCache>>

InsertIp(i) ==
    /\ Write /\ ips[i] = NoRow /\ farms[IpFarm[i]] # "none"
    /\ ips' = [ips EXCEPT ![i] = 0] /\ ReflectIp(IpFarm[i], 1, 1)
    /\ UNCHANGED <<farms, nodes, totals, contracts, rents, gpus, health, cache>>

ReserveIp(i) ==
    /\ Write /\ ips[i] = 0
    /\ ips' = [ips EXCEPT ![i] = 1] /\ ReflectIp(IpFarm[i], -1, 0)
    /\ UNCHANGED <<farms, nodes, totals, contracts, rents, gpus, health, cache>>

FreeIp(i) ==
    /\ Write /\ ips[i] = 1
    /\ ips' = [ips EXCEPT ![i] = 0] /\ ReflectIp(IpFarm[i], 1, 0)
    /\ UNCHANGED <<farms, nodes, totals, contracts, rents, gpus, health, cache>>

DeleteIp(i) ==
    /\ Write /\ ips[i] # NoRow
    /\ ips' = [ips EXCEPT ![i] = NoRow]
    /\ ReflectIp(IpFarm[i], IF ips[i] = 0 THEN -1 ELSE 0, -1)
    /\ UNCHANGED <<farms, nodes, totals, contracts, rents, gpus, health, cache>>

-----------------------------------------------------------------------------
(* Writes of the proxy's indexers, and the proxy's start.                  *)

\* GPUWork.Upsert: the rows of the node that are old go, then those it
\* answered with are inserted or updated.  A node without cards writes nothing.
UpsertGpus(n, answer, expired) ==
    /\ Write /\ Listed(n) /\ answer # {} /\ expired \subseteq GpusOf(n)
    /\ LET kept == GpusOf(n) \ expired
           ids  == {g.id : g \in answer}
           rest == {g \in kept : g.id \notin ids}
       IN  /\ gpus' = (gpus \ GpusOf(n)) \cup rest \cup answer
           /\ ReflectGpus(n, Cardinality(ids \ {g.id : g \in kept}), Cardinality(expired))
    /\ UNCHANGED <<farms, nodes, totals, contracts, rents, ips, health, ipsCache>>

Answers(n) == {{[twin |-> n, id |-> id, contract |-> ids[id]] : id \in DOMAIN ids} :
                  ids \in UNION {[S -> {0, 1}] : S \in SUBSET Gpu}}
IndexGpus(n) ==
    \E answer \in Answers(n), expired \in SUBSET GpusOf(n) : UpsertGpus(n, answer, expired)

UpsertHealth(n, found) ==
    /\ Write /\ Listed(n) /\ found # health[n]
    /\ health' = [health EXCEPT ![n] = found]
    /\ UNCHANGED <<farms, nodes, totals, contracts, rents, ips, gpus, cache, ipsCache>>

\* Initialize: one transaction drops both caches and fills them anew.
Initialize ==
    /\ built' = TRUE /\ cache' = ResourcesCacheView /\ ipsCache' = PublicIpsView

Restart == Initialize /\ UNCHANGED <<tables, writes>>

\* The chain's indexer drops its database to fill it anew, caches included.
CachesDropped ==
    /\ built /\ writes < MaxWrites /\ writes' = writes + 1
    /\ built' = FALSE
    /\ cache' = [n \in Node |-> NoCacheRow] /\ ipsCache' = [f \in Farm |-> NoIpsRow]
    /\ UNCHANGED tables

\* GetNode and GetNodes find no cache table, build it and ask again; the other
\* queries only fail.
ShouldRetry == ~built /\ Restart

Next ==
    \/ \E f \in Farm : InsertFarm(f) \/ DeleteFarm(f)
    \/ \E n \in Node : InsertNode(n) \/ DeleteNode(n) \/ UpdatePower(n) \/ UpdateFee(n) \/ UpdateAge(n)
    \/ \E n \in Node, t \in Total : SetTotal(n, t)
    \/ \E c \in Contract, n \in Node : InsertContract(c, n)
    \/ \E c \in Contract, u \in Report : ReportResources(c, u)
    \/ \E c \in Contract : UpdateContract(c)
    \/ \E r \in Rent, n \in Node, t \in Twin : InsertRent(r, n, t)
    \/ \E r \in Rent : UpdateRent(r)
    \/ \E i \in Ip : InsertIp(i) \/ ReserveIp(i) \/ FreeIp(i) \/ DeleteIp(i)
    \/ \E n \in Node : IndexGpus(n)
    \/ \E n \in Node, found \in {"yes", "no"} : UpsertHealth(n, found)
    \/ Restart
    \/ CachesDropped
    \/ ShouldRetry

Spec == Init /\ [][Next]_vars

-----------------------------------------------------------------------------
(* Properties.                                                             *)

\* What the triggers add up is what the view would say now: memory used and
\* free, who rents the node, and the addresses of each farm, whatever rows
\* came and went in whatever order, and wherever a restart fell between.
CacheExact ==
    built =>
        /\ \A n \in Node : Listed(n) =>
            LET view == ViewRow(n)
            IN  /\ cache[n].used = view.used /\ cache[n].free = view.free
                /\ cache[n].total = view.total
                /\ cache[n].renter = view.renter /\ cache[n].rent = view.rent
        /\ ipsCache = PublicIpsView

\* The count of contracts may be stale, but never too low: a node with running
\* contracts outside a dedicated farm is never shown as rentable (a deletion
\* without a report leaves the count, an insert counts again).
NeverOffered == \A n \in Node : built /\ Listed(n) => cache[n].count >= Count(n)

\* "Insert new node_gpu > increase the gpu_num in resources cache": the number
\* of cards is that of the node's rows.  It does not hold: the view a restart
\* uses counts a card once for every card of the same id.
GpuCountExact ==
    \A n \in Node : built /\ Listed(n) => cache[n].gpus = Cardinality(GpusOf(n))
=============================================================================
