------------------------------ MODULE Queries -------------------------------
(***************************************************************************)
(* What the grid proxy answers from its database: the listings of nodes,   *)
(* farms and addresses with their filters, order and pages (postgres.go),  *)
(* the status of a node (nodestatus.go) and the form a row takes in an     *)
(* answer (converters.go).  Each query is an operator on the tables of     *)
(* Explorer.  SQL is three-valued: a comparison with a column that has no  *)
(* row is not true, and neither is its opposite.                           *)
(***************************************************************************)
EXTENDS Explorer, SequencesExt

-----------------------------------------------------------------------------
(* The status of a node, decided three times over: by the condition of a   *)
(* filter, by the order of a listing and by the conversion of an answer.   *)

InUpInterval(row) == row.age = "fresh"
InStandbyInterval(row) == row.age \in {"fresh", "late"}
RunsFreely(row) == row.power \in {"none", "on"}
FarmerHasIt(row) == row.power \in {"off", "goingOff", "comingOn"}

\* A fault: a powered-off node that has not reported for a day is forgotten.
FaultDecideNodeStatusCondition(status, row) ==
    \/ status = "up" /\ InUpInterval(row) /\ RunsFreely(row)
    \/ status = "down" /\ ~InUpInterval(row) /\ RunsFreely(row)
    \/ status = "standby" /\ FarmerHasIt(row) /\ InStandbyInterval(row)

DecideNodeStatusCondition(status, row) ==
    \/ status = "up" /\ InUpInterval(row) /\ RunsFreely(row)
    \/ status = "down" /\ ((~InUpInterval(row) /\ RunsFreely(row)) \/ ~InStandbyInterval(row))
    \/ status = "standby" /\ FarmerHasIt(row) /\ InStandbyInterval(row)

\* Descending, up and down change places and standby stays between them.
DecideNodeStatusOrdering(row, descending) ==
    IF InUpInterval(row) /\ RunsFreely(row) THEN IF descending THEN 3 ELSE 1
    ELSE IF FarmerHasIt(row) /\ InStandbyInterval(row) THEN 2
    ELSE IF (~InUpInterval(row) /\ RunsFreely(row)) \/ ~InStandbyInterval(row)
         THEN IF descending THEN 1 ELSE 3
    ELSE 4

DecideNodeStatus(row) ==
    IF InUpInterval(row) /\ RunsFreely(row) THEN "up"
    ELSE IF FarmerHasIt(row) /\ InStandbyInterval(row) THEN "standby"
    ELSE "down"

-----------------------------------------------------------------------------
(* Nodes.                                                                  *)

\* A row of the joined tables.  The farm of a listed node always has its row.
NodeTableRow(n) ==
    [id        |-> n,
     farm      |-> FarmOf[n],
     power     |-> nodes[n].power,
     age       |-> nodes[n].age,
     extraFee  |-> nodes[n].fee,
     inDedicatedFarm |-> farms[FarmOf[n]] = "dedicated",
     cached    |-> cache[n],
     rentable  |-> (farms[FarmOf[n]] = "dedicated" \/ cache[n].count = 0) /\ cache[n].renter = 0,
     rented    |-> cache[n].renter # 0,
     healthy   |-> health[n],
     freeIps   |-> ipsCache[FarmOf[n]].free]

\* The columns of a node no table knows: a row of node_gpu without its node.
Ghost == 0
GhostRow ==
    [id |-> Ghost, farm |-> "none", power |-> "none", age |-> "none", extraFee |-> 0,
     inDedicatedFarm |-> FALSE, cached |-> NoCacheRow, rentable |-> FALSE, rented |-> FALSE,
     healthy |-> "none", freeIps |-> 0]

GpuFilters == {"has_gpu", "gpu_available", "gpu_device"}
IsGpuFilterRequested(filter) == DOMAIN filter \cap GpuFilters # {}

\* Twins with one card that passes every filter on cards.
NodeGpuSubquery(filter) ==
    {g.twin : g \in {g \in gpus :
        /\ "has_gpu" \in DOMAIN filter => filter.has_gpu
        /\ "gpu_device" \in DOMAIN filter => g.id = filter.gpu_device
        /\ "gpu_available" \in DOMAIN filter => (g.contract = 0) = filter.gpu_available}}

\* The join with the cards is a right join: every twin of the subquery has a
\* row, and so may be one whose node was deleted.
NodeTableQuery(filter) ==
    LET listed == {NodeTableRow(n) : n \in {n \in Node : Listed(n)}}
        twins  == NodeGpuSubquery(filter)
    IN  IF ~IsGpuFilterRequested(filter) THEN listed
        ELSE {r \in listed : r.id \in twins}
             \cup (IF \E t \in twins : ~Listed(t) THEN {GhostRow} ELSE {})

\* The filters on capacity and place, and those on renting.
PassesResources(filter, r) ==
    /\ "status" \in DOMAIN filter =>
          r.id # Ghost /\ \E s \in filter.status : DecideNodeStatusCondition(s, r)
    /\ "num_gpu" \in DOMAIN filter => r.cached.gpus >= filter.num_gpu
    /\ "healthy" \in DOMAIN filter => r.healthy = (IF filter.healthy THEN "yes" ELSE "no")
    /\ "free_mru" \in DOMAIN filter => r.id # Ghost /\ r.cached.free >= filter.free_mru
    /\ "total_mru" \in DOMAIN filter => r.id # Ghost /\ r.cached.total >= filter.total_mru
    /\ "node_id" \in DOMAIN filter => r.id = filter.node_id
    /\ "farm_ids" \in DOMAIN filter => r.farm \in filter.farm_ids
    /\ "free_ips" \in DOMAIN filter => r.freeIps >= filter.free_ips
    \* NOT IN of an empty list is NOT IN (NULL), which nothing passes.
    /\ "excluded" \in DOMAIN filter =>
          r.id # Ghost /\ filter.excluded # {} /\ r.id \notin filter.excluded

DedicatedCondition(r) == r.inDedicatedFarm \/ r.cached.count = 0 \/ r.rented
AvailableTo(twin, renter, dedicated, fee) ==
    renter = twin \/ (renter = 0 /\ ~dedicated /\ fee = 0)

PassesDedicated(filter, r) ==
    /\ "in_dedicated_farm" \in DOMAIN filter => r.id # Ghost /\ r.inDedicatedFarm = filter.in_dedicated_farm
    /\ "dedicated" \in DOMAIN filter => r.id # Ghost /\ DedicatedCondition(r) = filter.dedicated
    /\ "rentable" \in DOMAIN filter => r.id # Ghost /\ r.rentable = filter.rentable
    /\ "available_for" \in DOMAIN filter =>
          r.id # Ghost /\ AvailableTo(filter.available_for, r.cached.renter, r.inDedicatedFarm, r.cached.fee)
    /\ "rented_by" \in DOMAIN filter => r.cached.renter = filter.rented_by
    /\ "rentable_or_rented_by" \in DOMAIN filter =>
          r.rentable \/ r.cached.renter = filter.rentable_or_rented_by
    /\ "rented" \in DOMAIN filter => r.rented = filter.rented

NodesMatching(filter) ==
    {r \in NodeTableQuery(filter) : PassesResources(filter, r) /\ PassesDedicated(filter, r)}

\* Ties are in whatever order the database takes: all of them are possible.
\* A node the twin rents comes first when it asks what it may use.
RentedFirst(filter, r) ==
    IF DOMAIN filter \cap {"available_for", "rentable_or_rented_by"} = {} THEN 0
    ELSE IF r.rented THEN 1 ELSE 2

SortKey(filter, sortBy, descending, r) ==
    <<RentedFirst(filter, r)>> \o
    CASE sortBy = "" -> <<r.id>>
      [] sortBy = "status" -> <<DecideNodeStatusOrdering(r, descending), r.id>>
      [] sortBy = "num_gpu" -> <<IF descending THEN -r.cached.gpus ELSE r.cached.gpus>>

Before(a, b) ==
    \E i \in 1 .. Len(a) : a[i] < b[i] /\ \A j \in 1 .. i - 1 : a[j] = b[j]

Orderings(rows, key) ==
    {s \in SetToSeqs(rows) : \A i, j \in 1 .. Len(s) : i < j => ~Before(key[s[j]], key[s[i]])}

Page(seq, size, page) == SubSeq(seq, size * (page - 1) + 1, Min({size * page, Len(seq)}))

\* All answers GetNodes may give, with the count of the matching rows.
GetNodes(filter, sortBy, descending, size, page) ==
    LET rows == NodesMatching(filter)
        key == [r \in rows |-> SortKey(filter, sortBy, descending, r)]
    IN  {[nodes |-> Page(s, size, page), count |-> Cardinality(rows)] : s \in Orderings(rows, key)}

\* One row, or none: ErrNodeNotFound.
GetNode(n) == {r \in NodeTableQuery(<<>>) : r.id = n}

\* The answer's own view of a row.
NodeFromDBNode(r) ==
    [id        |-> r.id,
     status    |-> DecideNodeStatus(r),
     rented    |-> r.rented,
     rentable  |-> r.rentable,
     rentedBy  |-> r.cached.renter,
     used      |-> r.cached.used,
     numGpu    |-> r.cached.gpus,
     healthy   |-> r.healthy = "yes",
     dedicated |-> r.inDedicatedFarm \/ r.cached.count = 0 \/ r.cached.renter # 0 \/ r.extraFee > 0]

-----------------------------------------------------------------------------
(* Farms.                                                                  *)

FarmNodeFilters == {"status", "free_mru", "rented_by", "has_gpu", "available_for"}
IsNodeFilterRequested(filter) == DOMAIN filter \cap FarmNodeFilters # {}

\* Cached rows, joined with the node for its status, grouped by farm, renter
\* and fee.
FarmNodeQuery(filter) ==
    {[farm |-> FarmOf[n], renter |-> cache[n].renter, fee |-> cache[n].fee] :
        n \in {n \in Node :
            /\ Listed(n)
            /\ "free_mru" \in DOMAIN filter => cache[n].free >= filter.free_mru
            /\ "has_gpu" \in DOMAIN filter => (cache[n].gpus > 0) = filter.has_gpu
            /\ "rented_by" \in DOMAIN filter => cache[n].renter = filter.rented_by
            /\ "status" \in DOMAIN filter =>
                  \E s \in filter.status : DecideNodeStatusCondition(s, nodes[n])}}

\* A fault: the farm's own kind is not asked for.
FaultFarmTableQuery(filter) ==
    {f \in Farm : farms[f] # "none"} \cap
    IF IsNodeFilterRequested(filter)
    THEN {g.farm : g \in {g \in FarmNodeQuery(filter) :
            "available_for" \in DOMAIN filter =>
                AvailableTo(filter.available_for, g.renter, FALSE, g.fee)}}
    ELSE Farm

FarmTableQuery(filter) ==
    {f \in Farm : farms[f] # "none"} \cap
    IF IsNodeFilterRequested(filter)
    THEN {g.farm : g \in {g \in FarmNodeQuery(filter) :
            "available_for" \in DOMAIN filter =>
                AvailableTo(filter.available_for, g.renter, farms[g.farm] = "dedicated", g.fee)}}
    ELSE Farm

GetFarms(filter) ==
    {f \in FarmTableQuery(filter) :
        /\ "free_ips" \in DOMAIN filter => ipsCache[f].free >= filter.free_ips
        /\ "total_ips" \in DOMAIN filter => ipsCache[f].total >= filter.total_ips
        /\ "dedicated" \in DOMAIN filter => (farms[f] = "dedicated") = filter.dedicated}

\* The table itself, not its cache.
GetPublicIps(filter) ==
    {i \in Ip : /\ ips[i] # NoRow
                /\ "free" \in DOMAIN filter => (ips[i] = 0) = filter.free
                /\ "farm_ids" \in DOMAIN filter => IpFarm[i] \in filter.farm_ids}

-----------------------------------------------------------------------------
(* Contracts and statistics.                                               *)

ContractRows ==
    {[id |-> c, type |-> "node", node |-> contracts[c].node, state |-> contracts[c].state] :
        c \in {c \in Contract : contracts[c].state # "None"}}
    \cup
    {[id |-> r, type |-> "rent", node |-> rents[r].node, state |-> rents[r].state] :
        r \in {r \in Rent : rents[r].state # "None"}}

GetContracts(filter) ==
    {c \in ContractRows : /\ "type" \in DOMAIN filter => c.type = filter.type
                          /\ "state" \in DOMAIN filter => c.state \in filter.state
                          /\ "node_id" \in DOMAIN filter => c.node = filter.node_id}

StatsNodes(status) ==
    {n \in Node : Listed(n) /\ (status = {} \/ \E s \in status : DecideNodeStatusCondition(s, nodes[n]))}

GetStats(status) ==
    LET shown == StatsNodes(status)
    IN  [contracts |-> Cardinality(ContractRows),
         farms     |-> Cardinality({f \in Farm : farms[f] # "none"}),
         publicIps |-> Cardinality({i \in Ip : ips[i] # NoRow}),
         nodes     |-> Cardinality(shown),
         totalMru  |-> MapThenSumSet(LAMBDA n : Coalesce(totals[n]), shown),
         gpus      |-> Cardinality({n \in shown : cache[n].gpus # 0}),
         dedicated |-> Cardinality({n \in shown : DedicatedCondition(NodeTableRow(n))})]

\* One row of either kind, or none: ErrContractNotFound.
GetContract(id) == {c \in ContractRows : c.id = id}

-----------------------------------------------------------------------------
(* Properties.                                                             *)

\* Filters on what an answer shows, with the test of the shown field.
Shown == {[f |-> [rentable |-> b], k |-> "rentable", v |-> b] : b \in BOOLEAN}
         \cup {[f |-> [rented |-> b], k |-> "rented", v |-> b] : b \in BOOLEAN}
         \cup {[f |-> [rented_by |-> t], k |-> "rentedBy", v |-> t] : t \in Twin}
         \cup {[f |-> [status |-> {s}], k |-> "status", v |-> s] : s \in {"up", "down", "standby"}}

\* A listing with a filter holds exactly the nodes whose answer shows the
\* value asked for, though the database decides the one and the server the
\* other: renting, and the status, decided by two texts of the same rule.
ListingAgrees ==
    built => \A q \in Shown :
        LET kept == {r.id : r \in NodesMatching(q.f)}
        IN  \A n \in Node : Listed(n) => (n \in kept <=> NodeFromDBNode(NodeTableRow(n))[q.k] = q.v)

\* The farms found by a filter on their nodes are those of the nodes found by
\* the same filter, though each listing has a query of its own.
FarmsAgree ==
    built => \A filter \in {[available_for |-> t] : t \in Twin} \cup {[rented_by |-> t] : t \in Twin}
                           \cup {[free_mru |-> u] : u \in Report}
                           \cup {[status |-> {s}] : s \in {"up", "down", "standby"}} :
        GetFarms(filter) = {r.farm : r \in NodesMatching(filter)}

\* The statistics count what the listings hold: nodes of each status, nodes
\* with cards, dedicated nodes, and addresses free and taken, some counted in
\* the tables and some in the caches.
StatsAgree ==
    built => LET all == GetStats({}) IN
        /\ all.gpus = Cardinality(NodesMatching([num_gpu |-> 1]))
        /\ all.dedicated = Cardinality(NodesMatching([dedicated |-> TRUE]))
        /\ all.totalMru = MapThenSumSet(LAMBDA r : r.cached.total, NodesMatching(<<>>))
        /\ \A s \in {{"up"}, {"down"}, {"standby", "up"}} :
             GetStats(s).nodes = Cardinality(NodesMatching([status |-> s]))
        /\ all.contracts = Cardinality({c \in Contract \cup Rent : GetContract(c) # {}})
        /\ Cardinality(GetPublicIps([free |-> TRUE]))
             = MapThenSumSet(LAMBDA f : ipsCache[f].free, GetFarms(<<>>))

\* Pages asked for one after the other hold every matching node once, in the
\* default order and in that of the status: their keys have no ties.
PagesCover ==
    built => \A sortBy \in {"", "status"}, descending \in BOOLEAN :
        LET PageOf(p) == GetNodes(<<>>, sortBy, descending, 1, p)
            pages == 1 .. Cardinality(NodesMatching(<<>>))
        IN  /\ \A p \in pages : \A a \in PageOf(p) : Len(a.nodes) = 1
            /\ \A p, q \in pages : p # q =>
                 \A a \in PageOf(p), b \in PageOf(q) : a.nodes[1].id # b.nodes[1].id

\* "Set to true to get the dedicated nodes only": the filter holds the nodes
\* whose answer says dedicated.  It does not hold: the answer counts a node
\* with an extra fee as dedicated, the filter does not.
DedicatedAgrees ==
    built => \A n \in Node : Listed(n) =>
        (NodeFromDBNode(NodeTableRow(n)).dedicated <=> n \in {r.id : r \in NodesMatching([dedicated |-> TRUE])})
=============================================================================
