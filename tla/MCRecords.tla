----------------------------- MODULE MCRecords ------------------------------
(***************************************************************************)
(* What parts of the system remember of the grid, each on a small          *)
(* instance; a behaviour is of one of them, chosen at its start, and the   *)
(* variables of the others stay as they are.                               *)
(*   "rows"    the proxy's database and its caches, where contracts,       *)
(*             rents, addresses and cards come and go on fresh nodes       *)
(*   "status"  the same where nodes report, grow old and change power, and *)
(*             nothing is deployed on them                                 *)
(*   "vms"     deployments of machines, as their callers and the plugin's  *)
(*             state have them                                             *)
(*   "twins"   what peers know of each other                               *)
(*   "farm"    what the farmerbot holds of its nodes' power, where one of  *)
(*             the two of a farm is rented, both are put out and powered   *)
(*             on by request, and a call to the chain may fail             *)
(***************************************************************************)
EXTENDS Queries, TLC

CONSTANTS
  AllPowers, AllAges,                                                              \* Queries, of "status"
  Giga, Word, VmName, VmNode, VmNetNode, VmContents, LastHost, VmIds, VmCalls, VmFaults,  \* Deployments
  PeerTwin, PeerRelay, PeerTtl, PeerStarts, PeerCalls, PeerFaults,                 \* Envelopes
  n1, n2, None                                                                     \* FarmerBot

VARIABLES
  part,
  agingBuilt,                                              \* built, of "status"
  dls, grid, tracked, made, status, clean, calls,          \* Deployments alone
  cached, chain, peers, quiet, wire, call, starts,         \* Envelopes alone
  power, tenant, farm, lock, expired, pc, node, held, copy, ret, todo, offer, left, requests,
  claims, promised,                                        \* FarmerBot alone
  faults

explorerOnly == <<farms, totals, contracts, rents, ips, gpus, health, ipsCache, built, agingBuilt, writes>>
vmsOnly == <<dls, grid, tracked, made, status, clean, calls>>
twinsOnly == <<cached, chain, peers, quiet, wire, call, starts>>
farmOnly == <<power, tenant, farm, lock, expired, pc, node, held, copy, ret, todo, offer, left, requests, claims, promised>>
mcVars == <<part, explorerOnly, nodes, cache, vmsOnly, twinsOnly, farmOnly, faults>>

-----------------------------------------------------------------------------
(* Two nodes of one farm.                                                   *)
MCFarmOf == [n \in Node |-> CHOOSE f \in Farm : TRUE]
MCIpFarm == [i \in Ip |-> CHOOSE f \in Farm : TRUE]
Aging == INSTANCE Queries WITH
  Powers <- AllPowers, Ages <- AllAges, MaxWrites <- 4,
  built <- agingBuilt, Contract <- {}, Rent <- {}, Ip <- {}, IpFarm <- <<>>, Gpu <- {}, Total <- {10}

(* Deployments: full and light machines, with every other kind of workload. *)
NoIp == <<>>
Machine(name, mounts, logs) ==
  [name |-> name, net |-> <<"net">>, ip |-> NoIp, pub4 |-> TRUE, pub6 |-> FALSE, planetary |-> TRUE,
   seed |-> "s", zlogs |-> logs, mounts |-> mounts, data |-> "x"]
Light(name, logs) == [Machine(name, <<>>, logs) EXCEPT !.pub4 = FALSE, !.planetary = FALSE]
Sized(name, size) == [name |-> <<name>>, size |-> size, data |-> "x"]
Base == [net |-> <<"net">>, disks |-> <<>>, volumes |-> <<>>, zdbs |-> <<>>, qsfs |-> <<>>, vms |-> <<>>, lights |-> <<>>]
SomeContents == {
  [Base EXCEPT !.vms = <<Machine(<<"m2">>, <<<<"d2">>, <<"d1">>>>, <<"o2", "o1">>), Machine(<<"m1">>, <<>>, <<"o1">>)>>,
               !.disks = <<Sized("d2", 1), Sized("d1", 2)>>],
  [Base EXCEPT !.lights = <<Light(<<"m3">>, <<>>), Light(<<"m2">>, <<>>)>>, !.volumes = <<Sized("v2", 1), Sized("v1", 1)>>],
  [Base EXCEPT !.lights = <<Light(<<"m1">>, <<"o1">>)>>,
               !.zdbs = <<[name |-> <<"z">>, size |-> 0, mode |-> "seq", data |-> "x"]>>,
               !.qsfs = <<[name |-> <<"q">>, enc |-> "k", meta |-> "l", shards |-> <<1, 2>>, data |-> "x"]>>]}
SomeNames == {<<"a">>, <<"b">>}
Vms == INSTANCE Deployments WITH
  Name <- VmName, Node <- VmNode, NetNode <- VmNetNode, Contents <- VmContents,
  MaxIds <- VmIds, MaxCalls <- VmCalls, MaxFaults <- VmFaults

Twins == INSTANCE Envelopes WITH
  Twin <- PeerTwin, Relay <- PeerRelay, Ttl <- PeerTtl,
  MaxStarts <- PeerStarts, MaxCalls <- PeerCalls, MaxFaults <- PeerFaults

(* A farm of two nodes; the loop against one poweron.                       *)
Farmer == INSTANCE FarmerBotProofs WITH
  Node <- {n1, n2}, Excluded <- {}, Included <- {}, NeverShutDown <- {}, Leavers <- {}, Rentable <- {n1},
  Tenancies <- {"rented"}, ContinueOnErr <- TRUE, Loop <- "loop", Handler <- {"h1"}, Requests <- {"poweron"},
  StatusFails <- FALSE, MaxRequests <- 1, MaxClaims <- 0, MaxFaults <- 1

ASSUME Assumptions ==
  /\ AllPowers \subseteq {"none", "on", "off", "goingOff", "comingOn"} /\ AllAges \subseteq {"fresh", "late", "old"}
  /\ Vms!SizeAssumption /\ Vms!NetAssumption /\ Twins!EnvelopesAssumption
  /\ Farmer!ConfigAssumption /\ Farmer!TenancyAssumption /\ Farmer!ActorsAssumption
  /\ Farmer!FiniteAssumption /\ Farmer!BoundsAssumption /\ Farmer!RequestsAssumption

Symmetric == Permutations(Contract) \cup Permutations(PeerTwin) \cup Permutations(PeerRelay)

-----------------------------------------------------------------------------
NoExplorer ==
  /\ farms = "unused" /\ totals = "unused" /\ contracts = "unused" /\ rents = "unused"
  /\ ips = "unused" /\ gpus = "unused" /\ health = "unused" /\ ipsCache = "unused"
  /\ built = FALSE /\ agingBuilt = "unused" /\ writes = "unused"
NoVms ==
  /\ dls = "unused" /\ grid = "unused" /\ tracked = "unused" /\ made = "unused"
  /\ status = "unused" /\ clean = "unused" /\ calls = "unused"
NoTwins ==
  /\ cached = "unused" /\ chain = "unused" /\ peers = "unused" /\ quiet = "unused" /\ wire = "unused"
  /\ call = "unused" /\ starts = "unused"
NoFarm ==
  /\ power = "unused" /\ tenant = "unused" /\ farm = "unused" /\ lock = "unused" /\ expired = "unused"
  /\ pc = "unused" /\ node = "unused" /\ held = "unused" /\ copy = "unused" /\ ret = "unused"
  /\ todo = "unused" /\ offer = "unused" /\ left = "unused" /\ requests = "unused"
  /\ claims = "unused" /\ promised = "unused"

MCInit ==
  \/ part = "rows" /\ Init /\ agingBuilt = "unused" /\ NoVms /\ NoTwins /\ NoFarm /\ faults = "unused"
  \/ part = "status" /\ Aging!Init /\ built = FALSE /\ NoVms /\ NoTwins /\ NoFarm /\ faults = "unused"
  \/ part = "vms" /\ Vms!Init /\ NoExplorer /\ NoTwins /\ NoFarm /\ nodes = "unused" /\ cache = "unused"
  \/ part = "twins" /\ Twins!Init /\ NoExplorer /\ NoVms /\ NoFarm /\ nodes = "unused"
  \/ part = "farm" /\ Farmer!Init /\ NoExplorer /\ NoVms /\ NoTwins /\ cache = "unused"

MCNext ==
  \/ part = "rows" /\ Next /\ UNCHANGED <<part, agingBuilt, vmsOnly, twinsOnly, farmOnly, faults>>
  \/ part = "status" /\ Aging!Next /\ UNCHANGED <<part, built, vmsOnly, twinsOnly, farmOnly, faults>>
  \/ part = "vms" /\ Vms!Next /\ UNCHANGED <<part, explorerOnly, nodes, cache, twinsOnly, farmOnly>>
  \/ part = "twins" /\ Twins!Next /\ UNCHANGED <<part, explorerOnly, nodes, vmsOnly, farmOnly>>
  \/ part = "farm" /\ Farmer!Next /\ UNCHANGED <<part, explorerOnly, cache, vmsOnly, twinsOnly>>

MCSpec == MCInit /\ [][MCNext]_mcVars

-----------------------------------------------------------------------------
(* Properties: those of the modules, where they are explained.  CacheExact *)
(* and NeverOffered are Explorer's own: built is true in "rows" alone.      *)

\* A listing shows of a node what the node by itself shows.
Listings == CASE part = "rows" -> ListingAgrees [] part = "status" -> Aging!ListingAgrees [] OTHER -> TRUE

\* Farms and statistics agree with the nodes, and the pages of a listing cover
\* it (where nodes differ by their status: pages are made of what is listed).
FarmsToo ==
  CASE part = "rows" -> FarmsAgree /\ StatsAgree
    [] part = "status" -> Aging!FarmsAgree /\ Aging!StatsAgree /\ Aging!PagesCover
    [] OTHER -> TRUE

\* The machines on a node have addresses of its own, no two the same, and no live
\* contract of a deployment is out of its caller's sight.
MachinesRight == part = "vms" => Vms!AddressesRight /\ Vms!NothingLost

\* A deployment reads back as it was asked for.
ReadsBack == [][part = "vms" => Vms!ReadStep]_mcVars

\* A call between two peers that said what they are reaches the other, and a
\* peer that keeps what it reads in memory has said what it is.
PeersAgree == part = "twins" => Twins!PeersAgree

\* A node that counts as on for the farmerbot has its target up.
Counted == part = "farm" => Farmer!NoDuplicates /\ Farmer!CountedIsUp

\* The last node of a farm that is on stays on.
OneStaysOn == [][part = "farm" => Farmer!StaysUp]_mcVars
=============================================================================
