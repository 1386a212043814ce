----------------------------- MODULE NodeFilter -----------------------------
(***************************************************************************)
(* Node selection of the grid client, grid-client/deployer/node_filter.go. *)
(* FilterNodes asks the grid proxy for pages of nodes, a few pages at a    *)
(* time and each by a goroutine of its own (getNodes); when storage is     *)
(* needed the goroutine asks every node for its pools first.  The nodes    *)
(* are sent over a channel without buffer; the caller stops listening when *)
(* it has as many as it wants.  GetPublicNode picks one of the nodes found.*)
(*                                                                         *)
(* The listing may change between two pages.  The disks to place are one   *)
(* slice that every goroutine sorts: two that sort at once race.           *)
(***************************************************************************)
EXTENDS Integers, FiniteSets, SequencesExt

CONSTANTS
    Node,          \* node ids, positive integers
    Pools,         \* node -> its pools, records [type, size, used]
    Ssd, Hdd,      \* the disks wanted, in the order they are given
    Rootfs,        \* root file systems, placed after the disks
    Wanted,        \* the limit given, or 0 for none: one page of any size
    AtOnce,        \* pages asked at once: 5 in the code
    Public,        \* nodes with a public address that can be used
    Preferred,     \* nodes the caller would rather have
    Word,          \* capacities are unsigned numbers below it
    MaxFaults, MaxChanges

FilterAssumption ==
    /\ Node \subseteq Nat \ {0} /\ Wanted \in Nat /\ AtOnce \in Nat \ {0}
    /\ Public \subseteq Node /\ Preferred \subseteq Node
    /\ MaxFaults \in Nat /\ MaxChanges \in Nat

VARIABLES
    listed,        \* the nodes the proxy finds
    seen,          \* every node it found during the call
    phase,         \* idle, counting, starting, ranging, found, or failed
    total,         \* pages there were when they were counted
    first,         \* first page of those asked at once
    workers,       \* page -> its goroutine
    disks,         \* the slice of ssd disks
    nodes,         \* nodes received
    errors,        \* goroutines that failed
    public,        \* GetPublicNode's choice, -1 before it
    faults, changes

vars == <<listed, seen, phase, total, first, workers, disks, nodes, errors, public, faults, changes>>

-----------------------------------------------------------------------------
(* Pools and pages.                                                        *)

Storage == Ssd # <<>> \/ Hdd # <<>>
Descending(s) == SortSeq(s, LAMBDA a, b : a > b)

Free(pool) == (pool.size - pool.used) % Word
Largest(pools) == CHOOSE i \in DOMAIN pools : \A j \in DOMAIN pools : Free(pools[i]) >= Free(pools[j])

\* A fault: a disk placed takes no room.
FaultPlace(pools, size) ==
    IF pools = <<>> \/ Free(pools[Largest(pools)]) < size THEN <<>> ELSE pools

\* A disk goes to the pool with the most room; <<>> when it does not fit.
Place(pools, size) ==
    IF pools = <<>> \/ Free(pools[Largest(pools)]) < size THEN <<>>
    ELSE [pools EXCEPT ![Largest(pools)].used = @ + size]

HasEnoughStorage(n, storages, type) ==
    storages = <<>> \/ FoldLeft(Place, SelectSeq(Pools[n], LAMBDA p : p.type = type), storages) # <<>>

Passes(n) == \/ ~Storage
             \/ /\ HasEnoughStorage(n, Descending(Hdd), "hdd")
                /\ HasEnoughStorage(n, disks \o Rootfs, "ssd")

\* Pages of the default size hold every node here.
Size == IF Wanted = 0 THEN Cardinality(Node) ELSE Wanted
Ordered == SelectSeq([n \in 1 .. Max(Node) |-> n], LAMBDA n : n \in listed)
Page(p) == SubSeq(Ordered, (p - 1) * Size + 1, Min({p * Size, Len(Ordered)}))
PagesCount == (Cardinality(listed) + Size - 1) \div Size
Step == IF Wanted = 0 THEN 1 ELSE AtOnce

-----------------------------------------------------------------------------
(* The call.                                                               *)

NoWorker == [state |-> "none", rest |-> <<>>]
Running == {p \in DOMAIN workers : workers[p].state \notin {"none", "ended"}}

Init ==
    /\ listed \in SUBSET Node /\ seen = listed
    /\ phase = "idle" /\ total = 0 /\ first = 1 /\ public = -1
    /\ workers = [p \in 1 .. Cardinality(Node) |-> NoWorker]
    /\ disks = Ssd /\ nodes = <<>> /\ errors = 0 /\ faults = 0 /\ changes = 0

Quiet == UNCHANGED <<listed, seen, changes, public>>
Fault == faults < MaxFaults /\ faults' = faults + 1

FilterNodes ==
    /\ phase = "idle" /\ phase' = IF Wanted = 0 THEN "starting" ELSE "counting"
    /\ total' = IF Wanted = 0 THEN 1 ELSE 0
    /\ UNCHANGED <<first, workers, disks, nodes, errors, faults>> /\ Quiet

GetPagesCount ==
    /\ phase = "counting"
    /\ \/ total' = PagesCount /\ phase' = "starting" /\ UNCHANGED faults
       \/ Fault /\ phase' = "failed" /\ UNCHANGED total
    /\ UNCHANGED <<first, workers, disks, nodes, errors>> /\ Quiet

Asked == {p \in first .. first + Step - 1 : p <= total}

\* The next pages are asked, or there are none left.
StartWorkers ==
    /\ phase = "starting"
    /\ IF first > total
       THEN phase' = "failed" /\ UNCHANGED workers
       ELSE /\ phase' = "ranging"
            /\ workers' = [p \in DOMAIN workers |->
                 IF p \in Asked THEN [state |-> "asking", rest |-> <<>>] ELSE workers[p]]
    /\ UNCHANGED <<total, first, disks, nodes, errors, faults>> /\ Quiet

Becomes(p, state, rest) == workers' = [workers EXCEPT ![p] = [state |-> state, rest |-> rest]]

\* A listing that shrank may hold no such page any more.
GetNodes(p) ==
    /\ workers[p].state = "asking"
    /\ \/ /\ Becomes(p, IF Page(p) = <<>> THEN "ended" ELSE IF Storage THEN "sorting" ELSE "sending", Page(p))
          /\ UNCHANGED <<errors, faults>>
       \/ /\ Fault /\ errors' = errors + 1 /\ Becomes(p, "ended", <<>>)
    /\ UNCHANGED <<phase, total, first, disks, nodes>> /\ Quiet

\* Two goroutines that sort at once swap elements under each other.
Sort(p) ==
    /\ workers[p].state = "sorting"
    /\ \/ disks' = Descending(disks)
       \/ /\ disks # Descending(disks) /\ \E q \in DOMAIN workers \ {p} : workers[q].state = "sorting"
          /\ disks' \in [1 .. Len(disks) -> ToSet(disks)]
    /\ Becomes(p, "checking", workers[p].rest)
    /\ UNCHANGED <<phase, total, first, nodes, errors, faults>> /\ Quiet

\* A node that cannot be asked is passed over, like one without the room.
CheckPools(p) ==
    /\ workers[p].state = "checking"
    /\ LET n == Head(workers[p].rest)
           left == Tail(workers[p].rest)
           passedOver == Becomes(p, IF left = <<>> THEN "ended" ELSE "checking", left)
       IN  \/ UNCHANGED faults /\ IF Passes(n) THEN Becomes(p, "sending", workers[p].rest) ELSE passedOver
           \/ Fault /\ passedOver
    /\ UNCHANGED <<phase, total, first, disks, nodes, errors>> /\ Quiet

\* The channel has no buffer: a node is sent when the caller takes it.
Send(p) ==
    /\ phase = "ranging" /\ workers[p].state = "sending"
    /\ nodes' = Append(nodes, Head(workers[p].rest))
    /\ LET left == Tail(workers[p].rest)
       IN  Becomes(p, IF left = <<>> THEN "ended" ELSE IF Storage THEN "checking" ELSE "sending", left)
    /\ phase' = IF Len(nodes') = Size THEN "found" ELSE "ranging"
    /\ UNCHANGED <<total, first, disks, errors, faults>> /\ Quiet

\* FilterNodes returned and cancelled the context: only a goroutine that asks
\* for storage looks at it.
Cancelled(p) ==
    /\ phase \in {"found", "failed"} /\ Storage /\ workers[p].state = "sending"
    /\ Becomes(p, "ended", <<>>)
    /\ UNCHANGED <<phase, total, first, disks, nodes, errors, faults>> /\ Quiet

\* The channel is closed after its last goroutine.
Close ==
    /\ phase = "ranging" /\ Running = {}
    /\ phase' = IF Wanted # 0 THEN "starting" ELSE IF nodes = <<>> THEN "failed" ELSE "found"
    /\ first' = first + Step
    /\ UNCHANGED <<total, workers, disks, nodes, errors, faults>> /\ Quiet

\* Preferred nodes go first.  One that was not found is asked for by itself and
\* added without its id.
Found == ToSet(nodes)
Added == Preferred \ Found
GetPublicNode ==
    /\ phase = "found" /\ public = -1
    /\ LET good  == Found \cap Public
           extra == IF Added \cap Public = {} THEN {} ELSE {0}
       IN  public' \in IF good \cap Preferred # {} THEN good \cap Preferred
                       ELSE IF good # {} THEN good
                       ELSE IF extra # {} THEN extra ELSE {-2}
    /\ UNCHANGED <<listed, seen, phase, total, first, workers, disks, nodes, errors, faults, changes>>

ListingChanges(n) ==
    /\ changes < MaxChanges /\ changes' = changes + 1
    /\ listed' = IF n \in listed THEN listed \ {n} ELSE listed \cup {n}
    /\ seen' = seen \cup listed'
    /\ UNCHANGED <<phase, total, first, workers, disks, nodes, errors, public, faults>>

Worker(p) == GetNodes(p) \/ Sort(p) \/ CheckPools(p) \/ Send(p) \/ Cancelled(p)

Steps == GetPagesCount \/ StartWorkers \/ Close \/ \E p \in DOMAIN workers : Worker(p)

Next == FilterNodes \/ Steps \/ GetPublicNode \/ \E n \in Node : ListingChanges(n)

\* Goroutines run, and every call a client makes has a time-out; no step can be
\* taken for ever while another waits.
Spec == Init /\ [][Next]_vars /\ WF_vars(Steps)

-----------------------------------------------------------------------------
(* Properties.                                                             *)

\* The disks can be shared out over the pools of their type.
Holds(pools, storages) ==
    \E at \in [DOMAIN storages -> DOMAIN pools] :
        \A i \in DOMAIN pools :
            pools[i].size - pools[i].used
                >= FoldLeft(+, 0, [d \in DOMAIN storages |-> IF at[d] = i THEN storages[d] ELSE 0])
OfType(n, type) == SelectSeq(Pools[n], LAMBDA p : p.type = type)

\* Every node found was listed at a moment of the call and has room for all the
\* disks and file systems at once, and as many are found as were wanted.  (With
\* one disk of a kind: two that are sorted at once may be lost.)
FoundFits ==
    /\ \A i \in DOMAIN nodes :
         /\ nodes[i] \in seen
         /\ Storage => Holds(OfType(nodes[i], "hdd"), Hdd) /\ Holds(OfType(nodes[i], "ssd"), Ssd \o Rootfs)
    /\ phase = "found" /\ Wanted # 0 => Len(nodes) = Wanted

\* When the listing does not change, no node is found twice, and the call says
\* that there are not enough only when there are not: no page is left out, and
\* none is asked for twice, however the goroutines interleave.
NoneMissed ==
    changes = 0 =>
        /\ IsInjective(nodes)
        /\ phase = "failed" /\ faults = 0 =>
             Cardinality({n \in listed : Passes(n)}) < (IF Wanted = 0 THEN 1 ELSE Wanted)

\* The public node is one that was found and has an address to be used, a
\* preferred one if there is one.
PublicIsFound ==
    public > 0 =>
        /\ public \in Found \cap Public
        /\ Found \cap Public \cap Preferred # {} => public \in Preferred

\* A call returns, and when storage was asked for no goroutine outlives it.
Returns == /\ (phase = "counting") ~> (phase \in {"found", "failed"})
           /\ Storage => ((phase = "found") ~> (Running = {}))

\* No goroutine outlives the call.  It does not hold when no storage is asked
\* for: the send of a node does not look at the context.
NoneLeftSending == (phase = "found") ~> (Running = {})

\* No node twice.  It does not hold when the listing changes between two pages.
NoNodeTwice == IsInjective(nodes)

\* The public node is a node.  It does not hold: one added has no id.
PublicIsNode == public # 0
=============================================================================
