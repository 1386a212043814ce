------------------------------ MODULE ProxyApi ------------------------------
(***************************************************************************)
(* One call of a grid proxy client: RetryingClient around Clientimpl, the  *)
(* proxies of its stack, the handlers of internal/explorer/server.go and   *)
(* what they make of the database and of the nodes they ask over the       *)
(* relay.  Meanwhile rows change, the database fails, a proxy stops, and a *)
(* request or its reply is late.  Endpoints that Client has no method for  *)
(* are asked once, by whoever has an http client.                          *)
(*                                                                         *)
(* A row is what it says: a node's status, or a contract's state.  What    *)
(* the listings hold is the matter of Queries.                             *)
(***************************************************************************)
EXTENDS Integers, FiniteSets

CONSTANTS
    Proxies,      \* number of proxies of the stack
    Node,         \* node ids
    Gateway,      \* the nodes with a public domain
    Contract,     \* contract ids, of one twin
    MaxTries,     \* tries that fit in the retrying client's two minutes
    MaxFaults,    \* bound on what fails in a behaviour
    MaxChanges    \* bound on the rows that change

VARIABLES
    nodes,        \* node -> its status, or none
    contracts,    \* contract -> its state, or none
    billed,       \* the contracts with a bill
    serving,      \* the proxies that run
    database,     \* TRUE while the database of the proxies answers
    active,       \* Clientimpl.activeStackIdx
    call,         \* the call: what it asks, its tries, its phase, what it got
    moments,      \* what it asks for, at every moment since it was made
    faults, changes

vars == <<nodes, contracts, billed, serving, database, active, call, moments, faults, changes>>

ApiAssumption ==
    /\ Proxies \in Nat \ {0} /\ MaxTries \in Nat \ {0}
    /\ MaxFaults \in Nat /\ MaxChanges \in Nat /\ Gateway \subseteq Node

Endpoint == 0 .. Proxies - 1
Lists == {"nodes", "contracts"}
OfNode == {"node", "status", "gateway", "statistics"}
OfContract == {"contract", "bills"}
ClientKinds == Lists \cup {"ping", "stats", "node", "status"} \cup OfContract
RawKinds == {"gateway", "statistics", "consumption", "health"}
Kinds == ClientKinds \cup RawKinds
Nothing == [of |-> "nothing"]

-----------------------------------------------------------------------------
(* The handlers.  A reply is a code and a body; the body of an error holds *)
(* its text only.                                                          *)

Ok(body) == [code |-> 200, body |-> body]
Error(code) == [code |-> code, body |-> [of |-> "error"]]

Rows(table) == [of |-> "rows", rows |-> {<<x, table[x]>> : x \in {x \in DOMAIN table : table[x] # "none"}}]
Row(value) == [of |-> "row", value |-> value]
NodeRow(n) == IF nodes[n] = "none" THEN Nothing ELSE Row(nodes[n])
ContractRow(c) == IF contracts[c] = "none" THEN Nothing ELSE Row(contracts[c])
BillRows(c) == [of |-> "bills", some |-> c \in billed]
Stats == [of |-> "stats", nodes |-> Cardinality(Rows(nodes).rows)]

\* What a query brings, or the error of a failed one.
Query(reply) == IF database THEN reply ELSE Error(500)

\* parseQueryParams, Limit.Valid and Validate come before the query.
Parsed(valid, reply) == IF valid THEN Query(reply) ELSE Error(400)

\* The nodes stand for every listing; the contracts are decoded in another way.
ListNodes(valid) == Parsed(valid, Ok(Rows(nodes)))
ListContracts(valid) == Parsed(valid, Ok(Rows(contracts)))

\* getNodeData knows the database's error for a missing node and errorReply the
\* server's; getNodeStatus passes on the first, which errorReply does not know,
\* and neither does it know that of a contract.
GetNode(n) == Query(IF NodeRow(n) = Nothing THEN Error(404) ELSE Ok(NodeRow(n)))
GetStatus(n) == Query(IF NodeRow(n) = Nothing THEN Error(500) ELSE Ok(NodeRow(n)))
GetContract(c) == Query(IF ContractRow(c) = Nothing THEN Error(500) ELSE Ok(ContractRow(c)))

GetGateway(n) ==
    IF GetNode(n).code = 200 /\ n \notin Gateway THEN Error(404) ELSE GetNode(n)

\* A contract that is not there has no bills.
GetBills(c) == Query(Ok(BillRows(c)))

GetStats == Query(Ok(Stats))

\* The sum over no bill is NULL, which is not read into a number.
GetConsumption ==
    Query(IF Rows(contracts).rows = {} THEN Ok([of |-> "consumption"])
          ELSE IF billed = {} THEN Error(500) ELSE Ok([of |-> "consumption"]))

\* A node that is not up is not asked; what it answers is up to it.
Statistics(n) ==
    IF GetNode(n).code # 200 THEN {GetNode(n)}
    ELSE IF nodes[n] # "up" THEN {Error(500)}
    ELSE {Ok([of |-> "statistics", node |-> n]), Error(500)}

\* pingRandomTwins calls up to ten twins at once.  One answer is success; so is
\* the channel closed by the last call to fail before the deadline.  A call
\* that is still out then ends with it, and either case of the select may run.
PingRandomTwins(pings) ==
    IF "answered" \in pings \/ "late" \notin pings THEN {TRUE} ELSE BOOLEAN

\* All is well when the indexers' last rounds are not older than their intervals, too.
Report(rmb, stale) == [of |-> "health", db |-> database, rmb |-> rmb, ok |-> database /\ rmb /\ ~stale]
Health == {Ok(Report(rmb, stale)) : stale \in BOOLEAN,
             rmb \in UNION {PingRandomTwins(p) : p \in SUBSET {"answered", "failed", "late"}}}

\* Every reply the server may give to the call as it is now.
Replies(kind, id, valid) ==
    CASE kind = "ping" -> {Ok([of |-> "pong"])}
      [] kind = "nodes" -> {ListNodes(valid)}
      [] kind = "contracts" -> {ListContracts(valid)}
      [] kind = "stats" -> {GetStats}
      [] kind = "node" -> {GetNode(id)}
      [] kind = "status" -> {GetStatus(id)}
      [] kind = "gateway" -> {GetGateway(id)}
      [] kind = "statistics" -> Statistics(id)
      [] kind = "contract" -> {GetContract(id)}
      [] kind = "bills" -> {GetBills(id)}
      [] kind = "consumption" -> {GetConsumption}
      [] kind = "health" -> Health

-----------------------------------------------------------------------------
(* The client.                                                             *)

\* The body of an error is no list, and cannot be read as one.
DecodeContracts(reply) == IF reply.body.of = "rows" THEN reply.body ELSE Nothing

\* A fault: the status code is not looked at.
FaultDecodeOne(reply) == reply.body
DecodeOne(reply) == IF reply.code = 200 THEN reply.body ELSE Nothing

\* What a method of Clientimpl makes of a reply.  All but Contracts look at the
\* status code.
Decode(kind, reply) == IF kind = "contracts" THEN DecodeContracts(reply) ELSE DecodeOne(reply)

\* What the client's transport may end with: connections refused or reset, and
\* time-outs.  None of them is an error of a server's handler.
DoErrors == {"refused", "late"}
Switches(err) == err \in {"ErrAbortHandler", "ErrHandlerTimeout", "ErrServerClosed"}
Rotated(err) == IF Switches(err) THEN (active + 1) % Proxies ELSE active

\* The value at this moment of what the call asks for.
Now(kind, id) ==
    CASE kind \in Lists -> Rows(IF kind = "nodes" THEN nodes ELSE contracts)
      [] kind \in {"node", "status", "gateway"} -> NodeRow(id)
      [] kind = "contract" -> ContractRow(id)
      [] kind = "bills" -> BillRows(id)
      [] kind = "stats" -> Stats
      [] OTHER -> Nothing

Idle == [kind |-> "none", id |-> 0, valid |-> TRUE, tries |-> 0, phase |-> "idle", got |-> Nothing, code |-> 0]

Init ==
    /\ nodes \in [Node -> {"none", "up", "standby", "down"}]
    /\ contracts \in [Contract -> {"none", "Created", "Deleted"}]
    /\ billed \in SUBSET {c \in Contract : contracts[c] # "none"}
    /\ serving = Endpoint /\ database = TRUE /\ active = 0
    /\ call = Idle /\ moments = {} /\ faults = 0 /\ changes = 0

IdsOf(kind) == IF kind \in OfNode THEN Node ELSE IF kind \in OfContract THEN Contract ELSE {0}

Ask(kind, id, valid) ==
    /\ call.phase = "idle" /\ id \in IdsOf(kind) /\ (valid \/ kind \in Lists)
    /\ call' = [Idle EXCEPT !.kind = kind, !.id = id, !.valid = valid, !.phase = "sending"]
    /\ moments' = {Now(kind, id)}
    /\ UNCHANGED <<nodes, contracts, billed, serving, database, active, faults, changes>>

\* A fault: the tries are not counted.
FaultFailed(c) == [c EXCEPT !.phase = IF c.kind \in ClientKinds THEN "sending" ELSE "failed"]

\* A failed try of a retrying client is made again until its time is over.
Failed(c) ==
    IF c.kind \in ClientKinds /\ c.tries + 1 < MaxTries
    THEN [c EXCEPT !.tries = @ + 1, !.phase = "sending"]
    ELSE [c EXCEPT !.tries = @ + 1, !.phase = "failed"]

Fails(err) ==
    /\ err \in DoErrors
    /\ call' = Failed(call) /\ active' = Rotated(err)
    /\ UNCHANGED <<nodes, contracts, billed, serving, database, moments, changes>>

\* httpGet, when the proxy it asks does not run.
Refused == call.phase = "sending" /\ active \notin serving /\ Fails("refused") /\ UNCHANGED faults

\* The reply takes longer than the client waits for its header; the server's
\* own limit is six times longer.
Late ==
    /\ call.phase = "sending" /\ active \in serving /\ faults < MaxFaults
    /\ faults' = faults + 1 /\ Fails("late")

\* The request is served and its reply read.
Serve ==
    /\ call.phase = "sending" /\ active \in serving
    /\ \E reply \in Replies(call.kind, call.id, call.valid) :
         LET got == IF call.kind \in ClientKinds THEN Decode(call.kind, reply) ELSE reply.body
         IN  call' = IF call.kind \in ClientKinds /\ got = Nothing
                     THEN [Failed(call) EXCEPT !.code = reply.code]
                     ELSE [call EXCEPT !.phase = "answered", !.got = got, !.code = reply.code]
    /\ UNCHANGED <<nodes, contracts, billed, serving, database, active, moments, faults, changes>>

-----------------------------------------------------------------------------
(* The rest of the world.                                                  *)

Watched == moments' = IF call.phase = "idle" THEN {} ELSE moments \cup {Now(call.kind, call.id)'}
Changed == changes < MaxChanges /\ changes' = changes + 1

NodeChanges(n, status) ==
    /\ Changed /\ nodes[n] # status /\ nodes' = [nodes EXCEPT ![n] = status]
    /\ UNCHANGED <<contracts, billed, serving, database, active, call, faults>> /\ Watched

ContractChanges(c) ==
    /\ Changed
    /\ contracts' = [contracts EXCEPT ![c] = IF @ = "none" THEN "Created" ELSE "Deleted"]
    /\ contracts' # contracts
    /\ UNCHANGED <<nodes, billed, serving, database, active, call, faults>> /\ Watched

Bill(c) ==
    /\ Changed /\ contracts[c] # "none" /\ c \notin billed /\ billed' = billed \cup {c}
    /\ UNCHANGED <<nodes, contracts, serving, database, active, call, faults>> /\ Watched

Breaks ==
    /\ faults < MaxFaults /\ faults' = faults + 1
    /\ \/ \E e \in serving : serving' = serving \ {e} /\ UNCHANGED database
       \/ database /\ database' = FALSE /\ UNCHANGED serving
    /\ UNCHANGED <<nodes, contracts, billed, active, call, moments, changes>>

Mends ==
    /\ \/ serving # Endpoint /\ serving' = Endpoint /\ UNCHANGED database
       \/ ~database /\ database' = TRUE /\ UNCHANGED serving
    /\ UNCHANGED <<nodes, contracts, billed, active, call, moments, faults, changes>>

ClientStep == Refused \/ Late \/ Serve

Next ==
    \/ \E kind \in Kinds, valid \in BOOLEAN : \E id \in IdsOf(kind) : Ask(kind, id, valid)
    \/ ClientStep
    \/ \E n \in Node, s \in {"none", "up", "standby", "down"} : NodeChanges(n, s)
    \/ \E c \in Contract : ContractChanges(c) \/ Bill(c)
    \/ Breaks
    \/ Mends

\* The client goes on by itself: every request has a time-out.
Spec == Init /\ [][Next]_vars /\ WF_vars(ClientStep)

-----------------------------------------------------------------------------
(* Properties.                                                             *)

\* A method that succeeds returns what the database held at a moment of the
\* call, though rows change between its tries, an error's body is read by some
\* methods too, and each method has a decoding of its own.
TrueAnswer ==
    call.phase = "answered" /\ call.kind \in ClientKinds \ {"ping"} => call.got \in moments

\* A valid call for a row that is there all the while does not fail unless
\* something broke: the tries it has left are not wasted on its own mistakes.
ServedOtherwise ==
    call.phase = "failed" /\ call.valid /\ Nothing \notin moments => faults > 0

\* The client is honest in both.
Honest == TrueAnswer /\ ServedOtherwise

\* Every call ends, whatever fails meanwhile: none is tried without end.
CallEnds == (call.phase = "sending") ~> (call.phase \in {"answered", "failed"})

\* "failed to connect to endpoint, retrying": when one proxy of the stack does
\* not run and nothing else is wrong, a call succeeds.  It does not hold: no
\* error of a client makes httpGet go on to the next proxy.
FailsOver ==
    call.phase = "failed" /\ call.valid /\ Nothing \notin moments
        => ~(faults = 1 /\ serving # Endpoint)

\* "@Failure 404": a contract or a status that is not there is not found.  It
\* does not hold: both are internal errors.
NotFoundIs404 ==
    call.phase = "failed" /\ call.valid /\ moments = {Nothing} /\ faults = 0 => call.code = 404

\* A health report that says the bus works had an answer over it.  It does not
\* hold: the last failed call closes the channel its answer is awaited on.
PingTruthful == \A p \in SUBSET {"answered", "failed"} : TRUE \in PingRandomTwins(p) => "answered" \in p
=============================================================================
