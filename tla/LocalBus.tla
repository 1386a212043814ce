------------------------------ MODULE LocalBus ------------------------------
(***************************************************************************)
(* Calls over a local redis, rmb-sdk-go/client.go, and the routers that    *)
(* serve them: the DefaultRouter of rmb.go, which reads its topics from a  *)
(* redis of its own and hands the requests to a few workers, and the       *)
(* Router of peer/router.go, which starts a goroutine for each request its *)
(* peer brings.  Both find a handler in the same way.  Between the caller  *)
(* and the router are the rmb-peers of the two twins, which are external:  *)
(* they move a request, or its answer, or lose it.                         *)
(*                                                                         *)
(* A topic is the sequence of its names: "zos.vm.list" is                  *)
(* <<"zos", "vm", "list">>.                                                *)
(***************************************************************************)
EXTENDS Integers, FiniteSets, SequencesExt

CONSTANTS
    Call,          \* calls that are made, each once
    Routers,       \* the routers, by their prefix; <<>> is the root
    Handlers,      \* the handlers, [at |-> a router's prefix, as |-> a topic]
    Commands,      \* topics that are called
    PoolSize,      \* connections of the client's pool: 20 by default
    Workers,       \* workers of a DefaultRouter, and room of its channel: 5
    MaxFaults

Topic == Seq(STRING)

BusAssumption ==
    /\ PoolSize \in Nat \ {0} /\ Workers \in Nat \ {0} /\ MaxFaults \in Nat
    /\ Routers \subseteq Topic /\ <<>> \in Routers /\ \A p \in Routers \ {<<>>} : Front(p) \in Routers
    /\ Handlers \subseteq [at : Routers, as : Topic] /\ Commands \subseteq Topic

VARIABLES
    kind,          \* the router: "redis", or "peer"
    state,         \* whether it runs: "running", "stopped" or "crashed"
    calls,         \* call -> its phase, its topic, and what it got
    expired,       \* calls whose context has ended
    bus,           \* requests pushed to msgbus.system.local
    arrived,       \* requests in the router's topics, or with its peer
    held,          \* requests Run read and could not yet hand over
    jobs,          \* the channel to the workers
    handling,      \* requests whose handler runs
    leaving,       \* answers on their way, [to |-> queue, of |-> call, body |-> ...]
    queues,        \* return queue -> the answers in it
    ended,         \* call -> how its handlers ended
    faults

vars == <<kind, state, calls, expired, bus, arrived, held, jobs, handling, leaving, queues, ended, faults>>

-----------------------------------------------------------------------------
(* The way to a handler.                                                   *)

At(route, k) == [at |-> SubSeq(route, 1, k), as |-> SubSeq(route, k + 1, Len(route))]

\* getTopics, the full names of the handlers.
Topics == {h.at \o h.as : h \in Handlers}

\* WithHandler panics when a router has a handler of that name.
\* call looks for the rest of the route among the handlers of a router, and
\* goes to the sub-router of its first name otherwise.
Stops(route, k) == At(route, k) \in Handlers \/ k = Len(route) \/ SubSeq(route, 1, k + 1) \notin Routers
Depth(route) == CHOOSE k \in 0 .. Len(route) : Stops(route, k) /\ \A j \in 0 .. k - 1 : ~Stops(route, j)
Found(route) == At(route, Depth(route)) \in Handlers

\* The routers whose middlewares run before the handler does, if there is one.
Passed(route) == Prefixes(SubSeq(route, 1, Depth(route)))

\* How the call of a topic may end.  A handler may panic, and its result may
\* have no JSON form; the panic of a middleware is not recovered from.
Ends(route) ==
    {[end |-> "rejected", by |-> p] : p \in Passed(route)} \cup {[end |-> "crash", by |-> p] : p \in Passed(route)}
    \cup IF Found(route)
         THEN {[end |-> e, by |-> At(route, Depth(route)).at] : e \in {"result", "error", "panicked", "noJson"}}
         ELSE {[end |-> "notFound", by |-> <<>>]}

-----------------------------------------------------------------------------
(* The caller.                                                             *)

Idle == [phase |-> "idle", topic |-> <<>>, got |-> [end |-> "nothing"]]

Init ==
    /\ kind \in {"redis", "peer"} /\ state = "running"
    /\ calls = [c \in Call |-> Idle] /\ expired = {}
    /\ bus = <<>> /\ arrived = {} /\ held = {} /\ jobs = <<>> /\ handling = {}
    /\ leaving = {} /\ queues = [c \in Call |-> <<>>] /\ ended = [c \in Call |-> <<>>]
    /\ faults = 0

\* A fault: the client has one queue for all its calls.
FaultRetQueue(c) == CHOOSE d \in Call : TRUE

\* Every call has a queue of its own, named by a new uuid.
RetQueue(c) == c

Connected == {c \in Call : calls[c].phase = "waiting"}
Fault == faults < MaxFaults /\ faults' = faults + 1
ServerKeeps == UNCHANGED <<kind, state, held, jobs, handling, ended>>
ClientKeeps == UNCHANGED <<kind, calls, expired, bus, queues>>

Start(c, topic) ==
    /\ calls[c].phase = "idle"
    /\ calls' = [calls EXCEPT ![c].phase = "acquiring", ![c].topic = topic]
    /\ UNCHANGED <<expired, bus, arrived, leaving, queues, faults>> /\ ServerKeeps

Ended(c, phase) == calls' = [calls EXCEPT ![c].phase = phase]

\* pool.Get waits for a connection to spare, whatever becomes of the context.
\* Then the request is pushed to msgbus.system.local.
Push(c) ==
    /\ calls[c].phase = "acquiring" /\ Cardinality(Connected) < PoolSize
    /\ \/ Ended(c, "waiting") /\ bus' = Append(bus, c) /\ UNCHANGED faults
       \/ Fault /\ Ended(c, "failed") /\ UNCHANGED bus
    /\ UNCHANGED <<expired, arrived, leaving, queues>> /\ ServerKeeps

Expire(c) ==
    /\ calls[c].phase \in {"acquiring", "waiting"} /\ c \notin expired
    /\ expired' = expired \cup {c}
    /\ UNCHANGED <<calls, bus, arrived, leaving, queues, faults>> /\ ServerKeeps

\* The context is looked at every five seconds, before the queue is.
GiveUp(c) ==
    /\ calls[c].phase = "waiting" /\ c \in expired /\ Ended(c, "failed")
    /\ UNCHANGED <<expired, bus, arrived, leaving, queues, faults>> /\ ServerKeeps

\* An answer is an error, a result, or a body that cannot be read.
Take(c) ==
    /\ calls[c].phase = "waiting" /\ queues[RetQueue(c)] # <<>>
    /\ LET answer == Head(queues[RetQueue(c)])
       IN  calls' = [calls EXCEPT ![c].phase = IF answer.end = "result" THEN "ok" ELSE "failed", ![c].got = answer]
    /\ queues' = [queues EXCEPT ![RetQueue(c)] = Tail(@)]
    /\ UNCHANGED <<expired, bus, arrived, leaving, faults>> /\ ServerKeeps

-----------------------------------------------------------------------------
(* The rmb-peers.                                                          *)

Listened(c) == kind = "peer" \/ calls[c].topic \in Topics

Transfer ==
    /\ bus # <<>> /\ bus' = Tail(bus)
    /\ \/ arrived' = arrived \cup {Head(bus)} /\ UNCHANGED faults
       \/ Fault /\ UNCHANGED arrived
    /\ UNCHANGED <<calls, expired, leaving, queues>> /\ ServerKeeps

Return(a) ==
    /\ leaving' = leaving \ {a}
    /\ \/ queues' = [queues EXCEPT ![a.to] = Append(@, a.answer)] /\ UNCHANGED faults
       \/ Fault /\ UNCHANGED queues
    /\ UNCHANGED <<calls, expired, bus, arrived>> /\ ServerKeeps

-----------------------------------------------------------------------------
(* The routers.                                                            *)

\* Run pops one of the topics its handlers had when it was started.  A read
\* that fails is tried again, a message that cannot be read is dropped.
GetOne(c) ==
    /\ kind = "redis" /\ state = "running" /\ held = {} /\ c \in arrived /\ Listened(c)
    /\ arrived' = arrived \ {c}
    /\ \/ held' = {c} /\ UNCHANGED faults
       \/ Fault /\ UNCHANGED held
    /\ UNCHANGED <<state, jobs, handling, leaving, ended>> /\ ClientKeeps

Hand(c) ==
    /\ state = "running" /\ c \in held /\ Len(jobs) < Workers
    /\ held' = {} /\ jobs' = Append(jobs, c)
    /\ UNCHANGED <<state, arrived, handling, leaving, ended, faults>> /\ ClientKeeps

Work ==
    /\ state = "running" /\ jobs # <<>> /\ Cardinality(handling) < Workers
    /\ jobs' = Tail(jobs) /\ handling' = handling \cup {Head(jobs)}
    /\ UNCHANGED <<state, arrived, held, leaving, ended, faults>> /\ ClientKeeps

\* Serve of the peer's router: a request that is no plain JSON is dropped.
Serve(c) ==
    /\ kind = "peer" /\ state = "running" /\ c \in arrived
    /\ arrived' = arrived \ {c}
    /\ \/ handling' = handling \cup {c} /\ UNCHANGED faults
       \/ Fault /\ UNCHANGED handling
    /\ UNCHANGED <<state, held, jobs, leaving, ended>> /\ ClientKeeps

\* What is answered: everything but a result without a JSON form.
Answers(end) == end \notin {"noJson", "crash"}

\* The handler returns and the answer is pushed, if it can be.
Reply(c) ==
    /\ c \in handling /\ state # "crashed"
    /\ \E end \in Ends(calls[c].topic) :
         /\ ended' = [ended EXCEPT ![c] = Append(@, end.end)]
         /\ handling' = IF end.end = "crash" THEN {} ELSE handling \ {c}
         /\ \/ /\ Answers(end.end) /\ UNCHANGED <<state, faults>>
               /\ leaving' = leaving \cup {[to |-> RetQueue(c),
                    answer |-> [end |-> end.end, of |-> c, by |-> end.by, past |-> Passed(calls[c].topic)]]}
            \/ /\ ~Answers(end.end) /\ end.end # "crash" /\ UNCHANGED <<state, leaving, faults>>
            \/ /\ Answers(end.end) /\ Fault /\ UNCHANGED <<state, leaving>>
            \/ /\ end.end = "crash" /\ Fault /\ state' = "crashed" /\ UNCHANGED leaving
    /\ UNCHANGED <<arrived, held, jobs>> /\ ClientKeeps

\* The context ends: requests that wait are dropped, handlers go on.
Stop ==
    /\ state = "running" /\ Fault /\ state' = "stopped" /\ held' = {} /\ jobs' = <<>>
    /\ UNCHANGED <<arrived, handling, leaving, ended>> /\ ClientKeeps

CallerStep == \E c \in Call : Push(c) \/ Expire(c) \/ GiveUp(c) \/ Take(c)
RouterStep == Work \/ \E c \in Call : GetOne(c) \/ Hand(c) \/ Serve(c) \/ Reply(c)

Next ==
    \/ \E c \in Call, topic \in Commands : Start(c, topic)
    \/ CallerStep \/ RouterStep
    \/ Transfer \/ \E a \in leaving : Return(a)
    \/ Stop

\* Time passes, and a caller that can go on does.
Spec == Init /\ [][Next]_vars /\ WF_vars(CallerStep)

-----------------------------------------------------------------------------
(* Properties.                                                             *)

\* A call that succeeds has the answer to itself, made by a handler registered
\* under its topic after the middlewares of every router above the handler had
\* let it pass; answers to calls that gave up arrive meanwhile.
OwnAnswer ==
    \A c \in Call : calls[c].phase = "ok" =>
        /\ calls[c].got.of = c /\ calls[c].topic \in Topics
        /\ Prefixes(calls[c].got.by) \subseteq calls[c].got.past

\* A request of a topic that is served is never refused as unknown, though a
\* dotted name of one router may hide the handlers of another.
KnownFound == \A c \in Call : calls[c].got.end = "notFound" => calls[c].topic \notin Topics

\* No request is handled twice, and when nothing failed and the caller waits, its
\* request or the answer is on its way; only a result without a JSON form is not sent.
AnsweredOnce ==
    /\ \A c \in Call : Len(ended[c]) <= 1
    /\ faults = 0 => \A c \in Call :
         calls[c].phase = "waiting" /\ Listened(c) =>
            \/ c \in ToSet(bus) \cup arrived \cup held \cup ToSet(jobs) \cup handling
            \/ \E a \in leaving : a.answer.of = c
            \/ queues[RetQueue(c)] # <<>> \/ ended[c] = <<"noJson">>

\* A call is routed: to its handler and back, once.
Routed == OwnAnswer /\ KnownFound /\ AnsweredOnce

\* Every call ends, for it has a deadline: the routers may do what they want.
CallEnds == \A c \in Call : (calls[c].phase = "acquiring") ~> (calls[c].phase \in {"ok", "failed"})

\* A call whose context has ended does not take up a request any more.  It does
\* not hold: neither pool.Get nor the push looks at the context.
NotAfterDeadline == [][(\A c \in Call : calls'[c].phase = "waiting" /\ calls[c].phase = "acquiring" => c \notin expired)]_vars

\* A router that is stopped answers what it took up.  It does not hold.
StopAnswers == [][(state = "running" /\ state' = "stopped" => held = {} /\ jobs = <<>>)]_vars

\* One handler to a topic.  It does not hold with dotted names: WithHandler
\* looks at the names of one router only.
OneEach == \A g, h \in Handlers : g.at \o g.as = h.at \o h.as => g = h
=============================================================================
